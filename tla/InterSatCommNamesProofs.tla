---------------------- MODULE InterSatCommNamesProofs ----------------------
(***************************************************************************)
(* With distinct names InterSatComm loses no descriptor and closes no live *)
(* connection without cause, although its threads remember connections by  *)
(* descriptor or by name while others close, rename and replace them.      *)
(***************************************************************************)
EXTENDS InterSatCommProofs, FiniteSetTheorems

\* The names under which connection c may be in the table.
Entitled(n, c) == n = c \/ (n = claim[c] /\ n # None)

Accepted(c) == line[c] \notin {"absent", "backlog"}

\* c is gone for good.
Gone(c) == Accepted(c) /\ ~Open(c)

\* Entries of c are under its endpoint, and the receive thread is not about to
\* read it by its name: it has not been in the table when that thread looked.
Unscanned(c) ==
  /\ \A p \in rcv.scan : ~Entitled(p[1], c)
  /\ rcv.pc = "reading" => ~Entitled(rcv.name, c)
  /\ \A n \in DOMAIN nodes :
       nodes[n].fd # None /\ owner[nodes[n].fd] = c => n = c

\* So it will stay, since the receive thread will not look again.
Anchored(c) ==
  /\ main \in {"join", "stopped"} /\ rcv.pc # "snapshot"
  /\ Unscanned(c)

-----------------------------------------------------------------------------
(* The parts of the invariant.                                             *)

\* Descriptors and connections correspond.
OneEach ==
  /\ \A f, g \in Fds : owner[f] = owner[g] /\ owner[f] # None => f = g
  /\ \A c \in Conns : Open(c) => Accepted(c)
  /\ \A c \in Conns : line[c] = "absent" => claim[c] = None

\* There are threads between start() and the end of stop(), which has cleared
\* running_ before it closes anything.
Phases ==
  /\ main = "idle" =>
       /\ \A thread \in {acc, rcv, snd, hb} : thread.pc = "off"
       /\ rcv.scan = {} /\ rcv.failed = {} /\ hb.overdue = {}
  /\ main \in {"unlisten", "close_nodes", "join", "stopped"} => ~running
  /\ \A n \in DOMAIN nodes : nodes[n].fd = None => main = "join"
  /\ acc.pc = "accepted" => main # "stopped"
  /\ main = "stopped" => \A thread \in {acc, rcv, snd, hb} : thread.pc = "done"

\* Every open descriptor is in the table or about to be.
Found ==
  main # "stopped" => \A f \in Fds : owner[f] # None =>
    InTable(f) \/ (acc.pc = "accepted" /\ acc.fd = f)

\* After stop() has closed the others there is at most one.
LastOne == main \in {"join", "stopped"} =>
  /\ \A f, g \in Fds : owner[f] # None /\ owner[g] # None => f = g
  /\ acc.pc = "blocked" => \A f \in Fds : owner[f] = None

\* An entry's name is its connection's.
Named == \A n \in DOMAIN nodes :
  nodes[n].fd # None => Entitled(n, owner[nodes[n].fd])

\* An entry whose socket stop() has closed.
Emptied == \A n \in DOMAIN nodes :
  nodes[n].fd = None => \E c \in Conns :
    Entitled(n, c) /\ (Gone(c) \/ (Accepted(c) /\ Anchored(c) /\ n # c))

\* What the receive thread is about to read.
Scanned ==
  \A p \in rcv.scan :
    /\ \E c \in Conns : /\ Entitled(p[1], c) /\ Accepted(c)
                        /\ Open(c) => owner[p[2]] = c
    /\ owner[p[2]] # None /\ ~Entitled(p[1], owner[p[2]]) => Unscanned(owner[p[2]])

\* What it reads, and what it could not read.
Received ==
  /\ rcv.pc = "reading" =>
       /\ Accepted(rcv.conn)
       /\ \E c \in Conns : /\ Entitled(rcv.name, c) /\ Accepted(c)
                           /\ Open(c) => rcv.conn = c
       /\ Open(rcv.conn) /\ ~Entitled(rcv.name, rcv.conn) => Unscanned(rcv.conn)
  /\ \A n \in rcv.failed : \E c \in Conns :
       Entitled(n, c) /\ (Gone(c) \/ line[c] = "broken")
  /\ rcv.pc = "dropping" => rcv.scan = {}

\* The same of the send thread.
Sent == \E c \in Conns :
  /\ Entitled(snd.dest, c) /\ Accepted(c)
  /\ snd.pc = "send" /\ Open(c) => owner[snd.fd] = c
  /\ snd.pc = "sending" /\ Open(c) => snd.conn = c
  /\ snd.pc = "drop" /\ Open(c) => line[c] = "broken"

\* What the timeout check is going to drop.
TimedOut == \A n \in hb.overdue : \E c \in Conns :
  /\ Entitled(n, c)
  /\ Gone(c) \/ (Accepted(c) /\ (c \in suspect \/ (Anchored(c) /\ n # c)))

Sound ==
  /\ Found /\ LastOne /\ Named /\ Emptied /\ Scanned /\ Received
  /\ snd.pc \in {"send", "sending", "drop"} => Sent
  /\ TimedOut

NInv == OneEach /\ Phases /\ (DistinctClaims => Sound)

-----------------------------------------------------------------------------
(* What holds of every step.                                               *)

\* Of connections with distinct names only one is meant by a name.
LEMMA OneMeant ==
  ASSUME TypeOK, DistinctClaims, NEW c \in Conns, NEW d \in Conns,
         NEW n, Entitled(n, c), Entitled(n, d)
  PROVE  c = d
BY NamesApart DEF Entitled, DistinctClaims, TypeOK

\* A connection is accepted once, gets no second descriptor, keeps its name,
\* and stays broken.
Onward(c) ==
  /\ Accepted(c) => /\ Accepted(c)' /\ claim'[c] = claim[c]
                    /\ \A f \in Fds : owner'[f] = c => owner[f] = c
  /\ line[c] = "broken" => line'[c] = "broken"

\* The table has lost some entries, and their descriptors have been closed.
Fewer ==
  /\ DOMAIN nodes' \subseteq DOMAIN nodes
  /\ \A n \in DOMAIN nodes' : nodes'[n].fd = nodes[n].fd
  /\ \A f \in Fds : owner'[f] # owner[f] =>
       /\ owner'[f] = None
       /\ \E n \in DOMAIN nodes \ DOMAIN nodes' : nodes[n].fd = f
  /\ \A n \in DOMAIN nodes \ DOMAIN nodes' : \A f \in Fds :
       nodes[n].fd = f => owner'[f] = None

\* removeNode is such a loss.
LEMMA RemoveFewer ==
  ASSUME TypeOK, NEW n \in Keys, RemoveNode(n)
  PROVE  Fewer /\ (n \notin DOMAIN nodes')
<1>1. CASE n \in DOMAIN nodes
  <2>1. owner' = Closed({nodes[n].fd}) /\ nodes' = Without(n)
    BY <1>1 DEF RemoveNode
  <2> QED BY <1>1, <2>1 DEF Closed, Without, Fewer
<1>2. CASE n \notin DOMAIN nodes
  BY <1>2 DEF RemoveNode, Fewer, tableVars
<1> QED BY <1>1, <1>2

\* Steps that leave the peers alone and open no descriptor go onward.
LEMMA ClosingOnward ==
  ASSUME TypeOK, UNCHANGED peerVars,
         \A f \in Fds : owner'[f] \in {owner[f], None}
  PROVE  \A c \in Conns : Onward(c)
BY NamesApart DEF Onward, Accepted, Gone, Open, peerVars, TypeOK

LEMMA FewerOnward ==
  ASSUME TypeOK, UNCHANGED peerVars, Fewer PROVE \A c \in Conns : Onward(c)
BY ClosingOnward DEF Fewer

\* The accept thread comes by no descriptor, and waits for none any more once
\* stop() has closed the others.
AcceptCalm ==
  \/ acc' = acc
  \/ /\ acc.pc # "accepted" /\ acc'.pc # "accepted"
     /\ acc'.pc = "blocked" => main \notin {"join", "stopped"}

Late == {"join", "stopped"}

\* What a loss of entries leaves of the table is sound.
LEMMA FewerTable ==
  ASSUME IInv, DescriptorsOwned', OneEach, Sound, Fewer, AcceptCalm,
         main' = main \/ (main \notin Late /\ main' \notin Late),
         \A c \in Conns : Onward(c)
  PROVE  Found' /\ LastOne' /\ Named'
<1> USE DEF IInv, Sound, Late
<1>1. \A n \in DOMAIN nodes : nodes[n].fd \in Fds \union {None} BY DEF TypeOK, Entry
<1>2. \A f \in Fds : owner'[f] # None => owner'[f] = owner[f] BY DEF Fewer
<1>3. Found'
  <2> SUFFICES ASSUME main' # "stopped", NEW f \in Fds, owner'[f] # None
               PROVE  InTable(f)' \/ (acc'.pc = "accepted" /\ acc'.fd = f)
    BY DEF Found
  <2>1. owner'[f] = owner[f] /\ main # "stopped" BY <1>2
  <2>2. CASE InTable(f)
    <3>1. PICK n \in DOMAIN nodes : nodes[n].fd = f BY <2>2 DEF InTable
    <3>2. CASE n \in DOMAIN nodes' BY <3>1, <3>2 DEF Fewer, InTable
    <3>3. CASE n \notin DOMAIN nodes' BY <2>1, <3>1, <3>3 DEF Fewer
    <3> QED BY <3>2, <3>3
  <2>3. CASE acc.pc = "accepted" /\ acc.fd = f BY <2>3 DEF AcceptCalm
  <2> QED BY <2>1, <2>2, <2>3 DEF Found
<1>4. LastOne' BY <1>2 DEF LastOne, AcceptCalm
<1>5. Named'
  <2> SUFFICES ASSUME NEW n \in DOMAIN nodes', nodes'[n].fd # None
               PROVE  Entitled(n, owner[nodes[n].fd])'
    BY DEF Named
  <2>1. n \in DOMAIN nodes /\ nodes'[n].fd = nodes[n].fd BY DEF Fewer
  <2>2. owner'[nodes[n].fd] = owner[nodes[n].fd] /\ owner[nodes[n].fd] \in Conns
    BY <1>1, <1>2, <2>1 DEF DescriptorsOwned, TypeOK
  <2>3. claim'[owner[nodes[n].fd]] = claim[owner[nodes[n].fd]]
    BY <1>1, <2>1, <2>2 DEF OneEach, Open, Onward
  <2> QED BY <2>1, <2>2, <2>3 DEF Named, Entitled
<1> QED BY <1>3, <1>4, <1>5

\* What is gone stays gone.
LEMMA GoneOnward ==
  ASSUME NEW c \in Conns, Onward(c), Gone(c) PROVE Gone(c)'
BY DEF Onward, Gone, Open

\* Who has a descriptor has it still, if any.
LEMMA SameDescriptor ==
  ASSUME OneEach, NEW c \in Conns, Onward(c), Accepted(c), Open(c)',
         NEW f \in Fds, Open(c) => owner[f] = c
  PROVE  Open(c) /\ owner'[f] = c
<1>1. PICK g \in Fds : owner'[g] = c BY DEF Open
<1>2. owner[g] = c BY <1>1 DEF Onward
<1>3. g = f BY <1>2, NamesApart DEF OneEach, Open
<1> QED BY <1>1, <1>2, <1>3 DEF Open

\* Each part of the invariant outlives the steps of the other threads, as long
\* as what it says of the table does.
UnscannedKept == \A c \in Conns : Accepted(c) /\ Unscanned(c) => Unscanned(c)'
AnchoredKept  == \A c \in Conns : Accepted(c) /\ Anchored(c) => Anchored(c)'

\* A descriptor goes to nobody but a connection that was not there before.
NewcomersOnly == \A f \in Fds :
  owner'[f] \in {owner[f], None} \/ (owner[f] = None /\ Unscanned(owner[f])')

LEMMA ReceiverAlone ==
  ASSUME TypeOK, TypeOK', Busy, OneEach, Scanned, Received,
         \A c \in Conns : Onward(c),
         rcv' = rcv, UnscannedKept, NewcomersOnly
  PROVE  Scanned' /\ Received'
<1>1. \A p \in rcv.scan : p[1] \in Keys /\ p[2] \in Fds BY DEF TypeOK
<1>2. Scanned'
  <2> SUFFICES ASSUME NEW p \in rcv.scan
               PROVE  /\ \E c \in Conns : /\ Entitled(p[1], c)' /\ Accepted(c)'
                                          /\ Open(c)' => owner'[p[2]] = c
                      /\ owner'[p[2]] # None /\ ~Entitled(p[1], owner[p[2]])'
                           => Unscanned(owner[p[2]])'
    BY DEF Scanned
  <2>1. PICK c \in Conns : /\ Entitled(p[1], c) /\ Accepted(c)
                           /\ Open(c) => owner[p[2]] = c
    BY DEF Scanned
  <2>2. Entitled(p[1], c)' /\ Accepted(c)' BY <2>1 DEF Onward, Entitled
  <2>3. Open(c)' => owner'[p[2]] = c BY <1>1, <2>1, SameDescriptor
  <2>4. ASSUME owner'[p[2]] # None, ~Entitled(p[1], owner[p[2]])'
        PROVE  Unscanned(owner[p[2]])'
    <3>1. CASE owner[p[2]] = None BY <1>1, <2>4, <3>1 DEF NewcomersOnly
    <3>2. CASE owner[p[2]] # None
      <4>1. owner'[p[2]] = owner[p[2]] /\ owner[p[2]] \in Conns
        BY <1>1, <2>4, <3>2 DEF NewcomersOnly, TypeOK
      <4>2. Accepted(owner[p[2]])
        BY <1>1, <4>1 DEF OneEach, Open
      <4>3. ~Entitled(p[1], owner[p[2]])
        BY <2>4, <4>1, <4>2 DEF Entitled, Onward
      <4>4. Unscanned(owner[p[2]]) BY <3>2, <4>3 DEF Scanned
      <4> QED BY <4>1, <4>2, <4>4 DEF UnscannedKept
    <3> QED BY <3>1, <3>2
  <2> QED BY <2>2, <2>3, <2>4
<1>3. Received'
  <2>1. ASSUME rcv.pc = "reading"
        PROVE  /\ Accepted(rcv.conn)'
               /\ \E c \in Conns : /\ Entitled(rcv.name, c)' /\ Accepted(c)'
                                   /\ Open(c)' => rcv'.conn = c
               /\ Open(rcv.conn)' /\ ~Entitled(rcv.name, rcv.conn)'
                    => Unscanned(rcv.conn)'
    <3>1. rcv.conn \in Conns /\ Accepted(rcv.conn) BY <2>1 DEF Busy, Received
    <3>2. PICK c \in Conns : /\ Entitled(rcv.name, c) /\ Accepted(c)
                             /\ Open(c) => rcv.conn = c
      BY <2>1 DEF Received
    <3>3. Entitled(rcv.name, c)' /\ Accepted(c)' BY <3>2 DEF Onward, Entitled
    <3>4. \A d \in Conns : Accepted(d) /\ Open(d)' => Open(d)
      BY DEF Onward, Open
    <3>5. ASSUME Open(rcv.conn)', ~Entitled(rcv.name, rcv.conn)'
          PROVE  Unscanned(rcv.conn)'
      <4>1. Open(rcv.conn) BY <3>1, <3>4, <3>5
      <4>2. ~Entitled(rcv.name, rcv.conn)
        BY <3>1, <3>5 DEF Entitled, Onward
      <4>3. Unscanned(rcv.conn) BY <2>1, <4>1, <4>2 DEF Received
      <4> QED BY <3>1, <4>3 DEF UnscannedKept
    <3> QED BY <3>1, <3>2, <3>3, <3>4, <3>5 DEF Onward
  <2>2. ASSUME NEW n \in rcv.failed
        PROVE  \E c \in Conns : Entitled(n, c)' /\ (Gone(c)' \/ line'[c] = "broken")
    <3>1. PICK c \in Conns : Entitled(n, c) /\ (Gone(c) \/ line[c] = "broken")
      BY DEF Received
    <3>2. Accepted(c) BY <3>1 DEF Gone, Accepted
    <3>3. Entitled(n, c)' BY <3>1, <3>2 DEF Entitled, Onward
    <3> QED BY <3>1, <3>3, GoneOnward DEF Onward
  <2> QED BY <2>1, <2>2 DEF Received
<1> QED BY <1>2, <1>3

LEMMA SenderAlone ==
  ASSUME Busy, OneEach, snd.pc \in {"send", "sending", "drop"} => Sent,
         \A c \in Conns : Onward(c), snd' = snd,
         snd.pc \in {"send", "sending", "drop"}
  PROVE  Sent'
<1>1. PICK c \in Conns :
        /\ Entitled(snd.dest, c) /\ Accepted(c)
        /\ snd.pc = "send" /\ Open(c) => owner[snd.fd] = c
        /\ snd.pc = "sending" /\ Open(c) => snd.conn = c
        /\ snd.pc = "drop" /\ Open(c) => line[c] = "broken"
  BY DEF Sent
<1>2. Entitled(snd.dest, c)' /\ Accepted(c)' BY <1>1 DEF Onward, Entitled
<1>3. Open(c)' => Open(c) BY <1>1 DEF Onward, Open
<1>4. snd.pc = "send" /\ Open(c)' => owner'[snd.fd] = c
  BY <1>1, SameDescriptor DEF Busy
<1> QED BY <1>1, <1>2, <1>3, <1>4 DEF Sent, Onward

LEMMA CheckerAlone ==
  ASSUME TimedOut, \A c \in Conns : Onward(c), AnchoredKept,
         hb'.overdue \subseteq hb.overdue, suspect' = suspect
  PROVE  TimedOut'
<1> SUFFICES ASSUME NEW n \in hb.overdue
             PROVE  \E c \in Conns :
               /\ Entitled(n, c)'
               /\ \/ Gone(c)'
                  \/ Accepted(c)' /\ (c \in suspect \/ (Anchored(c)' /\ n # c))
  BY DEF TimedOut
<1>1. PICK c \in Conns :
        /\ Entitled(n, c)
        /\ Gone(c) \/ (Accepted(c) /\ (c \in suspect \/ (Anchored(c) /\ n # c)))
  BY DEF TimedOut
<1>2. Accepted(c) BY <1>1 DEF Gone
<1>3. Entitled(n, c)' /\ Accepted(c)' BY <1>1, <1>2 DEF Entitled, Onward
<1> QED BY <1>1, <1>3, GoneOnward DEF AnchoredKept

LEMMA EmptiedAlone ==
  ASSUME Emptied, \A c \in Conns : Onward(c), AnchoredKept,
         \A n \in DOMAIN nodes' : nodes'[n].fd = None =>
           n \in DOMAIN nodes /\ nodes[n].fd = None
  PROVE  Emptied'
<1> SUFFICES ASSUME NEW n \in DOMAIN nodes', nodes'[n].fd = None
             PROVE  \E c \in Conns : /\ Entitled(n, c)'
                                     /\ \/ Gone(c)'
                                        \/ Accepted(c)' /\ Anchored(c)' /\ n # c
  BY DEF Emptied
<1>1. PICK c \in Conns :
        Entitled(n, c) /\ (Gone(c) \/ (Accepted(c) /\ Anchored(c) /\ n # c))
  BY DEF Emptied
<1>2. Accepted(c) BY <1>1 DEF Gone
<1>3. Entitled(n, c)' /\ Accepted(c)' BY <1>1, <1>2 DEF Entitled, Onward
<1> QED BY <1>1, <1>3, GoneOnward DEF AnchoredKept

\* A connection that the receive thread does not mean stays so while the table
\* loses entries.
LEMMA UnscannedOne ==
  ASSUME TypeOK, Fewer, NEW c \in Conns, claim'[c] = claim[c], Unscanned(c),
         rcv'.scan \subseteq rcv.scan,
         rcv'.pc = "reading" => ~Entitled(rcv'.name, c)
  PROVE  Unscanned(c)'
<1>1. \A p \in rcv'.scan : ~Entitled(p[1], c)' BY DEF Unscanned, Entitled
<1>2. rcv'.pc = "reading" => ~Entitled(rcv.name, c)' BY DEF Entitled
<1>3. ASSUME NEW n \in DOMAIN nodes', nodes'[n].fd # None, owner'[nodes'[n].fd] = c
      PROVE  n = c
  <2>1. /\ n \in DOMAIN nodes /\ nodes'[n].fd = nodes[n].fd
        /\ nodes[n].fd \in Fds
    BY <1>3 DEF Fewer, TypeOK, Entry
  <2>2. owner[nodes[n].fd] = c BY <1>3, <2>1, NamesApart DEF Fewer
  <2> QED BY <1>3, <2>1, <2>2 DEF Unscanned
<1> QED BY <1>1, <1>2, <1>3 DEF Unscanned

LEMMA FewerKept ==
  ASSUME TypeOK, Fewer, \A c \in Conns : Onward(c), rcv' = rcv,
         main' = main \/ (main \notin Late /\ main' \notin Late)
  PROVE  UnscannedKept /\ AnchoredKept /\ NewcomersOnly
<1>1. UnscannedKept BY UnscannedOne DEF UnscannedKept, Onward, Unscanned
<1>2. AnchoredKept BY <1>1 DEF AnchoredKept, UnscannedKept, Anchored, Late
<1>3. NewcomersOnly BY DEF NewcomersOnly, Fewer
<1> QED BY <1>1, <1>2, <1>3

-----------------------------------------------------------------------------
(* The steps.                                                              *)

\* DistinctClaims can only be lost.
LEMMA ClaimsBefore ==
  ASSUME TypeOK, OneEach, NEW c \in Conns, Connect(c), DistinctClaims'
  PROVE  DistinctClaims
<1>1. claim[c] = None BY DEF Connect, OneEach
<1>2. \A d \in Conns \ {c} : claim'[d] = claim[d] BY DEF Connect, TypeOK
<1> QED BY <1>1, <1>2 DEF DistinctClaims

\* Losing entries keeps all that is said of the table and of the receive
\* thread, which has not moved.
LEMMA FewerSound ==
  ASSUME IInv, IInv', OneEach, Sound, Fewer, AcceptCalm,
         main' = main \/ (main \notin Late /\ main' \notin Late),
         \A c \in Conns : Onward(c), rcv' = rcv
  PROVE  /\ Found' /\ LastOne' /\ Named' /\ Emptied' /\ Scanned' /\ Received'
         /\ AnchoredKept
<1> USE DEF IInv, Sound
<1>1. Found' /\ LastOne' /\ Named' BY FewerTable
<1>2. UnscannedKept /\ AnchoredKept /\ NewcomersOnly BY FewerKept
<1>3. Emptied' BY <1>2, EmptiedAlone DEF Fewer
<1>4. Scanned' /\ Received' BY <1>2, ReceiverAlone
<1> QED BY <1>1, <1>2, <1>3, <1>4

LEMMA FewerOneEach ==
  ASSUME OneEach, Fewer, \A c \in Conns : Onward(c),
         \A c \in Conns : line'[c] = "absent" => line[c] = "absent" /\ claim'[c] = claim[c]
  PROVE  OneEach'
<1>1. \A f \in Fds : owner'[f] # None => owner'[f] = owner[f] BY DEF Fewer
<1>2. \A c \in Conns : Open(c)' => Accepted(c)'
  BY <1>1, NamesApart DEF OneEach, Open, Onward
<1> QED BY <1>1, <1>2 DEF OneEach

\* A step of a peer.
LEMMA PeerNames ==
  ASSUME IInv, IInv', NInv, NEW c \in Conns, Connect(c) \/ Arrive(c) PROVE NInv'
<1> USE DEF NInv
<1>1. UNCHANGED <<tableVars, mainVars, acc, rcv, snd, hb, suspect>>
  BY DEF Connect, Arrive
<1>2. /\ \A d \in Conns : /\ line[d] \notin {"absent", "backlog"}
                            => line'[d] \notin {"absent", "backlog"} /\ claim'[d] = claim[d]
                          /\ line[d] = "broken" => line'[d] = "broken"
                          /\ line'[d] = "absent" => line[d] = "absent" /\ claim'[d] = claim[d]
  <2>1. CASE Connect(c) BY <2>1 DEF Connect, IInv, TypeOK
  <2>2. CASE Arrive(c) BY <2>2 DEF Arrive, IInv, TypeOK
  <2> QED BY <2>1, <2>2
<1>3. Fewer /\ AcceptCalm /\ main' = main
  BY <1>1 DEF Fewer, AcceptCalm, tableVars, mainVars
<1>4. \A d \in Conns : Onward(d)
  BY <1>1, <1>2 DEF Onward, Accepted, tableVars
<1>5. OneEach' BY <1>2, <1>3, <1>4, FewerOneEach
<1>6. Phases' BY <1>1 DEF Phases, tableVars, mainVars
<1>7. ASSUME DistinctClaims' PROVE Sound'
  <2>1. DistinctClaims
    BY <1>7, ClaimsBefore DEF Arrive, DistinctClaims, IInv
  <2>2. Sound BY <2>1
  <2>3. /\ Found' /\ LastOne' /\ Named' /\ Emptied' /\ Scanned' /\ Received'
        /\ AnchoredKept
    BY <1>1, <1>3, <1>4, <2>2, FewerSound
  <2>4. TimedOut' BY <1>1, <1>4, <2>2, <2>3, CheckerAlone DEF Sound
  <2>5. snd'.pc \in {"send", "sending", "drop"} => Sent'
    BY <1>1, <1>4, <2>2, SenderAlone DEF Sound, IInv
  <2> QED BY <2>3, <2>4, <2>5 DEF Sound
<1> QED BY <1>5, <1>6, <1>7

\* A step of another thread than the receive thread that accepts nothing.
LEMMA OtherStep ==
  ASSUME IInv, IInv', NInv, Phases', Fewer, AcceptCalm,
         main' = main \/ (main \notin Late /\ main' \notin Late),
         UNCHANGED peerVars, rcv' = rcv,
         Sound /\ AnchoredKept => TimedOut',
         Sound => (snd'.pc \in {"send", "sending", "drop"} => Sent')
  PROVE  NInv'
<1> USE DEF NInv
<1>1. \A d \in Conns : Onward(d) BY FewerOnward DEF IInv
<1>2. OneEach' BY <1>1, FewerOneEach DEF peerVars
<1>3. ASSUME DistinctClaims' PROVE Sound'
  <2>1. Sound BY <1>3 DEF DistinctClaims, peerVars
  <2>2. /\ Found' /\ LastOne' /\ Named' /\ Emptied' /\ Scanned' /\ Received'
        /\ AnchoredKept
    BY <1>1, <2>1, FewerSound
  <2> QED BY <2>1, <2>2 DEF Sound
<1> QED BY <1>2, <1>3

\* The accept thread goes round, and accepts nothing.
LEMMA LoopNames ==
  ASSUME IInv, IInv', NInv, AcceptLoop \/ AcceptFails PROVE NInv'
<1>1. UNCHANGED <<peerVars, tableVars, mainVars, rcv, snd, hb, suspect>>
  BY DEF AcceptLoop, AcceptFails
<1>2. AcceptCalm /\ acc'.pc # "accepted" /\ acc.pc \notin {"off", "accepted", "done"}
  BY DEF AcceptLoop, AcceptFails, AcceptCalm, IInv, TypeOK, NInv, Phases
<1>3. Fewer BY <1>1 DEF Fewer, tableVars
<1>4. Phases' BY <1>1, <1>2 DEF Phases, NInv, tableVars, mainVars
<1>5. Sound /\ AnchoredKept => TimedOut'
  BY <1>1, <1>3, FewerOnward, CheckerAlone DEF Sound, IInv
<1>6. Sound => (snd'.pc \in {"send", "sending", "drop"} => Sent')
  BY <1>1, <1>3, FewerOnward, SenderAlone DEF Sound, IInv, NInv
<1> QED BY <1>1, <1>2, <1>3, <1>4, <1>5, <1>6, OtherStep DEF mainVars

\* A connection is accepted: nobody has met it.
LEMMA AcceptNames ==
  ASSUME IInv, IInv', NInv, AcceptConnection PROVE NInv'
<1> USE DEF NInv
<1>1. PICK c \in Conns, f \in Fds :
        /\ line[c] = "backlog" /\ owner[f] = None
        /\ line' = [line EXCEPT ![c] = "idle"]
        /\ owner' = [owner EXCEPT ![f] = c]
        /\ acc' = [pc |-> "accepted", fd |-> f]
  BY DEF AcceptConnection
<1>2. acc.pc = "blocked" /\ UNCHANGED <<claim, nodes, mainVars, rcv, snd, hb, suspect>>
  BY DEF AcceptConnection
<1>3. owner'[f] = c /\ \A g \in Fds \ {f} : owner'[g] = owner[g]
  BY <1>1 DEF IInv, TypeOK
<1>4. line'[c] = "idle" /\ \A d \in Conns \ {c} : line'[d] = line[d]
  BY <1>1 DEF IInv, TypeOK
<1>5. \A d \in Conns : Onward(d)
  BY <1>1, <1>2, <1>3, <1>4 DEF Onward, Accepted
<1>6. ~Accepted(c) /\ \A g \in Fds : owner[g] # c
  BY <1>1 DEF Accepted, OneEach, Open
<1>7. OneEach'
  <2>1. \A g, h \in Fds : owner'[g] = owner'[h] /\ owner'[g] # None => g = h
    BY <1>3, <1>6 DEF OneEach
  <2>2. \A d \in Conns : Open(d)' => Accepted(d)'
    BY <1>3, <1>4, <1>5 DEF OneEach, Open, Onward, Accepted
  <2>3. \A d \in Conns : line'[d] = "absent" => claim'[d] = None
    BY <1>2, <1>4 DEF OneEach
  <2> QED BY <2>1, <2>2, <2>3 DEF OneEach
<1>8. Phases' BY <1>1, <1>2 DEF Phases, mainVars
<1>9. ASSUME DistinctClaims' PROVE Sound'
  <2>1. DistinctClaims /\ Sound BY <1>2, <1>9 DEF DistinctClaims
  <2> USE <2>1 DEF Sound
  <2>2. Found'
    <3> SUFFICES ASSUME main # "stopped", NEW g \in Fds, owner'[g] # None
                 PROVE  InTable(g)' \/ (acc'.pc = "accepted" /\ acc'.fd = g)
      BY <1>2 DEF Found, mainVars
    <3> QED BY <1>1, <1>2, <1>3 DEF Found, InTable
  <2>3. LastOne' BY <1>1, <1>2, <1>3 DEF LastOne, mainVars
  <2>4. Named'
    <3> SUFFICES ASSUME NEW n \in DOMAIN nodes, nodes[n].fd # None
                 PROVE  Entitled(n, owner[nodes[n].fd])'
      BY <1>2 DEF Named
    <3>1. nodes[n].fd \in Fds /\ owner[nodes[n].fd] # None
      BY DEF IInv, TypeOK, Entry, DescriptorsOwned
    <3> QED BY <1>1, <1>2, <1>3, <3>1 DEF Named, Entitled
  <2>5. UnscannedKept /\ AnchoredKept
    <3>1. ASSUME NEW d \in Conns, Accepted(d), Unscanned(d) PROVE Unscanned(d)'
      <4>1. \A n \in DOMAIN nodes : nodes[n].fd # None => nodes[n].fd \in Fds
        BY DEF IInv, TypeOK, Entry
      <4>2. d # c BY <1>6, <3>1
      <4> QED BY <1>2, <1>3, <3>1, <4>1, <4>2 DEF Unscanned, Entitled
    <3> QED BY <1>2, <3>1 DEF UnscannedKept, AnchoredKept, Anchored, mainVars
  <2>6. NewcomersOnly
    <3>1. Unscanned(c)'
      <4>1. \A n : (\E d \in Conns : Entitled(n, d) /\ Accepted(d)) => ~Entitled(n, c)
        BY <1>6, <2>1, OneMeant DEF IInv
      <4>2. \A p \in rcv.scan : ~Entitled(p[1], c)' BY <1>2, <4>1 DEF Scanned, Entitled
      <4>3. rcv.pc = "reading" => ~Entitled(rcv.name, c)'
        BY <1>2, <4>1 DEF Received, Entitled
      <4>4. \A n \in DOMAIN nodes : nodes[n].fd # None =>
              nodes[n].fd \in Fds /\ owner[nodes[n].fd] # None
        BY DEF IInv, TypeOK, Entry, DescriptorsOwned
      <4> QED BY <1>1, <1>2, <1>3, <1>6, <4>2, <4>3, <4>4 DEF Unscanned
    <3> QED BY <1>1, <1>3, <3>1 DEF NewcomersOnly
  <2>7. Emptied' BY <1>2, <1>5, <2>5, EmptiedAlone
  <2>8. Scanned' /\ Received' BY <1>2, <1>5, <2>5, <2>6, ReceiverAlone DEF IInv
  <2>9. TimedOut' BY <1>2, <1>5, <2>5, CheckerAlone
  <2>10. snd'.pc \in {"send", "sending", "drop"} => Sent'
    BY <1>2, <1>5, SenderAlone DEF IInv
  <2> QED BY <2>2, <2>3, <2>4, <2>7, <2>8, <2>9, <2>10
<1> QED BY <1>7, <1>8, <1>9

\* The connection is entered under its endpoint, where no other entry with a
\* descriptor can be.
LEMMA AddNames ==
  ASSUME IInv, IInv', NInv, AddNode PROVE NInv'
<1> USE DEF NInv
<1> DEFINE c == owner[acc.fd]
<1>1. /\ acc.pc = "accepted" /\ acc' = [pc |-> "check", fd |-> None]
      /\ UNCHANGED <<peerVars, owner, mainVars, rcv, snd, hb, suspect>>
  BY DEF AddNode
<1>2. acc.fd \in Fds /\ c \in Conns /\ acc.fd # None
  BY <1>1, NamesApart DEF IInv, Accepting, TypeOK
<1>3. /\ DOMAIN nodes' = DOMAIN nodes \union {c}
      /\ nodes'[c].fd = acc.fd
      /\ \A n \in DOMAIN nodes \ {c} : nodes'[n] = nodes[n]
  BY DEF AddNode
<1>4. \A d \in Conns : Onward(d) BY <1>1 DEF Onward, Accepted, peerVars
<1>5. OneEach' BY <1>1 DEF OneEach, Open, Accepted, peerVars
<1>6. Phases' BY <1>1, <1>2, <1>3 DEF Phases, mainVars
<1>7. ASSUME DistinctClaims' PROVE Sound'
  <2>1. DistinctClaims /\ Sound BY <1>1, <1>7 DEF DistinctClaims, peerVars
  <2> USE <2>1 DEF Sound
  <2>2. c \in DOMAIN nodes => nodes[c].fd = None
    <3> SUFFICES ASSUME c \in DOMAIN nodes, nodes[c].fd # None PROVE FALSE OBVIOUS
    <3>1. /\ nodes[c].fd \in Fds /\ owner[nodes[c].fd] \in Conns
          /\ Entitled(c, owner[nodes[c].fd])
      BY DEF IInv, TypeOK, Entry, DescriptorsOwned, Named
    <3>2. owner[nodes[c].fd] = c
      BY <1>2, <2>1, <3>1, OneMeant DEF IInv, Entitled
    <3>3. nodes[c].fd = acc.fd BY <1>2, <3>1, <3>2, NamesApart DEF OneEach
    <3> QED BY <1>1, <3>3 DEF IInv, Accepting
  <2>3. Found'
    <3> SUFFICES ASSUME main # "stopped", NEW g \in Fds, owner[g] # None
                 PROVE  InTable(g)'
      BY <1>1 DEF Found, mainVars
    <3>1. CASE g = acc.fd BY <1>3, <3>1 DEF InTable
    <3>2. CASE g # acc.fd
      <4>1. PICK n \in DOMAIN nodes : nodes[n].fd = g
        BY <3>2 DEF Found, InTable
      <4>2. n # c BY <2>2, <4>1, NamesApart
      <4> QED BY <1>3, <4>1, <4>2 DEF InTable
    <3> QED BY <3>1, <3>2
  <2>4. LastOne' BY <1>1 DEF LastOne, mainVars
  <2>5. Named'
    <3> SUFFICES ASSUME NEW n \in DOMAIN nodes', nodes'[n].fd # None
                 PROVE  Entitled(n, owner[nodes[n].fd])'
      BY <1>1 DEF Named
    <3>1. CASE n = c BY <1>1, <1>3, <3>1 DEF Entitled
    <3>2. CASE n # c BY <1>1, <1>3, <3>2 DEF Named, Entitled, peerVars
    <3> QED BY <3>1, <3>2
  <2>6. UnscannedKept /\ AnchoredKept
    <3>1. ASSUME NEW d \in Conns, Unscanned(d) PROVE Unscanned(d)'
      <4>1. \A n \in DOMAIN nodes' :
              nodes'[n].fd # None /\ owner'[nodes'[n].fd] = d => n = d
        BY <1>1, <1>3, <3>1 DEF Unscanned
      <4> QED BY <1>1, <3>1, <4>1 DEF Unscanned, Entitled, peerVars
    <3> QED BY <1>1, <3>1 DEF UnscannedKept, AnchoredKept, Anchored, mainVars
  <2>7. NewcomersOnly BY <1>1 DEF NewcomersOnly
  <2>8. Emptied' BY <1>2, <1>3, <1>4, <2>6, EmptiedAlone
  <2>9. Scanned' /\ Received' BY <1>1, <1>4, <2>6, <2>7, ReceiverAlone DEF IInv
  <2>10. TimedOut' BY <1>1, <1>4, <2>6, CheckerAlone
  <2>11. snd'.pc \in {"send", "sending", "drop"} => Sent'
    BY <1>1, <1>4, SenderAlone DEF IInv
  <2> QED BY <2>3, <2>4, <2>5, <2>8, <2>9, <2>10, <2>11
<1> QED BY <1>5, <1>6, <1>7

\* The receive thread's own steps, but those that change the table.
LEMMA LookStep ==
  ASSUME IInv, IInv', NInv,
         UNCHANGED <<peerVars, tableVars, mainVars, acc, snd, hb, suspect>>,
         rcv.pc \notin {"off", "done"},
         DistinctClaims /\ Sound => AnchoredKept /\ Scanned' /\ Received'
  PROVE  NInv'
<1> USE DEF NInv
<1>1. Fewer /\ AcceptCalm /\ main' = main
  BY DEF Fewer, AcceptCalm, tableVars, mainVars
<1>2. \A d \in Conns : Onward(d) BY <1>1, FewerOnward DEF IInv
<1>3. OneEach' BY <1>1, <1>2, FewerOneEach DEF peerVars
<1>4. Phases' BY DEF Phases, tableVars, mainVars
<1>5. ASSUME DistinctClaims' PROVE Sound'
  <2>1. DistinctClaims /\ Sound BY <1>5 DEF DistinctClaims, peerVars
  <2>2. AnchoredKept /\ Scanned' /\ Received' BY <2>1
  <2>3. Found' /\ LastOne' /\ Named' BY <1>1, <1>2, <2>1, FewerTable DEF IInv
  <2>4. Emptied' BY <1>1, <1>2, <2>1, <2>2, EmptiedAlone DEF Sound, Fewer
  <2>5. TimedOut' BY <1>2, <2>1, <2>2, CheckerAlone DEF Sound
  <2>6. snd'.pc \in {"send", "sending", "drop"} => Sent'
    BY <1>2, <2>1, SenderAlone DEF Sound, IInv
  <2> QED BY <2>2, <2>3, <2>4, <2>5, <2>6 DEF Sound
<1> QED BY <1>3, <1>4, <1>5

\* Nothing that is said of a scan depends on what is not in it.
LEMMA ScanShrinks ==
  ASSUME TypeOK, Scanned,
         UNCHANGED <<peerVars, tableVars, mainVars, acc, snd, hb, suspect>>,
         rcv'.scan \subseteq rcv.scan,
         \A c \in Conns : Unscanned(c) /\ rcv'.pc = "reading" => ~Entitled(rcv'.name, c)
  PROVE  /\ Scanned'
         /\ \A c \in Conns : Unscanned(c) => Unscanned(c)'
         /\ rcv'.pc # "snapshot" => AnchoredKept
<1>1. Fewer BY DEF Fewer, tableVars
<1>2. \A c \in Conns : Unscanned(c) => Unscanned(c)'
  BY <1>1, UnscannedOne DEF peerVars
<1>3. rcv'.pc # "snapshot" => AnchoredKept
  BY <1>2 DEF AnchoredKept, Anchored, mainVars
<1>4. Scanned'
  <2> SUFFICES ASSUME NEW p \in rcv'.scan
               PROVE  /\ \E c \in Conns : /\ Entitled(p[1], c)' /\ Accepted(c)'
                                          /\ Open(c)' => owner'[p[2]] = c
                      /\ owner'[p[2]] # None /\ ~Entitled(p[1], owner[p[2]])'
                           => Unscanned(owner[p[2]])'
    BY DEF Scanned
  <2>1. p \in rcv.scan /\ p[2] \in Fds BY DEF TypeOK
  <2>2. \A n, c : /\ Entitled(n, c)' <=> Entitled(n, c)
                  /\ Accepted(c)' <=> Accepted(c)
                  /\ Open(c)' <=> Open(c)
    BY DEF Entitled, Accepted, Open, peerVars, tableVars
  <2>3. owner' = owner /\ (owner[p[2]] # None => owner[p[2]] \in Conns)
    BY <2>1 DEF TypeOK, tableVars
  <2>4. /\ \E c \in Conns : /\ Entitled(p[1], c) /\ Accepted(c)
                            /\ Open(c) => owner[p[2]] = c
        /\ owner[p[2]] # None /\ ~Entitled(p[1], owner[p[2]]) => Unscanned(owner[p[2]])
    BY <2>1 DEF Scanned
  <2>5. Entitled(p[1], owner[p[2]])' <=> Entitled(p[1], owner[p[2]])
    BY <2>3 DEF Entitled, peerVars
  <2> QED BY <1>2, <2>2, <2>3, <2>4, <2>5
<1> QED BY <1>2, <1>3, <1>4

\* Looking at the table, and reading from a descriptor found there, keeps what
\* the receive thread knows.
LEMMA LookNames ==
  ASSUME IInv, IInv', NInv,
         ReceiveCheck \/ Snapshot \/ Select \/ StartReceive \/ ReceiveFails
  PROVE  NInv'
<1> USE DEF NInv
<1>1. UNCHANGED <<peerVars, tableVars, mainVars, acc, snd, hb, suspect>>
  BY DEF ReceiveCheck, Snapshot, Select, StartReceive, ReceiveFails
<1>2. /\ rcv \in [pc : {"off", "check", "snapshot", "select", "scan", "reading",
                        "dropping", "done"},
                  scan : SUBSET (Keys \X Fds), failed : SUBSET Keys,
                  name : Keys \union {None}, conn : Conns \union {None}]
      /\ rcv.pc \notin {"off", "done"}
  BY DEF IInv, TypeOK, ReceiveCheck, Snapshot, Select, StartReceive, ReceiveFails
<1>4. /\ \A n, c : Entitled(n, c)' <=> Entitled(n, c)
      /\ \A c : Accepted(c)' <=> Accepted(c)
      /\ \A c : Open(c)' <=> Open(c)
      /\ \A c : Gone(c)' <=> Gone(c)
      /\ UNCHANGED <<line, claim, owner, nodes, main, running>>
  BY <1>1 DEF Entitled, Accepted, Open, Gone, peerVars, tableVars, mainVars
<1>5. ASSUME DistinctClaims, Sound PROVE AnchoredKept /\ Scanned' /\ Received'
  <2> USE <1>5 DEF Sound
  <2>1. ASSUME rcv'.failed = rcv.failed, rcv'.pc # "reading",
               rcv'.pc = "dropping" => rcv'.scan = {}
        PROVE  Received'
    BY <1>4, <2>1 DEF Received
  <2>2. CASE ReceiveCheck
    <3>1. /\ rcv'.failed = rcv.failed /\ rcv'.scan = rcv.scan
          /\ rcv'.pc \in {"snapshot", "done"}
          /\ rcv'.pc = "snapshot" => running
      BY <1>2, <2>2 DEF ReceiveCheck
    <3>2. /\ Scanned' /\ (rcv'.pc # "snapshot" => AnchoredKept)
      BY <1>1, <3>1, ScanShrinks DEF IInv
    <3>3. rcv'.pc = "snapshot" => AnchoredKept
      BY <3>1 DEF AnchoredKept, Anchored, Phases
    <3> QED BY <2>1, <3>1, <3>2, <3>3
  <2>3. CASE Snapshot
    <3>1. /\ rcv.pc = "snapshot" /\ rcv'.failed = rcv.failed
          /\ rcv'.pc \in {"check", "select"}
          /\ rcv'.scan = {<<n, nodes[n].fd>> :
                            n \in {k \in DOMAIN nodes : nodes[k].fd # None}}
      BY <1>2, <2>3 DEF Snapshot
    <3>2. AnchoredKept BY <3>1 DEF AnchoredKept, Anchored
    <3>3. Scanned'
      <4> SUFFICES ASSUME NEW n \in DOMAIN nodes, nodes[n].fd # None
                   PROVE  /\ owner[nodes[n].fd] \in Conns
                          /\ Entitled(n, owner[nodes[n].fd])
                          /\ Accepted(owner[nodes[n].fd])
        BY <1>4, <3>1 DEF Scanned, Entitled
      <4>1. nodes[n].fd \in Fds /\ owner[nodes[n].fd] \in Conns
        BY DEF IInv, TypeOK, Entry, DescriptorsOwned
      <4> QED BY <4>1 DEF Named, OneEach, Open
    <3> QED BY <2>1, <3>1, <3>2, <3>3
  <2>4. CASE Select
    <3>1. /\ rcv'.failed = rcv.failed /\ rcv'.pc \in {"check", "scan"}
          /\ rcv'.scan \subseteq rcv.scan
      BY <1>2, <2>4 DEF Select
    <3> QED BY <1>1, <2>1, <3>1, ScanShrinks DEF IInv
  <2>5. CASE StartReceive
    <3>1. CASE rcv.scan = {}
      <4>1. rcv' = [rcv EXCEPT !.pc = "dropping"] BY <2>5, <3>1 DEF StartReceive
      <4>2. /\ rcv'.failed = rcv.failed /\ rcv'.pc = "dropping"
            /\ rcv'.scan = {}
        BY <1>2, <3>1, <4>1
      <4> QED BY <1>1, <2>1, <4>2, ScanShrinks DEF IInv
    <3>2. CASE rcv.scan # {}
      <4>1. PICK p \in rcv.scan :
              rcv' = IF owner[p[2]] = None
                       THEN [rcv EXCEPT !.scan = @ \ {p}, !.failed = @ \union {p[1]}]
                       ELSE [rcv EXCEPT !.pc = "reading", !.scan = @ \ {p},
                                        !.name = p[1], !.conn = owner[p[2]]]
        BY <2>5, <3>2 DEF StartReceive
      <4>2. rcv.pc = "scan" BY <2>5 DEF StartReceive
      <4>3. PICK c \in Conns : /\ Entitled(p[1], c) /\ Accepted(c)
                               /\ Open(c) => owner[p[2]] = c
        BY <4>1 DEF Scanned
      <4>4. CASE owner[p[2]] = None
        <5>1. /\ rcv'.pc = "scan" /\ rcv'.scan \subseteq rcv.scan
              /\ rcv'.failed = rcv.failed \union {p[1]}
          BY <1>2, <4>1, <4>2, <4>4
        <5>2. Gone(c) BY <4>3, <4>4, NamesApart DEF Gone
        <5>3. Received' BY <1>4, <4>3, <5>1, <5>2 DEF Received
        <5> QED BY <1>1, <5>1, <5>3, ScanShrinks DEF IInv
      <4>5. CASE owner[p[2]] # None
        <5>1. /\ rcv'.pc = "reading" /\ rcv'.scan \subseteq rcv.scan
              /\ rcv'.failed = rcv.failed
              /\ rcv'.name = p[1] /\ rcv'.conn = owner[p[2]]
          BY <1>2, <4>1, <4>5
        <5>2. \A d \in Conns : Unscanned(d) => ~Entitled(rcv'.name, d)
          BY <4>1, <5>1 DEF Unscanned
        <5>3. /\ Scanned' /\ AnchoredKept
              /\ \A d \in Conns : Unscanned(d) => Unscanned(d)'
          BY <1>1, <5>1, <5>2, ScanShrinks DEF IInv
        <5>4. owner[p[2]] \in Conns /\ Accepted(owner[p[2]])
          BY <1>2, <4>1, <4>5 DEF IInv, TypeOK, OneEach, Open
        <5>5. ~Entitled(p[1], owner[p[2]]) => Unscanned(owner[p[2]])
          BY <4>1, <4>5 DEF Scanned
        <5>6. ~Entitled(rcv.name, rcv.conn)' => Unscanned(rcv.conn)'
          <6>1. Entitled(rcv.name, rcv.conn)' <=> Entitled(p[1], owner[p[2]])
            BY <1>4, <5>1 DEF Entitled
          <6>2. Unscanned(owner[p[2]]) => Unscanned(owner[p[2]])'
            BY <1>4, <5>3, <5>4
          <6>3. rcv'.conn = owner'[p[2]] BY <1>4, <5>1
          <6> QED BY <5>5, <6>1, <6>2, <6>3 DEF Unscanned, Entitled
        <5>7. /\ Accepted(rcv.conn)'
              /\ \E d \in Conns : /\ Entitled(rcv.name, d)' /\ Accepted(d)'
                                  /\ Open(d)' => rcv'.conn = d
          BY <1>4, <4>3, <5>1, <5>4 DEF Entitled, Accepted
        <5>8. Received' BY <1>4, <5>1, <5>6, <5>7 DEF Received
        <5> QED BY <5>3, <5>8
      <4> QED BY <4>4, <4>5
    <3> QED BY <3>1, <3>2
  <2>6. CASE ReceiveFails
    <3>1. /\ rcv.pc = "reading" /\ rcv'.pc = "scan" /\ rcv'.scan = rcv.scan
          /\ rcv'.failed = rcv.failed \union {rcv.name}
          /\ line[rcv.conn] = "broken" \/ ~Open(rcv.conn)
      BY <1>2, <2>6 DEF ReceiveFails
    <3>2. PICK c \in Conns : /\ Entitled(rcv.name, c) /\ Accepted(c)
                             /\ Open(c) => rcv.conn = c
      BY <3>1 DEF Received
    <3>3. Gone(c) \/ line[c] = "broken" BY <3>1, <3>2 DEF Gone
    <3>4. Received' BY <1>4, <3>1, <3>2, <3>3 DEF Received
    <3> QED BY <1>1, <3>1, <3>4, ScanShrinks DEF IInv
  <2> QED BY <2>2, <2>3, <2>4, <2>5, <2>6
<1> QED BY <1>1, <1>2, <1>5, LookStep


\* The receive thread drops what it could not read.
LEMMA DropFailedNames ==
  ASSUME IInv, IInv', NInv, DropFailed PROVE NInv'
<1> USE DEF NInv
<1>1. rcv.pc = "dropping" /\ UNCHANGED <<peerVars, mainVars, acc, snd, hb, suspect>>
  BY DEF DropFailed
<1>2. /\ rcv'.scan = rcv.scan /\ rcv'.failed \subseteq rcv.failed
      /\ rcv'.pc \in {"check", "dropping"}
      /\ Fewer
  <2>1. CASE rcv.failed = {}
    BY <1>1, <2>1 DEF DropFailed, Fewer, tableVars, IInv, TypeOK
  <2>2. CASE rcv.failed # {}
    <3>1. PICK n \in rcv.failed : RemoveNode(n) /\ rcv' = [rcv EXCEPT !.failed = @ \ {n}]
      BY <2>2 DEF DropFailed
    <3>2. n \in Keys BY <3>1 DEF IInv, TypeOK
    <3>3. Fewer BY <3>1, <3>2, RemoveFewer DEF IInv
    <3> QED BY <1>1, <3>1, <3>3 DEF IInv, TypeOK
  <2> QED BY <2>1, <2>2
<1>3. \A d \in Conns : Onward(d) BY <1>1, <1>2, FewerOnward DEF IInv
<1>4. OneEach' BY <1>1, <1>2, <1>3, FewerOneEach DEF peerVars
<1>5. Phases' BY <1>1, <1>2 DEF Phases, mainVars, Fewer
<1>6. ASSUME DistinctClaims' PROVE Sound'
  <2>1. Sound BY <1>1, <1>6 DEF DistinctClaims, peerVars
  <2> USE <2>1 DEF Sound
  <2>2. AcceptCalm /\ main' = main BY <1>1 DEF AcceptCalm, mainVars
  <2>3. Found' /\ LastOne' /\ Named' BY <1>2, <1>3, <2>2, FewerTable DEF IInv
  <2>4. AnchoredKept
    BY <1>2, <1>3, <2>2, UnscannedOne DEF AnchoredKept, Anchored, Onward, IInv
  <2>5. Emptied' BY <1>2, <1>3, <2>4, EmptiedAlone DEF Fewer
  <2>6. rcv.scan = {} /\ rcv'.scan = {} BY <1>1, <1>2 DEF Received
  <2>7. Scanned' BY <2>6 DEF Scanned
  <2>8. Received'
    <3> SUFFICES ASSUME NEW n \in rcv.failed
                 PROVE  \E c \in Conns : Entitled(n, c)' /\ (Gone(c)' \/ line'[c] = "broken")
      BY <1>2, <2>6 DEF Received
    <3>1. PICK c \in Conns : Entitled(n, c) /\ (Gone(c) \/ line[c] = "broken")
      BY DEF Received
    <3> QED BY <1>1, <1>3, <3>1, GoneOnward DEF Entitled, peerVars
  <2>9. TimedOut' BY <1>1, <1>3, <2>4, CheckerAlone
  <2>10. snd'.pc \in {"send", "sending", "drop"} => Sent'
    BY <1>1, <1>3, SenderAlone DEF IInv
  <2> QED BY <2>3, <2>5, <2>7, <2>8, <2>9, <2>10
<1> QED BY <1>4, <1>5, <1>6

\* The send thread remembers a descriptor and a name of one connection.
LEMMA SendNames ==
  ASSUME IInv, IInv', NInv, SendCheck \/ Pop \/ StartSend \/ SendSucceeds \/ SendFails
  PROVE  NInv'
<1>1. UNCHANGED <<peerVars, tableVars, mainVars, acc, rcv, hb, suspect>>
  BY DEF SendCheck, Pop, StartSend, SendSucceeds, SendFails
<1>2. /\ snd \in [pc : {"off", "check", "pop", "send", "sending", "drop", "done"},
                  dest : Names \union {None}, fd : Fds \union {None},
                  conn : Conns \union {None}]
      /\ snd.pc \notin {"off", "done"}
  BY DEF IInv, TypeOK, SendCheck, Pop, StartSend, SendSucceeds, SendFails
<1>3. Fewer /\ AcceptCalm BY <1>1 DEF Fewer, AcceptCalm, tableVars
<1>4. Phases' BY <1>1, <1>2 DEF NInv, Phases, tableVars, mainVars
<1>5. Sound /\ AnchoredKept => TimedOut'
  BY <1>1, <1>3, FewerOnward, CheckerAlone DEF Sound, IInv
<1>6. ASSUME Sound, snd'.pc \in {"send", "sending", "drop"} PROVE Sent'
  <2> USE <1>6 DEF Sound
  <2>1. /\ \A n, c : Entitled(n, c)' <=> Entitled(n, c)
        /\ \A c : Accepted(c)' <=> Accepted(c)
        /\ \A c : Open(c)' <=> Open(c)
        /\ UNCHANGED <<owner, line>>
    BY <1>1 DEF Entitled, Accepted, Open, peerVars, tableVars
  <2>2. CASE Pop
    <3>1. PICK d \in Names \intersect DOMAIN nodes :
            /\ nodes[d].fd # None
            /\ snd' = [snd EXCEPT !.pc = "send", !.dest = d, !.fd = nodes[d].fd]
      BY <1>2, <1>6, <2>2 DEF Pop
    <3>2. snd'.pc = "send" /\ snd'.dest = d /\ snd'.fd = nodes[d].fd BY <1>2, <3>1
    <3>3. nodes[d].fd \in Fds /\ owner[nodes[d].fd] \in Conns
      BY <3>1 DEF IInv, TypeOK, Entry, DescriptorsOwned
    <3>4. Entitled(d, owner[nodes[d].fd]) /\ Accepted(owner[nodes[d].fd])
      BY <3>1, <3>3 DEF Named, NInv, OneEach, Open
    <3> QED BY <2>1, <3>2, <3>3, <3>4 DEF Sent, Entitled
  <2>3. CASE StartSend
    <3>1. PICK c \in Conns : /\ Entitled(snd.dest, c) /\ Accepted(c)
                             /\ Open(c) => owner[snd.fd] = c
      BY <2>3 DEF StartSend, Sent
    <3>2. CASE owner[snd.fd] = None
      <4>1. snd'.pc = "drop" /\ snd'.dest = snd.dest BY <1>2, <2>3, <3>2 DEF StartSend
      <4> QED BY <2>1, <3>1, <3>2, <4>1, NamesApart DEF Sent, Entitled
    <3>3. CASE owner[snd.fd] # None
      <4>1. snd'.pc = "sending" /\ snd'.dest = snd.dest /\ snd'.conn = owner[snd.fd]
        BY <1>2, <2>3, <3>3 DEF StartSend
      <4> QED BY <2>1, <3>1, <4>1 DEF Sent, Entitled
    <3> QED BY <3>2, <3>3
  <2>4. CASE SendFails
    <3>1. PICK c \in Conns : /\ Entitled(snd.dest, c) /\ Accepted(c)
                             /\ Open(c) => snd.conn = c
      BY <2>4 DEF SendFails, Sent
    <3>2. snd'.pc = "drop" /\ snd'.dest = snd.dest BY <1>2, <2>4 DEF SendFails
    <3>3. Open(c) => line[c] = "broken" BY <2>4, <3>1 DEF SendFails
    <3> QED BY <2>1, <3>1, <3>2, <3>3 DEF Sent, Entitled
  <2> QED BY <1>2, <1>6, <2>2, <2>3, <2>4 DEF SendCheck, SendSucceeds
<1> QED BY <1>1, <1>3, <1>4, <1>5, <1>6, OtherStep DEF mainVars

LEMMA DropDestinationNames ==
  ASSUME IInv, IInv', NInv, DropDestination PROVE NInv'
<1>1. /\ snd.pc = "drop" /\ RemoveNode(snd.dest)
      /\ snd' = [snd EXCEPT !.pc = "check", !.dest = None]
      /\ UNCHANGED <<peerVars, mainVars, acc, rcv, hb, suspect>>
  BY DEF DropDestination
<1>2. snd.dest \in Keys /\ snd'.pc = "check" BY <1>1 DEF IInv, Busy, TypeOK, Keys
<1>3. Fewer /\ AcceptCalm BY <1>1, <1>2, RemoveFewer DEF IInv, AcceptCalm
<1>4. Phases' BY <1>1, <1>3 DEF NInv, Phases, mainVars, Fewer
<1>5. Sound /\ AnchoredKept => TimedOut'
  BY <1>1, <1>3, FewerOnward, CheckerAlone DEF Sound, IInv
<1> QED BY <1>1, <1>2, <1>3, <1>4, <1>5, OtherStep DEF mainVars

\* The timeout check remembers names only.
LEMMA HeartbeatNames ==
  ASSUME IInv, IInv', NInv, HeartbeatStep PROVE NInv'
<1>1. UNCHANGED <<peerVars, mainVars, acc, rcv, snd>>
  BY DEF HeartbeatStep, ReadClock, FindOverdue, DropOverdue
<1>2. AcceptCalm /\ hb.pc \notin {"off", "done"}
  BY <1>1 DEF AcceptCalm, HeartbeatStep, ReadClock, FindOverdue, DropOverdue
<1>3. hb \in [pc : {"off", "wait", "timing", "dropping", "done"}, overdue : SUBSET Keys]
  BY DEF IInv, TypeOK
<1>4. ASSUME Fewer, Sound /\ AnchoredKept => TimedOut' PROVE NInv'
  <2>1. Phases' BY <1>1, <1>2, <1>4 DEF NInv, Phases, mainVars, Fewer
  <2>2. Sound => (snd'.pc \in {"send", "sending", "drop"} => Sent')
    BY <1>1, <1>4, FewerOnward, SenderAlone DEF Sound, IInv, NInv
  <2> QED BY <1>1, <1>2, <1>4, <2>1, <2>2, OtherStep DEF mainVars
<1>5. CASE ReadClock
  <2>1. Fewer
    <3>1. CASE running BY <1>5, <3>1 DEF ReadClock, Fewer, IInv, TypeOK, Entry
    <3>2. CASE ~running BY <1>5, <3>2 DEF ReadClock, Fewer
    <3> QED BY <3>1, <3>2
  <2>2. hb'.overdue = hb.overdue /\ suspect' = suspect BY <1>3, <1>5 DEF ReadClock
  <2>3. Sound /\ AnchoredKept => TimedOut'
    BY <1>1, <2>1, <2>2, FewerOnward, CheckerAlone DEF Sound, IInv
  <2> QED BY <1>4, <2>1, <2>3
<1>6. CASE FindOverdue
  <2>1. Fewer BY <1>6 DEF FindOverdue, Fewer, IInv, TypeOK, Entry
  <2>2. \A c \in Conns : Onward(c) BY <1>1, <2>1, FewerOnward DEF IInv
  <2>3. /\ hb'.overdue = Overdue
        /\ \A n \in Overdue : nodes[n].fd # None => owner[nodes[n].fd] \in suspect'
    BY <1>6 DEF FindOverdue, Overdue
  <2>4. ASSUME Sound, AnchoredKept PROVE TimedOut'
    <3> SUFFICES ASSUME NEW n \in Overdue
                 PROVE  \E c \in Conns :
                   /\ Entitled(n, c)'
                   /\ \/ Gone(c)'
                      \/ Accepted(c)' /\ (c \in suspect' \/ (Anchored(c)' /\ n # c))
      BY <2>3 DEF TimedOut
    <3>1. n \in DOMAIN nodes BY DEF Overdue
    <3>2. CASE nodes[n].fd # None
      <4>1. nodes[n].fd \in Fds /\ owner[nodes[n].fd] \in Conns
        BY <3>1, <3>2 DEF IInv, TypeOK, Entry, DescriptorsOwned
      <4>2. PICK c \in Conns : c = owner[nodes[n].fd] BY <4>1
      <4>3. Entitled(n, c) /\ Accepted(c)
        BY <2>4, <3>1, <3>2, <4>1, <4>2 DEF Sound, Named, NInv, OneEach, Open
      <4>4. Entitled(n, c)' /\ Accepted(c)'
        BY <2>2, <4>3 DEF Entitled, Onward
      <4> QED BY <2>3, <3>2, <4>2, <4>4
    <3>3. CASE nodes[n].fd = None
      <4>1. PICK c \in Conns :
              Entitled(n, c) /\ (Gone(c) \/ (Accepted(c) /\ Anchored(c) /\ n # c))
        BY <2>4, <3>1, <3>3 DEF Sound, Emptied
      <4>2. Accepted(c) BY <4>1 DEF Gone
      <4>3. Entitled(n, c)' /\ Accepted(c)' BY <2>2, <4>1, <4>2 DEF Entitled, Onward
      <4> QED BY <2>2, <2>4, <4>1, <4>3, GoneOnward DEF AnchoredKept
    <3> QED BY <3>2, <3>3
  <2> QED BY <1>4, <2>1, <2>4
<1>7. CASE DropOverdue
  <2>1. CASE hb.overdue = {}
    <3>1. Fewer /\ hb'.overdue = {}
      BY <1>3, <1>7, <2>1 DEF DropOverdue, Fewer, tableVars
    <3> QED BY <1>4, <3>1 DEF TimedOut
  <2>2. CASE hb.overdue # {}
    <3>1. PICK n \in hb.overdue :
            RemoveNode(n) /\ hb' = [hb EXCEPT !.overdue = @ \ {n}] /\ UNCHANGED suspect
      BY <1>7, <2>2 DEF DropOverdue
    <3>2. Fewer BY <1>3, <3>1, RemoveFewer DEF IInv
    <3>3. hb'.overdue \subseteq hb.overdue BY <1>3, <3>1
    <3>4. Sound /\ AnchoredKept => TimedOut'
      BY <1>1, <3>1, <3>2, <3>3, FewerOnward, CheckerAlone DEF Sound, IInv
    <3> QED BY <1>4, <3>2, <3>4
  <2> QED BY <2>1, <2>2
<1> QED BY <1>5, <1>6, <1>7 DEF HeartbeatStep

\* start(): the threads have met nobody yet.
LEMMA StartNames ==
  ASSUME IInv, IInv', NInv, Start PROVE NInv'
<1> USE DEF NInv
<1>1. main = "idle" /\ main' = "serving" /\ UNCHANGED <<peerVars, tableVars, suspect>>
  BY DEF Start
<1>2. /\ acc'.pc = "check" /\ rcv'.pc = "check" /\ snd'.pc = "check" /\ hb'.pc = "wait"
      /\ rcv'.scan = {} /\ rcv'.failed = {} /\ hb'.overdue = {}
  BY <1>1 DEF Start, IInv, TypeOK, Phases
<1>3. Fewer /\ AcceptCalm
  BY <1>1, <1>2 DEF Fewer, AcceptCalm, tableVars, Phases
<1>4. \A c \in Conns : Onward(c) BY <1>1, <1>3, FewerOnward DEF IInv
<1>5. OneEach' BY <1>1, <1>3, <1>4, FewerOneEach DEF peerVars
<1>6. \A n \in DOMAIN nodes' : nodes'[n].fd # None
  BY <1>1 DEF Phases, tableVars
<1>7. Phases' BY <1>1, <1>2, <1>6 DEF Phases
<1>8. ASSUME DistinctClaims' PROVE Sound'
  <2>1. Sound BY <1>1, <1>8 DEF DistinctClaims, peerVars
  <2>2. Found' /\ LastOne' /\ Named'
    BY <1>1, <1>3, <1>4, <2>1, FewerTable DEF IInv, Late
  <2>3. Emptied' BY <1>6 DEF Emptied
  <2>4. Scanned' /\ Received' BY <1>2 DEF Scanned, Received
  <2>5. TimedOut' BY <1>2 DEF TimedOut
  <2> QED BY <1>2, <2>2, <2>3, <2>4, <2>5 DEF Sound
<1> QED BY <1>5, <1>7, <1>8

\* stop() announces itself, or nothing happens.
LEMMA CalmNames ==
  ASSUME IInv, IInv', NInv, BeginStop \/ Unlisten \/ UNCHANGED vars PROVE NInv'
<1>1. /\ UNCHANGED <<peerVars, tableVars, acc, rcv, snd, hb, suspect>>
      /\ main' = main \/ (main \notin Late /\ main' \notin Late)
  BY DEF BeginStop, Unlisten, vars, mainVars, Late
<1>2. Fewer /\ AcceptCalm BY <1>1 DEF Fewer, AcceptCalm, tableVars
<1>3. Phases'
  <2>1. CASE BeginStop BY <1>1, <2>1 DEF BeginStop, NInv, Phases, tableVars
  <2>2. CASE Unlisten BY <1>1, <2>2 DEF Unlisten, NInv, Phases, tableVars
  <2>3. CASE UNCHANGED vars BY <1>1, <2>3 DEF vars, mainVars, NInv, Phases, tableVars
  <2> QED BY <2>1, <2>2, <2>3
<1>4. Sound /\ AnchoredKept => TimedOut'
  BY <1>1, <1>2, FewerOnward, CheckerAlone DEF Sound, IInv
<1>5. Sound => (snd'.pc \in {"send", "sending", "drop"} => Sent')
  BY <1>1, <1>2, FewerOnward, SenderAlone DEF Sound, IInv, NInv
<1> QED BY <1>1, <1>2, <1>3, <1>4, <1>5, OtherStep

\* stop() closes what is in the table: all but what the accept thread has.
LEMMA CloseNames ==
  ASSUME IInv, IInv', NInv, CloseNodes PROVE NInv'
<1> USE DEF NInv
<1> DEFINE closed == {nodes[n].fd : n \in DOMAIN nodes}
<1>1. /\ main = "close_nodes" /\ main' = "join" /\ owner' = Closed(closed)
      /\ nodes' = [n \in DOMAIN nodes |-> [nodes[n] EXCEPT !.fd = None]]
      /\ UNCHANGED <<peerVars, running, acc, rcv, snd, hb, suspect>>
  BY DEF CloseNodes
<1>2. /\ DOMAIN nodes' = DOMAIN nodes
      /\ \A n \in DOMAIN nodes : nodes'[n].fd = None
  BY <1>1 DEF IInv, TypeOK, Entry
<1>3. \A f \in Fds : owner'[f] = IF f \in closed THEN None ELSE owner[f]
  BY <1>1 DEF Closed
<1>4. \A c \in Conns : Onward(c) BY <1>1, <1>3, ClosingOnward DEF IInv
<1>5. OneEach'
  <2>1. \A c \in Conns : Open(c)' => Open(c) BY <1>3, NamesApart DEF Open
  <2> QED BY <1>1, <1>3, <2>1 DEF OneEach, Accepted, peerVars
<1>6. Phases' BY <1>1 DEF Phases
<1>7. ASSUME DistinctClaims' PROVE Sound'
  <2>1. Sound BY <1>1, <1>7 DEF DistinctClaims, peerVars
  <2> USE <2>1 DEF Sound
  <2>2. \A f \in Fds : owner'[f] # None => acc.pc = "accepted" /\ acc.fd = f
    BY <1>1, <1>3 DEF Found, InTable
  <2>3. Found' /\ LastOne' BY <1>1, <2>2 DEF Found, LastOne
  <2>4. Named' BY <1>2 DEF Named
  <2>5. Emptied'
    <3> SUFFICES ASSUME NEW n \in DOMAIN nodes
                 PROVE  \E c \in Conns : Entitled(n, c)' /\ Gone(c)'
      BY <1>2 DEF Emptied
    <3>1. nodes[n].fd # None BY <1>1 DEF Phases
    <3>2. nodes[n].fd \in Fds /\ owner[nodes[n].fd] \in Conns
      BY <3>1 DEF IInv, TypeOK, Entry, DescriptorsOwned
    <3>3. PICK c \in Conns : c = owner[nodes[n].fd] BY <3>2
    <3>4. Entitled(n, c) /\ Accepted(c) BY <3>1, <3>2, <3>3 DEF Named, OneEach, Open
    <3>5. ~Open(c)' BY <1>3, <3>2, <3>3, NamesApart DEF OneEach, Open
    <3> QED BY <1>4, <3>4, <3>5 DEF Entitled, Onward, Gone
  <2>6. UnscannedKept BY <1>1, <1>2 DEF UnscannedKept, Unscanned, Entitled, peerVars
  <2>7. AnchoredKept BY <1>1 DEF AnchoredKept, Anchored
  <2>8. NewcomersOnly BY <1>3 DEF NewcomersOnly
  <2>9. Scanned' /\ Received' BY <1>1, <1>4, <2>6, <2>8, ReceiverAlone DEF IInv
  <2>10. TimedOut' BY <1>1, <1>4, <2>7, CheckerAlone
  <2>11. snd'.pc \in {"send", "sending", "drop"} => Sent'
    BY <1>1, <1>4, SenderAlone DEF IInv
  <2> QED BY <2>3, <2>4, <2>5, <2>9, <2>10, <2>11
<1> QED BY <1>5, <1>6, <1>7

\* stop() returns, and forgets the table.
LEMMA JoinNames ==
  ASSUME IInv, IInv', NInv, JoinThreads PROVE NInv'
<1> USE DEF NInv
<1>1. /\ main = "join" /\ main' = "stopped" /\ DOMAIN nodes' = {}
      /\ \A thread \in {acc, rcv, snd, hb} : thread.pc = "done"
      /\ UNCHANGED <<peerVars, owner, running, acc, rcv, snd, hb, suspect>>
  BY DEF JoinThreads, EmptyTable
<1>2. \A c \in Conns : Onward(c) BY <1>1 DEF Onward, Accepted, peerVars
<1>3. OneEach' BY <1>1 DEF OneEach, Open, Accepted, peerVars
<1>4. Phases' BY <1>1 DEF Phases
<1>5. ASSUME DistinctClaims' PROVE Sound'
  <2>1. Sound BY <1>1, <1>5 DEF DistinctClaims, peerVars
  <2> USE <2>1 DEF Sound
  <2>2. Found' BY <1>1 DEF Found
  <2>3. LastOne' BY <1>1 DEF LastOne
  <2>4. Named' /\ Emptied' BY <1>1 DEF Named, Emptied
  <2>5. UnscannedKept BY <1>1 DEF UnscannedKept, Unscanned, Entitled, peerVars
  <2>6. AnchoredKept BY <1>1, <2>5 DEF AnchoredKept, UnscannedKept, Anchored
  <2>7. NewcomersOnly BY <1>1 DEF NewcomersOnly
  <2>8. Scanned' /\ Received' BY <1>1, <1>2, <2>5, <2>7, ReceiverAlone DEF IInv
  <2>9. TimedOut' BY <1>1, <1>2, <2>6, CheckerAlone
  <2> QED BY <1>1, <2>2, <2>3, <2>4, <2>8, <2>9
<1> QED BY <1>3, <1>4, <1>5

\* A frame whose entry keeps its name, or is gone: only the peer has moved on.
LEMMA FrameKeeps ==
  ASSUME IInv, IInv', NInv, DistinctClaims, \A c \in Conns : Onward(c),
         Fewer, rcv.pc = "reading", rcv'.pc = "scan", rcv'.scan = rcv.scan,
         UNCHANGED <<owner, mainVars, acc>>
  PROVE  Found' /\ Named' /\ Emptied' /\ UnscannedKept
<1> USE DEF NInv, Sound
<1>1. AcceptCalm /\ main' = main BY DEF AcceptCalm, mainVars
<1>2. Found' /\ Named' BY <1>1, FewerTable DEF IInv
<1>3. UnscannedKept BY UnscannedOne DEF UnscannedKept, Onward, IInv
<1>4. AnchoredKept
  BY <1>1, <1>3 DEF AnchoredKept, UnscannedKept, Anchored
<1>5. Emptied' BY <1>4, EmptiedAlone DEF Fewer
<1> QED BY <1>2, <1>3, <1>5

\* A frame that renames its entry overwrites no live one, and what it renames
\* is its own connection's: the frame may have come over another connection
\* than the entry's only if stop() has emptied that.
LEMMA FrameRenames ==
  ASSUME IInv, IInv', NInv, DistinctClaims, \A c \in Conns : Onward(c),
         rcv.pc = "reading", rcv'.pc = "scan", rcv'.scan = rcv.scan,
         UNCHANGED <<claim, owner, mainVars, acc>>,
         NEW new \in Names, new = claim[rcv.conn], rcv.name \in DOMAIN nodes,
         new # rcv.name, DOMAIN nodes' = (DOMAIN nodes \ {rcv.name}) \union {new},
         nodes'[new].fd = nodes[rcv.name].fd,
         \A n \in DOMAIN nodes' \ {new} : nodes'[n] = nodes[n]
  PROVE  Found' /\ Named' /\ Emptied' /\ UnscannedKept
<1> USE DEF NInv, Sound
<1>1. /\ rcv.conn \in Conns /\ new # None /\ new \notin Conns
      /\ main' = main
  BY NamesApart DEF IInv, Busy, mainVars
<1>2. Accepted(rcv.conn) /\ Entitled(new, rcv.conn)
  BY <1>1 DEF Received, Entitled
<1>3. PICK c \in Conns : /\ Entitled(rcv.name, c) /\ Accepted(c)
                         /\ Open(c) => rcv.conn = c
  BY DEF Received
<1>4. \A n \in DOMAIN nodes : nodes[n].fd # None =>
        /\ nodes[n].fd \in Fds /\ owner[nodes[n].fd] \in Conns
        /\ Entitled(n, owner[nodes[n].fd])
  BY DEF IInv, TypeOK, Entry, DescriptorsOwned, Named
<1>5. ASSUME nodes[rcv.name].fd # None
      PROVE  owner[nodes[rcv.name].fd] = rcv.conn /\ Entitled(rcv.name, rcv.conn)
  <2>1. owner[nodes[rcv.name].fd] = c BY <1>3, <1>4, <1>5, OneMeant DEF IInv
  <2> QED BY <1>3, <1>4, <1>5, <2>1 DEF Open
<1>6. ASSUME nodes[rcv.name].fd = None, Open(rcv.conn)
      PROVE  main = "join" /\ Unscanned(rcv.conn)
  <2>1. PICK d \in Conns :
          /\ Entitled(rcv.name, d)
          /\ Gone(d) \/ (Accepted(d) /\ Anchored(d) /\ rcv.name # d)
    BY <1>6 DEF Emptied
  <2>2. Gone(d) BY <2>1 DEF Anchored, Unscanned
  <2>3. ~Entitled(rcv.name, rcv.conn)
    BY <1>1, <1>6, <2>1, <2>2, OneMeant DEF Gone, IInv
  <2> QED BY <1>6, <2>3 DEF Received, Phases
<1>7. new \in DOMAIN nodes => nodes[new].fd = None
  <2> SUFFICES ASSUME new \in DOMAIN nodes, nodes[new].fd # None PROVE FALSE OBVIOUS
  <2>1. owner[nodes[new].fd] = rcv.conn
    BY <1>1, <1>2, <1>4, OneMeant DEF IInv
  <2>2. CASE nodes[rcv.name].fd # None
    <3>1. nodes[rcv.name].fd = nodes[new].fd
      BY <1>1, <1>4, <1>5, <2>1, <2>2, NamesApart DEF OneEach
    <3> QED BY <2>2, <3>1 DEF IInv, DescriptorsOwned
  <2>3. CASE nodes[rcv.name].fd = None
    <3>1. Unscanned(rcv.conn) BY <1>4, <1>6, <2>1, <2>3 DEF Open
    <3> QED BY <1>1, <2>1, <3>1 DEF Unscanned
  <2> QED BY <2>2, <2>3
<1>8. Found'
  <2> SUFFICES ASSUME main # "stopped", NEW f \in Fds, owner[f] # None
               PROVE  InTable(f)' \/ (acc.pc = "accepted" /\ acc.fd = f)
    BY <1>1 DEF Found
  <2>1. CASE InTable(f)
    <3>1. PICK n \in DOMAIN nodes : nodes[n].fd = f BY <2>1 DEF InTable
    <3>2. n # new BY <1>7, <3>1, NamesApart
    <3>3. CASE n = rcv.name BY <3>1, <3>3 DEF InTable
    <3>4. CASE n # rcv.name BY <3>1, <3>2, <3>4 DEF InTable
    <3> QED BY <3>3, <3>4
  <2> QED BY <2>1 DEF Found
<1>9. Named'
  <2> SUFFICES ASSUME NEW n \in DOMAIN nodes', nodes'[n].fd # None
               PROVE  Entitled(n, owner[nodes'[n].fd])
    BY DEF Named, Entitled
  <2>1. CASE n = new BY <1>2, <1>5, <2>1
  <2>2. CASE n # new BY <1>4, <2>2
  <2> QED BY <2>1, <2>2
<1>10. UnscannedKept
  <2> SUFFICES ASSUME NEW d \in Conns, Unscanned(d) PROVE Unscanned(d)'
    BY DEF UnscannedKept
  <2>1. ASSUME NEW n \in DOMAIN nodes', nodes'[n].fd # None, owner[nodes'[n].fd] = d
        PROVE  n = d
    <3>1. n # new BY <1>5, <2>1 DEF Unscanned
    <3> QED BY <2>1, <3>1 DEF Unscanned
  <2> QED BY <2>1 DEF Unscanned, Entitled
<1>11. AnchoredKept
  BY <1>1, <1>10 DEF AnchoredKept, UnscannedKept, Anchored
<1>12. Emptied'
  <2> SUFFICES ASSUME NEW n \in DOMAIN nodes', nodes'[n].fd = None
               PROVE  \E d \in Conns : /\ Entitled(n, d)'
                                       /\ \/ Gone(d)'
                                          \/ Accepted(d)' /\ Anchored(d)' /\ n # d
    BY DEF Emptied
  <2>1. CASE n = new
    <3>1. PICK d \in Conns : d = rcv.conn BY <1>1
    <3>2. Entitled(n, d)' /\ Accepted(d)' /\ n # d
      BY <1>1, <1>2, <2>1, <3>1 DEF Entitled, Onward
    <3>3. CASE ~Open(d)
      <4>1. Gone(d) BY <1>2, <3>1, <3>3 DEF Gone
      <4> QED BY <3>2, <4>1, GoneOnward
    <3>4. CASE Open(d)
      <4>1. main = "join" /\ Unscanned(d) BY <1>6, <2>1, <3>1, <3>4
      <4>2. Anchored(d)' BY <1>1, <1>2, <1>10, <3>1, <4>1 DEF UnscannedKept, Anchored
      <4> QED BY <3>2, <4>2
    <3> QED BY <3>3, <3>4
  <2>2. CASE n # new
    <3>1. n \in DOMAIN nodes /\ nodes[n].fd = None BY <2>2
    <3>2. PICK d \in Conns :
            Entitled(n, d) /\ (Gone(d) \/ (Accepted(d) /\ Anchored(d) /\ n # d))
      BY <3>1 DEF Emptied
    <3>3. Accepted(d) BY <3>2 DEF Gone
    <3>4. Entitled(n, d)' /\ Accepted(d)' BY <3>2, <3>3 DEF Entitled, Onward
    <3> QED BY <1>11, <3>2, <3>4, GoneOnward DEF AnchoredKept
  <2> QED BY <2>1, <2>2
<1> QED BY <1>8, <1>9, <1>10, <1>12

\* A frame is handled.
LEMMA FrameNames ==
  ASSUME IInv, IInv', NInv, ReceiveFrame PROVE NInv'
<1> USE DEF NInv
<1>1. /\ rcv.pc = "reading" /\ line[rcv.conn] = "frame"
      /\ line' = [line EXCEPT ![rcv.conn] = "idle"]
      /\ rcv' = [rcv EXCEPT !.pc = "scan", !.name = None, !.conn = None]
      /\ UNCHANGED <<claim, owner, mainVars, acc, snd, hb, suspect>>
  BY DEF ReceiveFrame
<1>2. /\ rcv'.pc = "scan" /\ rcv'.scan = rcv.scan /\ rcv'.failed = rcv.failed
      /\ rcv.conn \in Conns /\ main' = main
  BY <1>1 DEF IInv, TypeOK, Busy, mainVars
<1>3. /\ line'[rcv.conn] = "idle"
      /\ \A d \in Conns \ {rcv.conn} : line'[d] = line[d]
  BY <1>1, <1>2 DEF IInv, TypeOK
<1>4. \A d \in Conns : Onward(d) BY <1>1, <1>3 DEF Onward, Accepted
<1>5. OneEach'
  <2>1. \A d \in Conns : Open(d)' => Open(d) BY <1>1 DEF Open
  <2>2. \A d \in Conns : Open(d)' => Accepted(d)' BY <1>4, <2>1 DEF OneEach, Onward
  <2>3. \A d \in Conns : line'[d] = "absent" => claim'[d] = None
    BY <1>1, <1>3 DEF OneEach
  <2> QED BY <1>1, <2>2, <2>3 DEF OneEach
<1>6. \/ Fewer
      \/ \E new \in Names :
           /\ new = claim[rcv.conn] /\ rcv.name \in DOMAIN nodes /\ new # rcv.name
           /\ DOMAIN nodes' = (DOMAIN nodes \ {rcv.name}) \union {new}
           /\ nodes'[new].fd = nodes[rcv.name].fd
           /\ \A n \in DOMAIN nodes' \ {new} : nodes'[n] = nodes[n]
  <2>1. CASE UNCHANGED nodes BY <1>1, <2>1 DEF Fewer
  <2>2. CASE ~ UNCHANGED nodes
    <3>1. PICK source \in {claim[rcv.conn], None}, stamp \in Stamps :
            rcv.name \in DOMAIN nodes /\ Stamp(source, stamp)
      BY <2>2 DEF ReceiveFrame
    <3>2. nodes[rcv.name] \in Entry /\ source \in Names \union {None}
      BY <1>2, <3>1 DEF IInv, TypeOK
    <3>3. /\ DOMAIN nodes' = (DOMAIN nodes \ {rcv.name}) \union {NewName(source)}
          /\ nodes'[NewName(source)].fd = nodes[rcv.name].fd
          /\ \A n \in DOMAIN nodes' \ {NewName(source)} : nodes'[n] = nodes[n]
      BY <3>1, <3>2 DEF Stamp, Entry
    <3>4. CASE NewName(source) = rcv.name
      BY <1>1, <3>1, <3>3, <3>4 DEF Fewer
    <3>5. CASE NewName(source) # rcv.name
      <4>1. source \in Names /\ source = claim[rcv.conn] /\ NewName(source) = source
        BY <3>1, <3>2, <3>5 DEF NewName
      <4> QED BY <3>1, <3>3, <3>5, <4>1
    <3> QED BY <3>4, <3>5
  <2> QED BY <2>1, <2>2
<1>7. Phases'
  <2>1. ASSUME NEW n \in DOMAIN nodes', nodes'[n].fd = None PROVE main = "join"
    <3>1. CASE Fewer BY <2>1, <3>1 DEF Fewer, Phases
    <3>2. CASE ~Fewer BY <1>6, <2>1, <3>2 DEF Phases
    <3> QED BY <3>1, <3>2
  <2> QED BY <1>1, <1>2, <2>1 DEF Phases, mainVars
<1>8. ASSUME DistinctClaims' PROVE Sound'
  <2>1. DistinctClaims /\ Sound BY <1>1, <1>8 DEF DistinctClaims
  <2> USE <2>1 DEF Sound
  <2>2. Found' /\ Named' /\ Emptied' /\ UnscannedKept
    <3>1. CASE Fewer BY <1>1, <1>2, <1>4, <3>1, FrameKeeps
    <3>2. CASE ~Fewer
      <4>1. PICK new \in Names :
           /\ new = claim[rcv.conn] /\ rcv.name \in DOMAIN nodes /\ new # rcv.name
           /\ DOMAIN nodes' = (DOMAIN nodes \ {rcv.name}) \union {new}
           /\ nodes'[new].fd = nodes[rcv.name].fd
           /\ \A n \in DOMAIN nodes' \ {new} : nodes'[n] = nodes[n]
        BY <1>6, <3>2
      <4>2. UNCHANGED <<claim, owner, mainVars, acc>> BY <1>1
      <4> QED BY <1>1, <1>2, <1>4, <4>1, <4>2, FrameRenames
    <3> QED BY <3>1, <3>2
  <2>3. AnchoredKept
    BY <1>2, <2>2 DEF AnchoredKept, UnscannedKept, Anchored
  <2>4. LastOne' BY <1>1, <1>2 DEF LastOne
  <2>5. Scanned'
    <3> SUFFICES ASSUME NEW p \in rcv.scan
                 PROVE  /\ \E c \in Conns : /\ Entitled(p[1], c)' /\ Accepted(c)'
                                            /\ Open(c)' => owner[p[2]] = c
                        /\ owner[p[2]] # None /\ ~Entitled(p[1], owner[p[2]])'
                             => Unscanned(owner[p[2]])'
      BY <1>1, <1>2 DEF Scanned
    <3>1. \A n, c : Entitled(n, c)' <=> Entitled(n, c) BY <1>1 DEF Entitled
    <3>2. \A c : Open(c)' <=> Open(c) BY <1>1 DEF Open
    <3>3. PICK c \in Conns : /\ Entitled(p[1], c) /\ Accepted(c)
                             /\ Open(c) => owner[p[2]] = c
      BY DEF Scanned
    <3>4. ASSUME owner[p[2]] # None, ~Entitled(p[1], owner[p[2]])
          PROVE  Unscanned(owner[p[2]])'
      <4>1. PICK d \in Conns : d = owner[p[2]]
        BY <3>4 DEF IInv, TypeOK
      <4>2. Unscanned(d) BY <3>4, <4>1 DEF Scanned
      <4>3. Accepted(d) BY <4>1 DEF OneEach, Open, IInv, TypeOK
      <4> QED BY <1>1, <2>2, <4>1, <4>2, <4>3 DEF UnscannedKept
    <3>5. Entitled(p[1], owner[p[2]])' <=> Entitled(p[1], owner[p[2]])
      BY <1>1 DEF Entitled
    <3> QED BY <1>4, <3>1, <3>2, <3>3, <3>4, <3>5 DEF Onward
  <2>6. Received'
    <3> SUFFICES ASSUME NEW n \in rcv.failed
                 PROVE  \E c \in Conns : Entitled(n, c)' /\ (Gone(c)' \/ line'[c] = "broken")
      BY <1>2 DEF Received
    <3>1. PICK c \in Conns : Entitled(n, c) /\ (Gone(c) \/ line[c] = "broken")
      BY DEF Received
    <3> QED BY <1>1, <1>4, <3>1, GoneOnward DEF Entitled, Onward
  <2>7. TimedOut' BY <1>1, <1>4, <2>3, CheckerAlone
  <2>8. snd'.pc \in {"send", "sending", "drop"} => Sent'
    BY <1>1, <1>4, SenderAlone DEF IInv
  <2> QED BY <2>2, <2>4, <2>5, <2>6, <2>7, <2>8
<1> QED BY <1>5, <1>7, <1>8

-----------------------------------------------------------------------------
(* The theorems.                                                           *)

LEMMA InitNames == Init => NInv
<1> SUFFICES ASSUME Init PROVE NInv OBVIOUS
<1>1. DOMAIN nodes = {} /\ \A f \in Fds : owner[f] = None
  BY DEF Init, EmptyTable
<1>2. OneEach
  <2>1. \A c \in Conns : ~Open(c) BY <1>1, NamesApart DEF Open
  <2> QED BY <1>1, <2>1 DEF OneEach, Init
<1>3. Phases BY <1>1 DEF Phases, Init
<1>4. Found /\ LastOne /\ Named /\ Emptied
  BY <1>1 DEF Found, LastOne, Named, Emptied
<1>5. Scanned /\ Received /\ TimedOut /\ snd.pc = "off"
  BY DEF Scanned, Received, TimedOut, Init
<1> QED BY <1>2, <1>3, <1>4, <1>5 DEF NInv, Sound

LEMMA StepNames == IInv /\ NInv /\ [Next]_vars => NInv'
<1> SUFFICES ASSUME IInv, NInv, [Next]_vars PROVE NInv' OBVIOUS
<1>1. IInv' BY NextInv
<1>2. ASSUME NEW c \in Conns, Connect(c) \/ Arrive(c) PROVE NInv'
  BY <1>1, <1>2, PeerNames
<1>3. CASE AcceptStep
  BY <1>1, <1>3, LoopNames, AcceptNames, AddNames DEF AcceptStep
<1>4. CASE ReceiveStep
  BY <1>1, <1>4, LookNames, FrameNames, DropFailedNames DEF ReceiveStep
<1>5. CASE SendStep \/ SendSucceeds
  BY <1>1, <1>5, SendNames, DropDestinationNames DEF SendStep
<1>6. CASE HeartbeatStep BY <1>1, <1>6, HeartbeatNames
<1>7. CASE Start BY <1>1, <1>7, StartNames
<1>8. CASE BeginStop \/ UNCHANGED vars BY <1>1, <1>8, CalmNames
<1>9. CASE StopStep
  BY <1>1, <1>9, CalmNames, CloseNames, JoinNames DEF StopStep
<1> QED BY <1>2, <1>3, <1>4, <1>5, <1>6, <1>7, <1>8, <1>9 DEF Next

\* What the threads remember of connections holds throughout.
THEOREM NamesInvariance == Spec => [](IInv /\ NInv)
<1> QED BY InitInv, InitNames, NextInv, StepNames, PTL DEF Spec

\* However many connections, names and descriptors there are, and whether or
\* not closing a socket wakes who waits for it: with distinct names every open
\* descriptor is in nodes_ or with the accept thread, and stop() leaves one
\* open at most.
THEOREM NoneLost == Spec => []NoDescriptorLost
<1>1. IInv /\ NInv => NoDescriptorLost
  <2> SUFFICES ASSUME IInv, NInv, DistinctClaims
               PROVE  IF main = "stopped"
                        THEN Cardinality({f \in Fds : owner[f] # None}) <= 1
                        ELSE \A f \in Fds : owner[f] # None =>
                               InTable(f) \/ (acc.pc = "accepted" /\ acc.fd = f)
    BY DEF NoDescriptorLost
  <2>1. Found /\ LastOne BY DEF NInv, Sound
  <2>2. CASE main = "stopped"
    <3> DEFINE left == {f \in Fds : owner[f] # None}
    <3>1. CASE left = {}
      <4>1. Cardinality(left) = 0 BY <3>1, FS_EmptySet
      <4> QED BY <2>2, <4>1
    <3>2. CASE left # {}
      <4>1. PICK f \in Fds : owner[f] # None BY <3>2
      <4>2. left = {f} BY <2>1, <2>2, <4>1 DEF LastOne
      <4>3. Cardinality(left) = 1 BY <4>2, FS_Singleton
      <4> QED BY <2>2, <4>3
    <3> QED BY <3>1, <3>2
  <2>3. CASE main # "stopped" BY <2>1, <2>3 DEF Found
  <2> QED BY <2>2, <2>3
<1> QED BY <1>1, NamesInvariance, PTL

\* removeNode closes the connection that is meant by the name it is given.
LEMMA RemoveCloses ==
  ASSUME IInv, NInv, DistinctClaims, NEW n \in Keys, RemoveNode(n),
         NEW c \in Conns, Open(c), ~Open(c)'
  PROVE  /\ n \in DOMAIN nodes /\ nodes[n].fd # None /\ owner[nodes[n].fd] = c
         /\ \A d \in Conns : Entitled(n, d) => d = c
<1>1. PICK f \in Fds : owner[f] = c BY DEF Open
<1>2. n \in DOMAIN nodes /\ owner' = Closed({nodes[n].fd})
  BY DEF RemoveNode, tableVars, Open
<1>3. nodes[n].fd = f BY <1>1, <1>2 DEF Closed, Open
<1>4. nodes[n].fd # None BY <1>3, NamesApart
<1>5. Entitled(n, c) BY <1>1, <1>2, <1>3, <1>4 DEF NInv, Sound, Named
<1> QED BY <1>1, <1>2, <1>3, <1>4, <1>5, OneMeant DEF IInv

\* However many connections, names and descriptors there are: with distinct
\* names the threads close, by way of a name or a descriptor they remember,
\* only a connection that has broken or that was overdue when they looked.
THEOREM DropsEarned == Spec => DropsAreEarned
<1>1. ASSUME IInv, NInv, [Next]_vars, DistinctClaims, ~CloseNodes,
             NEW c \in Conns, Open(c), ~Open(c)'
      PROVE  line[c] = "broken" \/ c \in suspect
  <2> USE DEF NInv, Sound
  <2>1. CASE DropFailed
    <3>1. PICK n \in rcv.failed : RemoveNode(n)
      BY <1>1, <2>1 DEF DropFailed, Open, tableVars
    <3>2. PICK d \in Conns : Entitled(n, d) /\ (Gone(d) \/ line[d] = "broken")
      BY <1>1 DEF Received
    <3>3. n \in Keys BY <1>1 DEF IInv, TypeOK
    <3> QED BY <1>1, <3>1, <3>2, <3>3, RemoveCloses DEF Gone
  <2>2. CASE DropDestination
    <3>1. RemoveNode(snd.dest) /\ snd.pc = "drop" BY <2>2 DEF DropDestination
    <3>2. PICK d \in Conns : /\ Entitled(snd.dest, d)
                             /\ Open(d) => line[d] = "broken"
      BY <1>1, <3>1 DEF Sent
    <3>3. snd.dest \in Keys BY <1>1, <3>1 DEF IInv, Busy, Keys
    <3> QED BY <1>1, <3>1, <3>2, <3>3, RemoveCloses
  <2>3. CASE DropOverdue
    <3>1. PICK n \in hb.overdue : RemoveNode(n)
      BY <1>1, <2>3 DEF DropOverdue, Open, tableVars
    <3>2. PICK d \in Conns :
            /\ Entitled(n, d)
            /\ Gone(d) \/ (Accepted(d) /\ (d \in suspect \/ (Anchored(d) /\ n # d)))
      BY <1>1 DEF TimedOut
    <3>3. n \in Keys BY <1>1 DEF IInv, TypeOK
    <3>4. /\ d = c /\ n \in DOMAIN nodes /\ nodes[n].fd # None
          /\ owner[nodes[n].fd] = c
      BY <1>1, <3>1, <3>2, <3>3, RemoveCloses
    <3> QED BY <1>1, <3>2, <3>4 DEF Gone, Anchored, Unscanned
  <2>4. ASSUME \A f \in Fds : owner[f] # None => owner'[f] = owner[f] PROVE FALSE
    BY <1>1, <2>4, NamesApart DEF Open
  <2>5. ASSUME UNCHANGED owner PROVE FALSE BY <2>4, <2>5
  <2>6. ASSUME AcceptConnection PROVE FALSE
    <3>1. PICK d \in Conns, f \in Fds :
            owner[f] = None /\ owner' = [owner EXCEPT ![f] = d]
      BY <2>6 DEF AcceptConnection
    <3>2. \A g \in Fds \ {f} : owner'[g] = owner[g] BY <1>1, <3>1 DEF IInv, TypeOK
    <3> QED BY <2>4, <3>1, <3>2
  <2>7. ASSUME NEW d \in Conns, Connect(d) \/ Arrive(d) PROVE FALSE
    BY <2>5, <2>7 DEF Connect, Arrive, tableVars
  <2>8. ASSUME AcceptLoop \/ AcceptFails \/ AddNode PROVE FALSE
    BY <2>5, <2>8 DEF AcceptLoop, AcceptFails, AddNode, tableVars
  <2>9. ASSUME \/ ReceiveCheck \/ Snapshot \/ Select
               \/ StartReceive \/ ReceiveFails \/ ReceiveFrame
        PROVE FALSE
    BY <2>5, <2>9 DEF ReceiveCheck, Snapshot, Select, StartReceive,
                      ReceiveFails, ReceiveFrame, tableVars
  <2>10. ASSUME SendCheck \/ Pop \/ StartSend \/ SendSucceeds \/ SendFails PROVE FALSE
    BY <2>5, <2>10 DEF SendCheck, Pop, StartSend, SendSucceeds, SendFails, tableVars
  <2>11. ASSUME ReadClock \/ FindOverdue PROVE FALSE
    BY <2>5, <2>11 DEF ReadClock, FindOverdue
  <2>12. ASSUME \/ Start \/ BeginStop \/ Unlisten \/ JoinThreads \/ UNCHANGED vars
         PROVE FALSE
    BY <2>5, <2>12 DEF Start, BeginStop, Unlisten, JoinThreads, vars, tableVars
  <2> QED
    BY <1>1, <2>1, <2>2, <2>3, <2>6, <2>7, <2>8, <2>9, <2>10, <2>11, <2>12
       DEF Next, AcceptStep, ReceiveStep, SendStep, HeartbeatStep, StopStep
<1>2. IInv /\ NInv /\ [Next]_vars =>
        [DistinctClaims /\ ~CloseNodes =>
           \A c \in Conns : Open(c) /\ ~Open(c)' => line[c] = "broken" \/ c \in suspect]_vars
  BY <1>1
<1> QED BY <1>2, NamesInvariance, PTL DEF Spec, DropsAreEarned
=============================================================================
