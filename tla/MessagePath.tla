----------------------------- MODULE MessagePath ------------------------------
(***************************************************************************)
(* The way of a message to a node that is not in this process:             *)
(* sendMessage completes its header and queues it, the send thread takes   *)
(* the most urgent, writes it to the node's socket as a frame, and the     *)
(* node's receive thread reads frames out of the bytes that arrive.        *)
(*                                                                         *)
(* What is sent is a sequence of cells: one for each number and for each   *)
(* character.  The lengths before the two ids have one byte, whose size is *)
(* a constant here.  Other nodes are never connected.  Who opens and       *)
(* closes the connection, and when, is in InterSatComm.                    *)
(***************************************************************************)
EXTENDS Naturals, Sequences, FiniteSets

CONSTANTS
  Peer,       \* the node's id, a sequence of characters
  Self,       \* config_.node_id
  Outgoing,   \* the sets of calls of sendMessage that are tried: to and msg
  Arrives(_, _), \* which parts of n cells are tried, to get through at once
  Byte,       \* one more than the largest value of a byte
  MaxQueue,   \* max_size_
  MaxFrame,   \* kMaxFrameSizeBytes
  MaxClock,   \* bound on the time, in milliseconds
  MaxLinks    \* bound on the number of connections

\* What a call of sendMessage sets of a Message and its header.
Message == [type : Nat, sequence : Nat, time : Nat, source : Seq(Nat),
            dest : Seq(Nat), priority : Nat, payload : Seq(Nat)]

ASSUME PathAssumption ==
  /\ Self \in Seq(Nat) /\ Byte \in Nat \ {0} /\ MaxFrame \in Nat
  /\ \A calls \in Outgoing : \A call \in calls :
       call.to \in Seq(Nat) /\ call.msg \in Message

VARIABLES
  todo,       \* calls not yet made
  queue,      \* send_queue_, a set of messages and the times of their pushes
  clock,      \* system_clock, which is assumed not to be set back
  sequence_id,
  running,    \* running_, for the send thread
  links,      \* connections so far
  link,       \* "down", "up", or "broken": the peer is gone, its entry is not
  snd,        \* the send thread: the cells still to write, in two parts
  wire,       \* what has been written and not been read
  buffer,     \* what the receive thread has of the current frame
  frames,     \* history: what was taken from the queue for this connection
  heard       \* history: what the frames read from it were decoded to

pathVars == <<todo, queue, clock, sequence_id, running, links, link, snd, wire,
              buffer, frames, heard>>

PathInit ==
  /\ todo \in Outgoing
  /\ queue = {}
  /\ clock = 1
  /\ sequence_id = 0
  /\ running = TRUE
  /\ links = 0 /\ link = "down"
  /\ snd = <<>> /\ wire = <<>> /\ buffer = <<>>
  /\ frames = <<>> /\ heard = <<>>

-----------------------------------------------------------------------------
(* sendMessage and the queue                                               *)

\* What sendMessage fills in; magic and version are written by Header.
Completed(call) ==
  [call.msg EXCEPT
     !.dest = IF call.to = <<>> THEN @ ELSE call.to,
     !.source = IF @ = <<>> THEN Self ELSE @,
     !.priority = IF @ \in 1..4 THEN @ ELSE 3,
     !.time = IF @ = 0 THEN clock ELSE @,
     !.sequence = IF @ = 0 THEN sequence_id ELSE @]

\* MessageQueue::push, which refuses what it has no room for.
Pushed(m) ==
  IF Cardinality(queue) < MaxQueue THEN queue \union {[msg |-> m, at |-> clock]}
  ELSE queue

\* To a node without a local handler.  A message without a destination is
\* refused.
SendMessage ==
  \E call \in todo :
    LET m == Completed(call) IN
    /\ todo' = todo \ {call}
    /\ sequence_id' = IF m.dest # <<>> /\ call.msg.sequence = 0
                        THEN sequence_id + 1 ELSE sequence_id
    /\ queue' = IF m.dest # <<>> THEN Pushed(m) ELSE queue
    /\ UNCHANGED <<clock, running, links, link, snd, wire, buffer, frames, heard>>

Tick ==
  /\ clock < MaxClock
  /\ clock' = clock + 1
  /\ UNCHANGED <<todo, queue, sequence_id, running, links, link, snd, wire,
                 buffer, frames, heard>>

\* Fault variant: of two messages of one priority the later comes first.
BeforeNewest(a, b) ==
  \/ a.msg.priority < b.msg.priority
  \/ a.msg.priority = b.msg.priority /\ a.at > b.at

\* PriorityMessage::operator<, which leaves equal times in no order.
Before(a, b) ==
  \/ a.msg.priority < b.msg.priority
  \/ a.msg.priority = b.msg.priority /\ a.at < b.at

\* What MessageQueue::pop may return.
MostUrgent == {e \in queue : \A f \in queue : ~Before(f, e)}

-----------------------------------------------------------------------------
(* Frames                                                                  *)

Magic == 99

IdCells(id) == <<Len(id) % Byte>> \o id

Header(m) ==
  <<Magic, 1, m.type, m.sequence, m.time>> \o IdCells(m.source) \o IdCells(m.dest)
    \o <<m.priority, Len(m.payload), 0>>

\* MessageSerializer::serialize
Serialize(m) == Header(m) \o m.payload

\* deserializeMessage: a sequence of one message, or none.  What is left over
\* after the payload is ignored.
Deserialize(data) ==
  LET Id(at) == SubSeq(data, at + 1, at + data[at])
      HasId(at) == at <= Len(data) /\ at + data[at] <= Len(data)
      dest == 7 + data[6]             \* where its length stands
      rest == dest + data[dest] + 1   \* priority, payload_size, checksum
  IN  IF /\ HasId(6) /\ HasId(dest)
         /\ rest + 2 <= Len(data)
         /\ data[rest + 1] <= Len(data) - (rest + 2)
        THEN <<[type |-> data[3], sequence |-> data[4], time |-> data[5],
                source |-> Id(6), dest |-> Id(dest),
                priority |-> IF data[rest] \in 1..4 THEN data[rest] ELSE 3,
                payload |-> SubSeq(data, rest + 3, rest + 2 + data[rest + 1])]>>
        ELSE <<>>

-----------------------------------------------------------------------------
(* sendThreadFunc and sendData                                             *)

\* The most urgent message is taken, and dropped if its node is not there.
\* Sending one that is too large fails, and closes the connection.
Take ==
  /\ running /\ snd = <<>>
  /\ \E e \in MostUrgent :
       LET data == Serialize(e.msg)
           here == link # "down" /\ e.msg.dest = Peer
       IN  /\ queue' = queue \ {e}
           /\ IF here /\ Len(data) <= MaxFrame
                THEN /\ snd' = <<<<Len(data)>>, data>>
                     /\ frames' = Append(frames, e)
                ELSE UNCHANGED <<snd, frames>>
           /\ link' = IF here /\ Len(data) > MaxFrame THEN "down" ELSE link
  /\ UNCHANGED <<todo, clock, sequence_id, running, links, wire, buffer, heard>>

Write ==
  /\ snd # <<>> /\ link = "up"
  /\ wire' = wire \o snd[1]
  /\ snd' = Tail(snd)
  /\ UNCHANGED <<todo, queue, clock, sequence_id, running, links, link, buffer,
                 frames, heard>>

\* send() fails, and removeNode closes the socket.
WriteFails ==
  /\ snd # <<>> /\ link # "up"
  /\ snd' = <<>>
  /\ link' = "down"
  /\ UNCHANGED <<todo, queue, clock, sequence_id, running, links, wire, buffer,
                 frames, heard>>

-----------------------------------------------------------------------------
(* The connection                                                          *)

\* Connected anew, under the node's id.
Link ==
  /\ running /\ link = "down" /\ snd = <<>> /\ links < MaxLinks
  /\ link' = "up" /\ links' = links + 1
  /\ wire' = <<>> /\ buffer' = <<>> /\ frames' = <<>> /\ heard' = <<>>
  /\ UNCHANGED <<todo, queue, clock, sequence_id, running, snd>>

\* How many of n cells may get through at once.
Part(n) == {k \in 0..n : Arrives(k, n)}

\* It breaks, and not all that was under way arrives.
Break ==
  /\ link = "up"
  /\ link' = "broken"
  /\ \E k \in Part(Len(wire)) : wire' = SubSeq(wire, 1, k)
  /\ UNCHANGED <<todo, queue, clock, sequence_id, running, links, snd, buffer,
                 frames, heard>>

\* stop(), in one step: the queue is emptied and the connection closed.  A
\* message may still be queued afterwards.
Stop ==
  /\ running
  /\ running' = FALSE
  /\ queue' = {}
  /\ link' = "down"
  /\ UNCHANGED <<todo, clock, sequence_id, links, snd, wire, buffer, frames, heard>>

-----------------------------------------------------------------------------
(* receiveData and receiveThreadFunc, at the other end                     *)

\* Fault variant: the contents of a frame are what one call of recv() returns.
WholeAtOnce(b) == Len(b) > 1

\* A frame's size, and as many cells.
WholeFrame(b) == Len(b) = 1 + b[1]

\* recv() in recvAll returns some of what it asks for, which is the frame's
\* size or the rest of its contents.
Receive ==
  /\ wire # <<>>
  /\ LET missing == IF buffer = <<>> THEN 1 ELSE 1 + buffer[1] - Len(buffer) IN
     \E k \in Part(IF missing < Len(wire) THEN missing ELSE Len(wire)) \ {0} :
       LET b == buffer \o SubSeq(wire, 1, k) IN
       /\ buffer' = IF WholeFrame(b) THEN <<>> ELSE b
       /\ heard' = IF WholeFrame(b) THEN Append(heard, Deserialize(Tail(b))) ELSE heard
       /\ wire' = SubSeq(wire, k + 1, Len(wire))
  /\ UNCHANGED <<todo, queue, clock, sequence_id, running, links, link, snd, frames>>

PathNext ==
  \/ SendMessage \/ Tick \/ Take \/ Write \/ WriteFails
  \/ Link \/ Break \/ Stop \/ Receive

PathSpec == PathInit /\ [][PathNext]_pathVars

-----------------------------------------------------------------------------

\* A message arrives as it was sent, and in its place, if its ids fit the
\* lengths written before them, however its bytes are split and whatever the
\* ids of the messages before it were.
FramesStayApart ==
  /\ Len(heard) <= Len(frames)
  /\ \A i \in DOMAIN heard :
       LET m == frames[i].msg IN
       Len(m.source) < Byte /\ Len(m.dest) < Byte => heard[i] = <<m>>

\* No message is sent after one that was queued later and is no more urgent.
OrderKept ==
  \A j \in DOMAIN frames : \A i \in 1..(j - 1) :
    frames[j].at < frames[i].at => frames[j].msg.priority > frames[i].msg.priority
=============================================================================
