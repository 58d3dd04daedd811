-------------------------- MODULE MessagePathProofs --------------------------
(***************************************************************************)
(* The send queue keeps its order, and what is sent over a connection is   *)
(* what the other end makes of it: whatever is sent and whenever, however  *)
(* large the queue is, however long the messages are, however their frames *)
(* are split and wherever the connection breaks.                           *)
(***************************************************************************)
EXTENDS MessagePath, SequenceTheorems, TLAPS

\* A message whose priority is one of the four.
Complete == {m \in Message : m.priority \in 1..4}

Queued == [msg : Complete, at : Nat]

\* Times and priorities are numbers, and nothing was queued in the future.
PathType ==
  /\ clock \in Nat /\ sequence_id \in Nat
  /\ \A call \in todo : call.to \in Seq(Nat) /\ call.msg \in Message
  /\ queue \subseteq Queued /\ frames \in Seq(Queued)
  /\ \A e \in queue : e.at <= clock
  /\ \A i \in DOMAIN frames : frames[i].at <= clock

\* What is queued still and was queued before a message that has been sent is
\* less urgent: its priority is the larger number.
Waits == \A e \in queue : \A i \in DOMAIN frames :
  e.at < frames[i].at => e.msg.priority > frames[i].msg.priority

PInv == PathType /\ Waits /\ OrderKept

-----------------------------------------------------------------------------

\* sendMessage completes a message to a message.
LEMMA CompletedType ==
  ASSUME PathType, NEW call \in todo PROVE Completed(call) \in Complete
<1>1. /\ call.to \in Seq(Nat) /\ call.msg \in Message
      /\ clock \in Nat /\ sequence_id \in Nat /\ Self \in Seq(Nat)
  BY PathAssumption DEF PathType
<1>2. /\ (IF call.to = <<>> THEN call.msg.dest ELSE call.to) \in Seq(Nat)
      /\ (IF call.msg.source = <<>> THEN Self ELSE call.msg.source) \in Seq(Nat)
      /\ (IF call.msg.priority \in 1..4 THEN call.msg.priority ELSE 3) \in 1..4
      /\ (IF call.msg.time = 0 THEN clock ELSE call.msg.time) \in Nat
      /\ (IF call.msg.sequence = 0 THEN sequence_id ELSE call.msg.sequence) \in Nat
  BY <1>1 DEF Message
<1> QED BY <1>1, <1>2 DEF Completed, Complete, Message

LEMMA SentType ==
  ASSUME PathType, NEW i \in DOMAIN frames
  PROVE  frames[i].at \in Nat /\ frames[i].at <= clock
<1>1. frames \in Seq(Queued) BY DEF PathType
<1>2. frames[i] \in Queued BY <1>1
<1> QED BY <1>2 DEF Queued, PathType

LEMMA InitPInv == PathInit => PInv
<1> SUFFICES ASSUME PathInit PROVE PInv OBVIOUS
<1>1. queue = {} /\ frames = <<>> /\ DOMAIN frames = {} /\ clock = 1 /\ sequence_id = 0
  BY DEF PathInit
<1>2. \A call \in todo : call.to \in Seq(Nat) /\ call.msg \in Message
  BY PathAssumption DEF PathInit
<1>3. PathType BY <1>1, <1>2 DEF PathType
<1> QED BY <1>1, <1>3 DEF PInv, Waits, OrderKept

\* What is queued now was queued after everything that has been sent.
LEMMA SendPInv == ASSUME PInv, SendMessage PROVE PInv'
<1> USE DEF PInv
<1>1. PICK call \in todo :
        /\ todo' = todo \ {call}
        /\ sequence_id' \in {sequence_id, sequence_id + 1}
        /\ queue' \in {queue, Pushed(Completed(call))}
        /\ UNCHANGED <<clock, frames>>
  BY DEF SendMessage
<1> DEFINE e == [msg |-> Completed(call), at |-> clock]
<1>2. e \in Queued /\ e.at = clock /\ clock \in Nat
  BY CompletedType DEF PathType, Queued
<1>3. queue' \subseteq queue \union {e} BY <1>1 DEF Pushed
<1> HIDE DEF e
<1>4. PathType' BY <1>1, <1>2, <1>3 DEF PathType
<1>5. Waits'
  <2> SUFFICES ASSUME NEW f \in queue', NEW i \in DOMAIN frames,
                      f.at < frames[i].at
               PROVE  f.msg.priority > frames[i].msg.priority
    <3>1. frames' = frames BY <1>1
    <3> QED BY <3>1 DEF Waits
  <2>1. frames[i].at <= clock /\ frames[i].at \in Nat BY SentType
  <2>2. f # e BY <1>2, <2>1
  <2> QED BY <1>3, <2>2 DEF Waits
<1> QED BY <1>1, <1>4, <1>5 DEF OrderKept

\* pop() takes what is queued longest among the most urgent.
LEMMA TakePInv == ASSUME PInv, Take PROVE PInv'
<1> USE DEF PInv
<1>1. PICK e \in MostUrgent :
        /\ queue' = queue \ {e}
        /\ frames' \in {frames, Append(frames, e)}
        /\ UNCHANGED <<todo, clock, sequence_id>>
  BY DEF Take
<1>2. e \in queue /\ e \in Queued /\ e.at <= clock /\ \A f \in queue : ~Before(f, e)
  BY DEF MostUrgent, PathType
<1>3. \A f \in queue : f.at \in Nat /\ f.msg.priority \in Nat
  BY DEF PathType, Queued, Complete, Message
<1>4. CASE frames' = frames
  BY <1>1, <1>4 DEF PathType, Waits, OrderKept
<1>5. CASE frames' = Append(frames, e)
  <2>1. /\ frames \in Seq(Queued) /\ frames' \in Seq(Queued)
        /\ DOMAIN frames = 1..Len(frames) /\ Len(frames) \in Nat
        /\ DOMAIN frames' = 1..(Len(frames) + 1)
        /\ frames'[Len(frames) + 1] = e
        /\ \A i \in DOMAIN frames : frames'[i] = frames[i]
    BY <1>2, <1>5 DEF PathType
  <2>2. PathType' BY <1>1, <1>2, <2>1 DEF PathType
  <2>3. Waits'
    <3> SUFFICES ASSUME NEW f \in queue', NEW i \in DOMAIN frames',
                        f.at < frames'[i].at
                 PROVE  f.msg.priority > frames'[i].msg.priority
      BY DEF Waits
    <3>1. CASE i \in DOMAIN frames BY <1>1, <2>1, <3>1 DEF Waits
    <3>2. CASE i = Len(frames) + 1
      BY <1>1, <1>2, <1>3, <2>1, <3>2 DEF Before
    <3> QED BY <2>1, <3>1, <3>2
  <2>4. OrderKept'
    <3> SUFFICES ASSUME NEW j \in DOMAIN frames', NEW i \in 1..(j - 1),
                        frames'[j].at < frames'[i].at
                 PROVE  frames'[j].msg.priority > frames'[i].msg.priority
      BY DEF OrderKept
    <3>1. i \in DOMAIN frames /\ frames'[i] = frames[i] BY <2>1
    <3>2. CASE j \in DOMAIN frames BY <2>1, <3>1, <3>2 DEF OrderKept
    <3>3. CASE j = Len(frames) + 1
      <4>1. e.at < frames[i].at BY <2>1, <3>1, <3>3
      <4>2. e.msg.priority > frames[i].msg.priority BY <1>2, <3>1, <4>1 DEF Waits
      <4> QED BY <2>1, <3>1, <3>3, <4>2
    <3> QED BY <2>1, <3>2, <3>3
  <2> QED BY <2>2, <2>3, <2>4
<1> QED BY <1>1, <1>4, <1>5

LEMMA StepPInv == ASSUME PInv, [PathNext]_pathVars PROVE PInv'
<1> USE DEF PInv
<1>1. CASE Tick
  <2>1. clock \in Nat /\ clock' = clock + 1 /\ UNCHANGED <<todo, queue, sequence_id, frames>>
    BY <1>1 DEF Tick, PathType
  <2>2. \A e \in queue : e.at \in Nat BY DEF PathType, Queued
  <2>3. \A i \in DOMAIN frames : frames[i].at \in Nat BY SentType
  <2> QED BY <2>1, <2>2, <2>3 DEF PathType, Waits, OrderKept
<1>2. CASE Link \/ Stop
  <2>1. /\ queue' \subseteq queue /\ (frames' = frames \/ frames' = <<>>)
        /\ UNCHANGED <<todo, clock, sequence_id>>
    BY <1>2 DEF Link, Stop
  <2>2. CASE frames' = frames BY <2>1, <2>2 DEF PathType, Waits, OrderKept
  <2>3. CASE frames' = <<>>
    <3>1. frames' \in Seq(Queued) /\ DOMAIN frames' = {} BY <2>3
    <3> QED BY <2>1, <3>1 DEF PathType, Waits, OrderKept
  <2> QED BY <2>1, <2>2, <2>3
<1>3. CASE Write \/ WriteFails \/ Break \/ Receive \/ UNCHANGED pathVars
  <2>1. UNCHANGED <<todo, queue, clock, sequence_id, frames>>
    BY <1>3 DEF Write, WriteFails, Break, Receive, pathVars
  <2> QED BY <2>1 DEF PathType, Waits, OrderKept
<1> QED BY <1>1, <1>2, <1>3, SendPInv, TakePInv DEF PathNext

\* Whatever is sent and at whatever times, and however many messages the queue
\* holds: none leaves after one that was queued later and is no more urgent.
THEOREM QueueOrder == PathSpec => []OrderKept
<1>1. PInv => OrderKept BY DEF PInv
<1> QED BY <1>1, InitPInv, StepPInv, PTL DEF PathSpec

-----------------------------------------------------------------------------
(* What stands in a stream of cells, and where.                            *)

\* The cells s stand in data, after k others.
At(data, k, s) ==
  /\ k + Len(s) <= Len(data)
  /\ \A i \in 1..Len(s) : data[k + i] = s[i]

LEMMA AtFirst ==
  ASSUME NEW data \in Seq(Nat), NEW s \in Seq(Nat), NEW k \in Nat, At(data, k, s),
         1 <= Len(s)
  PROVE  data[k + 1] = s[1]
BY DEF At

LEMMA AtSecond ==
  ASSUME NEW data \in Seq(Nat), NEW s \in Seq(Nat), NEW k \in Nat, At(data, k, s),
         2 <= Len(s)
  PROVE  data[k + 2] = s[2]
BY DEF At

LEMMA AtFront ==
  ASSUME NEW data \in Seq(Nat), NEW s \in Seq(Nat), At(data, 0, s), Len(s) = 5
  PROVE  data[3] = s[3] /\ data[4] = s[4] /\ data[5] = s[5]
BY DEF At

LEMMA AtConcat ==
  ASSUME NEW s \in Seq(Nat), NEW t \in Seq(Nat)
  PROVE  /\ s \o t \in Seq(Nat) /\ Len(s \o t) = Len(s) + Len(t)
         /\ At(s \o t, 0, s) /\ At(s \o t, Len(s), t)
<1> DEFINE st == s \o t
<1>1. /\ st \in Seq(Nat) /\ Len(st) = Len(s) + Len(t)
      /\ \A i \in 1..(Len(s) + Len(t)) :
           st[i] = IF i <= Len(s) THEN s[i] ELSE t[i - Len(s)]
  BY ConcatProperties
<1>2. Len(s) \in Nat /\ Len(t) \in Nat OBVIOUS
<1> HIDE DEF st
<1>3. At(st, 0, s) BY <1>1, <1>2 DEF At
<1>4. At(st, Len(s), t)
  <2>1. \A i \in 1..Len(t) : st[Len(s) + i] = t[i]
    <3> TAKE i \in 1..Len(t)
    <3>1. /\ Len(s) + i \in 1..(Len(s) + Len(t)) /\ ~(Len(s) + i <= Len(s))
          /\ (Len(s) + i) - Len(s) = i
      BY <1>2
    <3> QED BY <1>1, <3>1
  <2> QED BY <1>1, <1>2, <2>1 DEF At
<1> QED BY <1>1, <1>3, <1>4 DEF st

LEMMA AtWithin ==
  ASSUME NEW a \in Seq(Nat), NEW b \in Seq(Nat), NEW c \in Seq(Nat),
         NEW j \in Nat, NEW k \in Nat, At(a, k, b), At(b, j, c)
  PROVE  At(a, k + j, c)
<1>1. Len(a) \in Nat /\ Len(b) \in Nat /\ Len(c) \in Nat OBVIOUS
<1>2. k + Len(b) <= Len(a) /\ j + Len(c) <= Len(b) BY DEF At
<1>3. \A i \in 1..Len(b) : a[k + i] = b[i] BY DEF At
<1>4. \A i \in 1..Len(c) : b[j + i] = c[i] BY DEF At
<1>5. \A i \in 1..Len(c) : a[k + j + i] = c[i]
  <2> TAKE i \in 1..Len(c)
  <2>1. j + i \in 1..Len(b) /\ k + (j + i) = k + j + i BY <1>1, <1>2
  <2> QED BY <1>3, <1>4, <2>1
<1>6. k + j + Len(c) <= Len(a) BY <1>1, <1>2
<1> QED BY <1>5, <1>6 DEF At

LEMMA AtStart ==
  ASSUME NEW a \in Seq(Nat), NEW b \in Seq(Nat), NEW c \in Seq(Nat),
         NEW j \in Nat, At(a, 0, b), At(b, j, c)
  PROVE  At(a, j, c)
<1>1. At(a, 0 + j, c) BY AtWithin
<1>2. 0 + j = j OBVIOUS
<1> QED BY <1>1, <1>2

\* Two sequences one after the other, put together.
LEMMA AtJoined ==
  ASSUME NEW a \in Seq(Nat), NEW s \in Seq(Nat), NEW t \in Seq(Nat), NEW k \in Nat,
         At(a, k, s), At(a, k + Len(s), t)
  PROVE  At(a, k, s \o t)
<1> DEFINE st == s \o t
<1>1. /\ st \in Seq(Nat) /\ Len(st) = Len(s) + Len(t)
      /\ \A i \in 1..(Len(s) + Len(t)) :
           st[i] = IF i <= Len(s) THEN s[i] ELSE t[i - Len(s)]
  BY ConcatProperties
<1>2. Len(s) \in Nat /\ Len(t) \in Nat /\ Len(a) \in Nat OBVIOUS
<1> HIDE DEF st
<1>3. \A i \in 1..Len(s) : a[k + i] = s[i] BY DEF At
<1>4. \A i \in 1..Len(t) : a[k + Len(s) + i] = t[i] BY DEF At
<1>5. \A i \in 1..Len(st) : a[k + i] = st[i]
  <2> TAKE i \in 1..Len(st)
  <2>1. CASE i <= Len(s)
    <3>1. i \in 1..Len(s) /\ i \in 1..(Len(s) + Len(t)) BY <1>1, <1>2, <2>1
    <3>2. a[k + i] = s[i] BY <1>3, <3>1
    <3>3. st[i] = s[i] BY <1>1, <2>1, <3>1
    <3> QED BY <3>2, <3>3
  <2>2. CASE i > Len(s)
    <3>1. i - Len(s) \in 1..Len(t) /\ k + Len(s) + (i - Len(s)) = k + i
      BY <1>1, <1>2, <2>2
    <3>2. a[k + Len(s) + (i - Len(s))] = t[i - Len(s)] BY <1>4, <3>1
    <3> QED BY <1>1, <1>2, <2>2, <3>1, <3>2
  <2> QED BY <1>1, <1>2, <2>1, <2>2
<1> QED BY <1>1, <1>2, <1>5 DEF st, At

\* The first cells of what stands somewhere, and the rest.
LEMMA AtParts ==
  ASSUME NEW s \in Seq(Nat), NEW n \in 0..Len(s)
  PROVE  /\ SubSeq(s, 1, n) \in Seq(Nat) /\ Len(SubSeq(s, 1, n)) = n
         /\ At(s, 0, SubSeq(s, 1, n))
         /\ SubSeq(s, n + 1, Len(s)) \in Seq(Nat)
         /\ Len(SubSeq(s, n + 1, Len(s))) = Len(s) - n
         /\ At(s, n, SubSeq(s, n + 1, Len(s)))
<1> DEFINE l == SubSeq(s, 1, n)
           r == SubSeq(s, n + 1, Len(s))
<1>1. Len(s) \in Nat /\ n \in Nat /\ n <= Len(s) /\ \A i \in 1..Len(s) : s[i] \in Nat
  OBVIOUS
<1>2. /\ l \in Seq(Nat) /\ Len(l) = IF 1 <= n THEN n - 1 + 1 ELSE 0
      /\ \A i \in 1..(n - 1 + 1) : l[i] = s[1 + i - 1]
  BY <1>1, SubSeqProperties
<1>3. /\ r \in Seq(Nat)
      /\ Len(r) = IF n + 1 <= Len(s) THEN Len(s) - (n + 1) + 1 ELSE 0
      /\ \A i \in 1..(Len(s) - (n + 1) + 1) : r[i] = s[n + 1 + i - 1]
  <2>1. \A i \in (n + 1)..Len(s) : s[i] \in Nat BY <1>1
  <2> QED BY <1>1, <2>1, SubSeqProperties
<1> HIDE DEF l, r
<1>4. Len(l) = n /\ Len(r) = Len(s) - n BY <1>1, <1>2, <1>3
<1>5. At(s, 0, l)
  <2>1. \A i \in 1..Len(l) : s[0 + i] = l[i]
    <3> TAKE i \in 1..Len(l)
    <3>1. i \in 1..(n - 1 + 1) /\ 1 + i - 1 = 0 + i BY <1>1, <1>4
    <3> QED BY <1>2, <3>1
  <2> QED BY <1>1, <1>4, <2>1 DEF At
<1>6. At(s, n, r)
  <2>1. \A i \in 1..Len(r) : s[n + i] = r[i]
    <3> TAKE i \in 1..Len(r)
    <3>1. i \in 1..(Len(s) - (n + 1) + 1) /\ n + 1 + i - 1 = n + i BY <1>1, <1>4
    <3> QED BY <1>3, <3>1
  <2> QED BY <1>1, <1>4, <2>1 DEF At
<1> QED BY <1>2, <1>3, <1>4, <1>5, <1>6 DEF l, r

\* The same number of cells at the same place are the same.
LEMMA AtEqual ==
  ASSUME NEW a \in Seq(Nat), NEW s \in Seq(Nat), NEW t \in Seq(Nat), NEW k \in Nat,
         At(a, k, s), At(a, k, t), Len(s) = Len(t)
  PROVE  s = t
<1>1. \A i \in 1..Len(s) : s[i] = t[i] BY DEF At
<1> QED BY <1>1, SeqEqual

\* What stands at a place is read from it.
LEMMA AtRead ==
  ASSUME NEW data \in Seq(Nat), NEW s \in Seq(Nat), NEW k \in Nat, At(data, k, s)
  PROVE  SubSeq(data, k + 1, k + Len(s)) = s
<1> DEFINE t == SubSeq(data, k + 1, k + Len(s))
<1>1. Len(s) \in Nat /\ Len(data) \in Nat /\ k + Len(s) <= Len(data)
  BY DEF At
<1>2. \A i \in (k + 1)..(k + Len(s)) : data[i] \in Nat BY <1>1
<1>3. /\ t \in Seq(Nat)
      /\ Len(t) = IF k + 1 <= k + Len(s) THEN k + Len(s) - (k + 1) + 1 ELSE 0
      /\ \A i \in 1..(k + Len(s) - (k + 1) + 1) : t[i] = data[k + 1 + i - 1]
  BY <1>1, <1>2, SubSeqProperties
<1> HIDE DEF t
<1>4. Len(t) = Len(s) BY <1>1, <1>3
<1>5. \A i \in 1..Len(s) : t[i] = s[i]
  <2> TAKE i \in 1..Len(s)
  <2>1. k + 1 + i - 1 = k + i /\ i \in 1..(k + Len(s) - (k + 1) + 1) BY <1>1
  <2> QED BY <1>3, <2>1 DEF At
<1>6. t = s BY <1>3, <1>4, <1>5, SeqEqual
<1> QED BY <1>6 DEF t

-----------------------------------------------------------------------------
(* What is serialized, and what is deserialized from it.                   *)

\* The length of an id goes before it, if it fits.
LEMMA IdCellsAre ==
  ASSUME NEW id \in Seq(Nat)
  PROVE  /\ IdCells(id) \in Seq(Nat)
         /\ Len(id) < Byte => At(IdCells(id), 0, <<Len(id)>>)
         /\ At(IdCells(id), 1, id) /\ Len(IdCells(id)) = 1 + Len(id)
<1>1. Len(id) \in Nat /\ Byte \in Nat \ {0} BY PathAssumption
<1>2. Len(id) % Byte \in Nat /\ (Len(id) < Byte => Len(id) % Byte = Len(id)) BY <1>1
<1> DEFINE l == <<Len(id) % Byte>>
<1>3. l \in Seq(Nat) /\ Len(l) = 1 /\ (Len(id) < Byte => l = <<Len(id)>>) BY <1>2
<1> HIDE DEF l
<1>4. IdCells(id) = l \o id BY DEF IdCells, l
<1> QED BY <1>3, <1>4, AtConcat

\* The parts of the header: what precedes the ids, and what follows them.
Front(m) == <<Magic, 1, m.type, m.sequence, m.time>>
Back(m) == <<m.priority, Len(m.payload), 0>>

LEMMA PartsAre ==
  ASSUME NEW m \in Message
  PROVE  /\ Front(m) \in Seq(Nat) /\ Len(Front(m)) = 5
         /\ Front(m)[3] = m.type /\ Front(m)[4] = m.sequence /\ Front(m)[5] = m.time
         /\ Back(m) \in Seq(Nat) /\ Len(Back(m)) = 3
         /\ Back(m)[1] = m.priority /\ Back(m)[2] = Len(m.payload)
         /\ m.source \in Seq(Nat) /\ m.dest \in Seq(Nat) /\ m.payload \in Seq(Nat)
<1>1. /\ m.source \in Seq(Nat) /\ m.dest \in Seq(Nat) /\ m.payload \in Seq(Nat)
      /\ m.type \in Nat /\ m.sequence \in Nat /\ m.time \in Nat /\ m.priority \in Nat
      /\ Len(m.payload) \in Nat
  BY DEF Message
<1> QED BY <1>1 DEF Front, Back, Magic

\* Where each part of a message stands.
LEMMA Layout ==
  ASSUME NEW m \in Message
  PROVE  LET data == Serialize(m)
             s == 5 + Len(IdCells(m.source))
             d == s + Len(IdCells(m.dest))
         IN  /\ data \in Seq(Nat) /\ Len(data) = d + 3 + Len(m.payload)
             /\ At(data, 0, Front(m)) /\ At(data, 5, IdCells(m.source))
             /\ At(data, s, IdCells(m.dest)) /\ At(data, d, Back(m))
             /\ At(data, d + 3, m.payload)
<1> DEFINE A == Front(m)
           S == IdCells(m.source)
           D == IdCells(m.dest)
           B == Back(m)
           P == m.payload
<1>1. /\ A \in Seq(Nat) /\ Len(A) = 5 /\ S \in Seq(Nat) /\ D \in Seq(Nat)
      /\ B \in Seq(Nat) /\ Len(B) = 3 /\ P \in Seq(Nat)
  BY PartsAre, IdCellsAre
<1>2. Serialize(m) = (((A \o S) \o D) \o B) \o P
  BY DEF Serialize, Header, Front, Back
<1> HIDE DEF A, S, D, B, P
<1> DEFINE AS == A \o S
           ASD == AS \o D
           H == ASD \o B
           X == H \o P
           s == 5 + Len(S)
           d == s + Len(D)
<1>3. s = 5 + Len(S) /\ d = s + Len(D) OBVIOUS
<1> HIDE DEF s, d
<1>4. AS \in Seq(Nat) /\ Len(AS) = s /\ At(AS, 0, A) /\ At(AS, 5, S)
  BY <1>1, <1>3, AtConcat
<1> HIDE DEF AS
<1>5. ASD \in Seq(Nat) /\ Len(ASD) = d /\ At(ASD, 0, AS) /\ At(ASD, s, D)
  <2>1. /\ ASD \in Seq(Nat) /\ Len(ASD) = Len(AS) + Len(D)
        /\ At(ASD, 0, AS) /\ At(ASD, Len(AS), D)
    BY <1>1, <1>4, AtConcat
  <2> QED BY <1>3, <1>4, <2>1
<1> HIDE DEF ASD
<1>6. H \in Seq(Nat) /\ Len(H) = d + 3 /\ At(H, 0, ASD) /\ At(H, d, B)
  <2>1. /\ H \in Seq(Nat) /\ Len(H) = Len(ASD) + Len(B)
        /\ At(H, 0, ASD) /\ At(H, Len(ASD), B)
    BY <1>1, <1>5, AtConcat
  <2> QED BY <1>1, <1>5, <2>1
<1> HIDE DEF H
<1>7. X \in Seq(Nat) /\ Len(X) = d + 3 + Len(P) /\ At(X, 0, H) /\ At(X, d + 3, P)
  <2>1. /\ X \in Seq(Nat) /\ Len(X) = Len(H) + Len(P)
        /\ At(X, 0, H) /\ At(X, Len(H), P)
    BY <1>1, <1>6, AtConcat
  <2> QED BY <1>6, <2>1
<1>8. X = Serialize(m) BY <1>2 DEF X, H, ASD, AS
<1>9. s \in Nat /\ d \in Nat /\ 0 \in Nat /\ 5 \in Nat BY <1>1, <1>3
<1> HIDE DEF X
<1>10. At(X, 0, ASD) BY <1>5, <1>6, <1>7, <1>9, AtStart
<1>11. At(X, d, B) BY <1>1, <1>6, <1>7, <1>9, AtStart
<1>12. At(X, 0, AS) BY <1>4, <1>5, <1>7, <1>9, <1>10, AtStart
<1>13. At(X, s, D) BY <1>1, <1>5, <1>7, <1>9, <1>10, AtStart
<1>14. At(X, 0, A) BY <1>1, <1>4, <1>7, <1>9, <1>12, AtStart
<1>15. At(X, 5, S) BY <1>1, <1>4, <1>7, <1>9, <1>12, AtStart
<1> QED BY <1>7, <1>8, <1>11, <1>13, <1>14, <1>15 DEF s, d, A, S, D, B, P

\* deserializeMessage gives back what serialize was given, for every message
\* whose ids fit the lengths before them and whose priority is one of the four.
THEOREM RoundTrip ==
  ASSUME NEW m \in Complete, Len(m.source) < Byte, Len(m.dest) < Byte
  PROVE  Deserialize(Serialize(m)) = <<m>>
<1> DEFINE data == Serialize(m)
           S == IdCells(m.source)
           D == IdCells(m.dest)
           a == Len(m.source)
           b == Len(m.dest)
           p == Len(m.payload)
<1>1. m \in Message /\ m.priority \in 1..4 BY DEF Complete
<1>2. /\ m.source \in Seq(Nat) /\ m.dest \in Seq(Nat) /\ m.payload \in Seq(Nat)
      /\ a \in Nat /\ b \in Nat /\ p \in Nat
      /\ m = [type |-> m.type, sequence |-> m.sequence, time |-> m.time,
              source |-> m.source, dest |-> m.dest, priority |-> m.priority,
              payload |-> m.payload]
  BY <1>1 DEF Message
<1>3. /\ S \in Seq(Nat) /\ Len(S) = 1 + a /\ At(S, 0, <<a>>) /\ At(S, 1, m.source)
      /\ D \in Seq(Nat) /\ Len(D) = 1 + b /\ At(D, 0, <<b>>) /\ At(D, 1, m.dest)
  BY <1>2, IdCellsAre
<1>4. /\ data \in Seq(Nat) /\ Len(data) = 5 + (1 + a) + (1 + b) + 3 + p
      /\ At(data, 0, Front(m)) /\ At(data, 5, S)
      /\ At(data, 5 + (1 + a), D) /\ At(data, 5 + (1 + a) + (1 + b), Back(m))
      /\ At(data, 5 + (1 + a) + (1 + b) + 3, m.payload)
  BY <1>1, <1>3, Layout
<1> HIDE DEF data, S, D, a, b, p
<1>5. /\ 5 + (1 + a) = 6 + a /\ 5 + (1 + a) + (1 + b) = 7 + a + b
      /\ 5 + (1 + a) + (1 + b) + 3 = 10 + a + b
      /\ 5 + (1 + a) + (1 + b) + 3 + p = 10 + a + b + p
  BY <1>2
<1>6. /\ Len(data) = 10 + a + b + p /\ At(data, 6 + a, D)
      /\ At(data, 7 + a + b, Back(m)) /\ At(data, 10 + a + b, m.payload)
  BY <1>4, <1>5
<1>7. data[3] = m.type /\ data[4] = m.sequence /\ data[5] = m.time
  <2>1. data[3] = Front(m)[3] /\ data[4] = Front(m)[4] /\ data[5] = Front(m)[5]
    BY <1>1, <1>4, PartsAre, AtFront
  <2> QED BY <1>1, <2>1, PartsAre
<1>8. data[6] = a
  <2>1. S[0 + 1] = <<a>>[1]
    <3>1. At(S, 0, <<a>>) /\ 1 \in 1..Len(<<a>>) BY <1>3
    <3> QED BY <3>1 DEF At
  <2>2. data \in Seq(Nat) /\ S \in Seq(Nat) /\ 1 <= Len(S) BY <1>2, <1>3, <1>4
  <2>3. \A k \in Nat : At(data, k, S) => data[k + 1] = S[1] BY <2>2, AtFirst
  <2>4. data[5 + 1] = S[1] BY <1>4, <2>3
  <2> QED BY <2>1, <2>4
<1>9. data[7 + a] = b
  <2>1. D[0 + 1] = <<b>>[1]
    <3>1. At(D, 0, <<b>>) /\ 1 \in 1..Len(<<b>>) BY <1>3
    <3> QED BY <3>1 DEF At
  <2>2. data \in Seq(Nat) /\ D \in Seq(Nat) /\ 1 <= Len(D) BY <1>2, <1>3, <1>4
  <2>3. \A k \in Nat : At(data, k, D) => data[k + 1] = D[1] BY <2>2, AtFirst
  <2>4. 6 + a \in Nat /\ (6 + a) + 1 = 7 + a BY <1>2
  <2> QED BY <1>6, <2>1, <2>3, <2>4
<1>10. data[8 + a + b] = m.priority /\ data[9 + a + b] = p
  <2>1. /\ Back(m) \in Seq(Nat) /\ 1 <= Len(Back(m)) /\ 2 <= Len(Back(m))
        /\ Back(m)[1] = m.priority /\ Back(m)[2] = p
    BY <1>1, PartsAre DEF p
  <2>2. data \in Seq(Nat) BY <1>4
  <2>3. \A k \in Nat : At(data, k, Back(m)) => data[k + 1] = Back(m)[1]
    BY <2>1, <2>2, AtFirst
  <2>4. \A k \in Nat : At(data, k, Back(m)) => data[k + 2] = Back(m)[2]
    BY <2>1, <2>2, AtSecond
  <2>5. /\ 7 + a + b \in Nat
        /\ 8 + a + b = (7 + a + b) + 1 /\ 9 + a + b = (7 + a + b) + 2
    BY <1>2
  <2> QED BY <1>6, <2>1, <2>3, <2>4, <2>5
<1>11. SubSeq(data, 6 + 1, 6 + a) = m.source
  <2>1. \A k \in Nat : At(data, k, S) => At(data, k + 1, m.source)
    BY <1>2, <1>3, <1>4, AtWithin
  <2>2. At(data, 6, m.source)
    <3>1. At(data, 5 + 1, m.source) BY <1>4, <2>1
    <3> QED BY <3>1
  <2>3. SubSeq(data, 6 + 1, 6 + Len(m.source)) = m.source
    BY <1>2, <1>4, <2>1, <2>2, AtRead
  <2> QED BY <2>3 DEF a
<1>12. SubSeq(data, 7 + a + 1, 7 + a + b) = m.dest
  <2>1. 6 + a \in Nat /\ 1 \in Nat /\ 7 + a \in Nat /\ (6 + a) + 1 = 7 + a BY <1>2
  <2>2. At(data, (6 + a) + 1, m.dest) BY <1>2, <1>3, <1>4, <1>6, <2>1, AtWithin
  <2>3. At(data, 7 + a, m.dest) BY <2>1, <2>2
  <2>4. SubSeq(data, 7 + a + 1, 7 + a + Len(m.dest)) = m.dest
    BY <1>2, <1>4, <2>1, <2>3, AtRead
  <2> QED BY <2>4 DEF b
<1>13. SubSeq(data, 8 + a + b + 3, 8 + a + b + 2 + p) = m.payload
  <2>1. SubSeq(data, 10 + a + b + 1, 10 + a + b + p) = m.payload
    <3>1. 10 + a + b \in Nat BY <1>2
    <3>2. SubSeq(data, 10 + a + b + 1, 10 + a + b + Len(m.payload)) = m.payload
      BY <1>2, <1>4, <1>6, <3>1, AtRead
    <3> QED BY <3>2 DEF p
  <2>2. 10 + a + b + 1 = 8 + a + b + 3 /\ 10 + a + b + p = 8 + a + b + 2 + p
    BY <1>2
  <2> QED BY <2>1, <2>2
<1>14. /\ 7 + data[6] = 7 + a
       /\ (7 + a) + data[7 + a] + 1 = 8 + a + b
       /\ data[8 + a + b + 1] = p
       /\ 6 <= Len(data) /\ 6 + data[6] <= Len(data)
       /\ 7 + a <= Len(data) /\ 7 + a + data[7 + a] <= Len(data)
       /\ 8 + a + b + 2 <= Len(data)
       /\ p <= Len(data) - (8 + a + b + 2)
  <2>1. 8 + a + b + 1 = 9 + a + b BY <1>2
  <2>2. data[8 + a + b + 1] = p BY <1>10, <2>1
  <2>3. Len(data) = 10 + a + b + p BY <1>6
  <2>4. /\ 7 + a = 7 + a /\ (7 + a) + b + 1 = 8 + a + b
        /\ 6 <= Len(data) /\ 6 + a <= Len(data)
        /\ 7 + a <= Len(data) /\ 7 + a + b <= Len(data)
        /\ 8 + a + b + 2 <= Len(data) /\ p <= Len(data) - (8 + a + b + 2)
    BY <1>2, <2>3
  <2> QED BY <1>8, <1>9, <2>2, <2>4
<1>15. Deserialize(data) =
        <<[type |-> data[3], sequence |-> data[4], time |-> data[5],
           source |-> SubSeq(data, 6 + 1, 6 + a),
           dest |-> SubSeq(data, 7 + a + 1, 7 + a + b),
           priority |-> m.priority,
           payload |-> SubSeq(data, 8 + a + b + 3, 8 + a + b + 2 + p)]>>
  BY <1>1, <1>8, <1>9, <1>10, <1>14 DEF Deserialize
<1> QED BY <1>2, <1>7, <1>11, <1>12, <1>13, <1>15 DEF data

-----------------------------------------------------------------------------
(* The stream of one connection.                                           *)

\* What sendData writes for a message.
Framed(m) == <<Len(Serialize(m))>> \o Serialize(m)

\* The frames of fs stand in T one after the other, from one cut to the next.
Stream(fs, T, cut) ==
  /\ T \in Seq(Nat) /\ cut \in [0..Len(fs) -> Nat]
  /\ cut[0] = 0 /\ cut[Len(fs)] = Len(T)
  /\ \A i \in 1..Len(fs) : /\ cut[i] = cut[i - 1] + Len(Framed(fs[i].msg))
                           /\ At(T, cut[i - 1], Framed(fs[i].msg))

LEMMA FramedIs ==
  ASSUME NEW e \in Queued
  PROVE  /\ Serialize(e.msg) \in Seq(Nat) /\ Framed(e.msg) \in Seq(Nat)
         /\ Len(Framed(e.msg)) = 1 + Len(Serialize(e.msg))
         /\ Framed(e.msg)[1] = Len(Serialize(e.msg))
         /\ Tail(Framed(e.msg)) = Serialize(e.msg)
<1> DEFINE data == Serialize(e.msg)
<1>1. e.msg \in Message BY DEF Queued, Complete
<1>2. data \in Seq(Nat) BY <1>1, Layout
<1> HIDE DEF data
<1>3. Len(data) \in Nat BY <1>2
<1> DEFINE l == <<Len(data)>>
           f == l \o data
<1>4. l \in Seq(Nat) /\ Len(l) = 1 /\ l[1] = Len(data) BY <1>3
<1> HIDE DEF l
<1>5. /\ f \in Seq(Nat) /\ Len(f) = 1 + Len(data)
      /\ \A i \in 1..(1 + Len(data)) : f[i] = IF i <= 1 THEN l[i] ELSE data[i - 1]
  <2>1. /\ f \in Seq(Nat) /\ Len(f) = Len(l) + Len(data)
        /\ \A i \in 1..(Len(l) + Len(data)) :
             f[i] = IF i <= Len(l) THEN l[i] ELSE data[i - Len(l)]
    BY <1>2, <1>4, ConcatProperties
  <2> QED BY <1>4, <2>1
<1> HIDE DEF f
<1>6. f[1] = Len(data) /\ f # <<>> BY <1>3, <1>4, <1>5
<1>7. /\ Tail(f) \in Seq(Nat) /\ Len(Tail(f)) = Len(data)
      /\ \A i \in 1..Len(Tail(f)) : Tail(f)[i] = f[i + 1]
  BY <1>3, <1>5, <1>6, HeadTailProperties
<1>8. \A i \in 1..Len(Tail(f)) : Tail(f)[i] = data[i]
  <2> TAKE i \in 1..Len(Tail(f))
  <2>1. i + 1 \in 1..(1 + Len(data)) /\ ~(i + 1 <= 1) /\ (i + 1) - 1 = i
    BY <1>3, <1>7
  <2> QED BY <1>5, <1>7, <2>1
<1>9. Tail(f) = data BY <1>2, <1>7, <1>8, SeqEqual
<1>10. Framed(e.msg) = f BY DEF Framed, f, l, data
<1> QED BY <1>2, <1>5, <1>6, <1>9, <1>10 DEF data

\* One more frame is written after all others.
LEMMA StreamGrows ==
  ASSUME NEW fs \in Seq(Queued), NEW e \in Queued, NEW T, NEW cut, Stream(fs, T, cut)
  PROVE  LET T2 == T \o Framed(e.msg)
             cut2 == [i \in 0..(Len(fs) + 1) |-> IF i <= Len(fs) THEN cut[i] ELSE Len(T2)]
         IN  /\ T2 \in Seq(Nat) /\ cut2 \in [0..Len(Append(fs, e)) -> Nat]
             /\ Stream(Append(fs, e), T2, cut2)
             /\ \A i \in 0..Len(fs) : cut2[i] = cut[i]
             /\ At(T2, 0, T) /\ At(T2, Len(T), Framed(e.msg))
             /\ Len(T2) = Len(T) + Len(Framed(e.msg))
<1> DEFINE F == Framed(e.msg)
           T2 == T \o F
           cut2 == [i \in 0..(Len(fs) + 1) |-> IF i <= Len(fs) THEN cut[i] ELSE Len(T2)]
           gs == Append(fs, e)
<1>1. F \in Seq(Nat) /\ T \in Seq(Nat) /\ Len(T) \in Nat /\ Len(fs) \in Nat
      /\ cut \in [0..Len(fs) -> Nat] /\ cut[Len(fs)] = Len(T) /\ cut[0] = 0
  BY FramedIs DEF Stream
<1>2. \A i \in 1..Len(fs) : /\ cut[i] = cut[i - 1] + Len(Framed(fs[i].msg))
                            /\ At(T, cut[i - 1], Framed(fs[i].msg))
  BY DEF Stream
<1> HIDE DEF F
<1>3. /\ T2 \in Seq(Nat) /\ Len(T2) = Len(T) + Len(F) /\ At(T2, 0, T) /\ At(T2, Len(T), F)
  BY <1>1, AtConcat
<1> HIDE DEF T2
<1>4. Len(T2) \in Nat BY <1>3
<1>5. /\ cut2 \in [0..(Len(fs) + 1) -> Nat] /\ cut2[Len(fs) + 1] = Len(T2)
      /\ \A i \in 0..Len(fs) : cut2[i] = cut[i]
  BY <1>1, <1>4
<1> HIDE DEF cut2
<1>6. /\ gs \in Seq(Queued) /\ Len(gs) = Len(fs) + 1 /\ gs[Len(fs) + 1] = e
      /\ \A i \in 1..Len(fs) : gs[i] = fs[i]
  BY AppendProperties
<1> HIDE DEF gs
<1>7. ASSUME NEW i \in 1..Len(gs)
      PROVE  /\ cut2[i] = cut2[i - 1] + Len(Framed(gs[i].msg))
             /\ At(T2, cut2[i - 1], Framed(gs[i].msg))
  <2>1. CASE i = Len(fs) + 1
    <3>1. Framed(gs[i].msg) = F BY <1>6, <2>1 DEF F
    <3>2. i - 1 = Len(fs) /\ Len(fs) \in 0..Len(fs) BY <1>1, <2>1
    <3>3. cut2[i - 1] = Len(T) /\ cut2[i] = Len(T2) BY <1>1, <1>5, <2>1, <3>2
    <3> QED BY <1>3, <3>1, <3>3
  <2>2. CASE i <= Len(fs)
    <3>1. /\ i \in 1..Len(fs) /\ i \in 0..Len(fs) /\ i - 1 \in 0..Len(fs) /\ gs[i] = fs[i]
      BY <1>1, <1>6, <2>2
    <3>2. cut2[i] = cut[i] /\ cut2[i - 1] = cut[i - 1] /\ cut[i - 1] \in Nat
      BY <1>1, <1>5, <3>1
    <3>3. fs[i] \in Queued BY <3>1
    <3>4. At(T2, cut[i - 1], Framed(fs[i].msg))
      <4>1. Framed(fs[i].msg) \in Seq(Nat) BY <3>3, FramedIs
      <4>2. At(T, cut[i - 1], Framed(fs[i].msg)) BY <1>2, <3>1
      <4> QED BY <1>1, <1>3, <3>2, <4>1, <4>2, AtStart
    <3> QED BY <1>2, <3>1, <3>2, <3>4
  <2> QED BY <1>1, <1>6, <2>1, <2>2
<1>8. cut2[0] = 0 BY <1>1, <1>5
<1>9. Stream(gs, T2, cut2) BY <1>3, <1>5, <1>6, <1>7, <1>8 DEF Stream
<1> QED BY <1>3, <1>5, <1>6, <1>9 DEF gs, cut2, T2, F

\* What has been read since the last frame is the next one as soon as it is
\* as long as its first cell says.
LEMMA StreamRead ==
  ASSUME NEW fs \in Seq(Queued), NEW T, NEW cut, Stream(fs, T, cut),
         NEW h \in 0..Len(fs), NEW b \in Seq(Nat), Len(b) >= 1, At(T, cut[h], b)
  PROVE  /\ h + 1 \in 1..Len(fs)
         /\ WholeFrame(b) => /\ Tail(b) = Serialize(fs[h + 1].msg)
                             /\ cut[h + 1] = cut[h] + Len(b)
<1>1. T \in Seq(Nat) /\ Len(T) \in Nat /\ Len(fs) \in Nat /\ Len(b) \in Nat
      /\ cut \in [0..Len(fs) -> Nat] /\ cut[Len(fs)] = Len(T) /\ cut[h] \in Nat
  <2>1. T \in Seq(Nat) /\ cut \in [0..Len(fs) -> Nat] /\ cut[Len(fs)] = Len(T)
    BY DEF Stream
  <2>2. Len(T) \in Nat /\ Len(fs) \in Nat /\ Len(b) \in Nat BY <2>1
  <2>3. cut[h] \in Nat BY <2>1
  <2> QED BY <2>1, <2>2, <2>3
<1>2. cut[h] + Len(b) <= Len(T) BY DEF At
<1>3. h # Len(fs) BY <1>1, <1>2
<1>4. h + 1 \in 1..Len(fs) /\ (h + 1) - 1 = h BY <1>1, <1>3
<1>5. ASSUME WholeFrame(b)
      PROVE  Tail(b) = Serialize(fs[h + 1].msg) /\ cut[h + 1] = cut[h] + Len(b)
  <2> DEFINE e == fs[h + 1]
             F == Framed(e.msg)
  <2>1. e \in Queued BY <1>4
  <2>2. F \in Seq(Nat) /\ Len(F) = 1 + F[1] /\ Tail(F) = Serialize(e.msg)
        /\ Len(F) >= 1
    <3>1. /\ Serialize(e.msg) \in Seq(Nat) /\ F \in Seq(Nat)
          /\ Len(F) = 1 + Len(Serialize(e.msg)) /\ F[1] = Len(Serialize(e.msg))
          /\ Tail(F) = Serialize(e.msg)
      BY <2>1, FramedIs
    <3>2. Len(Serialize(e.msg)) \in Nat BY <3>1
    <3> QED BY <3>1, <3>2
  <2>3. At(T, cut[h], F) /\ cut[h + 1] = cut[h] + Len(F)
    BY <1>4 DEF Stream
  <2> HIDE DEF F
  <2>4. T[cut[h] + 1] = F[1] BY <1>1, <2>2, <2>3, AtFirst
  <2>5. T[cut[h] + 1] = b[1] BY <1>1, AtFirst
  <2>6. Len(b) = Len(F) BY <1>5, <2>2, <2>4, <2>5 DEF WholeFrame
  <2>7. b = F BY <1>1, <2>2, <2>3, <2>6, AtEqual
  <2> QED BY <2>2, <2>3, <2>7
<1> QED BY <1>4, <1>5

-----------------------------------------------------------------------------
(* The connection's invariant.                                             *)

\* What Deserialize makes of a frame.
Decoded == {Deserialize(Serialize(m)) : m \in Complete}

\* The cells the send thread still has to write.
Rest(parts) ==
  IF parts = <<>> THEN <<>>
  ELSE IF Len(parts) = 1 THEN parts[1] ELSE parts[1] \o parts[2]

\* What snd may be: a frame's length and its contents, its contents, or nothing.
Parts == {<<>>} \union {<<x>> : x \in Seq(Nat)}
                \union {<<x, y>> : x \in Seq(Nat), y \in Seq(Nat)}

\* After the frames that have been read stand the cells that the receive
\* thread has of the next one, and then those under way.  While the connection
\* is up, what the send thread has not written follows, and then nothing.
Between(T, from) ==
  /\ At(T, from, buffer) /\ At(T, from + Len(buffer), wire)
  /\ link = "up" =>
       /\ At(T, from + Len(buffer) + Len(wire), Rest(snd))
       /\ from + Len(buffer) + Len(wire) + Len(Rest(snd)) = Len(T)

\* T is all that is sent over the connection, or would be.
Flows == \E T \in Seq(Nat), cut \in [0..Len(frames) -> Nat] :
  Stream(frames, T, cut) /\ Between(T, cut[Len(heard)])

StreamType ==
  /\ snd \in Parts /\ wire \in Seq(Nat) /\ buffer \in Seq(Nat)
  /\ heard \in Seq(Decoded) /\ Len(heard) <= Len(frames)
  /\ frames \in Seq(Queued)

\* What has been read so far are the first of the frames, decoded.
HeardAreDecoded ==
  \A i \in 1..Len(heard) : heard[i] = Deserialize(Serialize(frames[i].msg))

StreamInv == StreamType /\ HeardAreDecoded /\ Flows

LEMMA FlowsFrom ==
  ASSUME StreamInv
  PROVE  \E T \in Seq(Nat), cut \in [0..Len(frames) -> Nat] :
           /\ Stream(frames, T, cut) /\ Between(T, cut[Len(heard)])
           /\ Len(T) \in Nat /\ Len(frames) \in Nat /\ Len(heard) \in 0..Len(frames)
           /\ cut[Len(heard)] \in Nat /\ Len(buffer) \in Nat /\ Len(wire) \in Nat
           /\ cut[Len(frames)] = Len(T)
<1>1. PICK T \in Seq(Nat), cut \in [0..Len(frames) -> Nat] :
        Stream(frames, T, cut) /\ Between(T, cut[Len(heard)])
  BY DEF StreamInv, Flows
<1>2. Len(T) \in Nat /\ Len(frames) \in Nat /\ Len(heard) \in 0..Len(frames)
      /\ Len(buffer) \in Nat /\ Len(wire) \in Nat
  BY DEF StreamInv, StreamType
<1>3. cut[Len(heard)] \in Nat BY <1>2
<1>4. cut[Len(frames)] = Len(T) BY <1>1 DEF Stream
<1> QED BY <1>1, <1>2, <1>3, <1>4

\* Nothing has been sent or read.
LEMMA EmptyFlows ==
  ASSUME frames' = <<>>, heard' = <<>>, wire' = <<>>, buffer' = <<>>, snd' = <<>>
  PROVE  StreamInv'
<1>1. StreamType' BY DEF StreamType, Parts
<1>2. HeardAreDecoded' BY DEF HeardAreDecoded
<1>3. Flows'
  <2> DEFINE cut == [i \in 0..0 |-> 0]
  <2>1. /\ <<>> \in Seq(Nat) /\ Len(<<>>) = 0 /\ cut \in [0..0 -> Nat] /\ cut[0] = 0
    OBVIOUS
  <2> HIDE DEF cut
  <2>2. Stream(<<>>, <<>>, cut) BY <2>1 DEF Stream
  <2>3. At(<<>>, 0, <<>>) BY DEF At
  <2>4. Between(<<>>, 0)' BY <2>3 DEF Between, Rest
  <2> QED BY <2>1, <2>2, <2>4 DEF Flows
<1> QED BY <1>1, <1>2, <1>3 DEF StreamInv

LEMMA TakeFlows == ASSUME StreamInv, Take, PathType PROVE StreamInv'
<1>1. PICK e \in MostUrgent :
        /\ snd = <<>> /\ UNCHANGED <<wire, buffer, heard>>
        /\ \/ UNCHANGED <<snd, frames>> /\ link' \in {link, "down"}
           \/ /\ snd' = <<<<Len(Serialize(e.msg))>>, Serialize(e.msg)>>
              /\ frames' = Append(frames, e) /\ link' = link
  <2>1. PICK e \in MostUrgent :
          LET data == Serialize(e.msg)
              here == link # "down" /\ e.msg.dest = Peer
          IN  /\ IF here /\ Len(data) <= MaxFrame
                   THEN /\ snd' = <<<<Len(data)>>, data>>
                        /\ frames' = Append(frames, e)
                   ELSE UNCHANGED <<snd, frames>>
              /\ link' = IF here /\ Len(data) > MaxFrame THEN "down" ELSE link
    BY DEF Take
  <2>2. snd = <<>> /\ UNCHANGED <<wire, buffer, heard>> BY DEF Take
  <2> DEFINE data == Serialize(e.msg)
  <2>3. Len(data) \in Nat BY FramedIs DEF MostUrgent, PathType
  <2>4. CASE UNCHANGED <<snd, frames>>
    BY <2>1, <2>2, <2>4
  <2>5. CASE /\ Len(data) <= MaxFrame /\ snd' = <<<<Len(data)>>, data>>
             /\ frames' = Append(frames, e)
    BY <2>1, <2>2, <2>3, <2>5, PathAssumption
  <2> QED BY <2>1, <2>4, <2>5
<1>2. e \in Queued BY DEF MostUrgent, PathType
<1>3. CASE UNCHANGED <<snd, frames>> /\ link' \in {link, "down"}
  BY <1>1, <1>3 DEF StreamInv, StreamType, HeardAreDecoded, Flows, Between
<1>4. CASE /\ snd' = <<<<Len(Serialize(e.msg))>>, Serialize(e.msg)>>
           /\ frames' = Append(frames, e) /\ link' = link
  <2> DEFINE F == Framed(e.msg)
  <2>1. PICK T \in Seq(Nat), cut \in [0..Len(frames) -> Nat] :
           /\ Stream(frames, T, cut) /\ Between(T, cut[Len(heard)])
           /\ Len(T) \in Nat /\ Len(frames) \in Nat /\ Len(heard) \in 0..Len(frames)
           /\ cut[Len(heard)] \in Nat /\ Len(buffer) \in Nat /\ Len(wire) \in Nat
           /\ cut[Len(frames)] = Len(T)
    BY FlowsFrom
  <2>2. /\ frames \in Seq(Queued) /\ frames' \in Seq(Queued)
        /\ Len(frames') = Len(frames) + 1
        /\ \A i \in 1..Len(frames) : frames'[i] = frames[i]
    BY <1>2, <1>4, AppendProperties DEF StreamInv, StreamType
  <2>3. PICK T2 \in Seq(Nat), cut2 \in [0..Len(frames') -> Nat] :
          /\ Stream(frames', T2, cut2)
          /\ \A i \in 0..Len(frames) : cut2[i] = cut[i]
          /\ At(T2, 0, T) /\ At(T2, Len(T), F)
          /\ Len(T2) = Len(T) + Len(F)
    <3> DEFINE X == T \o F
               c == [i \in 0..(Len(frames) + 1) |->
                       IF i <= Len(frames) THEN cut[i] ELSE Len(X)]
    <3>1. /\ X \in Seq(Nat) /\ c \in [0..Len(Append(frames, e)) -> Nat]
          /\ Stream(Append(frames, e), X, c)
          /\ \A i \in 0..Len(frames) : c[i] = cut[i]
          /\ At(X, 0, T) /\ At(X, Len(T), F)
          /\ Len(X) = Len(T) + Len(F)
      BY <1>2, <2>1, <2>2, StreamGrows
    <3> HIDE DEF X, c
    <3> QED BY <1>4, <3>1
  <2>4. F \in Seq(Nat) /\ Serialize(e.msg) \in Seq(Nat) BY <1>2, FramedIs
  <2>5. Rest(snd') = F /\ snd' \in Parts
    <3>1. <<Len(Serialize(e.msg))>> \in Seq(Nat) BY <2>4
    <3>2. snd' # <<>> /\ Len(snd') = 2 /\ snd'[1] = <<Len(Serialize(e.msg))>>
          /\ snd'[2] = Serialize(e.msg)
      BY <1>4
    <3>3. snd' \in Parts
      <4>1. \A x, y \in Seq(Nat) : <<x, y>> \in Parts BY DEF Parts
      <4> QED BY <1>4, <2>4, <3>1, <4>1
    <3> QED BY <3>2, <3>3 DEF Rest, Framed
  <2> HIDE DEF F
  <2>6. cut2[Len(heard)] = cut[Len(heard)] BY <2>1, <2>3
  <2> DEFINE b == cut[Len(heard)]
             w == b + Len(buffer)
             n == w + Len(wire)
  <2>7. b \in Nat /\ w \in Nat /\ n \in Nat BY <2>1
  <2>8. At(T, b, buffer) /\ At(T, w, wire) BY <2>1 DEF Between
  <2>9. link = "up" => n = Len(T)
    <3>1. Len(Rest(snd)) = 0 BY <1>1 DEF Rest
    <3> QED BY <2>1, <2>7, <3>1 DEF Between
  <2>10. buffer \in Seq(Nat) /\ wire \in Seq(Nat) BY DEF StreamInv, StreamType
  <2> HIDE DEF b, w, n
  <2>11. At(T2, b, buffer) /\ At(T2, w, wire)
    BY <2>3, <2>7, <2>8, <2>10, AtStart
  <2>12. link = "up" => At(T2, n, F) /\ n + Len(F) = Len(T2)
    BY <2>3, <2>9
  <2>13. Between(T2, b)' 
    BY <1>1, <1>4, <2>5, <2>11, <2>12 DEF Between, b, w, n
  <2>14. Flows' BY <1>1, <2>3, <2>6, <2>13 DEF Flows, b
  <2>15. StreamType'
    BY <1>1, <2>1, <2>2, <2>5 DEF StreamInv, StreamType
  <2>16. HeardAreDecoded'
    BY <1>1, <2>1, <2>2 DEF StreamInv, HeardAreDecoded
  <2> QED BY <2>14, <2>15, <2>16 DEF StreamInv
<1> QED BY <1>1, <1>3, <1>4

\* The cells of one part get under way.
LEMMA WriteFlows == ASSUME StreamInv, Write PROVE StreamInv'
<1>1. /\ snd # <<>> /\ link = "up" /\ link' = "up"
      /\ wire' = wire \o snd[1] /\ snd' = Tail(snd)
      /\ UNCHANGED <<buffer, frames, heard>>
  BY DEF Write
<1>2. PICK x \in Seq(Nat) :
        /\ snd[1] = x
        /\ Rest(snd') \in Seq(Nat) /\ Rest(snd) = x \o Rest(snd') /\ snd' \in Parts
  <2>1. snd \in Parts BY DEF StreamInv, StreamType
  <2>2. ASSUME NEW x \in Seq(Nat), snd = <<x>>
        PROVE  /\ snd[1] = x /\ Rest(snd') \in Seq(Nat) /\ Rest(snd) = x \o Rest(snd')
               /\ snd' \in Parts
    <3>1. snd[1] = x /\ Len(snd) = 1 /\ snd' = <<>> BY <1>1, <2>2
    <3>2. Rest(snd) = x /\ Rest(snd') = <<>> BY <1>1, <3>1 DEF Rest
    <3>3. x \o <<>> = x BY ConcatEmptySeq
    <3>4. <<>> \in Parts BY DEF Parts
    <3>5. <<>> \in Seq(Nat) OBVIOUS
    <3> QED BY <3>1, <3>2, <3>3, <3>4, <3>5
  <2>3. ASSUME NEW x \in Seq(Nat), NEW y \in Seq(Nat), snd = <<x, y>>
        PROVE  /\ snd[1] = x /\ Rest(snd') \in Seq(Nat) /\ Rest(snd) = x \o Rest(snd')
               /\ snd' \in Parts
    <3>1. snd[1] = x /\ snd[2] = y /\ Len(snd) = 2 /\ snd' = <<y>> BY <1>1, <2>3
    <3>2. snd' # <<>> /\ Len(snd') = 1 /\ snd'[1] = y BY <3>1
    <3>3. Rest(snd) = x \o y /\ Rest(snd') = y BY <1>1, <3>1, <3>2 DEF Rest
    <3>4. <<y>> \in Parts BY DEF Parts
    <3> QED BY <3>1, <3>3, <3>4
  <2>4. \/ \E x \in Seq(Nat) : snd = <<x>>
        \/ \E x, y \in Seq(Nat) : snd = <<x, y>>
    BY <1>1, <2>1 DEF Parts
  <2> QED BY <2>2, <2>3, <2>4
<1>3. PICK T \in Seq(Nat), cut \in [0..Len(frames) -> Nat] :
        /\ Stream(frames, T, cut) /\ Between(T, cut[Len(heard)])
        /\ Len(T) \in Nat /\ Len(frames) \in Nat /\ Len(heard) \in 0..Len(frames)
        /\ cut[Len(heard)] \in Nat /\ Len(buffer) \in Nat /\ Len(wire) \in Nat
        /\ cut[Len(frames)] = Len(T)
  BY FlowsFrom
<1> DEFINE b == cut[Len(heard)]
           w == b + Len(buffer)
           r == Rest(snd')
<1>4. b \in Nat /\ w \in Nat BY <1>3
<1>5. wire \in Seq(Nat) /\ buffer \in Seq(Nat) /\ r \in Seq(Nat)
  BY <1>2 DEF StreamInv, StreamType
<1>6. /\ At(T, b, buffer) /\ At(T, w, wire)
      /\ At(T, w + Len(wire), x \o r) /\ w + Len(wire) + Len(x \o r) = Len(T)
  BY <1>1, <1>2, <1>3 DEF Between
<1> HIDE DEF b, w, r
<1>7. /\ x \o r \in Seq(Nat) /\ Len(x \o r) = Len(x) + Len(r)
      /\ At(x \o r, 0, x) /\ At(x \o r, Len(x), r)
  BY <1>2, <1>5, AtConcat
<1>8. w + Len(wire) \in Nat /\ Len(x) \in Nat /\ Len(r) \in Nat /\ Len(wire) \in Nat
  BY <1>3, <1>4, <1>5
<1>9. At(T, w + Len(wire), x) /\ At(T, w + Len(wire) + Len(x), r)
  <2> DEFINE k == w + Len(wire)
             xr == x \o r
  <2> HIDE DEF k, xr
  <2>1. k \in Nat /\ xr \in Seq(Nat) /\ At(T, k, xr) /\ At(xr, 0, x) /\ At(xr, Len(x), r)
    BY <1>6, <1>7, <1>8 DEF k, xr
  <2>2. At(T, k + Len(x), r) BY <1>2, <1>3, <1>5, <1>8, <2>1, AtWithin
  <2>3. \A j \in Nat : At(xr, j, x) => At(T, k + j, x)
    BY <1>2, <1>3, <2>1, AtWithin
  <2>4. At(T, k + 0, x) BY <2>1, <2>3
  <2>5. k + 0 = k BY <2>1
  <2> QED BY <2>2, <2>4, <2>5 DEF k
<1>10. /\ wire' \in Seq(Nat) /\ Len(wire') = Len(wire) + Len(x)
       /\ At(T, w, wire')
  BY <1>1, <1>2, <1>3, <1>4, <1>5, <1>6, <1>9, AtConcat, AtJoined
<1>11. At(T, w + Len(wire'), r) /\ w + Len(wire') + Len(r) = Len(T)
  <2>1. /\ w + Len(wire') = w + Len(wire) + Len(x)
        /\ w + Len(wire') + Len(r) = w + Len(wire) + (Len(x) + Len(r))
    BY <1>4, <1>8, <1>10
  <2> QED BY <1>6, <1>7, <1>9, <2>1
<1>12. Between(T, b)' BY <1>1, <1>6, <1>10, <1>11 DEF Between, b, w, r
<1>13. Flows' BY <1>1, <1>3, <1>12 DEF Flows, b
<1>14. StreamType' BY <1>1, <1>2, <1>10 DEF StreamInv, StreamType
<1>15. HeardAreDecoded' BY <1>1 DEF StreamInv, HeardAreDecoded
<1> QED BY <1>13, <1>14, <1>15 DEF StreamInv

\* The receive thread takes cells from the front of what is under way.
LEMMA ReceiveFlows == ASSUME StreamInv, Receive PROVE StreamInv'
<1>1. PICK k \in 1..Len(wire) :
        LET c == buffer \o SubSeq(wire, 1, k) IN
        /\ buffer' = IF WholeFrame(c) THEN <<>> ELSE c
        /\ heard' = IF WholeFrame(c) THEN Append(heard, Deserialize(Tail(c))) ELSE heard
        /\ wire' = SubSeq(wire, k + 1, Len(wire))
        /\ UNCHANGED <<snd, link, frames>>
  <2> DEFINE missing == IF buffer = <<>> THEN 1 ELSE 1 + buffer[1] - Len(buffer)
  <2>1. PICK k \in Part(IF missing < Len(wire) THEN missing ELSE Len(wire)) \ {0} :
        LET c == buffer \o SubSeq(wire, 1, k) IN
        /\ buffer' = IF WholeFrame(c) THEN <<>> ELSE c
        /\ heard' = IF WholeFrame(c) THEN Append(heard, Deserialize(Tail(c))) ELSE heard
        /\ wire' = SubSeq(wire, k + 1, Len(wire))
        /\ UNCHANGED <<snd, link, frames>>
    BY DEF Receive
  <2>2. Len(wire) \in Nat BY DEF StreamInv, StreamType
  <2>3. missing \in Int
    <3>1. CASE buffer = <<>> BY <3>1
    <3>2. CASE buffer # <<>>
      <4>1. buffer \in Seq(Nat) BY DEF StreamInv, StreamType
      <4>2. buffer[1] \in Nat /\ Len(buffer) \in Nat BY <3>2, <4>1
      <4> QED BY <3>2, <4>2
    <3> QED BY <3>1, <3>2
  <2> HIDE DEF missing
  <2>4. k \in 1..Len(wire) BY <2>2, <2>3 DEF Part
  <2> QED BY <2>1, <2>4
<1>2. PICK T \in Seq(Nat), cut \in [0..Len(frames) -> Nat] :
        /\ Stream(frames, T, cut) /\ Between(T, cut[Len(heard)])
        /\ Len(T) \in Nat /\ Len(frames) \in Nat /\ Len(heard) \in 0..Len(frames)
        /\ cut[Len(heard)] \in Nat /\ Len(buffer) \in Nat /\ Len(wire) \in Nat
        /\ cut[Len(frames)] = Len(T)
  BY FlowsFrom
<1>3. /\ wire \in Seq(Nat) /\ buffer \in Seq(Nat) /\ frames \in Seq(Queued)
      /\ heard \in Seq(Decoded) /\ snd \in Parts
  BY DEF StreamInv, StreamType
<1> DEFINE h == Len(heard)
           b == cut[h]
           w == b + Len(buffer)
           l == SubSeq(wire, 1, k)
           r == SubSeq(wire, k + 1, Len(wire))
           c == buffer \o l
<1>4. /\ l \in Seq(Nat) /\ Len(l) = k /\ At(wire, 0, l)
      /\ r \in Seq(Nat) /\ Len(r) = Len(wire) - k /\ At(wire, k, r)
  <2>1. k \in 0..Len(wire) BY <1>2
  <2> QED BY <1>3, <2>1, AtParts
<1>5. b \in Nat /\ w \in Nat /\ k \in Nat /\ 1 <= k /\ k <= Len(wire) BY <1>2
<1>6. At(T, b, buffer) /\ At(T, w, wire) BY <1>2 DEF Between
<1>7. link = "up" => /\ At(T, w + Len(wire), Rest(snd))
                     /\ w + Len(wire) + Len(Rest(snd)) = Len(T)
  BY <1>2 DEF Between
<1>8. /\ wire' = r /\ UNCHANGED <<snd, link, frames>>
      /\ buffer' = IF WholeFrame(c) THEN <<>> ELSE c
      /\ heard' = IF WholeFrame(c) THEN Append(heard, Deserialize(Tail(c))) ELSE heard
  BY <1>1
<1> HIDE DEF h, b, w, l, r
<1>9. /\ c \in Seq(Nat) /\ Len(c) = Len(buffer) + k
  BY <1>3, <1>4, AtConcat
<1>10. At(T, w, l)
  <2>1. \A j \in Nat : At(wire, j, l) => At(T, w + j, l)
    BY <1>2, <1>3, <1>4, <1>5, <1>6, AtWithin
  <2>2. At(T, w + 0, l) /\ w + 0 = w BY <1>4, <1>5, <2>1
  <2> QED BY <2>2
<1>11. At(T, b, c)
  BY <1>2, <1>3, <1>4, <1>5, <1>6, <1>10, AtJoined DEF w
<1>12. At(T, w + k, r) BY <1>2, <1>3, <1>4, <1>5, <1>6, AtWithin
<1> HIDE DEF c
<1>13. /\ w + k = b + Len(c) /\ b + Len(c) + Len(r) = w + Len(wire)
       /\ Len(c) \in Nat /\ Len(c) >= 1
  BY <1>2, <1>4, <1>5, <1>9 DEF w
<1>14. /\ h \in 0..Len(frames) /\ h + 1 \in 1..Len(frames)
       /\ WholeFrame(c) => /\ Tail(c) = Serialize(frames[h + 1].msg)
                           /\ cut[h + 1] = b + Len(c)
  <2>1. h \in 0..Len(frames) /\ At(T, cut[h], c) BY <1>2, <1>11 DEF h, b
  <2>2. /\ h + 1 \in 1..Len(frames)
        /\ WholeFrame(c) => /\ Tail(c) = Serialize(frames[h + 1].msg)
                            /\ cut[h + 1] = cut[h] + Len(c)
    <3>1. Stream(frames, T, cut) /\ frames \in Seq(Queued) BY <1>2, <1>3
    <3>2. c \in Seq(Nat) /\ Len(c) >= 1 BY <1>9, <1>13
    <3> QED BY <2>1, <3>1, <3>2, StreamRead
  <2> QED BY <2>1, <2>2 DEF b
<1>15. link' = "up" => /\ At(T, b + Len(c) + Len(r), Rest(snd'))
                       /\ b + Len(c) + Len(r) + Len(Rest(snd')) = Len(T)
  BY <1>7, <1>8, <1>13
<1>16. CASE WholeFrame(c)
  <2> DEFINE d == Deserialize(Tail(c))
  <2>1. d \in Decoded /\ d = Deserialize(Serialize(frames[h + 1].msg))
    <3>1. frames[h + 1] \in Queued BY <1>3, <1>14
    <3>2. frames[h + 1].msg \in Complete BY <3>1 DEF Queued
    <3> QED BY <1>14, <1>16, <3>2 DEF Decoded
  <2> HIDE DEF d
  <2>2. buffer' = <<>> /\ heard' = Append(heard, d) BY <1>8, <1>16 DEF d
  <2>3. /\ heard' \in Seq(Decoded) /\ Len(heard') = h + 1 /\ heard'[h + 1] = d
        /\ \A i \in 1..h : heard'[i] = heard[i]
    BY <1>3, <2>1, <2>2, AppendProperties DEF h
  <2>4. StreamType'
    BY <1>3, <1>4, <1>8, <1>14, <2>2, <2>3 DEF StreamType
  <2>5. HeardAreDecoded'
    <3> SUFFICES ASSUME NEW i \in 1..(h + 1)
                 PROVE  heard'[i] = Deserialize(Serialize(frames[i].msg))
      BY <1>8, <2>3 DEF HeardAreDecoded
    <3>1. CASE i = h + 1 BY <2>1, <2>3, <3>1
    <3>2. CASE i # h + 1
      <4>1. i \in 1..h BY <1>14, <3>2
      <4> QED BY <2>3, <4>1 DEF StreamInv, HeardAreDecoded, h
    <3> QED BY <3>1, <3>2
  <2>6. PICK n \in Nat : n = b + Len(c) BY <1>5, <1>13
  <2>7. Between(T, n)'
    <3>1. At(T, n, r) BY <1>12, <1>13, <2>6
    <3>2. n <= Len(T) BY <1>11, <2>6 DEF At
    <3>3. At(T, n, <<>>) BY <2>6, <3>2 DEF At
    <3>4. link' = "up" => /\ At(T, n + Len(r), Rest(snd'))
                          /\ n + Len(r) + Len(Rest(snd')) = Len(T)
      BY <1>15, <2>6
    <3>5. Len(buffer') = 0 /\ n + Len(buffer') = n BY <2>2, <2>6
    <3> QED BY <1>8, <2>2, <3>1, <3>3, <3>4, <3>5 DEF Between
  <2>8. cut[Len(heard')] = n BY <1>14, <1>16, <2>3, <2>6
  <2>9. Flows' BY <1>2, <1>8, <2>7, <2>8 DEF Flows, Between
  <2> QED BY <2>4, <2>5, <2>9 DEF StreamInv
<1>17. CASE ~WholeFrame(c)
  <2>1. buffer' = c /\ heard' = heard BY <1>8, <1>17
  <2>2. StreamType' BY <1>2, <1>3, <1>4, <1>8, <1>9, <2>1 DEF StreamInv, StreamType
  <2>3. HeardAreDecoded' BY <1>8, <2>1 DEF StreamInv, HeardAreDecoded
  <2>4. Between(T, b)'
    BY <1>8, <1>11, <1>12, <1>13, <1>15, <2>1 DEF Between, b, h
  <2> QED BY <1>2, <1>8, <2>1, <2>2, <2>3, <2>4 DEF Flows, StreamInv, b, h
<1> QED BY <1>16, <1>17

\* What was under way may be cut short.
LEMMA BreakFlows == ASSUME StreamInv, Break PROVE StreamInv'
<1>1. PICK k \in 0..Len(wire) : wire' = SubSeq(wire, 1, k)
  BY DEF Break, Part
<1>2. link' # "up" /\ UNCHANGED <<snd, buffer, frames, heard>> BY DEF Break
<1>3. PICK T \in Seq(Nat), cut \in [0..Len(frames) -> Nat] :
        /\ Stream(frames, T, cut) /\ Between(T, cut[Len(heard)])
        /\ Len(T) \in Nat /\ Len(frames) \in Nat /\ Len(heard) \in 0..Len(frames)
        /\ cut[Len(heard)] \in Nat /\ Len(buffer) \in Nat /\ Len(wire) \in Nat
        /\ cut[Len(frames)] = Len(T)
  BY FlowsFrom
<1> DEFINE b == cut[Len(heard)]
           w == b + Len(buffer)
           l == SubSeq(wire, 1, k)
<1>4. b \in Nat /\ w \in Nat BY <1>3
<1>5. At(T, b, buffer) /\ At(T, w, wire) BY <1>3 DEF Between
<1>6. wire \in Seq(Nat) BY DEF StreamInv, StreamType
<1>7. l \in Seq(Nat) /\ At(wire, 0, l) BY <1>6, AtParts
<1> HIDE DEF l, b, w
<1>8. At(T, w, l)
  <2>1. \A j \in Nat : At(wire, j, l) => At(T, w + j, l)
    BY <1>3, <1>4, <1>5, <1>6, <1>7, AtWithin
  <2>2. At(T, w + 0, l) /\ w + 0 = w BY <1>4, <1>7, <2>1
  <2> QED BY <2>2
<1>9. Between(T, b)' BY <1>1, <1>2, <1>5, <1>8 DEF Between, b, w, l
<1>10. Flows' BY <1>2, <1>3, <1>9 DEF Flows, b
<1>11. StreamType' BY <1>1, <1>2, <1>7 DEF StreamInv, StreamType, l
<1>12. HeardAreDecoded' BY <1>2 DEF StreamInv, HeardAreDecoded
<1> QED BY <1>10, <1>11, <1>12 DEF StreamInv

LEMMA InitStreamInv == PathInit => StreamInv
<1> SUFFICES ASSUME PathInit PROVE StreamInv OBVIOUS
<1>1. frames = <<>> /\ heard = <<>> /\ wire = <<>> /\ buffer = <<>> /\ snd = <<>>
  BY DEF PathInit
<1>2. StreamType BY <1>1 DEF StreamType, Parts
<1>3. HeardAreDecoded BY <1>1 DEF HeardAreDecoded
<1>4. Flows
  <2> DEFINE cut == [i \in 0..0 |-> 0]
  <2>1. /\ <<>> \in Seq(Nat) /\ Len(<<>>) = 0 /\ cut \in [0..0 -> Nat] /\ cut[0] = 0
    OBVIOUS
  <2> HIDE DEF cut
  <2>2. Stream(<<>>, <<>>, cut) BY <2>1 DEF Stream
  <2>3. At(<<>>, 0, <<>>) BY DEF At
  <2>4. Between(<<>>, 0) BY <1>1, <2>3 DEF Between, Rest
  <2> QED BY <1>1, <2>1, <2>2, <2>4 DEF Flows
<1> QED BY <1>2, <1>3, <1>4 DEF StreamInv

LEMMA StepStreamInv ==
  ASSUME StreamInv, PathType, [PathNext]_pathVars PROVE StreamInv'
<1>1. CASE SendMessage \/ Tick \/ UNCHANGED pathVars
  <2>1. UNCHANGED <<link, snd, wire, buffer, frames, heard>>
    BY <1>1 DEF SendMessage, Tick, pathVars
  <2> QED BY <2>1 DEF StreamInv, StreamType, HeardAreDecoded, Flows, Between
<1>2. CASE WriteFails \/ Stop
  <2>1. /\ snd' \in {snd, <<>>} /\ link' = "down"
        /\ UNCHANGED <<wire, buffer, frames, heard>>
    BY <1>2 DEF WriteFails, Stop
  <2>2. snd' \in Parts BY <2>1 DEF StreamInv, StreamType, Parts
  <2> QED BY <2>1, <2>2 DEF StreamInv, StreamType, HeardAreDecoded, Flows, Between
<1>3. CASE Link
  <2>1. /\ frames' = <<>> /\ heard' = <<>> /\ wire' = <<>> /\ buffer' = <<>>
        /\ snd' = <<>>
    BY <1>3 DEF Link
  <2> QED BY <2>1, EmptyFlows
<1> QED BY <1>1, <1>2, <1>3, TakeFlows, WriteFlows, ReceiveFlows, BreakFlows DEF PathNext

LEMMA FlowsApart == StreamInv => FramesStayApart
<1> SUFFICES ASSUME StreamInv PROVE FramesStayApart OBVIOUS
<1>1. /\ heard \in Seq(Decoded) /\ frames \in Seq(Queued) /\ Len(heard) <= Len(frames)
  BY DEF StreamInv, StreamType
<1>2. ASSUME NEW i \in DOMAIN heard,
             Len(frames[i].msg.source) < Byte, Len(frames[i].msg.dest) < Byte
      PROVE  heard[i] = <<frames[i].msg>>
  <2>1. i \in 1..Len(heard) /\ i \in 1..Len(frames) BY <1>1
  <2>2. frames[i] \in Queued BY <1>1, <2>1
  <2>3. frames[i].msg \in Complete BY <2>2 DEF Queued
  <2>4. heard[i] = Deserialize(Serialize(frames[i].msg))
    BY <2>1 DEF StreamInv, HeardAreDecoded
  <2> QED BY <1>2, <2>3, <2>4, RoundTrip
<1> QED BY <1>1, <1>2 DEF FramesStayApart

\* Every frame that is read is decoded to the message it was made from, and in
\* its place: however send() and recv() split the stream of bytes, wherever the
\* connection is lost, and whatever the messages before it were.
THEOREM FramesApart == PathSpec => []FramesStayApart
<1>1. PInv => PathType BY DEF PInv
<1> QED BY <1>1, InitPInv, StepPInv, InitStreamInv, StepStreamInv, FlowsApart, PTL
        DEF PathSpec
=============================================================================
