----------------------------- MODULE ChatProofs -----------------------------
(***************************************************************************)
(* What holds of the numbering, of a broadcast's way through the table and *)
(* of the screens in every chat, for any set of clients, any interleaving  *)
(* of the leader's threads and any behaviour of the network.               *)
(***************************************************************************)
EXTENDS ChatTypes

NumberInv == Numbered /\ StampNotAhead

(* Only the four locked lines (Enqueue) and the end of a broadcast touch   *)
(* the list of numbered messages; every other step leaves it alone and at  *)
(* most puts a message with a fresh read of the number into a draft.       *)
DraftedNow(t) ==
  \/ draft'[t] = Idle
  \/ draft'[t].msg.seq = currentSequenceNum
  \/ draft[t] # Idle /\ draft'[t].msg = draft[t].msg

LEMMA NumbersAlone ==
  ASSUME TypeInv, NumberInv, UNCHANGED <<currentSequenceNum, sequencer_queue, order>>,
         \A t \in Thread : DraftedNow(t)
  PROVE  NumberInv'
<1>1. Numbered'
  BY DEF NumberInv, Numbered
<1>2. StampNotAhead'
  BY DEF NumberInv, StampNotAhead, DraftedNow, TypeInv, TypeOK, SequencerTypeOK
<1> QED BY <1>1, <1>2 DEF NumberInv

LEMMA EnqueueNumbers ==
  ASSUME TypeInv, NumberInv, NEW t \in Thread, Enqueue(t)
  PROVE  NumberInv'
<1> USE DEF TypeInv, TypeOK, SequencerTypeOK, NumberInv
<1> DEFINE node == [v |-> currentSequenceNum, m |-> draft[t].msg]
<1>0. draft[t] # Idle /\ draft[t].msg \in Message
  BY DraftFields DEF Enqueue, Idle
<1>1. node \in Node
  BY <1>0 DEF Node
<1>2. order' = Append(order, node) /\ sequencer_queue' = Append(sequencer_queue, node)
      /\ currentSequenceNum' = currentSequenceNum + 1
  BY DEF Enqueue, NumberAfter, Queued
<1>3. /\ Len(order') = Len(order) + 1 /\ DOMAIN order' = 1..(Len(order) + 1)
      /\ \A i \in 1..Len(order) : order'[i] = order[i]
      /\ order'[Len(order) + 1] = node
      /\ Len(order) \in Nat /\ DOMAIN order = 1..Len(order)
  BY <1>1, <1>2, AppendProperties, LenProperties
<1>4. /\ Len(sequencer_queue') = Len(sequencer_queue) + 1
      /\ DOMAIN sequencer_queue' = 1..(Len(sequencer_queue) + 1)
      /\ \A i \in 1..Len(sequencer_queue) : sequencer_queue'[i] = sequencer_queue[i]
      /\ sequencer_queue'[Len(sequencer_queue) + 1] = node
      /\ Len(sequencer_queue) \in Nat
      /\ DOMAIN sequencer_queue = 1..Len(sequencer_queue)
  BY <1>1, <1>2, AppendProperties, LenProperties
<1>5. node.v = Len(order) /\ node.m.seq <= node.v
  BY <1>0 DEF Numbered, StampNotAhead
<1> HIDE DEF node
<1>6. Numbered'
  <2>1. currentSequenceNum' = Len(order')
    BY <1>2, <1>3 DEF Numbered
  <2>2. \A i \in DOMAIN order' : order'[i].v = i - 1
    BY <1>3, <1>5 DEF Numbered
  <2>3. Len(sequencer_queue') <= Len(order')
    BY <1>3, <1>4 DEF Numbered
  <2>4. \A i \in DOMAIN sequencer_queue' :
          sequencer_queue'[i] = order'[Len(order') - Len(sequencer_queue') + i]
    <3> TAKE i \in DOMAIN sequencer_queue'
    <3>1. CASE i \in 1..Len(sequencer_queue)
      BY <1>3, <1>4, <3>1 DEF Numbered
    <3>2. CASE i = Len(sequencer_queue) + 1
      BY <1>3, <1>4, <3>2
    <3> QED BY <1>4, <3>1, <3>2
  <2> QED BY <2>1, <2>2, <2>3, <2>4 DEF Numbered
<1>7. StampNotAhead'
  <2>1. \A i \in DOMAIN order' : order'[i].m.seq <= order'[i].v
    BY <1>3, <1>5 DEF StampNotAhead
  <2>2. \A s \in Thread : draft'[s] = Idle \/ (draft[s] # Idle /\ draft'[s].msg = draft[s].msg)
    <3>1. CASE Hold(t, "reply", draft[t].msg)
      <4>1. \A s \in Thread : s # t => draft'[s] = draft[s]
        BY <3>1 DEF Hold
      <4>2. draft'[t].msg = draft[t].msg
        BY <3>1 DEF Hold
      <4> QED BY <1>0, <4>1, <4>2
    <3>2. CASE Release(t)
      <4>1. \A s \in Thread : s # t => draft'[s] = draft[s]
        BY <3>2 DEF Release
      <4>2. draft'[t] = Idle
        BY <3>2 DEF Release
      <4> QED BY <1>0, <4>1, <4>2
    <3> QED BY <3>1, <3>2 DEF Enqueue
  <2>3. \A s \in Thread : draft[s] # Idle =>
          draft[s].msg.seq \in Nat /\ draft[s].msg.seq <= currentSequenceNum
    BY DEF StampNotAhead, Draft, Message
  <2>4. \A s \in Thread : draft'[s] # Idle => draft'[s].msg.seq <= currentSequenceNum'
    BY <1>2, <2>2, <2>3
  <2> QED BY <2>1, <2>4 DEF StampNotAhead
<1> QED BY <1>6, <1>7

LEMMA BroadcastEndNumbers ==
  ASSUME TypeInv, NumberInv, BroadcastEnd
  PROVE  NumberInv'
<1> USE DEF TypeInv, TypeOK, SequencerTypeOK, NumberInv
<1>1. sequencer_queue # <<>>
  BY DEF BroadcastEnd, CastIsHead, NoCast
<1>2. sequencer_queue' = Tail(sequencer_queue)
      /\ UNCHANGED <<currentSequenceNum, draft, order>>
  BY DEF BroadcastEnd, Dequeued
<1>3. /\ Len(sequencer_queue') = Len(sequencer_queue) - 1
      /\ \A i \in 1..Len(sequencer_queue') : sequencer_queue'[i] = sequencer_queue[i + 1]
      /\ DOMAIN sequencer_queue' = 1..Len(sequencer_queue')
      /\ DOMAIN sequencer_queue = 1..Len(sequencer_queue)
      /\ Len(sequencer_queue) \in Nat /\ Len(order) \in Nat
  BY <1>1, <1>2, HeadTailProperties, LenProperties
<1>4. Numbered'
  <2>1. \A i \in DOMAIN sequencer_queue' :
          sequencer_queue'[i] = order'[Len(order') - Len(sequencer_queue') + i]
    <3> TAKE i \in DOMAIN sequencer_queue'
    <3>1. i + 1 \in DOMAIN sequencer_queue /\ sequencer_queue'[i] = sequencer_queue[i + 1]
      BY <1>3
    <3>2. sequencer_queue[i + 1] = order[Len(order) - Len(sequencer_queue) + (i + 1)]
      BY <3>1 DEF Numbered
    <3>3. Len(order) - Len(sequencer_queue) + (i + 1) = Len(order') - Len(sequencer_queue') + i
      BY <1>2, <1>3
    <3> QED BY <1>2, <3>1, <3>2, <3>3
  <2> QED BY <1>2, <1>3, <2>1 DEF Numbered
<1>5. StampNotAhead'
  BY <1>2 DEF StampNotAhead
<1> QED BY <1>4, <1>5

LEMMA NumberInvStep == TypeInv /\ NumberInv /\ [Next]_vars => NumberInv'
<1> SUFFICES ASSUME TypeInv, NumberInv, [Next]_vars PROVE NumberInv'
  OBVIOUS
<1> DEFINE Alone == /\ UNCHANGED <<currentSequenceNum, sequencer_queue, order>>
                    /\ \A t \in Thread : DraftedNow(t)
<1>a. Alone => NumberInv'
  BY NumbersAlone
<1>b. draft \in [Thread -> Draft] /\ \A t \in Thread : draft[t].step # "idle" => draft[t] # Idle
  BY DEF TypeInv, TypeOK, SequencerTypeOK, Idle
<1>c. UNCHANGED draft => \A t \in Thread : DraftedNow(t)
  BY DEF DraftedNow
<1>d. ASSUME NEW t \in Thread, NEW step, NEW msg, Hold(t, step, msg),
             msg.seq = currentSequenceNum \/ (draft[t] # Idle /\ msg = draft[t].msg)
      PROVE  \A s \in Thread : DraftedNow(s)
  BY <1>b, <1>d DEF Hold, DraftedNow
<1>e. ASSUME NEW t \in Thread, Release(t) PROVE \A s \in Thread : DraftedNow(s)
  BY <1>b, <1>e DEF Release, DraftedNow
<1>f. \A type, about, n, text : Stamped(type, about, n, text).seq = currentSequenceNum
  BY DEF Stamped, Stamp
<1> HIDE DEF Alone
<1>1. CASE TypeLine \/ StampJoin \/ StampLine \/ EnterJoiner \/ AnswerJoiner
  <2>1. UNCHANGED <<currentSequenceNum, sequencer_queue, order>>
    BY <1>1 DEF TypeLine, StampJoin, StampLine, EnterJoiner, AnswerJoiner
  <2>2. \A t \in Thread : DraftedNow(t)
    <3> "input" \in Thread /\ "listen" \in Thread
      BY DEF Thread
    <3>1. CASE TypeLine
      BY <3>1, <1>d, <1>f DEF TypeLine
    <3>2. CASE StampJoin
      BY <3>2, <1>d, <1>f DEF StampJoin
    <3>3. CASE StampLine
      BY <3>3, <1>d, <1>f DEF StampLine
    <3>4. CASE EnterJoiner
      <4>1. draft["listen"] # Idle
        BY <3>4, <1>b DEF EnterJoiner
      <4> QED BY <3>4, <4>1, <1>d DEF EnterJoiner
    <3>5. CASE AnswerJoiner
      BY <3>5, <1>e DEF AnswerJoiner
    <3> QED BY <1>1, <3>1, <3>2, <3>3, <3>4, <3>5
  <2> QED BY <1>a, <2>1, <2>2 DEF Alone
<1>2. CASE SendQueue /\ ~BroadcastEnd
  BY <1>2, <1>a, <1>c DEF Alone, SendQueue, BroadcastStart, PrintOwn, SkipJoiner, SendToMember,
                          ReceiveAck, AckTimeout
<1>3. CASE CountBeat
  <2>1. \A t \in Thread : DraftedNow(t)
    BY <1>3, <1>c, <1>d, <1>f DEF CountBeat, Thread
  <2> QED BY <1>3, <1>a, <2>1 DEF Alone, CountBeat
<1>4. CASE UNCHANGED sequencerVars
  BY <1>4, <1>a, <1>c DEF Alone, sequencerVars
<1>5. ASSUME NEW t \in Thread, Enqueue(t) PROVE NumberInv'
  BY <1>5, EnqueueNumbers
<1>6. CASE BroadcastEnd
  BY <1>6, BroadcastEndNumbers
<1>7. CASE UNCHANGED vars
  BY <1>4, <1>7 DEF vars
<1>8. CASE Next
  <2>1. "input" \in Thread /\ "listen" \in Thread /\ "send_hb" \in Thread
    BY DEF Thread
  <2>2. CASE LeaderThread(Input)
    BY <2>2, <2>1, <1>1, <1>5 DEF LeaderThread, Input
  <2>3. CASE LeaderThread(Listen)
    BY <2>3, <2>1, <1>1, <1>5 DEF LeaderThread, Listen
  <2>4. CASE LeaderThread(SendQueue)
    BY <2>4, <1>2, <1>6 DEF LeaderThread
  <2>5. CASE HeartbeatThread(SendHb)
    BY <2>5, <2>1, <1>3, <1>4, <1>5
       DEF HeartbeatThread, SendHb, StartRound, EndRound, SkipLeader, SendBeat, RemoveDeparted
  <2>6. CASE HeartbeatThread(ReceiveBeatAck)
    BY <2>6, <1>4 DEF HeartbeatThread, ReceiveBeatAck
  <2>7. CASE \/ \E c \in Clients :
                  \/ ClientThread(Join(c)) \/ ClientThread(TypeClientLine(c))
                  \/ ClientThread(SendOut(c)) \/ ClientThread(ListenAtClient(c))
                  \/ ClientThread(PrintNext(c)) \/ ClientThread(AnswerBeat(c))
                  \/ ClientThread(EndProcess(c))
             \/ ClientThread(Lose /\ UNCHANGED clientVars)
    BY <2>7, <1>4 DEF ClientThread
  <2> QED BY <1>8, <2>2, <2>3, <2>4, <2>5, <2>6, <2>7 DEF Next
<1> QED BY <1>7, <1>8

LEMMA NumberInvInvariant == Spec => []NumberInv
<1>1. Init => NumberInv
  BY DEF Init, SequencerInit, NumberInv, Numbered, StampNotAhead
<1> QED BY <1>1, NumberInvStep, TypeInvInvariant, PTL DEF Spec

(* The locked lines number the messages 0, 1, 2, ... in the order they are *)
(* queued, and what waits to be broadcast is the end of that list          *)
(* (sequencer.c:109-112, 133-136, 168-171, 317-320, 263-268).              *)
THEOREM NumberedAlways == Spec => []Numbered
BY NumberInvInvariant, PTL DEF NumberInv

(* No message carries a number that is still to be given out, however the  *)
(* unlocked reads (sequencer.c:105, 127, 164, 313) fall.                   *)
THEOREM StampNotAheadAlways == Spec => []StampNotAhead
BY NumberInvInvariant, PTL DEF NumberInv

-----------------------------------------------------------------------------
(* A broadcast has visited every slot before the one it looks at.  A       *)
(* member only leaves the table, and moves others up, after the notice of  *)
(* it has been queued.                                                     *)
NoticeFirst ==
  /\ draft["send_hb"] # Idle => draft["send_hb"].msg.type = "LEAVE"
  /\ hb.step = "remove" /\ NoDeparture => draft["send_hb"] # Idle

SlotsServed ==
  cast # NoCast =>
    /\ cast.i <= Len(others[Leader]) + 1
    /\ cast.stage = "wait" => cast.i <= Len(others[Leader])
    /\ \A i \in DOMAIN others[Leader] :
         i < cast.i \/ (i = cast.i /\ cast.stage = "wait") => others[Leader][i].id \in cast.served

VisitInv == NoticeFirst /\ (NoDeparture => SlotsServed)

MembersStay ==
  \A i \in DOMAIN others[Leader] :
    i \in DOMAIN others'[Leader] /\ others'[Leader][i].id = others[Leader][i].id

LEMMA TableFacts ==
  ASSUME TypeOK
  PROVE  /\ others[Leader] \in Seq(Entry) /\ Leader \in DOMAIN others
         /\ DOMAIN others[Leader] = 1..Len(others[Leader]) /\ Len(others[Leader]) \in Nat
<1>1. others[Leader] \in Seq(Entry) /\ Leader \in DOMAIN others
  BY DEF TypeOK, MachinesTypeOK, Machine
<1> QED BY <1>1, LenProperties

LEMMA SlotsStayServed ==
  ASSUME TypeInv, TypeInv', SlotsServed, MembersStay, cast' = cast
  PROVE  SlotsServed'
<1> DEFINE len == Len(others[Leader])
           after == Len(others'[Leader])
<1>1. DOMAIN others[Leader] = 1..len /\ len \in Nat
  BY TableFacts DEF TypeInv
<1>2. others'[Leader] \in Seq(Entry)
  BY DEF TypeInv, TypeOK, MachinesTypeOK, Machine
<1>3. DOMAIN others'[Leader] = 1..after /\ after \in Nat
  BY <1>2, LenProperties
<1>4. len <= after
  <2>1. CASE len = 0
    BY <1>3, <2>1
  <2>2. CASE len # 0
    <3>1. len \in DOMAIN others'[Leader]
      BY <1>1, <2>2 DEF MembersStay
    <3> QED BY <1>1, <1>3, <3>1
  <2> QED BY <2>1, <2>2
<1> SUFFICES ASSUME cast # NoCast
             PROVE  /\ cast.i <= after + 1
                    /\ cast.stage = "wait" => cast.i <= after
                    /\ \A i \in 1..after :
                         i < cast.i \/ (i = cast.i /\ cast.stage = "wait")
                           => others'[Leader][i].id \in cast.served
  BY <1>3 DEF SlotsServed
<1>5. cast.i \in Nat /\ cast.i <= len + 1 /\ (cast.stage = "wait" => cast.i <= len)
  BY DEF SlotsServed, TypeInv, TypeOK, SequencerTypeOK, Cast
<1>6. ASSUME NEW i \in 1..after, i < cast.i \/ (i = cast.i /\ cast.stage = "wait")
      PROVE  others'[Leader][i].id \in cast.served
  <2>1. i \in DOMAIN others[Leader]
    BY <1>1, <1>3, <1>5, <1>6
  <2>2. others[Leader][i].id \in cast.served
    BY <1>6, <2>1 DEF SlotsServed
  <2> QED BY <2>1, <2>2 DEF MembersStay
<1> QED BY <1>1, <1>3, <1>4, <1>5, <1>6

LEMMA EnqueueVisit ==
  ASSUME TypeInv, TypeInv', VisitInv, NEW t \in Thread, Enqueue(t), UNCHANGED hb
  PROVE  VisitInv'
<1> DEFINE node == [v |-> currentSequenceNum, m |-> draft[t].msg]
<1>1. /\ node \in Node /\ order \in Seq(Node) /\ order' = Append(order, node)
      /\ node.m = draft[t].msg
  BY DraftFields DEF Enqueue, Node, TypeInv, TypeOK, SequencerTypeOK
<1> HIDE DEF node
<1>2. /\ \A i \in DOMAIN order : i \in DOMAIN order' /\ order'[i] = order[i]
      /\ Len(order) + 1 \in DOMAIN order' /\ order'[Len(order) + 1] = node
  BY <1>1, AppendProperties, LenProperties
<1>3. NoDeparture' => NoDeparture /\ draft[t].msg.type # "LEAVE"
  BY <1>1, <1>2 DEF NoDeparture
<1>4. UNCHANGED <<cast, others>>
  BY DEF Enqueue, machineVars
<1>5. draft'["send_hb"] = draft["send_hb"] \/ t = "send_hb"
  BY DEF Enqueue, Hold, Release, TypeInv, TypeOK, SequencerTypeOK, Thread
<1>6. t = "send_hb" => draft["send_hb"].msg.type = "LEAVE" /\ draft'["send_hb"] = Idle
  BY DEF VisitInv, NoticeFirst, Enqueue, Release, Idle, TypeInv, TypeOK, SequencerTypeOK
<1>7. NoticeFirst'
  BY <1>3, <1>5, <1>6 DEF VisitInv, NoticeFirst
<1>8. SlotsServed => SlotsServed'
  BY <1>4 DEF SlotsServed
<1> QED BY <1>3, <1>7, <1>8 DEF VisitInv

LEMMA SendQueueVisit ==
  ASSUME TypeInv, TypeInv', VisitInv, SendQueue, UNCHANGED hb
  PROVE  VisitInv'
<1>1. UNCHANGED <<draft, order, others>>
  BY DEF SendQueue, BroadcastStart, PrintOwn, SkipJoiner, SendToMember, ReceiveAck, AckTimeout,
         BroadcastEnd, machineVars
<1>2. NoticeFirst' /\ (NoDeparture' <=> NoDeparture)
  BY <1>1 DEF VisitInv, NoticeFirst, NoDeparture
<1> SUFFICES ASSUME SlotsServed PROVE SlotsServed'
  BY <1>2 DEF VisitInv
<1> DEFINE len == Len(others[Leader])
<1>3. DOMAIN others[Leader] = 1..len /\ len \in Nat
  BY TableFacts DEF TypeInv
<1>4. cast \in Cast /\ cast' \in Cast
  BY DEF TypeInv, TypeOK, SequencerTypeOK
<1>5. cast.stage # "none" =>
        /\ cast.i \in Nat /\ cast.i <= len + 1 /\ (cast.stage = "wait" => cast.i <= len)
        /\ cast.served \subseteq Machine
        /\ \A i \in 1..len :
             i < cast.i \/ (i = cast.i /\ cast.stage = "wait")
               => others[Leader][i].id \in cast.served
  BY <1>3, <1>4 DEF SlotsServed, Cast, NoCast
<1> SUFFICES ASSUME cast' # NoCast
             PROVE  /\ cast'.i <= len + 1
                    /\ cast'.stage = "wait" => cast'.i <= len
                    /\ \A i \in 1..len :
                         i < cast'.i \/ (i = cast'.i /\ cast'.stage = "wait")
                           => others[Leader][i].id \in cast'.served
  BY <1>1, <1>3 DEF SlotsServed
<1>6. CASE BroadcastStart
  BY <1>3, <1>6 DEF BroadcastStart
<1>7. CASE PrintOwn \/ SkipJoiner
  <2>1. cast.stage = "next" /\ cast.i \in 1..len
    BY <1>3, <1>7 DEF PrintOwn, SkipJoiner, AtSlot
  <2>2. cast' = Serve
    BY <1>7 DEF PrintOwn, SkipJoiner
  <2>3. cast'.stage = "next" /\ cast'.i = cast.i + 1
        /\ cast'.served = cast.served \cup {others[Leader][cast.i].id}
    BY <2>2 DEF Serve, NextSlot, AtNextSlot, Slot
  <2> QED BY <1>3, <1>5, <2>1, <2>3
<1>8. CASE SendToMember
  <2>1. cast.stage = "next" /\ cast.i \in 1..len
    BY <1>3, <1>8 DEF SendToMember, AtSlot
  <2>2. cast'.stage = "wait" /\ cast'.i = cast.i
        /\ cast'.served = cast.served \cup {others[Leader][cast.i].id}
    BY <1>4, <1>8, <2>1 DEF SendToMember, Slot, Cast, NoCast
  <2> QED BY <1>3, <1>5, <2>1, <2>2
<1>9. CASE cast.stage = "wait" /\ cast' = NextSlot
  <2>1. cast'.stage = "next" /\ cast'.i = cast.i + 1 /\ cast'.served = cast.served
    BY <1>9 DEF NextSlot, AtNextSlot
  <2> QED BY <1>3, <1>5, <1>9, <2>1
<1>10. CASE cast.stage = "wait" /\ cast' = [cast EXCEPT !.n = @ + 1]
  <2>1. cast'.stage = cast.stage /\ cast'.i = cast.i /\ cast'.served = cast.served
    BY <1>4, <1>10 DEF Cast, NoCast
  <2> QED BY <1>3, <1>5, <1>10, <2>1
<1>11. CASE BroadcastEnd
  BY <1>11 DEF BroadcastEnd
<1> QED BY <1>6, <1>7, <1>8, <1>9, <1>10, <1>11 DEF SendQueue, ReceiveAck, AckTimeout

LEMMA VisitInvStep == TypeInv /\ TypeInv' /\ VisitInv /\ [Next]_vars => VisitInv'
<1> SUFFICES ASSUME TypeInv, TypeInv', VisitInv, [Next]_vars PROVE VisitInv'
  OBVIOUS
<1> DEFINE table == others[Leader]
<1>0. /\ table \in Seq(Entry) /\ DOMAIN table = 1..Len(table) /\ Len(table) \in Nat
      /\ Leader \in DOMAIN others /\ draft \in [Thread -> Draft] /\ hb \in HbType
  BY TableFacts DEF TypeInv, TypeOK, SequencerTypeOK, HeartbeatTypeOK
<1> HIDE DEF table
<1>1. ASSUME UNCHANGED <<order, cast>>, MembersStay, NoticeFirst' PROVE VisitInv'
  <2>1. NoDeparture' => NoDeparture
    BY <1>1 DEF NoDeparture
  <2>2. SlotsServed => SlotsServed'
    BY <1>1, SlotsStayServed
  <2> QED BY <1>1, <2>1, <2>2 DEF VisitInv
<1>2. ASSUME UNCHANGED <<order, hb>>, draft'["send_hb"] = draft["send_hb"] PROVE NoticeFirst'
  BY <1>2 DEF VisitInv, NoticeFirst, NoDeparture
<1>3. others'[Leader] = others[Leader] => MembersStay
  BY DEF MembersStay
<1>4. CASE LeaderThread(TypeLine) \/ LeaderThread(StampJoin) \/ LeaderThread(AnswerJoiner)
           \/ LeaderThread(StampLine)
  <2>1. UNCHANGED <<order, cast, hb, others>>
    BY <1>4 DEF LeaderThread, TypeLine, StampJoin, AnswerJoiner, StampLine, machineVars
  <2>2. draft'["send_hb"] = draft["send_hb"]
    BY <1>0, <1>4 DEF LeaderThread, TypeLine, StampJoin, AnswerJoiner, StampLine, Hold, Release,
                      Thread
  <2> QED BY <1>1, <1>2, <1>3, <2>1, <2>2
<1>5. CASE LeaderThread(EnterJoiner)
  <2>1. /\ UNCHANGED <<order, cast, hb>> /\ draft'["send_hb"] = draft["send_hb"]
        /\ others'[Leader] = AddClient(table, draft["listen"].msg.about)
    BY <1>0, <1>5 DEF LeaderThread, EnterJoiner, Hold, Thread, table
  <2>2. PICK m : m = draft["listen"].msg.about
    OBVIOUS
  <2>3. m \in Machine
    BY <1>5, <2>2, DraftFields DEF LeaderThread, EnterJoiner, Thread, Message, TypeInv
  <2>4. NewEntry(m) \in Entry
    BY <2>3 DEF NewEntry, Entry, IsLeader
  <2>5. \A i \in DOMAIN table : i \in DOMAIN Append(table, NewEntry(m))
                             /\ Append(table, NewEntry(m))[i] = table[i]
    BY <1>0, <2>4, AppendProperties, LenProperties
  <2>6. MembersStay
    BY <2>1, <2>2, <2>5 DEF MembersStay, AddClient, table
  <2> QED BY <1>1, <1>2, <2>1, <2>6
<1>6. ASSUME NEW t \in Thread, Enqueue(t), UNCHANGED hb PROVE VisitInv'
  BY <1>6, EnqueueVisit
<1>7. CASE LeaderThread(SendQueue)
  BY <1>7, SendQueueVisit DEF LeaderThread
<1>8. CASE StartRound \/ EndRound \/ SkipLeader \/ SendBeat
  <2>1. UNCHANGED <<order, cast, draft, others>>
    BY <1>8 DEF StartRound, EndRound, SkipLeader, SendBeat, sequencerVars, machineVars
  <2>2. hb'.step # "remove"
    <3>1. CASE StartRound
      BY <3>1 DEF StartRound
    <3>2. CASE EndRound
      BY <1>0, <3>2 DEF EndRound, HbType
    <3>3. CASE SkipLeader
      BY <1>0, <3>3 DEF SkipLeader, HbNext, HbType
    <3>4. CASE SendBeat
      BY <1>0, <3>4 DEF SendBeat, HbType
    <3> QED BY <1>8, <3>1, <3>2, <3>3, <3>4
  <2>3. NoticeFirst'
    BY <2>1, <2>2 DEF VisitInv, NoticeFirst
  <2> QED BY <1>1, <1>3, <2>1, <2>3
<1>9. CASE CountBeat
  <2>1. UNCHANGED <<order, cast>> /\ hb.i \in DOMAIN table
    BY <1>9 DEF CountBeat, HbAt, table
  <2>2. PICK n : others'[Leader] = [table EXCEPT ![hb.i].missed = n]
    BY <1>0, <1>9 DEF CountBeat, table
  <2>3. table[hb.i] \in Entry
    BY <1>0, <2>1
  <2>4. MembersStay
    BY <2>2, <2>3 DEF MembersStay, Entry, table
  <2>5. NoticeFirst'
    <3>1. CASE HbSlot.missed + 1 > Patience
      <4>1. draft'["send_hb"] = [step |-> "enqueue",
                                 msg |-> Stamped("LEAVE", Leader, 0, <<HbSlot.id, 0>>)]
        BY <1>0, <1>9, <3>1 DEF CountBeat, Hold, Thread
      <4> QED BY <4>1 DEF NoticeFirst, Stamped, Idle
    <3>2. CASE ~(HbSlot.missed + 1 > Patience)
      <4>1. draft' = draft /\ hb'.step = "beat"
        BY <1>0, <1>9, <3>2 DEF CountBeat, HbNext, HbType
      <4> QED BY <4>1 DEF VisitInv, NoticeFirst
    <3> QED BY <3>1, <3>2
  <2> QED BY <1>1, <2>1, <2>4, <2>5
<1>10. CASE RemoveDeparted
  <2>1. ~NoDeparture
    BY <1>10 DEF RemoveDeparted, HbAt, VisitInv, NoticeFirst
  <2>2. UNCHANGED <<order, draft>>
    BY <1>10 DEF RemoveDeparted, sequencerVars
  <2> QED BY <2>1, <2>2 DEF VisitInv, NoticeFirst, NoDeparture
<1>11. CASE ReceiveBeatAck
  <2>1. UNCHANGED <<order, cast, draft, hb>>
    BY <1>11 DEF ReceiveBeatAck, sequencerVars
  <2>2. PICK from :
          LET slots == {i \in DOMAIN table : table[i].id = from}
          IN  others' = IF slots = {} THEN others
                        ELSE [others EXCEPT ![Leader][Min(slots)].missed = 0]
    BY <1>11 DEF ReceiveBeatAck, table
  <2> DEFINE slots == {i \in DOMAIN table : table[i].id = from}
  <2>3. slots \in SUBSET Nat /\ slots \subseteq DOMAIN table
    BY <1>0
  <2>4. others' = IF slots = {} THEN others ELSE [others EXCEPT ![Leader][Min(slots)].missed = 0]
    BY <2>2
  <2> HIDE DEF slots
  <2>5. CASE slots # {}
    <3>1. PICK k : k = Min(slots) /\ k \in DOMAIN table
      BY <2>3, <2>5, MinIsMember
    <3>2. others'[Leader] = [table EXCEPT ![k].missed = 0]
      BY <1>0, <2>4, <2>5, <3>1 DEF table
    <3>3. table[k] \in Entry
      BY <1>0, <3>1
    <3>4. MembersStay
      BY <3>2, <3>3 DEF MembersStay, Entry, table
    <3> QED BY <1>1, <1>2, <2>1, <3>4
  <2> QED BY <1>1, <1>2, <1>3, <2>1, <2>4, <2>5
<1>12. ASSUME UNCHANGED <<sequencerVars, hb>>, others'[Leader] = others[Leader] PROVE VisitInv'
  BY <1>1, <1>2, <1>3, <1>12 DEF sequencerVars
<1>13. ASSUME NEW c \in Clients,
              \/ ClientThread(Join(c)) \/ ClientThread(TypeClientLine(c))
              \/ ClientThread(SendOut(c)) \/ ClientThread(ListenAtClient(c))
              \/ ClientThread(PrintNext(c)) \/ ClientThread(AnswerBeat(c))
              \/ ClientThread(EndProcess(c))
       PROVE  VisitInv'
  <2>1. others'[Leader] = others[Leader]
    <3>1. c # Leader /\ others \in [Machine -> Seq(Entry)]
      BY LeaderAssumption DEF TypeInv, TypeOK, MachinesTypeOK
    <3> QED BY <1>13, <3>1
            DEF ClientThread, Join, AskToJoin, AskLeader, EnterChat, GiveUpJoin, TypeClientLine,
                SendOut, SendLine, LineReceived, ListenAtClient, Deliver, RedirectJoiner,
                PrintNext, AnswerBeat, EndProcess, Quit, machineVars, Machine
  <2> QED BY <1>12, <1>13, <2>1 DEF ClientThread
<1>14. CASE ClientThread(Lose /\ UNCHANGED clientVars)
  BY <1>12, <1>14 DEF ClientThread, Lose, machineVars
<1>15. CASE UNCHANGED vars
  BY <1>12, <1>15 DEF vars, machineVars
<1>16. "input" \in Thread /\ "listen" \in Thread /\ "send_hb" \in Thread
  BY DEF Thread
<1> QED BY <1>4, <1>5, <1>6, <1>7, <1>8, <1>9, <1>10, <1>11, <1>13, <1>14, <1>15, <1>16
        DEF Next, LeaderThread, HeartbeatThread, Input, Listen, SendHb

LEMMA VisitInvInvariant == Spec => []VisitInv
<1>1. Init => VisitInv
  <2> SUFFICES ASSUME Init PROVE VisitInv
    OBVIOUS
  <2>1. cast = NoCast /\ draft["send_hb"] = Idle /\ hb.step = "rest"
    BY DEF Init, SequencerInit, HeartbeatInit, Thread
  <2> QED BY <2>1 DEF VisitInv, NoticeFirst, SlotsServed
<1> QED BY <1>1, VisitInvStep, TypeInvInvariant, PTL DEF Spec

(* However members join while a broadcast goes through the table, it ends  *)
(* only when it has visited each of them (sequencer.c:195-235), as long as *)
(* nobody is removed.                                                      *)
THEOREM BroadcastReachesAllStayingAlways == Spec => BroadcastReachesAllStaying
<1>1. TypeInv /\ VisitInv /\ [Next]_vars =>
        [cast # NoCast /\ cast' = NoCast /\ NoDeparture
           => Listed(Leader) \subseteq cast.served]_vars
  <2> SUFFICES ASSUME TypeInv, VisitInv, Next, cast # NoCast, cast' = NoCast, NoDeparture
               PROVE  Listed(Leader) \subseteq cast.served
    OBVIOUS
  <2>1. BroadcastEnd
    <3>1. cast \in Cast /\ cast' # cast
      BY DEF TypeInv, TypeOK, SequencerTypeOK
    <3>2. SendQueue
      BY <3>1 DEF Next, LeaderThread, HeartbeatThread, ClientThread, Input, TypeLine, Listen,
                  StampJoin, EnterJoiner, AnswerJoiner, StampLine, Enqueue, SendHb, StartRound,
                  EndRound, SkipLeader, SendBeat, CountBeat, RemoveDeparted, ReceiveBeatAck,
                  sequencerVars
    <3>3. NextSlot # NoCast /\ Serve # NoCast
      BY DEF Serve, NextSlot, AtNextSlot, NoCast
    <3>4. ~SendToMember /\ ~AckTimeout
      BY <3>1, <3>3 DEF SendToMember, AckTimeout, AtSlot, Cast, NoCast
    <3> QED BY <3>2, <3>3, <3>4 DEF SendQueue, BroadcastStart, PrintOwn, SkipJoiner, ReceiveAck,
                                    NoCast
  <2>2. cast.stage = "next" /\ cast.i \notin DOMAIN others[Leader] /\ cast.i \in Nat \ {0}
    BY <2>1 DEF BroadcastEnd, TypeInv, TypeOK, SequencerTypeOK, Cast, NoCast
  <2>3. DOMAIN others[Leader] = 1..Len(others[Leader]) /\ Len(others[Leader]) \in Nat
    BY TableFacts DEF TypeInv
  <2>4. \A i \in DOMAIN others[Leader] : i < cast.i
    BY <2>2, <2>3
  <2> QED BY <2>4 DEF VisitInv, SlotsServed, Listed
<1> QED BY <1>1, TypeInvInvariant, VisitInvInvariant, PTL DEF Spec, BroadcastReachesAllStaying

-----------------------------------------------------------------------------
(* The screens: a message comes to one only from the leader's queue.       *)
Ordered(msg) == \E i \in DOMAIN order : order[i].m = msg

(* A screen only gets what comes all the way from the leader's queue, and  *)
(* the number of a node is the number of its message.  A client shows      *)
(* nothing before it knows its first number.                               *)
ScreenInv ==
  /\ cast # NoCast => Ordered(cast.msg)
  /\ \A d \in net : d.type = "CAST" => Ordered(d.msg)
  /\ \A c \in Clients : \A k \in DOMAIN client_queue[c] :
       Ordered(client_queue[c][k].m) /\ client_queue[c][k].v = client_queue[c][k].m.seq
  /\ \A c \in Clients : status[c] # "in" => printed[c] = <<>>
  /\ ScreenInOrder

OrderGrows == \A i \in DOMAIN order : i \in DOMAIN order' /\ order'[i] = order[i]
CastGoesOn == cast' = NoCast \/ (cast # NoCast /\ cast'.msg = cast.msg)
OnlyCast ==
  \A d \in net' : d.type = "CAST" => d \in net \/ (cast # NoCast /\ d.msg = cast.msg)
ClientsScreens == \A c \in Clients : printed'[c] = printed[c]

-----------------------------------------------------------------------------
LEMMA OrderedStays ==
  ASSUME OrderGrows, NEW msg, Ordered(msg)
  PROVE  Ordered(msg)'
BY DEF OrderGrows, Ordered

(* Most steps bring no message any closer to a screen than it was.         *)
LEMMA ScreensAlone ==
  ASSUME ScreenInv, OrderGrows, CastGoesOn, OnlyCast, ClientsScreens,
         UNCHANGED <<client_queue, status, latestSequenceNum>>
  PROVE  ScreenInv'
<1>1. (cast # NoCast => Ordered(cast.msg))'
  BY OrderedStays DEF ScreenInv, CastGoesOn
<1>2. (\A d \in net : d.type = "CAST" => Ordered(d.msg))'
  BY OrderedStays DEF ScreenInv, OnlyCast
<1>3. (\A c \in Clients : \A k \in DOMAIN client_queue[c] :
         Ordered(client_queue[c][k].m) /\ client_queue[c][k].v = client_queue[c][k].m.seq)'
  BY OrderedStays DEF ScreenInv
<1>4. (\A c \in Clients : status[c] # "in" => printed[c] = <<>>)'
  BY DEF ScreenInv, ClientsScreens
<1>5. ScreenInOrder'
  <2> SUFFICES ASSUME NEW c \in Clients, NEW k \in DOMAIN printed'[c]
               PROVE  /\ printed'[c][k].seq = latestSequenceNum'[c] - Len(printed'[c]) + k
                      /\ \E i \in DOMAIN order' : order'[i].m = printed'[c][k]
    BY DEF ScreenInOrder
  <2>1. printed'[c] = printed[c]
    BY DEF ClientsScreens
  <2>2. PICK i \in DOMAIN order : order[i].m = printed[c][k]
    BY <2>1 DEF ScreenInv, ScreenInOrder
  <2>3. i \in DOMAIN order' /\ order'[i].m = printed[c][k]
    BY <2>2 DEF OrderGrows
  <2>4. printed[c][k].seq = latestSequenceNum[c] - Len(printed[c]) + k
    BY <2>1 DEF ScreenInv, ScreenInOrder
  <2> QED BY <2>1, <2>3, <2>4
<1> QED BY <1>1, <1>2, <1>3, <1>4, <1>5 DEF ScreenInv

LEMMA EnqueueGrows ==
  ASSUME TypeOK, NEW t \in Thread, Enqueue(t)
  PROVE  OrderGrows
<1> DEFINE node == [v |-> currentSequenceNum, m |-> draft[t].msg]
<1>1. node \in Node
  BY DraftFields DEF Enqueue, Node, TypeOK, SequencerTypeOK
<1>2. order \in Seq(Node) /\ order' = Append(order, node)
  BY DEF Enqueue, TypeOK, SequencerTypeOK
<1> HIDE DEF node
<1> QED BY <1>1, <1>2, AppendProperties, LenProperties DEF OrderGrows

LEMMA SendQueueScreens ==
  ASSUME TypeInv, NumberInv, ScreenInv, LeaderThread(SendQueue)
  PROVE  ScreenInv'
<1> USE DEF LeaderThread, wireVars, machineVars, clientVars
<1>0. order \in Seq(Node) /\ sequencer_queue \in Seq(Node) /\ Leader \notin Clients
      /\ printed \in [Machine -> Seq(Message)] /\ Clients \subseteq Machine
  BY LeaderAssumption DEF TypeInv, TypeOK, SequencerTypeOK, MachinesTypeOK, Machine
<1>a. UNCHANGED order => OrderGrows
  BY DEF OrderGrows
<1>b. UNCHANGED net => OnlyCast
  BY DEF OnlyCast
<1>c. UNCHANGED printed => ClientsScreens
  BY DEF ClientsScreens
<1>d. NextSlot.msg = cast.msg /\ Serve.msg = cast.msg
  BY DEF Serve, NextSlot, AtNextSlot
<1>e. cast \in Cast /\ (cast.stage # "none" => cast # NoCast)
  BY DEF TypeInv, TypeOK, SequencerTypeOK, NoCast
<1>f. \A to, try : Transmission(to, try).msg = cast.msg
  BY DEF Transmission
<1>1. CASE BroadcastStart
  <2>1. Head(sequencer_queue) = sequencer_queue[1] /\ 1 \in DOMAIN sequencer_queue
        /\ Len(sequencer_queue) \in Nat /\ Len(order) \in Nat /\ Len(sequencer_queue) >= 1
    BY <1>0, <1>1, HeadTailProperties, LenProperties DEF BroadcastStart
  <2> DEFINE i == Len(order) - Len(sequencer_queue) + 1
  <2>2. i \in DOMAIN order /\ order[i] = Head(sequencer_queue)
    BY <1>0, <2>1, LenProperties DEF NumberInv, Numbered
  <2>3. Ordered(Head(sequencer_queue).m)
    BY <2>2 DEF Ordered
  <2>4. cast'.msg = Head(sequencer_queue).m
    BY <1>1 DEF BroadcastStart
  <2>5. UNCHANGED <<order, net, printed, client_queue, status, latestSequenceNum>>
    BY <1>1 DEF BroadcastStart
  <2>6. Ordered(cast.msg)'
    BY <2>3, <2>4, <2>5 DEF Ordered
  <2>7. \A msg : Ordered(msg)' <=> Ordered(msg)
    BY <2>5 DEF Ordered
  <2>8. ScreenInOrder'
    BY <2>5 DEF ScreenInv, ScreenInOrder
  <2> QED BY <2>5, <2>6, <2>7, <2>8 DEF ScreenInv
<1>2. CASE PrintOwn
  <2>1. ClientsScreens
    BY <1>0, <1>2 DEF PrintOwn, PrintMessage, ClientsScreens
  <2>2. CastGoesOn
    BY <1>2, <1>d, <1>e DEF PrintOwn, AtSlot, CastGoesOn, NoCast
  <2> QED BY <1>2, <1>a, <1>b, <2>1, <2>2, ScreensAlone DEF PrintOwn
<1>3. CASE SkipJoiner
  BY <1>3, <1>a, <1>b, <1>c, <1>d, <1>e, ScreensAlone
     DEF SkipJoiner, AtSlot, CastGoesOn, NoCast
<1>4. CASE SendToMember
  <2>1. OnlyCast
    BY <1>4, <1>e, <1>f DEF SendToMember, AtSlot, Transmit, OnlyCast, NoCast
  <2>2. CastGoesOn
    BY <1>4, <1>e DEF SendToMember, AtSlot, CastGoesOn, Cast, NoCast
  <2> QED BY <1>4, <1>a, <1>c, <2>1, <2>2, ScreensAlone DEF SendToMember
<1>5. CASE ReceiveAck
  <2>1. OnlyCast
    BY <1>5 DEF ReceiveAck, Transmit, OnlyCast
  <2>2. CastGoesOn
    BY <1>5, <1>d, <1>e DEF ReceiveAck, CastGoesOn, NoCast
  <2> QED BY <1>5, <1>a, <1>c, <2>1, <2>2, ScreensAlone DEF ReceiveAck
<1>6. CASE AckTimeout
  <2>1. OnlyCast
    BY <1>6, <1>e, <1>f DEF AckTimeout, Transmit, OnlyCast, NoCast
  <2>2. CastGoesOn
    BY <1>6, <1>d, <1>e DEF AckTimeout, CastGoesOn, Cast, NoCast
  <2> QED BY <1>6, <1>a, <1>c, <2>1, <2>2, ScreensAlone DEF AckTimeout
<1>7. CASE BroadcastEnd
  BY <1>7, <1>a, <1>b, <1>c, ScreensAlone DEF BroadcastEnd, CastGoesOn
<1> QED BY <1>1, <1>2, <1>3, <1>4, <1>5, <1>6, <1>7 DEF SendQueue

-----------------------------------------------------------------------------
(* A client that enters the chat has shown nothing so far.                 *)
LEMMA EnterChatScreens ==
  ASSUME TypeInv, ScreenInv, NEW c \in Clients, ClientThread(EnterChat(c))
  PROVE  ScreenInv'
<1>1. UNCHANGED <<order, cast, printed, client_queue>> /\ status[c] = "asking"
  BY DEF ClientThread, EnterChat, sequencerVars
<1>2. status' = [status EXCEPT ![c] = "in"] /\ net' \subseteq net
  BY DEF ClientThread, EnterChat, Transmit
<1>3. \A b \in Clients : b # c => latestSequenceNum'[b] = latestSequenceNum[b]
  BY DEF ClientThread, EnterChat, TypeInv, TypeOK, ClientTypeOK
<1>4. status \in [Clients -> {"out", "asking", "in"}]
  BY DEF TypeInv, TypeOK, ClientTypeOK
<1>5. \A msg : Ordered(msg)' <=> Ordered(msg)
  BY <1>1 DEF Ordered
<1>6. (\A b \in Clients : status[b] # "in" => printed[b] = <<>>)' /\ printed[c] = <<>>
  BY <1>1, <1>2, <1>4 DEF ScreenInv
<1>7. ScreenInOrder'
  <2> SUFFICES ASSUME NEW b \in Clients, NEW k \in DOMAIN printed[b]
               PROVE  /\ printed[b][k].seq = latestSequenceNum'[b] - Len(printed[b]) + k
                      /\ \E i \in DOMAIN order : order[i].m = printed[b][k]
    BY <1>1 DEF ScreenInOrder
  <2>1. b # c
    BY <1>6
  <2> QED BY <2>1, <1>3 DEF ScreenInv, ScreenInOrder
<1>8. (cast # NoCast => Ordered(cast.msg))' /\ (\A d \in net : d.type = "CAST" => Ordered(d.msg))'
  BY <1>1, <1>2, <1>5 DEF ScreenInv
<1>9. (\A b \in Clients : \A k \in DOMAIN client_queue[b] :
         Ordered(client_queue[b][k].m) /\ client_queue[b][k].v = client_queue[b][k].m.seq)'
  BY <1>1, <1>5 DEF ScreenInv
<1> QED BY <1>6, <1>7, <1>8, <1>9 DEF ScreenInv

LEMMA DeliverScreens ==
  ASSUME TypeInv, ScreenInv, NEW c \in Clients, ClientThread(Deliver(c))
  PROVE  ScreenInv'
<1>1. UNCHANGED <<order, cast, printed, status, latestSequenceNum>>
  BY DEF ClientThread, Deliver, sequencerVars
<1>2. PICK d \in Addressed("CAST", c) :
        /\ client_queue' = [client_queue EXCEPT ![c] = Append(@, [v |-> d.msg.seq, m |-> d.msg])]
        /\ Transmit({d}, {[type |-> "ACK", from |-> c, to |-> Leader, v |-> d.v, try |-> d.try]})
  BY DEF ClientThread, Deliver
<1> DEFINE node == [v |-> d.msg.seq, m |-> d.msg]
<1>3. \A msg : Ordered(msg)' <=> Ordered(msg)
  BY <1>1 DEF Ordered
<1>4. Ordered(node.m) /\ node.v = node.m.seq
  BY DEF Addressed, ScreenInv
<1>5. node \in QueuedNode /\ client_queue \in [Clients -> Seq(QueuedNode)]
  <2>1. d \in Datagram /\ d.type = "CAST"
    BY DEF Addressed, TypeInv, TypeOK, WireTypeOK
  <2>2. d.msg \in Message
    BY <2>1, DatagramFields
  <2> QED BY <2>2 DEF QueuedNode, Message, TypeInv, TypeOK, ClientTypeOK
<1>6. client_queue' = [client_queue EXCEPT ![c] = Append(@, node)]
  BY <1>2
<1> HIDE DEF node
<1>7. /\ \A b \in Clients : b # c => client_queue'[b] = client_queue[b]
      /\ \A k \in DOMAIN client_queue'[c] :
           client_queue'[c][k] = node \/ (k \in DOMAIN client_queue[c]
                                         /\ client_queue'[c][k] = client_queue[c][k])
  BY <1>5, <1>6, AppendProperties, LenProperties
<1>8. (\A b \in Clients : \A k \in DOMAIN client_queue[b] :
         Ordered(client_queue[b][k].m) /\ client_queue[b][k].v = client_queue[b][k].m.seq)'
  <2> SUFFICES ASSUME NEW b \in Clients, NEW k \in DOMAIN client_queue'[b]
               PROVE  /\ Ordered(client_queue'[b][k].m)
                      /\ client_queue'[b][k].v = client_queue'[b][k].m.seq
    BY <1>1 DEF Ordered
  <2> QED BY <1>4, <1>7 DEF ScreenInv
<1>9. (cast # NoCast => Ordered(cast.msg))' /\ (\A e \in net : e.type = "CAST" => Ordered(e.msg))'
  BY <1>1, <1>2, <1>3 DEF ScreenInv, Transmit
<1>10. (\A b \in Clients : status[b] # "in" => printed[b] = <<>>)' /\ ScreenInOrder'
  BY <1>1 DEF ScreenInv, ScreenInOrder
<1> QED BY <1>8, <1>9, <1>10 DEF ScreenInv

(* One more message on the screen, the one with the number that follows.   *)
LEMMA PrintNextScreens ==
  ASSUME TypeInv, ScreenInv, NEW c \in Clients, ClientThread(PrintNext(c))
  PROVE  ScreenInv'
<1>1. UNCHANGED <<order, cast, status, net>> /\ status[c] = "in"
  BY DEF ClientThread, PrintNext, InChat, sequencerVars, wireVars
<1>2. PICK i \in DOMAIN client_queue[c] :
        /\ IsNext(c, i)
        /\ client_queue' = [client_queue EXCEPT ![c] = RemoveAt(@, i)]
        /\ printed' = [printed EXCEPT ![c] = Append(@, client_queue[c][i].m)]
  BY DEF ClientThread, PrintNext, PrintMessage
<1>3. latestSequenceNum' = [latestSequenceNum EXCEPT ![c] = @ + 1]
  BY DEF ClientThread, PrintNext
<1> DEFINE msg == client_queue[c][i].m
<1>4. /\ client_queue \in [Clients -> Seq(QueuedNode)] /\ printed \in [Machine -> Seq(Message)]
      /\ latestSequenceNum \in [Clients -> Int] /\ c \in Machine
  BY DEF TypeInv, TypeOK, ClientTypeOK, MachinesTypeOK, Machine
<1>5. msg \in Message /\ Ordered(msg) /\ msg.seq = latestSequenceNum[c] + 1
  <2>1. client_queue[c][i] \in QueuedNode
    BY <1>4
  <2> QED BY <1>2, <2>1 DEF ScreenInv, IsNext, QueuedNode
<1>6. printed' = [printed EXCEPT ![c] = Append(@, msg)]
  BY <1>2
<1>7. \A m : Ordered(m)' <=> Ordered(m)
  BY <1>1 DEF Ordered
<1>8. (\A b \in Clients : \A k \in DOMAIN client_queue[b] :
         Ordered(client_queue[b][k].m) /\ client_queue[b][k].v = client_queue[b][k].m.seq)'
  <2> DEFINE queue == client_queue[c]
  <2>0. queue \in Seq(QueuedNode) /\ i \in 1..Len(queue) /\ DOMAIN queue = 1..Len(queue)
        /\ Len(queue) \in Nat
    BY <1>4, LenProperties
  <2>1. /\ RemoveAt(queue, i) \in Seq(QueuedNode)
        /\ Len(RemoveAt(queue, i)) = Len(queue) - 1
        /\ \A k \in 1..(Len(queue) - 1) :
             RemoveAt(queue, i)[k] = IF k < i THEN queue[k] ELSE queue[k + 1]
    BY <2>0, RemoveAtProperties
  <2>2. DOMAIN RemoveAt(queue, i) = 1..(Len(queue) - 1)
    BY <2>1, LenProperties
  <2>3. \A k \in DOMAIN RemoveAt(queue, i) : \E j \in DOMAIN queue : RemoveAt(queue, i)[k] = queue[j]
    <3> TAKE k \in DOMAIN RemoveAt(queue, i)
    <3>1. k \in DOMAIN queue /\ k + 1 \in DOMAIN queue
      BY <2>0, <2>2
    <3> QED BY <2>1, <2>2, <3>1
  <2>4. /\ \A b \in Clients : b # c => client_queue'[b] = client_queue[b]
        /\ client_queue'[c] = RemoveAt(queue, i)
    BY <1>2, <1>4
  <2> SUFFICES ASSUME NEW b \in Clients, NEW k \in DOMAIN client_queue'[b]
               PROVE  /\ Ordered(client_queue'[b][k].m)
                      /\ client_queue'[b][k].v = client_queue'[b][k].m.seq
    BY <1>1 DEF Ordered
  <2>5. CASE b = c
    <3>1. PICK j \in DOMAIN client_queue[c] : client_queue'[b][k] = client_queue[c][j]
      BY <2>3, <2>4, <2>5
    <3> QED BY <3>1 DEF ScreenInv
  <2>6. CASE b # c
    BY <2>4, <2>6 DEF ScreenInv
  <2> QED BY <2>5, <2>6
<1>9. ScreenInOrder'
  <2> HIDE DEF msg
  <2>1. /\ Len(printed'[c]) = Len(printed[c]) + 1 /\ Len(printed[c]) \in Nat
        /\ printed'[c][Len(printed[c]) + 1] = msg
        /\ DOMAIN printed'[c] = 1..(Len(printed[c]) + 1)
        /\ DOMAIN printed[c] = 1..Len(printed[c])
        /\ \A k \in 1..Len(printed[c]) : printed'[c][k] = printed[c][k]
    <3>1. printed[c] \in Seq(Message) /\ printed'[c] = Append(printed[c], msg)
      BY <1>4, <1>6
    <3> QED BY <3>1, <1>5, AppendProperties, LenProperties
  <2>2. \A b \in Clients : b # c => printed'[b] = printed[b]
                                   /\ latestSequenceNum'[b] = latestSequenceNum[b]
    BY <1>3, <1>4, <1>6 DEF Machine
  <2>3. latestSequenceNum'[c] = latestSequenceNum[c] + 1 /\ latestSequenceNum[c] \in Int
    BY <1>3, <1>4
  <2> SUFFICES ASSUME NEW b \in Clients, NEW k \in DOMAIN printed'[b]
               PROVE  /\ printed'[b][k].seq = latestSequenceNum'[b] - Len(printed'[b]) + k
                      /\ \E j \in DOMAIN order : order[j].m = printed'[b][k]
    BY <1>1 DEF ScreenInOrder
  <2>4. CASE b # c
    BY <2>2, <2>4 DEF ScreenInv, ScreenInOrder
  <2>5. CASE b = c /\ k = Len(printed[c]) + 1
    BY <1>5, <2>1, <2>3, <2>5 DEF Ordered
  <2>6. CASE b = c /\ k \in 1..Len(printed[c])
    <3>1. printed[c][k].seq = latestSequenceNum[c] - Len(printed[c]) + k
          /\ \E j \in DOMAIN order : order[j].m = printed[c][k]
      BY <2>1, <2>6 DEF ScreenInv, ScreenInOrder
    <3>2. printed'[c][k] = printed[c][k]
      BY <2>1, <2>6
    <3>3. latestSequenceNum'[c] - Len(printed'[c]) = latestSequenceNum[c] - Len(printed[c])
      BY <2>1, <2>3
    <3> QED BY <2>6, <3>1, <3>2, <3>3
  <2> QED BY <2>1, <2>4, <2>5, <2>6
<1>10. (\A b \in Clients : status[b] # "in" => printed[b] = <<>>)'
  BY <1>1, <1>4, <1>6 DEF ScreenInv, Machine
<1>11. (cast # NoCast => Ordered(cast.msg))' /\ (\A d \in net : d.type = "CAST" => Ordered(d.msg))'
  BY <1>1, <1>7 DEF ScreenInv
<1> QED BY <1>8, <1>9, <1>10, <1>11 DEF ScreenInv

-----------------------------------------------------------------------------
LEMMA ScreenInvStep == TypeInv /\ NumberInv /\ ScreenInv /\ [Next]_vars => ScreenInv'
<1> SUFFICES ASSUME TypeInv, NumberInv, ScreenInv, [Next]_vars PROVE ScreenInv'
  OBVIOUS
<1> USE DEF wireVars, machineVars, clientVars, sequencerVars
<1>0. TypeOK /\ cast \in Cast
  BY DEF TypeInv, TypeOK, SequencerTypeOK
<1> DEFINE Clientless == UNCHANGED <<client_queue, status, latestSequenceNum>>
           NoCasts == \A d \in net' : d.type = "CAST" => d \in net
<1>a. UNCHANGED order => OrderGrows
  BY DEF OrderGrows
<1>b. UNCHANGED cast => CastGoesOn
  BY DEF CastGoesOn
<1>c. UNCHANGED printed => ClientsScreens
  BY DEF ClientsScreens
<1>d. NoCasts => OnlyCast
  BY DEF OnlyCast
<1>e. OrderGrows /\ UNCHANGED <<cast, printed>> /\ NoCasts /\ Clientless => ScreenInv'
  BY <1>b, <1>c, <1>d, ScreensAlone
<1> HIDE DEF NoCasts
<1>f. UNCHANGED net => NoCasts
  BY DEF NoCasts
<1>1. ASSUME NEW t \in Thread, Enqueue(t), Clientless PROVE ScreenInv'
  BY <1>1, <1>0, <1>e, <1>f, EnqueueGrows DEF Enqueue
<1>2. CASE LeaderThread(Input)
  <2>1. CASE TypeLine
    BY <1>2, <2>1, <1>a, <1>e, <1>f DEF LeaderThread, TypeLine
  <2> QED BY <1>2, <2>1, <1>1 DEF LeaderThread, Input, Thread
<1>3. CASE LeaderThread(Listen)
  <2>1. CASE StampJoin
    <3>1. NoCasts
      BY <2>1 DEF StampJoin, Transmit, NoCasts
    <3> QED BY <1>3, <2>1, <3>1, <1>a, <1>e DEF LeaderThread, StampJoin
  <2>2. CASE EnterJoiner
    BY <1>3, <2>2, <1>a, <1>e, <1>f DEF LeaderThread, EnterJoiner
  <2>3. CASE AnswerJoiner
    <3>1. NoCasts
      BY <2>3 DEF AnswerJoiner, Transmit, NoCasts
    <3> QED BY <1>3, <2>3, <3>1, <1>a, <1>e DEF LeaderThread, AnswerJoiner
  <2>4. CASE StampLine
    <3>1. NoCasts
      BY <2>4 DEF StampLine, Transmit, NoCasts
    <3> QED BY <1>3, <2>4, <3>1, <1>a, <1>e DEF LeaderThread, StampLine
  <2> QED BY <1>3, <2>1, <2>2, <2>3, <2>4, <1>1 DEF LeaderThread, Listen, Thread
<1>4. CASE LeaderThread(SendQueue)
  BY <1>4, SendQueueScreens
<1>5. CASE HeartbeatThread(SendHb)
  <2>1. CASE SendBeat
    <3>1. NoCasts
      BY <2>1 DEF SendBeat, Transmit, NoCasts
    <3> QED BY <1>5, <2>1, <3>1, <1>a, <1>e DEF HeartbeatThread, SendBeat
  <2>2. CASE StartRound \/ EndRound \/ SkipLeader \/ CountBeat \/ RemoveDeparted
    BY <1>5, <2>2, <1>a, <1>e, <1>f
       DEF HeartbeatThread, StartRound, EndRound, SkipLeader, CountBeat, RemoveDeparted
  <2> QED BY <1>5, <2>1, <2>2, <1>1 DEF HeartbeatThread, SendHb, Thread
<1>6. CASE HeartbeatThread(ReceiveBeatAck)
  <2>1. NoCasts
    BY <1>6 DEF HeartbeatThread, ReceiveBeatAck, Transmit, NoCasts
  <2> QED BY <1>6, <2>1, <1>a, <1>e DEF HeartbeatThread, ReceiveBeatAck
<1>7. ASSUME NEW c \in Clients, ClientThread(Join(c)) PROVE ScreenInv'
  <2>1. ASSUME NEW h \in Machine, AskToJoin(c, h) PROVE ScreenInv'
    <3>1. NoCasts /\ UNCHANGED <<order, cast, printed, client_queue, latestSequenceNum>>
      BY <1>7, <2>1 DEF ClientThread, AskToJoin, Transmit, NoCasts
    <3>2. status[c] = "out" /\ status' = [status EXCEPT ![c] = "asking"]
      BY <2>1 DEF AskToJoin
    <3>3. (\A b \in Clients : status[b] # "in" => printed[b] = <<>>)'
      BY <1>0, <3>1, <3>2 DEF ScreenInv, TypeOK, ClientTypeOK
    <3>4. \A msg : Ordered(msg)' <=> Ordered(msg)
      BY <3>1 DEF Ordered
    <3>5. (cast # NoCast => Ordered(cast.msg))' /\ ScreenInOrder'
      BY <3>1, <3>4 DEF ScreenInv, ScreenInOrder
    <3>6. (\A d \in net : d.type = "CAST" => Ordered(d.msg))'
      BY <3>1, <3>4 DEF ScreenInv, NoCasts
    <3>7. (\A b \in Clients : \A k \in DOMAIN client_queue[b] :
             Ordered(client_queue[b][k].m) /\ client_queue[b][k].v = client_queue[b][k].m.seq)'
      BY <3>1, <3>4 DEF ScreenInv
    <3> QED BY <3>3, <3>5, <3>6, <3>7 DEF ScreenInv
  <2>2. CASE AskLeader(c)
    <3>1. NoCasts
      BY <2>2 DEF AskLeader, Transmit, NoCasts
    <3> QED BY <1>7, <2>2, <3>1, <1>a, <1>e DEF ClientThread, AskLeader
  <2>3. CASE EnterChat(c)
    BY <1>7, <2>3, EnterChatScreens DEF ClientThread
  <2>4. CASE GiveUpJoin(c, Answering(c))
    <3>1. NoCasts
      BY <2>4 DEF GiveUpJoin, CloseSockets, NoCasts
    <3> QED BY <1>7, <2>4, <3>1, <1>a, <1>e DEF ClientThread, GiveUpJoin
  <2> QED BY <1>7, <2>1, <2>2, <2>3, <2>4 DEF ClientThread, Join
<1>8. ASSUME NEW c \in Clients,
             \/ ClientThread(TypeClientLine(c)) \/ ClientThread(SendOut(c))
             \/ ClientThread(AnswerBeat(c)) \/ ClientThread(EndProcess(c))
      PROVE  ScreenInv'
  <2>1. NoCasts
    <3>1. CASE TypeClientLine(c)
      BY <3>1, <1>f DEF TypeClientLine
    <3>2. CASE SendLine(c)
      BY <3>2 DEF SendLine, Transmit, NoCasts
    <3>3. CASE LineReceived(c)
      BY <3>3 DEF LineReceived, Transmit, NoCasts
    <3>4. CASE AnswerBeat(c)
      BY <3>4 DEF AnswerBeat, Transmit, NoCasts
    <3>5. CASE Quit(c)
      BY <3>5 DEF Quit, CloseSockets, NoCasts
    <3> QED BY <1>8, <3>1, <3>2, <3>3, <3>4, <3>5 DEF ClientThread, SendOut, EndProcess
  <2>2. UNCHANGED <<order, cast, printed>> /\ Clientless
    BY <1>8 DEF ClientThread, TypeClientLine, SendOut, SendLine, LineReceived, AnswerBeat,
                EndProcess, Quit
  <2> QED BY <2>1, <2>2, <1>a, <1>e
<1>9. ASSUME NEW c \in Clients, ClientThread(ListenAtClient(c)) PROVE ScreenInv'
  <2>1. CASE Deliver(c)
    BY <1>9, <2>1, DeliverScreens DEF ClientThread
  <2>2. CASE RedirectJoiner(c)
    <3>1. NoCasts
      BY <2>2 DEF RedirectJoiner, Transmit, NoCasts
    <3> QED BY <1>9, <2>2, <3>1, <1>a, <1>e DEF ClientThread, RedirectJoiner
  <2> QED BY <1>9, <2>1, <2>2 DEF ClientThread, ListenAtClient
<1>10. ASSUME NEW c \in Clients, ClientThread(PrintNext(c)) PROVE ScreenInv'
  BY <1>10, PrintNextScreens
<1>11. CASE ClientThread(Lose /\ UNCHANGED clientVars)
  <2>1. NoCasts
    BY <1>11 DEF ClientThread, Lose, NoCasts
  <2> QED BY <1>11, <2>1, <1>a, <1>e DEF ClientThread, Lose
<1>12. CASE UNCHANGED vars
  BY <1>12, <1>a, <1>e, <1>f DEF vars
<1> QED BY <1>2, <1>3, <1>4, <1>5, <1>6, <1>7, <1>8, <1>9, <1>10, <1>11, <1>12 DEF Next

LEMMA ScreenInvInvariant == Spec => []ScreenInv
<1>1. Init => ScreenInv
  <2> SUFFICES ASSUME Init PROVE ScreenInv
    OBVIOUS
  <2>1. cast = NoCast /\ net = {} /\ \A c \in Clients : client_queue[c] = <<>> /\ printed[c] = <<>>
    BY DEF Init, SequencerInit, WireInit, ClientInit, MachinesInit, Machine
  <2> QED BY <2>1 DEF ScreenInv, ScreenInOrder
<1> QED BY <1>1, ScreenInvStep, TypeInvInvariant, NumberInvInvariant, PTL DEF Spec

(* Whatever is lost, repeated or overtaken, and whoever joins or leaves: a *)
(* client's screen is a stretch of consecutive numbers that ends with      *)
(* latestSequenceNum, and every message on it is one the leader queued     *)
(* (client.c:365-405, sequencer.c:195-233).                                *)
THEOREM ScreenInOrderAlways == Spec => []ScreenInOrder
BY ScreenInvInvariant, PTL DEF ScreenInv

-----------------------------------------------------------------------------
(* The leader's own screen.  It shows a message when the broadcast comes   *)
(* to the leader's slot, so what matters is that this is always the first  *)
(* slot and no other one, whatever is added, counted and removed.          *)
LeaderFirst(table) ==
  /\ 1 \in DOMAIN table /\ table[1].id = Leader
  /\ \A i \in DOMAIN table : table[i].isLeader <=> i = 1

BeatsMember == hb.step \in {"count", "remove"} => hb.i > 1

Done == Len(order) - Len(sequencer_queue)
Shown == Len(printed[Leader])
ShownSoFar ==
  IF cast = NoCast THEN Shown = Done
  ELSE IF cast.i = 1 THEN cast.stage = "next" /\ Shown = Done
  ELSE Shown = Done + 1

LeaderInv == LeaderFirst(others[Leader]) /\ BeatsMember /\ ShownSoFar /\ LeaderShowsOrder

LEMMA AddClientKeepsLeader ==
  ASSUME NEW table \in Seq(Entry), LeaderFirst(table), NEW m \in Machine
  PROVE  LeaderFirst(AddClient(table, m))
<1>1. CASE \E i \in DOMAIN table : table[i].id = m /\ table[i].isLeader = IsLeader(m)
  BY <1>1 DEF AddClient
<1>2. CASE ~\E i \in DOMAIN table : table[i].id = m /\ table[i].isLeader = IsLeader(m)
  <2>1. ~IsLeader(m)
    <3> SUFFICES ASSUME m = Leader PROVE FALSE
      BY DEF IsLeader
    <3>1. table[1] \in Entry
      BY DEF LeaderFirst
    <3> QED BY <1>2, <3>1 DEF LeaderFirst, IsLeader, Entry
  <2>2. NewEntry(m) \in Entry /\ ~NewEntry(m).isLeader
    BY <2>1 DEF NewEntry, Entry, IsLeader
  <2>3. AddClient(table, m) = Append(table, NewEntry(m))
    BY <1>2 DEF AddClient
  <2>4. /\ DOMAIN table = 1..Len(table) /\ Len(table) \in Nat
        /\ DOMAIN Append(table, NewEntry(m)) = 1..(Len(table) + 1)
        /\ \A i \in 1..Len(table) : Append(table, NewEntry(m))[i] = table[i]
        /\ Append(table, NewEntry(m))[Len(table) + 1] = NewEntry(m)
    BY <2>2, AppendProperties, LenProperties
  <2> QED BY <2>2, <2>3, <2>4 DEF LeaderFirst
<1> QED BY <1>1, <1>2

LEMMA RemoveClientKeepsLeader ==
  ASSUME NEW table \in Seq(Entry), LeaderFirst(table), NEW m
  PROVE  LeaderFirst(RemoveClient(table, m, FALSE))
<1> DEFINE I == {i \in DOMAIN table : table[i].id = m /\ table[i].isLeader = FALSE}
<1>0. DOMAIN table = 1..Len(table) /\ Len(table) \in Nat
  BY LenProperties
<1>1. RemoveClient(table, m, FALSE) = RemoveFirstOf(table, I)
  BY DEF RemoveClient
<1>2. \A i \in I : i \in 2..Len(table)
  BY <1>0 DEF LeaderFirst
<1> HIDE DEF I
<1>3. CASE I = {}
  BY <1>1, <1>3 DEF RemoveFirstOf
<1>4. CASE I # {}
  <2>1. I \in SUBSET Nat
    BY <1>0, <1>2
  <2>2. PICK x : x = Min(I) /\ x \in I
    BY <1>4, <2>1, MinIsMember
  <2>3. x \in 2..Len(table) /\ x \in 1..Len(table)
    BY <1>0, <1>2, <2>2
  <2>4. RemoveClient(table, m, FALSE) = RemoveAt(table, x)
    BY <1>1, <1>4, <2>2 DEF RemoveFirstOf
  <2>5. /\ RemoveAt(table, x) \in Seq(Entry)
        /\ Len(RemoveAt(table, x)) = Len(table) - 1
        /\ \A k \in 1..(Len(table) - 1) :
             RemoveAt(table, x)[k] = IF k < x THEN table[k] ELSE table[k + 1]
    BY <2>3, RemoveAtProperties
  <2>6. PICK rest : rest = RemoveAt(table, x)
    OBVIOUS
  <2>7. DOMAIN rest = 1..(Len(table) - 1) /\ 1 \in DOMAIN rest
    BY <1>0, <2>3, <2>5, <2>6, LenProperties
  <2>8. rest[1] = table[1]
    BY <2>3, <2>5, <2>6, <2>7
  <2>9. ASSUME NEW k \in DOMAIN rest, k # 1 PROVE ~rest[k].isLeader
    <3>1. rest[k] = table[k] \/ rest[k] = table[k + 1]
      BY <2>5, <2>6, <2>7
    <3>2. k \in DOMAIN table /\ k + 1 \in DOMAIN table /\ k + 1 # 1
      BY <1>0, <2>7
    <3> QED BY <2>9, <3>1, <3>2 DEF LeaderFirst
  <2> QED BY <2>4, <2>6, <2>7, <2>8, <2>9 DEF LeaderFirst
<1> QED BY <1>3, <1>4

LEMMA CountingKeepsLeader ==
  ASSUME NEW table \in Seq(Entry), LeaderFirst(table), NEW i \in DOMAIN table, NEW n
  PROVE  LeaderFirst([table EXCEPT ![i].missed = n])
<1>1. \A k \in DOMAIN table : table[k] \in Entry
  OBVIOUS
<1>2. [table[i] EXCEPT !.missed = n].id = table[i].id
      /\ [table[i] EXCEPT !.missed = n].isLeader = table[i].isLeader
  BY <1>1 DEF Entry
<1> QED BY <1>2 DEF LeaderFirst

(* What neither broadcasts nor queues leaves the leader's screen alone.    *)
LEMMA LeaderAlone ==
  ASSUME LeaderInv, UNCHANGED <<cast, order, sequencer_queue>>,
         printed'[Leader] = printed[Leader], LeaderFirst(others'[Leader]), BeatsMember'
  PROVE  LeaderInv'
BY DEF LeaderInv, LeaderFirst, ShownSoFar, Shown, Done, LeaderShowsOrder

LEMMA EnqueueLeader ==
  ASSUME TypeInv, LeaderInv, NEW t \in Thread, Enqueue(t), UNCHANGED hb
  PROVE  LeaderInv'
<1> DEFINE node == [v |-> currentSequenceNum, m |-> draft[t].msg]
<1>1. node \in Node
  BY DraftFields DEF Enqueue, Node, TypeInv, TypeOK, SequencerTypeOK
<1>2. order' = Append(order, node) /\ sequencer_queue' = Append(sequencer_queue, node)
      /\ UNCHANGED <<cast, others, printed>>
  BY DEF Enqueue, Queued, machineVars
<1>3. order \in Seq(Node) /\ sequencer_queue \in Seq(Node) /\ printed[Leader] \in Seq(Message)
  BY DEF TypeInv, TypeOK, SequencerTypeOK, MachinesTypeOK, Machine
<1> HIDE DEF node
<1>4. /\ Len(order') = Len(order) + 1 /\ Len(sequencer_queue') = Len(sequencer_queue) + 1
      /\ \A k \in 1..Len(order) : order'[k] = order[k]
      /\ Len(order) \in Nat /\ Len(sequencer_queue) \in Nat
  BY <1>1, <1>2, <1>3, AppendProperties, LenProperties
<1>5. ShownSoFar'
  BY <1>2, <1>4 DEF LeaderInv, ShownSoFar, Shown, Done
<1>6. DOMAIN printed[Leader] = 1..Len(printed[Leader]) /\ Len(printed[Leader]) \in Nat
  BY <1>3, LenProperties
<1>7. LeaderShowsOrder'
  <2>1. Len(printed'[Leader]) <= Len(order')
    BY <1>2, <1>4, <1>6 DEF LeaderInv, LeaderShowsOrder
  <2>2. \A k \in DOMAIN printed[Leader] : k \in 1..Len(order)
    BY <1>4, <1>6 DEF LeaderInv, LeaderShowsOrder
  <2>3. \A k \in DOMAIN printed'[Leader] : printed'[Leader][k] = order'[k].m
    BY <1>2, <1>4, <2>2 DEF LeaderInv, LeaderShowsOrder
  <2> QED BY <2>1, <2>3 DEF LeaderShowsOrder
<1> QED BY <1>2, <1>5, <1>7 DEF LeaderInv, LeaderFirst, BeatsMember

(* When the broadcast comes to the leader's slot, its message is the next  *)
(* one of the list that the leader has not shown.                          *)
LEMMA OwnIsNext ==
  ASSUME TypeInv, NumberInv, LeaderInv, PrintOwn
  PROVE  /\ cast.i = 1 /\ cast # NoCast /\ Shown = Done
         /\ Shown + 1 \in 1..Len(order) /\ order[Shown + 1].m = cast.msg
         /\ cast.msg \in Message /\ printed'[Leader] = Append(printed[Leader], cast.msg)
<1>0. /\ order \in Seq(Node) /\ sequencer_queue \in Seq(Node) /\ cast \in Cast
      /\ printed \in [Machine -> Seq(Message)] /\ Leader \in Machine
  BY DEF TypeInv, TypeOK, SequencerTypeOK, MachinesTypeOK, Machine
<1>1. cast # NoCast /\ cast.msg \in Message /\ cast.i = 1
  BY <1>0 DEF PrintOwn, AtSlot, Slot, Cast, NoCast, LeaderInv, LeaderFirst
<1>2. Shown = Done
  BY <1>1 DEF LeaderInv, ShownSoFar
<1>3. /\ Len(sequencer_queue) > 0 /\ cast.msg = sequencer_queue[1].m
      /\ 1 \in DOMAIN sequencer_queue
  <2>1. sequencer_queue # <<>> /\ Head(sequencer_queue) = [v |-> cast.v, m |-> cast.msg]
    BY <1>1 DEF TypeInv, CastIsHead
  <2> QED BY <1>0, <2>1, HeadTailProperties, LenProperties
<1>4. Len(order) \in Nat /\ Len(sequencer_queue) \in Nat
  BY <1>0, LenProperties
<1>5. Done + 1 \in 1..Len(order) /\ order[Done + 1].m = cast.msg
  BY <1>3, <1>4 DEF Done, NumberInv, Numbered
<1> QED BY <1>0, <1>1, <1>2, <1>5 DEF PrintOwn, PrintMessage

LEMMA SendQueueLeader ==
  ASSUME TypeInv, NumberInv, LeaderInv, LeaderThread(SendQueue)
  PROVE  LeaderInv'
<1> USE DEF LeaderThread, machineVars, BeatsMember
<1>0. /\ order \in Seq(Node) /\ sequencer_queue \in Seq(Node) /\ cast \in Cast
      /\ printed \in [Machine -> Seq(Message)] /\ Leader \in Machine
  BY DEF TypeInv, TypeOK, SequencerTypeOK, MachinesTypeOK, Machine
<1>a. cast.stage # "none" => cast # NoCast /\ cast.i \in Nat \ {0} /\ cast.msg \in Message
  BY <1>0 DEF Cast, NoCast
<1>b. NextSlot.stage = "next" /\ NextSlot.i = cast.i + 1 /\ NextSlot # NoCast
  BY DEF NextSlot, AtNextSlot, NoCast
<1>c. Serve.stage = "next" /\ Serve.i = cast.i + 1 /\ Serve # NoCast
  BY <1>b DEF Serve, NextSlot, AtNextSlot, NoCast
<1>d. Len(order) \in Nat /\ Len(sequencer_queue) \in Nat /\ Len(printed[Leader]) \in Nat
      /\ DOMAIN printed[Leader] = 1..Len(printed[Leader]) /\ DOMAIN order = 1..Len(order)
  BY <1>0, LenProperties
<1>e. AtSlot => (Slot.isLeader <=> cast.i = 1)
  BY DEF AtSlot, Slot, LeaderInv, LeaderFirst
<1>f. ASSUME UNCHANGED <<others, printed, order, sequencer_queue, hb>>, ShownSoFar'
      PROVE  LeaderInv'
  BY <1>f DEF LeaderInv, LeaderFirst, LeaderShowsOrder
<1>1. CASE BroadcastStart
  <2>1. cast'.i = 1 /\ cast'.stage = "next" /\ cast' # NoCast /\ cast = NoCast
    BY <1>1 DEF BroadcastStart, NoCast
  <2>2. ShownSoFar'
    BY <1>1, <2>1 DEF BroadcastStart, LeaderInv, ShownSoFar, Shown, Done
  <2> QED BY <1>1, <2>2, <1>f DEF BroadcastStart
<1>2. CASE PrintOwn
  <2>1. cast.i = 1 /\ cast # NoCast /\ cast'.i = 2 /\ cast' # NoCast
    BY <1>2, <1>a, <1>c, OwnIsNext DEF PrintOwn
  <2>2. Shown = Done
    BY <1>2, OwnIsNext
  <2>3. Done + 1 \in 1..Len(order) /\ order[Done + 1].m = cast.msg
    BY <1>2, <2>2, OwnIsNext
  <2>4. printed'[Leader] = Append(printed[Leader], cast.msg) /\ cast.msg \in Message
    BY <1>2, OwnIsNext
  <2>5. /\ Len(printed'[Leader]) = Shown + 1 /\ printed'[Leader][Shown + 1] = cast.msg
        /\ DOMAIN printed'[Leader] = 1..(Shown + 1)
        /\ \A k \in 1..Shown : printed'[Leader][k] = printed[Leader][k]
    BY <1>0, <2>4, AppendProperties, LenProperties DEF Shown
  <2>6. UNCHANGED <<order, sequencer_queue, others, hb>>
    BY <1>2 DEF PrintOwn
  <2>7. Done' = Done /\ Shown' = Shown + 1 /\ cast'.i # 1
    BY <2>1, <2>5, <2>6 DEF Done, Shown
  <2>8. Shown \in Nat /\ Done + 1 <= Len(order) /\ Len(order') = Len(order)
    BY <1>d, <2>3, <2>6 DEF Shown
  <2>9. ShownSoFar'
    BY <2>1, <2>2, <2>7 DEF ShownSoFar
  <2>10. LeaderShowsOrder'
    <3>1. Len(printed'[Leader]) <= Len(order')
      BY <2>2, <2>5, <2>8
    <3>2. ASSUME NEW k \in DOMAIN printed'[Leader] PROVE printed'[Leader][k] = order[k].m
      <4>1. CASE k = Shown + 1
        BY <2>2, <2>3, <2>5, <4>1
      <4>2. CASE k \in 1..Shown
        BY <1>d, <2>5, <4>2 DEF LeaderInv, LeaderShowsOrder, Shown
      <4> QED BY <1>d, <2>5, <4>1, <4>2 DEF Shown
    <3> QED BY <2>6, <3>1, <3>2 DEF LeaderShowsOrder
  <2> QED BY <2>6, <2>9, <2>10 DEF LeaderInv, LeaderFirst
<1>3. CASE SkipJoiner
  <2>1. cast.i # 1 /\ cast # NoCast /\ cast'.i # 1 /\ cast' # NoCast
    BY <1>3, <1>a, <1>c, <1>e DEF SkipJoiner, AtSlot
  <2>2. ShownSoFar'
    BY <1>3, <2>1 DEF SkipJoiner, LeaderInv, ShownSoFar, Shown, Done
  <2> QED BY <1>3, <2>2, <1>f DEF SkipJoiner
<1>4. CASE SendToMember
  <2>1. cast.i # 1 /\ cast # NoCast
    BY <1>4, <1>a, <1>e DEF SendToMember, AtSlot
  <2>2. cast'.i = cast.i /\ cast' # NoCast
    BY <1>0, <1>4, <2>1 DEF SendToMember, Cast, NoCast
  <2>3. ShownSoFar'
    BY <1>4, <2>1, <2>2 DEF SendToMember, LeaderInv, ShownSoFar, Shown, Done
  <2> QED BY <1>4, <2>3, <1>f DEF SendToMember
<1>5. CASE ReceiveAck \/ AckTimeout
  <2>1. cast.stage = "wait" /\ cast # NoCast
    BY <1>5, <1>a DEF ReceiveAck, AckTimeout
  <2>2. cast.i # 1
    BY <2>1 DEF LeaderInv, ShownSoFar
  <2>3. cast'.i # 1 /\ cast' # NoCast
    <3>1. CASE cast' = NextSlot
      BY <3>1, <1>a, <1>b, <2>1, <2>2
    <3>2. CASE cast' = [cast EXCEPT !.n = @ + 1]
      BY <1>0, <2>1, <2>2, <3>2 DEF Cast, NoCast
    <3> QED BY <1>5, <3>1, <3>2 DEF ReceiveAck, AckTimeout
  <2>4. UNCHANGED <<others, printed, order, sequencer_queue, hb>>
    BY <1>5 DEF ReceiveAck, AckTimeout
  <2>5. ShownSoFar'
    BY <2>1, <2>2, <2>3, <2>4 DEF LeaderInv, ShownSoFar, Shown, Done
  <2> QED BY <2>4, <2>5, <1>f
<1>6. CASE BroadcastEnd
  <2>1. cast # NoCast /\ cast.i # 1 /\ cast' = NoCast
    BY <1>6, <1>a DEF BroadcastEnd, LeaderInv, LeaderFirst
  <2>2. sequencer_queue # <<>> /\ sequencer_queue' = Tail(sequencer_queue)
    BY <1>6, <2>1 DEF BroadcastEnd, Dequeued, TypeInv, CastIsHead
  <2>3. Len(sequencer_queue') = Len(sequencer_queue) - 1
    BY <1>0, <2>2, HeadTailProperties
  <2>4. UNCHANGED <<others, printed, order, hb>>
    BY <1>6 DEF BroadcastEnd
  <2>5. ShownSoFar'
    BY <1>d, <2>1, <2>3, <2>4 DEF LeaderInv, ShownSoFar, Shown, Done
  <2> QED BY <2>4, <2>5 DEF LeaderInv, LeaderFirst, LeaderShowsOrder
<1> QED BY <1>1, <1>2, <1>3, <1>4, <1>5, <1>6 DEF SendQueue

(* The listener and the leader's user do not move the leader's slot.      *)
LEMMA ListenLeader ==
  ASSUME TypeInv, LeaderInv, LeaderThread(Listen)
  PROVE  LeaderInv'
<1> USE DEF LeaderThread, machineVars
<1>0. LeaderFirst(others[Leader]) /\ BeatsMember'
  BY DEF LeaderInv, BeatsMember
<1>1. CASE EnterJoiner
  <2>1. draft["listen"].msg \in Message
    BY <1>1, DraftFields DEF EnterJoiner, TypeInv, Thread
  <2>2. others[Leader] \in Seq(Entry) /\ draft["listen"].msg.about \in Machine
    BY <2>1 DEF TypeInv, TypeOK, MachinesTypeOK, Machine, Message
  <2>3. LeaderFirst(AddClient(others[Leader], draft["listen"].msg.about))
    BY <1>0, <2>2, AddClientKeepsLeader
  <2>4. others'[Leader] = AddClient(others[Leader], draft["listen"].msg.about)
    BY <1>1 DEF EnterJoiner, TypeInv, TypeOK, MachinesTypeOK, Machine
  <2> QED BY <1>0, <1>1, <2>3, <2>4, LeaderAlone DEF EnterJoiner
<1>2. CASE StampJoin \/ AnswerJoiner \/ StampLine
  BY <1>0, <1>2, LeaderAlone DEF StampJoin, AnswerJoiner, StampLine
<1>3. CASE Enqueue("listen")
  BY <1>3, EnqueueLeader DEF Thread
<1> QED BY <1>1, <1>2, <1>3 DEF Listen

(* The heartbeats count and remove members only.                           *)
LEMMA HeartbeatLeader ==
  ASSUME TypeInv, LeaderInv,
         HeartbeatThread(SendHb) \/ HeartbeatThread(ReceiveBeatAck)
  PROVE  LeaderInv'
<1> USE DEF HeartbeatThread, machineVars
<1>0. /\ LeaderFirst(others[Leader]) /\ BeatsMember
      /\ others \in [Machine -> Seq(Entry)] /\ others[Leader] \in Seq(Entry)
      /\ hb \in HbType
  BY DEF LeaderInv, TypeInv, TypeOK, MachinesTypeOK, HeartbeatTypeOK, Machine
<1>a. Leader \in DOMAIN others
  BY <1>0 DEF Machine
<1>1. CASE StartRound \/ EndRound \/ SkipLeader
  <2>1. hb'.step \in {"beat", "rest"}
    <3>1. CASE StartRound
      BY <3>1 DEF StartRound
    <3>2. CASE EndRound
      BY <1>0, <3>2 DEF EndRound, HbType
    <3>3. CASE SkipLeader
      BY <1>0, <3>3 DEF SkipLeader, HbNext, HbType
    <3> QED BY <1>1, <3>1, <3>2, <3>3
  <2>2. BeatsMember'
    BY <2>1 DEF BeatsMember
  <2> QED BY <1>0, <1>1, <2>2, LeaderAlone
          DEF StartRound, EndRound, SkipLeader, sequencerVars, clientVars
<1>2. CASE SendBeat
  <2>1. hb.i # 1
    BY <1>0, <1>2 DEF SendBeat, HbSlot, LeaderFirst, HbAt
  <2>2. BeatsMember'
    BY <1>0, <1>2, <2>1 DEF SendBeat, HbType, BeatsMember
  <2> QED BY <1>0, <1>2, <2>2, LeaderAlone DEF SendBeat, sequencerVars, clientVars
<1>3. CASE CountBeat
  <2>1. hb.i > 1 /\ hb.i \in DOMAIN others[Leader]
    BY <1>0, <1>3 DEF CountBeat, HbAt, BeatsMember
  <2>2. PICK n : others'[Leader] = [others[Leader] EXCEPT ![hb.i].missed = n]
    BY <1>a, <1>3 DEF CountBeat
  <2>a. LeaderFirst([others[Leader] EXCEPT ![hb.i].missed = n])
    BY <1>0, <2>1, CountingKeepsLeader
  <2>3. LeaderFirst(others'[Leader])
    BY <2>2, <2>a
  <2>4. hb'.i > 1 \/ hb'.step = "beat"
    BY <1>0, <1>3, <2>1 DEF CountBeat, HbNext, HbType
  <2>5. BeatsMember'
    BY <2>4 DEF BeatsMember
  <2> QED BY <1>3, <2>3, <2>5, LeaderAlone DEF CountBeat
<1>4. CASE RemoveDeparted
  <2>1. hb.i > 1 /\ hb.i \in DOMAIN others[Leader]
    BY <1>0, <1>4 DEF RemoveDeparted, HbAt, BeatsMember
  <2>2. HbSlot.isLeader = FALSE
    <3>1. others[Leader][hb.i] \in Entry /\ hb.i # 1
      BY <1>0, <2>1 DEF HbType
    <3> QED BY <1>0, <2>1, <3>1 DEF HbSlot, LeaderFirst, Entry
  <2>3. others'[Leader] = RemoveClient(others[Leader], HbSlot.id, FALSE)
    BY <1>a, <1>4, <2>2 DEF RemoveDeparted
  <2>4. LeaderFirst(others'[Leader])
    BY <1>0, <2>3, RemoveClientKeepsLeader
  <2>5. BeatsMember'
    BY <1>0, <1>4 DEF RemoveDeparted, HbNext, HbType, BeatsMember
  <2> QED BY <1>4, <2>4, <2>5, LeaderAlone DEF RemoveDeparted, sequencerVars
<1>5. CASE Enqueue("send_hb") /\ UNCHANGED hb
  BY <1>5, EnqueueLeader DEF Thread
<1>6. CASE ReceiveBeatAck
  <2>1. PICK d \in Addressed("BEAT_ACK", Leader) :
          LET slots == {i \in DOMAIN others[Leader] : others[Leader][i].id = d.from}
          IN  others' = IF slots = {} THEN others
                        ELSE [others EXCEPT ![Leader][Min(slots)].missed = 0]
    BY <1>6 DEF ReceiveBeatAck
  <2> DEFINE slots == {i \in DOMAIN others[Leader] : others[Leader][i].id = d.from}
  <2>2. slots \in SUBSET Nat /\ slots \subseteq DOMAIN others[Leader]
    BY <1>0, LenProperties
  <2>3. others' = IF slots = {} THEN others
                  ELSE [others EXCEPT ![Leader][Min(slots)].missed = 0]
    BY <2>1
  <2> HIDE DEF slots
  <2>4. LeaderFirst(others'[Leader])
    <3>1. CASE slots = {}
      BY <1>0, <2>3, <3>1
    <3>2. CASE slots # {}
      <4>1. Min(slots) \in DOMAIN others[Leader]
        BY <2>2, <3>2, MinIsMember
      <4>2. others'[Leader] = [others[Leader] EXCEPT ![Min(slots)].missed = 0]
        BY <1>a, <2>3, <3>2
      <4>3. LeaderFirst([others[Leader] EXCEPT ![Min(slots)].missed = 0])
        BY <1>0, <4>1, CountingKeepsLeader
      <4> QED BY <4>2, <4>3
    <3> QED BY <3>1, <3>2
  <2>5. BeatsMember'
    BY <1>0, <1>6 DEF ReceiveBeatAck, BeatsMember
  <2> QED BY <1>6, <2>4, <2>5, LeaderAlone DEF ReceiveBeatAck, sequencerVars
<1> QED BY <1>1, <1>2, <1>3, <1>4, <1>5, <1>6 DEF SendHb

(* A client's threads touch its own table and its own screen.              *)
LEMMA ClientLeader ==
  ASSUME TypeInv, LeaderInv, NEW c \in Clients,
         \/ ClientThread(Join(c)) \/ ClientThread(TypeClientLine(c))
         \/ ClientThread(SendOut(c)) \/ ClientThread(ListenAtClient(c))
         \/ ClientThread(PrintNext(c)) \/ ClientThread(AnswerBeat(c))
         \/ ClientThread(EndProcess(c))
  PROVE  LeaderInv'
<1>1. c # Leader /\ Leader \in DOMAIN others /\ Leader \in DOMAIN printed
  BY LeaderAssumption DEF TypeInv, TypeOK, MachinesTypeOK, Machine
<1>2. UNCHANGED <<cast, order, sequencer_queue, hb>>
  BY DEF ClientThread, sequencerVars
<1>3. others'[Leader] = others[Leader] /\ printed'[Leader] = printed[Leader]
  <2>1. CASE Join(c)
    BY <1>1, <2>1 DEF Join, AskToJoin, AskLeader, EnterChat, GiveUpJoin, machineVars
  <2>2. CASE SendOut(c)
    BY <2>2 DEF SendOut, SendLine, LineReceived, machineVars
  <2>3. CASE ListenAtClient(c)
    BY <1>1, <2>3 DEF ListenAtClient, Deliver, RedirectJoiner, machineVars
  <2>4. CASE PrintNext(c)
    BY <1>1, <2>4 DEF PrintNext, PrintMessage
  <2>5. CASE TypeClientLine(c) \/ AnswerBeat(c) \/ EndProcess(c)
    BY <2>5 DEF TypeClientLine, AnswerBeat, EndProcess, Quit, machineVars
  <2> QED BY <2>1, <2>2, <2>3, <2>4, <2>5 DEF ClientThread
<1>4. LeaderFirst(others'[Leader]) /\ BeatsMember'
  BY <1>2, <1>3 DEF LeaderInv, BeatsMember
<1> QED BY <1>2, <1>3, <1>4, LeaderAlone

LEMMA LeaderInvStep ==
  TypeInv /\ NumberInv /\ LeaderInv /\ [Next]_vars => LeaderInv'
<1> SUFFICES ASSUME TypeInv, NumberInv, LeaderInv, [Next]_vars PROVE LeaderInv'
  OBVIOUS
<1>0. LeaderFirst(others[Leader]) /\ BeatsMember
  BY DEF LeaderInv
<1>1. CASE LeaderThread(Input)
  <2>1. CASE TypeLine
    BY <1>0, <1>1, <2>1, LeaderAlone DEF LeaderThread, TypeLine, machineVars, BeatsMember
  <2>2. CASE Enqueue("input")
    BY <1>1, <2>2, EnqueueLeader DEF LeaderThread, Thread
  <2> QED BY <1>1, <2>1, <2>2 DEF LeaderThread, Input
<1>2. CASE ClientThread(Lose /\ UNCHANGED clientVars)
  BY <1>0, <1>2, LeaderAlone DEF ClientThread, Lose, sequencerVars, machineVars, BeatsMember
<1>3. CASE UNCHANGED vars
  BY <1>0, <1>3, LeaderAlone DEF vars, sequencerVars, machineVars, BeatsMember
<1> QED BY <1>1, <1>2, <1>3, ListenLeader, SendQueueLeader, HeartbeatLeader, ClientLeader DEF Next

LEMMA LeaderInvInvariant == Spec => []LeaderInv
<1>1. Init => LeaderInv
  <2> SUFFICES ASSUME Init PROVE LeaderInv
    OBVIOUS
  <2>1. /\ cast = NoCast /\ order = <<>> /\ sequencer_queue = <<>> /\ hb.step = "rest"
        /\ others[Leader] = <<NewEntry(Leader)>> /\ printed[Leader] = <<>>
    BY DEF Init, SequencerInit, HeartbeatInit, MachinesInit, Machine, IsLeader
  <2>a. /\ DOMAIN others[Leader] = {1} /\ others[Leader][1] = NewEntry(Leader)
        /\ NewEntry(Leader).id = Leader /\ NewEntry(Leader).isLeader = TRUE
    <3>1. \A x : DOMAIN <<x>> = {1} /\ <<x>>[1] = x
      OBVIOUS
    <3>2. NewEntry(Leader).id = Leader /\ NewEntry(Leader).isLeader = TRUE
      BY DEF NewEntry, IsLeader
    <3> QED BY <2>1, <3>1, <3>2
  <2>2. LeaderFirst(others[Leader])
    BY <2>a DEF LeaderFirst
  <2> QED BY <2>1, <2>2 DEF LeaderInv, BeatsMember, ShownSoFar, Shown, Done, LeaderShowsOrder
<1> QED BY <1>1, LeaderInvStep, TypeInvInvariant, NumberInvInvariant, PTL DEF Spec

(* The leader's own screen is the order of its queue, message by message:  *)
(* a broadcast comes to the leader's slot exactly once, before any other,  *)
(* and the slot is never moved, however members join, are counted and      *)
(* leave meanwhile (sequencer.c:195-203, 263-268, 304-331).                *)
THEOREM LeaderShowsOrderAlways == Spec => []LeaderShowsOrder
BY LeaderInvInvariant, PTL DEF LeaderInv
=============================================================================
