----------------------------- MODULE ChatTypes ------------------------------
(***************************************************************************)
(* Type correctness of Chat, for every set of clients and every bound.     *)
(***************************************************************************)
EXTENDS Chat, SeqLemmas

(* TypeOK is not inductive: Tail is only defined on a queue that is not    *)
(* empty.  The line that waits for its answer is still in its queue.       *)
SendingHasHead == \A c \in Clients : sending[c] => outgoing_queue[c] # <<>>

TypeInv == TypeOK /\ CastIsHead /\ SendingHasHead

-----------------------------------------------------------------------------
LEMMA RemoveFirstOfType ==
  ASSUME NEW S, NEW s \in Seq(S), NEW I \in SUBSET DOMAIN s
  PROVE  RemoveFirstOf(s, I) \in Seq(S)
<1>1. CASE I = {}
  BY <1>1 DEF RemoveFirstOf
<1>2. CASE I # {}
  <2>1. Min(I) \in 1..Len(s)
    BY <1>2, MinIsMember
  <2> QED BY <1>2, <2>1, RemoveAtType DEF RemoveFirstOf
<1> QED BY <1>1, <1>2

(* The operations on a table of members keep it one.                       *)
LEMMA AddClientType ==
  ASSUME NEW table \in Seq(Entry), NEW m \in Machine
  PROVE  AddClient(table, m) \in Seq(Entry)
<1>1. NewEntry(m) \in Entry
  BY DEF NewEntry, Entry, IsLeader
<1>2. Append(table, NewEntry(m)) \in Seq(Entry)
  BY <1>1, AppendProperties
<1> QED BY <1>2 DEF AddClient

LEMMA RemoveClientType ==
  ASSUME NEW table \in Seq(Entry), NEW m, NEW b
  PROVE  RemoveClient(table, m, b) \in Seq(Entry)
BY RemoveFirstOfType DEF RemoveClient

LEMMA DequeuedType == TypeOK /\ sequencer_queue # <<>> => Dequeued \in Seq(Node)
BY HeadTailProperties DEF Dequeued, TypeOK, SequencerTypeOK

(* The kinds of datagrams, one by one: what their fields hold.             *)
LEMMA DatagramFields ==
  ASSUME NEW d \in Datagram
  PROVE  /\ d.type = "JOIN_REQ" => d.from \in Machine
         /\ d.type = "JOIN_RES" => d.host \in Machine /\ d.seq \in Nat /\ d.table \in Seq(Entry)
         /\ d.type = "MSG_REQ" => d.from \in Machine /\ d.msg \in Message
         /\ d.type = "CAST" => d.v \in Nat /\ d.try \in 0..3 /\ d.msg \in Message
         /\ d.type = "BEAT" => d.round \in Nat
BY DEF Datagram

(* What a thread of the leader makes up is a message.                      *)
LEMMA StampedType ==
  ASSUME TypeOK, NEW type \in {"MSG_REQ", "NEW_USER", "LEAVE"}, NEW about \in Machine,
         NEW n \in Nat, NEW text \in Machine \X Nat
  PROVE  Stamped(type, about, n, text) \in Message
BY DEF Stamped, Stamp, Message, TypeOK, SequencerTypeOK

LEMMA HoldType ==
  ASSUME TypeOK, NEW t \in Thread, NEW step \in {"add", "enqueue", "reply"},
         NEW msg \in Message, Hold(t, step, msg)
  PROVE  draft' \in [Thread -> Draft]
BY DEF Hold, Draft, TypeOK, SequencerTypeOK

LEMMA ReleaseType ==
  ASSUME TypeOK, NEW t \in Thread, Release(t)
  PROVE  draft' \in [Thread -> Draft]
BY DEF Release, Draft, Idle, TypeOK, SequencerTypeOK

LEMMA DraftFields ==
  ASSUME TypeOK, NEW t \in Thread, draft[t].step # "idle"
  PROVE  draft[t].msg \in Message /\ draft[t].step \in {"add", "enqueue", "reply"}
BY DEF Draft, Idle, TypeOK, SequencerTypeOK

LEMMA TransmitType ==
  ASSUME TypeOK, NEW R, NEW D \in SUBSET Datagram, Transmit(R, D)
  PROVE  net' \subseteq Datagram
BY DEF Transmit, TypeOK, WireTypeOK

-----------------------------------------------------------------------------
(* Queueing a message, the same in each of the three threads.              *)
LEMMA EnqueueTypes ==
  ASSUME TypeOK, NEW t \in Thread, Enqueue(t), UNCHANGED <<hb, clientVars>>
  PROVE  TypeOK'
<1> USE DEF TypeOK, MachinesTypeOK, WireTypeOK, SequencerTypeOK, HeartbeatTypeOK, ClientTypeOK,
            wireVars, machineVars, clientVars
<1> DEFINE node == [v |-> currentSequenceNum, m |-> draft[t].msg]
<1>1. draft[t].msg \in Message
  BY DraftFields DEF Enqueue
<1>2. node \in Node
  BY <1>1 DEF Node
<1>3. sequencer_queue' \in Seq(Node) /\ order' \in Seq(Node)
  BY <1>2, AppendProperties DEF Enqueue, Queued
<1>4. draft' \in [Thread -> Draft]
  BY <1>1, HoldType, ReleaseType DEF Enqueue
<1> QED BY <1>3, <1>4 DEF Enqueue, NumberAfter

LEMMA InputTypes == TypeOK /\ LeaderThread(Input) => TypeOK'
<1> SUFFICES ASSUME TypeOK, LeaderThread(Input) PROVE TypeOK'
  OBVIOUS
<1> USE DEF TypeOK, MachinesTypeOK, WireTypeOK, SequencerTypeOK, HeartbeatTypeOK, ClientTypeOK,
            wireVars, machineVars, clientVars
<1>1. CASE TypeLine
  <2>1. <<Leader, typed + 1>> \in Machine \X Nat
    BY DEF Machine
  <2>2. Stamped("MSG_REQ", Leader, 0, <<Leader, typed + 1>>) \in Message
    BY <2>1, StampedType DEF Machine
  <2>3. draft' \in [Thread -> Draft]
    BY <1>1, <2>2, HoldType DEF TypeLine, Thread
  <2> QED BY <1>1, <2>3 DEF TypeLine, LeaderThread
<1>2. CASE Enqueue("input")
  BY <1>2, EnqueueTypes DEF LeaderThread, Thread
<1> QED BY <1>1, <1>2 DEF Input, LeaderThread

LEMMA ListenTypes == TypeOK /\ LeaderThread(Listen) => TypeOK'
<1> SUFFICES ASSUME TypeOK, LeaderThread(Listen) PROVE TypeOK'
  OBVIOUS
<1> USE DEF TypeOK, MachinesTypeOK, WireTypeOK, SequencerTypeOK, HeartbeatTypeOK, ClientTypeOK,
            wireVars, machineVars, clientVars, LeaderThread
<1> "listen" \in Thread
  BY DEF Thread
<1>1. CASE StampJoin
  <2>1. PICK d \in Addressed("JOIN_REQ", Leader) :
          /\ Transmit({d}, {})
          /\ Hold("listen", "add", Stamped("NEW_USER", d.from, 0, <<d.from, 0>>))
    BY <1>1 DEF StampJoin
  <2>2. d.from \in Machine
    BY DatagramFields DEF Addressed
  <2>3. Stamped("NEW_USER", d.from, 0, <<d.from, 0>>) \in Message
    BY <2>2, StampedType
  <2>4. draft' \in [Thread -> Draft]
    BY <2>1, <2>3, HoldType
  <2>5. net' \subseteq Datagram
    BY <2>1, TransmitType
  <2> QED BY <1>1, <2>4, <2>5 DEF StampJoin
<1>2. CASE EnterJoiner
  <2>1. draft["listen"].msg \in Message
    BY <1>2, DraftFields DEF EnterJoiner
  <2>2. AddClient(others[Leader], draft["listen"].msg.about) \in Seq(Entry)
    BY <2>1, AddClientType DEF Message, Machine
  <2>3. draft' \in [Thread -> Draft]
    BY <1>2, <2>1, HoldType DEF EnterJoiner
  <2>4. others' \in [Machine -> Seq(Entry)]
    BY <1>2, <2>2 DEF EnterJoiner
  <2> QED BY <1>2, <2>3, <2>4 DEF EnterJoiner
<1>3. CASE AnswerJoiner
  <2> DEFINE answer == [type |-> "JOIN_RES", to |-> draft["listen"].msg.about, isLeader |-> TRUE,
                        host |-> Leader, seq |-> JoinNumber, table |-> others[Leader]]
  <2>1. draft["listen"].msg \in Message
    BY <1>3, DraftFields DEF AnswerJoiner
  <2>2. answer \in Datagram
    BY <2>1 DEF Datagram, Message, JoinNumber, Machine
  <2>3. net' \subseteq Datagram
    BY <1>3, <2>2, TransmitType DEF AnswerJoiner
  <2>4. draft' \in [Thread -> Draft]
    BY <1>3, ReleaseType DEF AnswerJoiner
  <2> QED BY <1>3, <2>3, <2>4 DEF AnswerJoiner
<1>4. CASE StampLine
  <2>1. PICK d \in Addressed("MSG_REQ", Leader) :
          /\ Transmit({d}, {[type |-> "MSG_RES", to |-> d.from]})
          /\ Hold("listen", "enqueue", Stamped("MSG_REQ", d.msg.about, d.msg.sender_seq, d.msg.text))
    BY <1>4 DEF StampLine
  <2>2. d.from \in Machine /\ d.msg \in Message
    BY DatagramFields DEF Addressed
  <2>3. Stamped("MSG_REQ", d.msg.about, d.msg.sender_seq, d.msg.text) \in Message
    BY <2>2, StampedType DEF Message
  <2>4. draft' \in [Thread -> Draft]
    BY <2>1, <2>3, HoldType
  <2>5. [type |-> "MSG_RES", to |-> d.from] \in Datagram
    BY <2>2 DEF Datagram
  <2>6. net' \subseteq Datagram
    BY <2>1, <2>5, TransmitType
  <2> QED BY <1>4, <2>4, <2>6 DEF StampLine
<1>5. CASE Enqueue("listen")
  BY <1>5, EnqueueTypes
<1> QED BY <1>1, <1>2, <1>3, <1>4, <1>5 DEF Listen

LEMMA SendQueueTypes == TypeInv /\ LeaderThread(SendQueue) => TypeOK'
<1> SUFFICES ASSUME TypeOK, CastIsHead, LeaderThread(SendQueue) PROVE TypeOK'
  BY DEF TypeInv
<1> USE DEF TypeOK, MachinesTypeOK, WireTypeOK, SequencerTypeOK, HeartbeatTypeOK, ClientTypeOK,
            wireVars, machineVars, clientVars, LeaderThread
<1> Leader \in Machine
  BY DEF Machine
<1> DEFINE Casting == [stage : {"next", "wait"}, v : Nat, msg : Message, i : Nat \ {0},
                       to : Machine, n : 0..2, served : SUBSET Machine]
<1>0. cast # NoCast => cast \in Casting
  BY DEF Cast
<1>a. cast.stage # "none" => cast # NoCast
  BY DEF NoCast
<1>b. AtSlot => Slot \in Entry /\ cast \in Casting
  BY <1>0, <1>a DEF AtSlot, Slot
<1>c. cast \in Casting => NextSlot \in Casting
  <2> SUFFICES ASSUME cast \in Casting PROVE NextSlot \in Casting
    OBVIOUS
  <2>1. cast.i + 1 \in Nat \ {0} /\ 0 \in 0..2
    OBVIOUS
  <2> QED BY <2>1 DEF NextSlot, AtNextSlot
<1>d. AtSlot => Serve \in Casting
  <2> SUFFICES ASSUME AtSlot PROVE Serve \in Casting
    OBVIOUS
  <2>1. NextSlot \in Casting /\ Slot.id \in Machine
    BY <1>b, <1>c DEF Entry
  <2>2. NextSlot.served \cup {Slot.id} \in SUBSET Machine
    BY <2>1
  <2> HIDE DEF Casting
  <2>3. Serve = [NextSlot EXCEPT !.served = @ \cup {Slot.id}]
    BY DEF Serve
  <2> USE DEF Casting
  <2> QED BY <2>1, <2>2, <2>3
<1>e. \A to \in Machine, try \in 0..3 :
        cast.stage \in {"next", "wait"} => Transmission(to, try) \in Datagram
  BY <1>0, <1>a DEF Transmission, Datagram
<1>1. CASE BroadcastStart
  <2>1. Head(sequencer_queue) \in Node
    BY <1>1, HeadTailProperties DEF BroadcastStart
  <2>2. cast' \in Casting
    BY <1>1, <2>1 DEF BroadcastStart, Node
  <2> QED BY <1>1, <2>2 DEF BroadcastStart, Cast
<1>2. CASE PrintOwn
  <2>1. cast.msg \in Message /\ Serve \in Cast
    BY <1>2, <1>b, <1>d DEF PrintOwn, Cast
  <2>2. printed' \in [Machine -> Seq(Message)]
    BY <1>2, <2>1, AppendProperties DEF PrintOwn, PrintMessage
  <2> QED BY <1>2, <2>1, <2>2 DEF PrintOwn
<1>3. CASE SkipJoiner
  BY <1>3, <1>d DEF SkipJoiner, Cast
<1>4. CASE SendToMember
  <2>1. Slot.id \in Machine /\ cast \in Casting
    BY <1>4, <1>b DEF SendToMember, Entry
  <2>2. cast' \in Casting
    BY <1>4, <2>1 DEF SendToMember
  <2>3. Transmission(Slot.id, 0) \in Datagram
    BY <1>4, <2>1, <1>e DEF SendToMember, AtSlot
  <2>4. net' \subseteq Datagram
    BY <1>4, <2>3, TransmitType DEF SendToMember
  <2> QED BY <1>4, <2>2, <2>4 DEF SendToMember, Cast
<1>5. CASE ReceiveAck
  <2>1. net' \subseteq Datagram
    BY <1>5, TransmitType DEF ReceiveAck
  <2> QED BY <1>5, <1>0, <1>a, <1>c, <2>1 DEF ReceiveAck, Cast
<1>6. CASE AckTimeout
  <2>1. cast \in Casting
    BY <1>6, <1>0, <1>a DEF AckTimeout
  <2>2. cast.stage = "wait" /\ cast.n + 1 \in 0..3
    BY <1>6, <2>1 DEF AckTimeout
  <2>3. Transmission(cast.to, cast.n + 1) \in Datagram
    BY <2>1, <2>2, <1>e
  <2>5. net' \subseteq Datagram
    BY <1>6, <2>3, TransmitType DEF AckTimeout
  <2>6. early' \in Nat
    BY <1>6 DEF AckTimeout, TimeoutExpires
  <2>7. cast' \in Casting
    <3>1. CASE cast.n = 2
      BY <1>6, <3>1, <2>1, <1>c DEF AckTimeout
    <3>2. CASE cast.n # 2
      <4>1. cast.n + 1 \in 0..2
        BY <2>1, <3>2
      <4> QED BY <1>6, <3>2, <2>1, <4>1 DEF AckTimeout
    <3> QED BY <3>1, <3>2
  <2>8. UNCHANGED <<currentSequenceNum, sequencer_queue, draft, typed, order, gone, lost,
                    machineVars, hb, clientVars>>
    BY <1>6 DEF AckTimeout
  <2> QED BY <2>5, <2>6, <2>7, <2>8 DEF Cast
<1>7. CASE BroadcastEnd
  <2>1. sequencer_queue # <<>>
    BY <1>7, <1>a DEF BroadcastEnd, CastIsHead
  <2>2. sequencer_queue' \in Seq(Node)
    BY <1>7, <2>1, DequeuedType DEF BroadcastEnd
  <2> QED BY <1>7, <2>2 DEF BroadcastEnd, Cast
<1> QED BY <1>1, <1>2, <1>3, <1>4, <1>5, <1>6, <1>7 DEF SendQueue

-----------------------------------------------------------------------------
LEMMA HeartbeatTypes ==
  TypeOK /\ (HeartbeatThread(SendHb) \/ HeartbeatThread(ReceiveBeatAck)) => TypeOK'
<1> SUFFICES ASSUME TypeOK, HeartbeatThread(SendHb) \/ HeartbeatThread(ReceiveBeatAck)
             PROVE  TypeOK'
  OBVIOUS
<1> USE DEF TypeOK, MachinesTypeOK, WireTypeOK, SequencerTypeOK, HeartbeatTypeOK, ClientTypeOK,
            wireVars, machineVars, sequencerVars, clientVars, HeartbeatThread
<1> Leader \in Machine /\ "send_hb" \in Thread
  BY DEF Machine, Thread
<1>a. \A step \in HbSteps : HbAt(step) => HbSlot \in Entry
  BY DEF HbAt, HbSlot
<1>b. HbNext \in HbType
  <2>1. hb.i + 1 \in Nat \ {0} /\ "beat" \in HbSteps
    BY DEF HbType, HbSteps
  <2> QED BY <2>1 DEF HbNext, HbType
<1>1. CASE StartRound
  <2>1. hb' \in HbType
    BY <1>1 DEF StartRound, HbType, HbSteps
  <2> QED BY <1>1, <2>1 DEF StartRound
<1>2. CASE EndRound
  BY <1>2 DEF EndRound, HbType, HbSteps
<1>3. CASE SkipLeader
  BY <1>3, <1>b DEF SkipLeader
<1>4. CASE SendBeat
  <2>1. HbSlot.id \in Machine
    BY <1>4, <1>a DEF SendBeat, HbSteps, Entry
  <2>2. [type |-> "BEAT", to |-> HbSlot.id, round |-> hb.round] \in Datagram
    BY <2>1 DEF Datagram, HbType
  <2>3. net' \subseteq Datagram
    BY <1>4, <2>2, TransmitType DEF SendBeat
  <2>4. hb' \in HbType
    BY <1>4 DEF SendBeat, HbType, HbSteps
  <2> QED BY <1>4, <2>3, <2>4 DEF SendBeat
<1>5. CASE CountBeat
  <2>1. HbSlot \in Entry /\ hb.i \in DOMAIN others[Leader]
    BY <1>5, <1>a DEF CountBeat, HbSteps, HbAt
  <2>2. [HbSlot EXCEPT !.missed = @ + 1] \in Entry
    <3>1. HbSlot.missed + 1 \in Nat
      BY <2>1 DEF Entry
    <3> QED BY <2>1, <3>1 DEF Entry
  <2>3. [others[Leader] EXCEPT ![hb.i] = [HbSlot EXCEPT !.missed = @ + 1]] \in Seq(Entry)
    BY <2>1, <2>2, ExceptSeq
  <2>4. others' \in [Machine -> Seq(Entry)]
    BY <1>5, <2>3 DEF CountBeat, HbSlot
  <2>5. Stamped("LEAVE", Leader, 0, <<HbSlot.id, 0>>) \in Message
    BY <2>1, StampedType DEF Entry
  <2>6. draft' \in [Thread -> Draft]
    BY <1>5, <2>5, HoldType DEF CountBeat
  <2>7. hb' \in HbType
    <3>1. hb' = [hb EXCEPT !.step = "remove"] \/ hb' = HbNext
      BY <1>5 DEF CountBeat
    <3>2. [hb EXCEPT !.step = "remove"] \in HbType
      BY DEF HbType, HbSteps
    <3> QED BY <1>b, <3>1, <3>2
  <2>8. UNCHANGED <<currentSequenceNum, sequencer_queue, typed, cast, order, printed, wireVars,
                    clientVars>>
    BY <1>5 DEF CountBeat
  <2> QED BY <2>4, <2>6, <2>7, <2>8
<1>6. CASE RemoveDeparted
  <2>1. others' \in [Machine -> Seq(Entry)]
    BY <1>6, RemoveClientType DEF RemoveDeparted
  <2> QED BY <1>6, <1>b, <2>1 DEF RemoveDeparted
<1>7. CASE Enqueue("send_hb") /\ UNCHANGED hb
  BY <1>7, EnqueueTypes
<1>8. CASE ReceiveBeatAck
  <2>1. PICK d \in Addressed("BEAT_ACK", Leader) :
          /\ Transmit({d}, {})
          /\ LET slots == {i \in DOMAIN others[Leader] : others[Leader][i].id = d.from}
             IN  others' = IF slots = {} THEN others
                           ELSE [others EXCEPT ![Leader][Min(slots)].missed = 0]
    BY <1>8 DEF ReceiveBeatAck
  <2> DEFINE slots == {i \in DOMAIN others[Leader] : others[Leader][i].id = d.from}
             i == Min(slots)
  <2>2. CASE slots = {}
    BY <1>8, <2>1, <2>2, TransmitType DEF ReceiveBeatAck
  <2>3. CASE slots # {}
    <3>0. slots \in SUBSET Nat
      BY LenProperties
    <3>1. i \in DOMAIN others[Leader]
      BY <2>3, <3>0, MinIsMember
    <3>a. others[Leader][i] \in Entry
      BY <3>1
    <3>2. [others[Leader][i] EXCEPT !.missed = 0] \in Entry
      BY <3>a DEF Entry
    <3>3. [others[Leader] EXCEPT ![i] = [others[Leader][i] EXCEPT !.missed = 0]] \in Seq(Entry)
      BY <3>1, <3>2, ExceptSeq
    <3>4. others' \in [Machine -> Seq(Entry)]
      BY <2>1, <2>3, <3>3
    <3>5. net' \subseteq Datagram
      BY <2>1, TransmitType
    <3> QED BY <1>8, <3>4, <3>5 DEF ReceiveBeatAck
  <2> QED BY <2>2, <2>3
<1> QED BY <1>1, <1>2, <1>3, <1>4, <1>5, <1>6, <1>7, <1>8 DEF SendHb

-----------------------------------------------------------------------------
LEMMA JoinTypes ==
  ASSUME NEW c \in Clients
  PROVE  TypeOK /\ ClientThread(Join(c)) => TypeOK'
<1> SUFFICES ASSUME TypeOK, ClientThread(Join(c)) PROVE TypeOK'
  OBVIOUS
<1> USE DEF TypeOK, MachinesTypeOK, WireTypeOK, SequencerTypeOK, HeartbeatTypeOK, ClientTypeOK,
            wireVars, machineVars, sequencerVars, ClientThread
<1> c \in Machine
  BY DEF Machine
<1>1. ASSUME NEW h \in Machine, AskToJoin(c, h) PROVE TypeOK'
  <2>1. [type |-> "JOIN_REQ", from |-> c, to |-> h] \in Datagram
    BY DEF Datagram
  <2>2. net' \subseteq Datagram
    BY <1>1, <2>1, TransmitType DEF AskToJoin
  <2> QED BY <1>1, <2>2 DEF AskToJoin
<1>2. CASE AskLeader(c)
  <2>1. PICK d \in Addressed("JOIN_RES", c) :
          /\ host' = [host EXCEPT ![c] = d.host]
          /\ Transmit({d}, {[type |-> "JOIN_REQ", from |-> c, to |-> d.host]})
    BY <1>2 DEF AskLeader
  <2>2. d.host \in Machine
    BY DatagramFields DEF Addressed
  <2>3. [type |-> "JOIN_REQ", from |-> c, to |-> d.host] \in Datagram
    BY <2>2 DEF Datagram
  <2>4. net' \subseteq Datagram
    BY <2>1, <2>3, TransmitType
  <2> QED BY <1>2, <2>1, <2>2, <2>4 DEF AskLeader
<1>3. CASE EnterChat(c)
  <2>1. PICK d \in Addressed("JOIN_RES", c) :
          /\ Transmit({d}, {})
          /\ latestSequenceNum' = [latestSequenceNum EXCEPT ![c] = LatestAtJoin(d.seq)]
          /\ others' = [others EXCEPT ![c] = UpdateClients(@, d.table)]
    BY <1>3 DEF EnterChat
  <2>2. d.seq \in Nat /\ d.table \in Seq(Entry)
    BY DatagramFields DEF Addressed
  <2>3. latestSequenceNum' \in [Clients -> Int] /\ others' \in [Machine -> Seq(Entry)]
    <3>1. LatestAtJoin(d.seq) \in Int /\ UpdateClients(others[c], d.table) \in Seq(Entry)
      BY <2>2 DEF LatestAtJoin, UpdateClients
    <3> QED BY <2>1, <3>1
  <2>4. net' \subseteq Datagram
    BY <2>1, TransmitType
  <2> QED BY <1>3, <2>3, <2>4 DEF EnterChat
<1>4. CASE GiveUpJoin(c, Answering(c))
  <2>1. net' \subseteq Datagram /\ gone' \subseteq Machine
    BY <1>4 DEF GiveUpJoin, CloseSockets
  <2>2. early' \in Nat
    BY <1>4 DEF GiveUpJoin, TimeoutExpires
  <2>3. UNCHANGED <<lost, machineVars, sequencerVars, hb, clientVars>>
    BY <1>4 DEF GiveUpJoin
  <2> QED BY <2>1, <2>2, <2>3 DEF clientVars
<1> QED BY <1>1, <1>2, <1>3, <1>4 DEF Join

LEMMA SendOutTypes ==
  ASSUME NEW c \in Clients
  PROVE  TypeInv /\ (ClientThread(TypeClientLine(c)) \/ ClientThread(SendOut(c))) => TypeOK'
<1> SUFFICES ASSUME TypeOK, SendingHasHead,
                    ClientThread(TypeClientLine(c)) \/ ClientThread(SendOut(c))
             PROVE  TypeOK'
  BY DEF TypeInv
<1> USE DEF TypeOK, MachinesTypeOK, WireTypeOK, SequencerTypeOK, HeartbeatTypeOK, ClientTypeOK,
            wireVars, machineVars, sequencerVars, ClientThread
<1> c \in Machine
  BY DEF Machine
<1>1. CASE TypeClientLine(c)
  <2>1. <<c, lines[c] + 1>> \in Machine \X Nat
    OBVIOUS
  <2>2. Append(outgoing_queue[c], <<c, lines[c] + 1>>) \in Seq(Machine \X Nat)
    BY <2>1, AppendProperties
  <2>3. outgoing_queue' \in [Clients -> Seq(Machine \X Nat)] /\ lines' \in [Clients -> Nat]
    <3>1. lines[c] + 1 \in Nat
      OBVIOUS
    <3> QED BY <1>1, <2>2, <3>1 DEF TypeClientLine
  <2>4. UNCHANGED <<status, host, latestSequenceNum, client_queue, temp_queue, sendSeqNum,
                    sending, wireVars, machineVars, sequencerVars, hb>>
    BY <1>1 DEF TypeClientLine
  <2> QED BY <2>3, <2>4
<1>2. CASE SendLine(c)
  <2> DEFINE text == Head(outgoing_queue[c])
             msg == [type |-> "MSG_REQ", about |-> c, seq |-> 0,
                     sender_seq |-> sendSeqNum[c], text |-> text]
             sent == [v |-> 0, sender_seq |-> sendSeqNum[c], text |-> text]
             request == [type |-> "MSG_REQ", from |-> c, to |-> host[c], msg |-> msg]
  <2>1. text \in Machine \X Nat
    BY <1>2, HeadTailProperties DEF SendLine
  <2>2. msg \in Message
    BY <2>1 DEF Message
  <2>3. sent \in SentNode
    BY <2>1 DEF SentNode
  <2>4. Append(temp_queue[c], sent) \in Seq(SentNode)
    BY <2>3, AppendProperties
  <2>5. request \in Datagram
    BY <2>2 DEF Datagram
  <2>6. net' \subseteq Datagram
    BY <1>2, <2>5, TransmitType DEF SendLine
  <2>7. temp_queue' \in [Clients -> Seq(SentNode)]
    BY <1>2, <2>4 DEF SendLine
  <2>8. sendSeqNum' \in [Clients -> Nat] /\ sending' \in [Clients -> BOOLEAN]
    <3>1. sendSeqNum[c] + 1 \in Nat
      OBVIOUS
    <3> QED BY <1>2, <3>1 DEF SendLine
  <2>9. UNCHANGED <<status, host, latestSequenceNum, client_queue, outgoing_queue,
                    lines, gone, lost, early, machineVars, sequencerVars, hb>>
    BY <1>2 DEF SendLine
  <2> QED BY <2>6, <2>7, <2>8, <2>9
<1>3. CASE LineReceived(c)
  <2>1. net' \subseteq Datagram
    BY <1>3, TransmitType DEF LineReceived
  <2>2. Tail(outgoing_queue[c]) \in Seq(Machine \X Nat)
    BY <1>3, HeadTailProperties DEF LineReceived, SendingHasHead
  <2> QED BY <1>3, <2>1, <2>2 DEF LineReceived
<1> QED BY <1>1, <1>2, <1>3 DEF SendOut

LEMMA ListenAtClientTypes ==
  ASSUME NEW c \in Clients
  PROVE  TypeOK /\ ClientThread(ListenAtClient(c)) => TypeOK'
<1> SUFFICES ASSUME TypeOK, ClientThread(ListenAtClient(c)) PROVE TypeOK'
  OBVIOUS
<1> USE DEF TypeOK, MachinesTypeOK, WireTypeOK, SequencerTypeOK, HeartbeatTypeOK, ClientTypeOK,
            wireVars, machineVars, sequencerVars, clientVars, ClientThread
<1> c \in Machine /\ Leader \in Machine
  BY DEF Machine
<1>1. CASE Deliver(c)
  <2>1. PICK d \in Addressed("CAST", c) :
          /\ client_queue' = [client_queue EXCEPT ![c] = Append(@, [v |-> d.msg.seq, m |-> d.msg])]
          /\ Transmit({d}, {[type |-> "ACK", from |-> c, to |-> Leader, v |-> d.v, try |-> d.try]})
          /\ others' = [others EXCEPT ![c] = TableAfter(@, d.msg)]
    BY <1>1 DEF Deliver
  <2>2. d.msg \in Message /\ d.v \in Nat /\ d.try \in 0..3
    BY DatagramFields DEF Addressed
  <2>3. [v |-> d.msg.seq, m |-> d.msg] \in QueuedNode
    BY <2>2 DEF QueuedNode, Message
  <2>4. client_queue' \in [Clients -> Seq(QueuedNode)]
    BY <2>1, <2>3, AppendProperties
  <2>5. [type |-> "ACK", from |-> c, to |-> Leader, v |-> d.v, try |-> d.try] \in Datagram
    BY <2>2 DEF Datagram
  <2>6. net' \subseteq Datagram
    BY <2>1, <2>5, TransmitType
  <2>7. TableAfter(others[c], d.msg) \in Seq(Entry)
    BY <2>2, AddClientType, RemoveClientType DEF TableAfter, Message
  <2>8. others' \in [Machine -> Seq(Entry)]
    BY <2>1, <2>7
  <2> QED BY <1>1, <2>4, <2>6, <2>8 DEF Deliver
<1>2. CASE RedirectJoiner(c)
  <2>1. PICK d \in Addressed("JOIN_REQ", c) :
          Transmit({d}, {[type |-> "JOIN_RES", to |-> d.from, isLeader |-> FALSE,
                          host |-> host[c], seq |-> 0, table |-> others[c]]})
    BY <1>2 DEF RedirectJoiner
  <2>2. d.from \in Machine
    BY DatagramFields DEF Addressed
  <2>3. [type |-> "JOIN_RES", to |-> d.from, isLeader |-> FALSE, host |-> host[c], seq |-> 0,
         table |-> others[c]] \in Datagram
    BY <2>2 DEF Datagram
  <2>4. net' \subseteq Datagram
    BY <2>1, <2>3, TransmitType
  <2> QED BY <1>2, <2>4 DEF RedirectJoiner
<1> QED BY <1>1, <1>2 DEF ListenAtClient

LEMMA StopsAtType ==
  ASSUME NEW c, NEW msg, NEW temp \in Seq(SentNode)
  PROVE  StopsAt(c, msg, temp) # 0 => StopsAt(c, msg, temp) \in 1..Len(temp)
<1> DEFINE I == {n \in DOMAIN temp : IsOwn(c, msg, temp[n]) \/ temp[n].v > ResendAfter}
<1>1. I \in SUBSET Nat /\ DOMAIN temp = 1..Len(temp)
  BY LenProperties
<1>2. StopsAt(c, msg, temp) = First(I)
  BY DEF StopsAt
<1>3. I # {} => Min(I) \in 1..Len(temp)
  BY <1>1, MinIsMember
<1> HIDE DEF I
<1> QED BY <1>2, <1>3 DEF First

LEMMA OlderType ==
  ASSUME NEW sent \in SentNode
  PROVE  [sent EXCEPT !.v = @ + 1] \in SentNode
<1>1. sent.v + 1 \in Nat
  BY DEF SentNode
<1> QED BY <1>1 DEF SentNode

LEMMA AgedType ==
  ASSUME NEW sent \in Seq(SentNode)
  PROVE  Aged(sent) \in Seq(SentNode) /\ DOMAIN Aged(sent) = DOMAIN sent
<1>1. DOMAIN sent = 1..Len(sent) /\ Len(sent) \in Nat
  BY LenProperties
<1>2. \A n \in 1..Len(sent) : [sent[n] EXCEPT !.v = @ + 1] \in SentNode
  BY ElementOfSeq, OlderType
<1>3. Aged(sent) \in [1..Len(sent) -> SentNode]
  BY <1>1, <1>2 DEF Aged
<1>4. Aged(sent) \in Seq(SentNode)
  <2>1. [1..Len(sent) -> SentNode] \in {[1..n -> SentNode] : n \in Nat}
    BY <1>1
  <2>2. Aged(sent) \in UNION {[1..n -> SentNode] : n \in Nat}
    BY <1>3, <2>1, Zenon
  <2> QED BY <2>2, SeqDef, Zenon
<1> QED BY <1>4 DEF Aged

LEMMA PrintNextKeeps ==
  ASSUME NEW c, PrintNext(c)
  PROVE  /\ UNCHANGED <<status, host, sendSeqNum, sending, lines, wireVars, others>>
         /\ latestSequenceNum' = [latestSequenceNum EXCEPT ![c] = @ + 1]
BY DEF PrintNext

LEMMA PrintNextTypes ==
  ASSUME NEW c \in Clients
  PROVE  TypeOK /\ ClientThread(PrintNext(c)) => TypeOK'
<1> SUFFICES ASSUME TypeOK, ClientThread(PrintNext(c)) PROVE TypeOK'
  OBVIOUS
<1> USE DEF TypeOK, MachinesTypeOK, WireTypeOK, SequencerTypeOK, HeartbeatTypeOK, ClientTypeOK,
            wireVars, machineVars, sequencerVars, ClientThread
<1> c \in Machine
  BY DEF Machine
<1> DEFINE temp == Aged(temp_queue[c])
           At(i) == StopsAt(c, client_queue[c][i].m, temp)
<1>1. PICK i \in DOMAIN client_queue[c] :
        /\ client_queue' = [client_queue EXCEPT ![c] = RemoveAt(@, i)]
        /\ PrintMessage(c, client_queue[c][i].m)
        /\ temp_queue' = [temp_queue EXCEPT ![c] =
                             IF At(i) = 0 THEN temp ELSE RemoveAt(temp, At(i))]
        /\ outgoing_queue' =
              IF At(i) = 0 \/ IsOwn(c, client_queue[c][i].m, temp[At(i)]) THEN outgoing_queue
              ELSE [outgoing_queue EXCEPT ![c] = Append(@, temp[At(i)].text)]
  BY DEF PrintNext
<1>2. client_queue[c][i] \in QueuedNode
  OBVIOUS
<1>3. client_queue' \in [Clients -> Seq(QueuedNode)]
  BY <1>1, RemoveAtType
<1>4. printed' \in [Machine -> Seq(Message)]
  BY <1>1, <1>2, AppendProperties DEF PrintMessage, QueuedNode
<1>5. temp \in Seq(SentNode)
  BY AgedType
<1>6. At(i) # 0 => At(i) \in 1..Len(temp)
  BY <1>5, StopsAtType
<1> HIDE DEF temp, At
<1>7. temp_queue' \in [Clients -> Seq(SentNode)]
  BY <1>1, <1>5, <1>6, RemoveAtType
<1>8. outgoing_queue' \in [Clients -> Seq(Machine \X Nat)]
  <2>1. At(i) # 0 => temp[At(i)].text \in Machine \X Nat
    <3>1. At(i) # 0 => temp[At(i)] \in SentNode
      BY <1>5, <1>6, ElementOfSeq
    <3> QED BY <3>1 DEF SentNode
  <2> QED BY <1>1, <2>1, AppendProperties
<1>9. latestSequenceNum' \in [Clients -> Int]
  <2>1. latestSequenceNum' = [latestSequenceNum EXCEPT ![c] = @ + 1]
    BY PrintNextKeeps
  <2> QED BY <2>1
<1>10. UNCHANGED <<status, host, sendSeqNum, sending, lines, wireVars, others, sequencerVars, hb>>
  BY PrintNextKeeps
<1> QED BY <1>3, <1>4, <1>7, <1>8, <1>9, <1>10

LEMMA OtherTypes ==
  ASSUME NEW c \in Clients
  PROVE  TypeOK /\ (ClientThread(AnswerBeat(c)) \/ ClientThread(EndProcess(c))) => TypeOK'
<1> SUFFICES ASSUME TypeOK, ClientThread(AnswerBeat(c)) \/ ClientThread(EndProcess(c))
             PROVE  TypeOK'
  OBVIOUS
<1> USE DEF TypeOK, MachinesTypeOK, WireTypeOK, SequencerTypeOK, HeartbeatTypeOK, ClientTypeOK,
            wireVars, machineVars, sequencerVars, clientVars, ClientThread
<1> c \in Machine /\ Leader \in Machine
  BY DEF Machine
<1>1. CASE AnswerBeat(c)
  <2>1. PICK d \in Addressed("BEAT", c) :
          Transmit({d}, {[type |-> "BEAT_ACK", from |-> c, to |-> Leader, round |-> d.round]})
    BY <1>1 DEF AnswerBeat
  <2>2. d.round \in Nat
    BY DatagramFields DEF Addressed
  <2>3. [type |-> "BEAT_ACK", from |-> c, to |-> Leader, round |-> d.round] \in Datagram
    BY <2>2 DEF Datagram
  <2>4. net' \subseteq Datagram
    BY <2>1, <2>3, TransmitType
  <2> QED BY <1>1, <2>4 DEF AnswerBeat
<1>2. CASE Quit(c)
  BY <1>2 DEF Quit, CloseSockets
<1> QED BY <1>1, <1>2 DEF EndProcess

LEMMA LoseTypes == TypeOK /\ ClientThread(Lose /\ UNCHANGED clientVars) => TypeOK'
<1> SUFFICES ASSUME TypeOK, Lose, UNCHANGED <<clientVars, sequencerVars, hb>> PROVE TypeOK'
  BY DEF ClientThread
<1> USE DEF TypeOK, MachinesTypeOK, WireTypeOK, SequencerTypeOK, HeartbeatTypeOK, ClientTypeOK,
            machineVars, sequencerVars, clientVars
<1>1. net' \subseteq Datagram /\ lost' \in Nat
  BY DEF Lose
<1>2. UNCHANGED <<gone, early, machineVars>>
  BY DEF Lose
<1> QED BY <1>1, <1>2

-----------------------------------------------------------------------------
(* The head of the queue stays the message being broadcast: the others     *)
(* append behind it, only the end of the broadcast takes it away.          *)
LEMMA EnqueueKeepsHead ==
  ASSUME TypeInv, NEW t \in Thread, Enqueue(t)
  PROVE  CastIsHead'
<1> DEFINE node == [v |-> currentSequenceNum, m |-> draft[t].msg]
<1>1. node \in Node /\ sequencer_queue \in Seq(Node)
  BY DraftFields DEF Enqueue, Node, TypeInv, TypeOK, SequencerTypeOK
<1>2. cast' = cast /\ sequencer_queue' = Append(sequencer_queue, node)
  BY DEF Enqueue, Queued
<1>3. CASE cast = NoCast
  BY <1>2, <1>3 DEF CastIsHead
<1>4. CASE cast # NoCast
  <2>1. sequencer_queue # <<>>
    BY <1>4 DEF TypeInv, CastIsHead
  <2>2. sequencer_queue' # <<>> /\ Head(sequencer_queue') = Head(sequencer_queue)
    BY <1>1, <1>2, <2>1
  <2> QED BY <1>2, <1>4, <2>2 DEF TypeInv, CastIsHead
<1> QED BY <1>3, <1>4

LEMMA SendQueueKeepsHead == TypeInv /\ SendQueue => CastIsHead'
<1> SUFFICES ASSUME TypeInv, SendQueue PROVE CastIsHead'
  OBVIOUS
<1>1. CASE BroadcastStart
  <2>1. Head(sequencer_queue) \in Node
    BY <1>1, HeadTailProperties DEF BroadcastStart, TypeInv, TypeOK, SequencerTypeOK
  <2>2. Head(sequencer_queue) = [v |-> Head(sequencer_queue).v, m |-> Head(sequencer_queue).m]
    BY <2>1 DEF Node
  <2> QED BY <1>1, <2>2 DEF BroadcastStart, CastIsHead
<1>2. CASE BroadcastEnd
  BY <1>2 DEF BroadcastEnd, CastIsHead
<1>3. CASE PrintOwn \/ SkipJoiner \/ SendToMember \/ ReceiveAck \/ AckTimeout
  <2>0. cast.stage \in {"next", "wait"}
    BY <1>3 DEF PrintOwn, SkipJoiner, SendToMember, ReceiveAck, AckTimeout, AtSlot
  <2>1. cast # NoCast /\ cast \in Cast
    BY <2>0 DEF NoCast, TypeInv, TypeOK, SequencerTypeOK
  <2>2. NextSlot.v = cast.v /\ NextSlot.msg = cast.msg
    BY DEF NextSlot, AtNextSlot
  <2>3. Serve.v = cast.v /\ Serve.msg = cast.msg
    BY DEF Serve, NextSlot, AtNextSlot
  <2>4. cast'.v = cast.v /\ cast'.msg = cast.msg
    BY <1>3, <2>1, <2>2, <2>3
       DEF PrintOwn, SkipJoiner, SendToMember, ReceiveAck, AckTimeout, Cast
  <2>5. sequencer_queue' = sequencer_queue
    BY <1>3 DEF PrintOwn, SkipJoiner, SendToMember, ReceiveAck, AckTimeout
  <2> QED BY <2>1, <2>4, <2>5 DEF TypeInv, CastIsHead
<1> QED BY <1>1, <1>2, <1>3 DEF SendQueue

LEMMA CastIsHeadStep == TypeInv /\ [Next]_vars => CastIsHead'
<1> SUFFICES ASSUME TypeInv, [Next]_vars PROVE CastIsHead'
  OBVIOUS
<1>a. UNCHANGED <<cast, sequencer_queue>> => CastIsHead'
  BY DEF TypeInv, CastIsHead
<1>1. CASE LeaderThread(Input)
  BY <1>1, <1>a, EnqueueKeepsHead DEF LeaderThread, Input, TypeLine, Thread
<1>2. CASE LeaderThread(Listen)
  BY <1>2, <1>a, EnqueueKeepsHead
     DEF LeaderThread, Listen, StampJoin, EnterJoiner, AnswerJoiner, StampLine, Thread
<1>3. CASE LeaderThread(SendQueue)
  BY <1>3, SendQueueKeepsHead DEF LeaderThread
<1>4. CASE HeartbeatThread(SendHb)
  BY <1>4, <1>a, EnqueueKeepsHead
     DEF HeartbeatThread, SendHb, StartRound, EndRound, SkipLeader, SendBeat, CountBeat,
         RemoveDeparted, Thread, sequencerVars
<1>5. CASE HeartbeatThread(ReceiveBeatAck)
  BY <1>5, <1>a DEF HeartbeatThread, ReceiveBeatAck, sequencerVars
<1>6. CASE UNCHANGED sequencerVars
  BY <1>6, <1>a DEF sequencerVars
<1>7. Next => \/ LeaderThread(Input) \/ LeaderThread(Listen) \/ LeaderThread(SendQueue)
              \/ HeartbeatThread(SendHb) \/ HeartbeatThread(ReceiveBeatAck)
              \/ UNCHANGED sequencerVars
  BY DEF Next, ClientThread
<1> QED BY <1>1, <1>2, <1>3, <1>4, <1>5, <1>6, <1>7 DEF vars

-----------------------------------------------------------------------------
(* A line that waits for its answer stays the head of outgoing_queue.      *)
LEMMA SendingHasHeadStep == TypeInv /\ [Next]_vars => SendingHasHead'
<1> SUFFICES ASSUME TypeInv, [Next]_vars PROVE SendingHasHead'
  OBVIOUS
<1> USE DEF TypeInv, SendingHasHead, TypeOK, ClientTypeOK
<1>a. UNCHANGED <<sending, outgoing_queue>> => SendingHasHead'
  OBVIOUS
<1>b. \A c \in Clients : outgoing_queue[c] \in Seq(Machine \X Nat)
  OBVIOUS
<1>1. ASSUME NEW c \in Clients, TypeClientLine(c) PROVE SendingHasHead'
  <2>1. Append(outgoing_queue[c], <<c, lines[c] + 1>>) # <<>>
    BY <1>b, AppendNotEmpty
  <2> QED BY <1>1, <2>1 DEF TypeClientLine
<1>2. ASSUME NEW c \in Clients, SendOut(c) PROVE SendingHasHead'
  BY <1>2 DEF SendOut, SendLine, LineReceived
<1>3. ASSUME NEW c \in Clients, PrintNext(c) PROVE SendingHasHead'
  <2>1. sending' = sending
    BY <1>3 DEF PrintNext
  <2>2. PICK text :
          \/ outgoing_queue' = outgoing_queue
          \/ outgoing_queue' = [outgoing_queue EXCEPT ![c] = Append(@, text)]
    BY <1>3 DEF PrintNext
  <2>3. Append(outgoing_queue[c], text) # <<>>
    BY <1>b, AppendNotEmpty
  <2> QED BY <2>1, <2>2, <2>3
<1>4. ASSUME NEW c \in Clients,
             \/ Join(c) \/ ListenAtClient(c) \/ AnswerBeat(c) \/ EndProcess(c)
      PROVE  SendingHasHead'
  BY <1>4, <1>a DEF Join, AskToJoin, AskLeader, EnterChat, GiveUpJoin, ListenAtClient, Deliver,
       RedirectJoiner, AnswerBeat, EndProcess, Quit, clientVars
<1>5. CASE UNCHANGED clientVars
  BY <1>5, <1>a DEF clientVars
<1>6. Next => \/ UNCHANGED clientVars
              \/ \E c \in Clients :
                   \/ TypeClientLine(c) \/ SendOut(c) \/ PrintNext(c)
                   \/ Join(c) \/ ListenAtClient(c) \/ AnswerBeat(c) \/ EndProcess(c)
  BY DEF Next, LeaderThread, HeartbeatThread, ClientThread
<1> QED BY <1>1, <1>2, <1>3, <1>4, <1>5, <1>6 DEF vars

-----------------------------------------------------------------------------
LEMMA TypeInvInit == Init => TypeInv
<1> SUFFICES ASSUME Init PROVE TypeInv
  OBVIOUS
<1> USE DEF Init
<1>0. Leader \in Machine
  BY DEF Machine
<1>1. MachinesTypeOK
  <2>1. \A m \in Machine : NewEntry(m) \in Entry
    BY DEF NewEntry, Entry, IsLeader
  <2>2. \A m \in Machine : <<NewEntry(m)>> \in Seq(Entry)
    BY <2>1
  <2> QED BY <2>2 DEF MachinesInit, MachinesTypeOK
<1>2. WireTypeOK
  BY DEF WireInit, WireTypeOK
<1>3. SequencerTypeOK /\ CastIsHead
  BY DEF SequencerInit, SequencerTypeOK, CastIsHead, Draft, Cast
<1>4. HeartbeatTypeOK
  BY DEF HeartbeatInit, HeartbeatTypeOK, HbType, HbSteps
<1>5. ClientTypeOK /\ SendingHasHead
  BY <1>0 DEF ClientInit, ClientTypeOK, SendingHasHead
<1> QED BY <1>1, <1>2, <1>3, <1>4, <1>5 DEF TypeInv, TypeOK

LEMMA TypeOKStep == TypeInv /\ [Next]_vars => TypeOK'
<1> SUFFICES ASSUME TypeInv, [Next]_vars PROVE TypeOK'
  OBVIOUS
<1>1. CASE LeaderThread(Input)
  BY <1>1, InputTypes DEF TypeInv
<1>2. CASE LeaderThread(Listen)
  BY <1>2, ListenTypes DEF TypeInv
<1>3. CASE LeaderThread(SendQueue)
  BY <1>3, SendQueueTypes
<1>4. CASE HeartbeatThread(SendHb) \/ HeartbeatThread(ReceiveBeatAck)
  BY <1>4, HeartbeatTypes DEF TypeInv
<1>5. ASSUME NEW c \in Clients,
             \/ ClientThread(Join(c)) \/ ClientThread(TypeClientLine(c))
             \/ ClientThread(SendOut(c)) \/ ClientThread(ListenAtClient(c))
             \/ ClientThread(PrintNext(c)) \/ ClientThread(AnswerBeat(c))
             \/ ClientThread(EndProcess(c))
      PROVE  TypeOK'
  BY <1>5, JoinTypes, SendOutTypes, ListenAtClientTypes, PrintNextTypes, OtherTypes DEF TypeInv
<1>6. CASE ClientThread(Lose /\ UNCHANGED clientVars)
  BY <1>6, LoseTypes DEF TypeInv
<1>7. CASE UNCHANGED vars
  BY <1>7 DEF vars, TypeInv, TypeOK, MachinesTypeOK, WireTypeOK, SequencerTypeOK,
              HeartbeatTypeOK, ClientTypeOK, machineVars, wireVars, sequencerVars, clientVars
<1> QED BY <1>1, <1>2, <1>3, <1>4, <1>5, <1>6, <1>7 DEF Next

(* TypeInv is inductive, so it always holds. *)
LEMMA TypeInvInvariant == Spec => []TypeInv
<1>1. TypeInv /\ [Next]_vars => TypeInv'
  BY TypeOKStep, CastIsHeadStep, SendingHasHeadStep DEF TypeInv
<1> QED BY <1>1, TypeInvInit, PTL DEF Spec

(* Every variable keeps its type in every behaviour of the chat: no scan   *)
(* of a table or queue (util.c, queue.c) leaves its bounds, for any number *)
(* of clients and any bounds.                                              *)
THEOREM TypeCorrect == Spec => []TypeOK
BY TypeInvInvariant, PTL DEF TypeInv

(* The message a broadcast was started with is the one its end takes out   *)
(* of sequencer_queue (sequencer.c:263-268).                               *)
THEOREM CastIsHeadAlways == Spec => []CastIsHead
BY TypeInvInvariant, PTL DEF TypeInv
=============================================================================
