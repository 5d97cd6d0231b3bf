----------------------------- MODULE LineProofs -----------------------------
(***************************************************************************)
(* What a client's user typed is never dropped, and what the client takes  *)
(* out of outgoing_queue is what it sent.                                  *)
(***************************************************************************)
EXTENDS ChatProofs

(* A client recognises its own line by about and sender_seq.  So every     *)
(* line of c under way carries a sender_seq that c has given out, and the  *)
(* text that goes with it in temp_queue; and the other messages that could *)
(* be taken for it, the notice of c's own joining and notices of           *)
(* departures, never come to c or are not about c.                         *)
Told(msg) ==
  /\ msg.type = "LEAVE" => msg.about = Leader
  /\ \A c \in Clients : msg.type = "MSG_REQ" /\ msg.about = c =>
       /\ msg.sender_seq < sendSeqNum[c]
       /\ \A n \in DOMAIN temp_queue[c] :
            temp_queue[c][n].sender_seq = msg.sender_seq => temp_queue[c][n].text = msg.text

ToldHeld ==
  /\ \A i \in DOMAIN order : Told(order[i].m)
  /\ \A t \in Thread : draft[t] # Idle => Told(draft[t].msg)
  /\ \A c \in Clients : \A n \in DOMAIN temp_queue[c] : temp_queue[c][n].sender_seq < sendSeqNum[c]

ToldInv ==
  /\ ToldHeld
  /\ \A d \in net : d.type = "MSG_REQ" => d.msg.type = "MSG_REQ" /\ Told(d.msg)

NotToSelf(msg, m) == msg.type = "NEW_USER" => msg.about # m

SelfInv ==
  /\ cast.stage = "wait" => NotToSelf(cast.msg, cast.to)
  /\ \A d \in net : d.type = "CAST" => NotToSelf(d.msg, d.to)
  /\ \A c \in Clients : \A k \in DOMAIN client_queue[c] : NotToSelf(client_queue[c][k].m, c)

-----------------------------------------------------------------------------
NoCasts == \A d \in net' : d.type = "CAST" => d \in net

LEMMA SelfAlone ==
  ASSUME SelfInv, NoCasts, UNCHANGED <<cast, client_queue>>
  PROVE  SelfInv'
BY DEF SelfInv, NoCasts, NotToSelf

LEMMA SendQueueSelf ==
  ASSUME TypeInv, SelfInv, LeaderThread(SendQueue)
  PROVE  SelfInv'
<1> USE DEF LeaderThread, NotToSelf
<1>0. UNCHANGED client_queue /\ cast \in Cast
  BY DEF clientVars, TypeInv, TypeOK, SequencerTypeOK
<1>1. CASE BroadcastStart \/ PrintOwn \/ SkipJoiner \/ BroadcastEnd
  <2>1. cast'.stage # "wait" /\ net' = net
    BY <1>1 DEF BroadcastStart, PrintOwn, SkipJoiner, BroadcastEnd, Serve, NextSlot, AtNextSlot,
                NoCast, wireVars
  <2> QED BY <1>0, <2>1 DEF SelfInv
<1>2. CASE SendToMember
  <2>1. cast.stage = "next" /\ NotToSelf(cast.msg, Slot.id)
    BY <1>2 DEF SendToMember, AtSlot, AboutJoiner
  <2>2. cast'.msg = cast.msg /\ cast'.to = Slot.id
    BY <1>0, <1>2, <2>1 DEF SendToMember, Cast, NoCast
  <2>3. \A d \in net' : d \in net \/ (d.msg = cast.msg /\ d.to = Slot.id)
    BY <1>2 DEF SendToMember, Transmit, Transmission
  <2> QED BY <1>0, <2>1, <2>2, <2>3 DEF SelfInv
<1>3. CASE ReceiveAck
  <2>1. cast'.stage # "wait" /\ \A d \in net' : d \in net
    BY <1>3 DEF ReceiveAck, NextSlot, AtNextSlot, Transmit
  <2> QED BY <1>0, <2>1 DEF SelfInv
<1>4. CASE AckTimeout
  <2>1. cast.stage = "wait"
    BY <1>4 DEF AckTimeout
  <2>2. cast'.stage = "wait" => cast'.msg = cast.msg /\ cast'.to = cast.to
    BY <1>0, <1>4, <2>1 DEF AckTimeout, Cast, NoCast, NextSlot, AtNextSlot
  <2>3. \A d \in net' : d \in net \/ (d.msg = cast.msg /\ d.to = cast.to)
    BY <1>4 DEF AckTimeout, Transmit, Transmission
  <2> QED BY <1>0, <2>1, <2>2, <2>3 DEF SelfInv
<1> QED BY <1>1, <1>2, <1>3, <1>4 DEF SendQueue

LEMMA SelfInvStep == TypeInv /\ SelfInv /\ [Next]_vars => SelfInv'
<1> SUFFICES ASSUME TypeInv, SelfInv, [Next]_vars PROVE SelfInv'
  OBVIOUS
<1>0. client_queue \in [Clients -> Seq(QueuedNode)]
  BY DEF TypeInv, TypeOK, ClientTypeOK
<1>1. CASE LeaderThread(Input) \/ LeaderThread(Listen)
  <2>1. NoCasts
    <3> USE DEF NoCasts, Transmit
    <3>1. CASE StampJoin
      BY <3>1 DEF StampJoin
    <3>2. CASE AnswerJoiner
      BY <3>2 DEF AnswerJoiner
    <3>3. CASE StampLine
      BY <3>3 DEF StampLine
    <3>4. CASE net' = net
      BY <3>4
    <3> QED BY <1>1, <3>1, <3>2, <3>3, <3>4
            DEF LeaderThread, Input, TypeLine, Listen, EnterJoiner, Enqueue, wireVars
  <2>2. UNCHANGED <<cast, client_queue>>
    BY <1>1 DEF LeaderThread, Input, TypeLine, Listen, StampJoin, EnterJoiner, AnswerJoiner,
                StampLine, Enqueue, clientVars
  <2> QED BY <2>1, <2>2, SelfAlone
<1>2. CASE HeartbeatThread(SendHb) \/ HeartbeatThread(ReceiveBeatAck)
  <2>1. NoCasts
    <3> USE DEF NoCasts, Transmit
    <3>1. CASE SendBeat
      BY <3>1 DEF SendBeat
    <3>2. CASE ReceiveBeatAck
      BY <3>2 DEF ReceiveBeatAck
    <3>3. CASE net' = net
      BY <3>3
    <3> QED BY <1>2, <3>1, <3>2, <3>3
            DEF HeartbeatThread, SendHb, StartRound, EndRound, SkipLeader, CountBeat,
                RemoveDeparted, Enqueue, wireVars
  <2>2. UNCHANGED <<cast, client_queue>>
    BY <1>2 DEF HeartbeatThread, SendHb, StartRound, EndRound, SkipLeader, SendBeat, CountBeat,
                RemoveDeparted, Enqueue, ReceiveBeatAck, sequencerVars, clientVars
  <2> QED BY <2>1, <2>2, SelfAlone
<1>3. ASSUME NEW c \in Clients, ClientThread(Deliver(c)) PROVE SelfInv'
  <2>1. PICK d \in Addressed("CAST", c) :
          /\ client_queue' = [client_queue EXCEPT ![c] =
                                 Append(@, [v |-> d.msg.seq, m |-> d.msg])]
          /\ Transmit({d}, {[type |-> "ACK", from |-> c, to |-> Leader, v |-> d.v, try |-> d.try]})
    BY <1>3 DEF ClientThread, Deliver
  <2>2. PICK node : /\ node = [v |-> d.msg.seq, m |-> d.msg]
                    /\ client_queue' = [client_queue EXCEPT ![c] = Append(@, node)]
    BY <2>1
  <2>3. node \in QueuedNode /\ NotToSelf(node.m, c)
    <3>1. d \in Datagram /\ d.type = "CAST" /\ d \in net /\ d.to = c
      BY DEF Addressed, TypeInv, TypeOK, WireTypeOK
    <3>2. d.msg \in Message
      BY <3>1, DatagramFields
    <3> QED BY <2>2, <3>1, <3>2 DEF QueuedNode, Message, SelfInv
  <2>4. /\ \A b \in Clients : b # c => client_queue'[b] = client_queue[b]
        /\ \A k \in DOMAIN client_queue'[c] :
             client_queue'[c][k] = node \/ (k \in DOMAIN client_queue[c]
                                           /\ client_queue'[c][k] = client_queue[c][k])
    BY <1>0, <2>2, <2>3, AppendProperties, LenProperties
  <2>5. UNCHANGED cast /\ NoCasts
    BY <1>3, <2>1 DEF ClientThread, sequencerVars, NoCasts, Transmit
  <2>6. ASSUME NEW b \in Clients, NEW k \in DOMAIN client_queue'[b]
        PROVE  NotToSelf(client_queue'[b][k].m, b)
    BY <2>3, <2>4 DEF SelfInv
  <2> QED BY <2>5, <2>6 DEF SelfInv, NoCasts, NotToSelf
<1>4. ASSUME NEW c \in Clients, ClientThread(PrintNext(c)) PROVE SelfInv'
  <2>1. PICK i \in DOMAIN client_queue[c] :
          client_queue' = [client_queue EXCEPT ![c] = RemoveAt(@, i)]
    BY <1>4 DEF ClientThread, PrintNext
  <2> DEFINE queue == client_queue[c]
  <2>2. queue \in Seq(QueuedNode) /\ i \in 1..Len(queue) /\ DOMAIN queue = 1..Len(queue)
        /\ Len(queue) \in Nat
    BY <1>0, LenProperties
  <2>3. /\ RemoveAt(queue, i) \in Seq(QueuedNode)
        /\ Len(RemoveAt(queue, i)) = Len(queue) - 1
        /\ \A k \in 1..(Len(queue) - 1) :
             RemoveAt(queue, i)[k] = IF k < i THEN queue[k] ELSE queue[k + 1]
    BY <2>2, RemoveAtProperties
  <2>4. \A k \in DOMAIN RemoveAt(queue, i) : \E j \in DOMAIN queue : RemoveAt(queue, i)[k] = queue[j]
    <3>1. DOMAIN RemoveAt(queue, i) = 1..(Len(queue) - 1)
      BY <2>3, LenProperties
    <3> TAKE k \in DOMAIN RemoveAt(queue, i)
    <3>2. k \in DOMAIN queue /\ k + 1 \in DOMAIN queue
      BY <2>2, <3>1
    <3> QED BY <2>3, <3>1, <3>2
  <2>5. ASSUME NEW b \in Clients, NEW k \in DOMAIN client_queue'[b]
        PROVE  NotToSelf(client_queue'[b][k].m, b)
    BY <1>0, <2>1, <2>4 DEF SelfInv
  <2>6. UNCHANGED <<cast, net>>
    BY <1>4 DEF ClientThread, PrintNext, sequencerVars, wireVars
  <2> QED BY <2>5, <2>6 DEF SelfInv, NotToSelf
<1>5. ASSUME NEW c \in Clients,
             \/ ClientThread(Join(c)) \/ ClientThread(TypeClientLine(c))
             \/ ClientThread(SendOut(c)) \/ ClientThread(RedirectJoiner(c))
             \/ ClientThread(AnswerBeat(c)) \/ ClientThread(EndProcess(c))
      PROVE  SelfInv'
  <2>1. UNCHANGED <<cast, client_queue>>
    BY <1>5 DEF ClientThread, Join, AskToJoin, AskLeader, EnterChat, GiveUpJoin, TypeClientLine,
                SendOut, SendLine, LineReceived, RedirectJoiner, AnswerBeat, EndProcess, Quit,
                sequencerVars, clientVars
  <2>2. NoCasts
    <3> USE DEF NoCasts, Transmit, CloseSockets
    <3>1. ASSUME NEW h \in Machine, AskToJoin(c, h) PROVE NoCasts
      BY <3>1 DEF AskToJoin
    <3>2. CASE AskLeader(c)
      BY <3>2 DEF AskLeader
    <3>3. CASE EnterChat(c) \/ GiveUpJoin(c, Answering(c)) \/ EndProcess(c)
      BY <3>3 DEF EnterChat, GiveUpJoin, EndProcess, Quit
    <3>4. CASE TypeClientLine(c)
      BY <3>4 DEF TypeClientLine, wireVars
    <3>5. CASE SendLine(c)
      BY <3>5 DEF SendLine
    <3>6. CASE LineReceived(c)
      BY <3>6 DEF LineReceived
    <3>7. CASE RedirectJoiner(c)
      BY <3>7 DEF RedirectJoiner
    <3>8. CASE AnswerBeat(c)
      BY <3>8 DEF AnswerBeat
    <3> QED BY <1>5, <3>1, <3>2, <3>3, <3>4, <3>5, <3>6, <3>7, <3>8 DEF ClientThread, Join, SendOut
  <2> QED BY <2>1, <2>2, SelfAlone
<1>6. CASE ClientThread(Lose /\ UNCHANGED clientVars)
  BY <1>6, SelfAlone DEF ClientThread, Lose, NoCasts, sequencerVars, clientVars
<1>7. CASE UNCHANGED vars
  BY <1>7, SelfAlone DEF vars, NoCasts, wireVars, sequencerVars, clientVars
<1>8. ASSUME NEW c \in Clients, ClientThread(ListenAtClient(c)) PROVE SelfInv'
  BY <1>3, <1>5, <1>8 DEF ClientThread, ListenAtClient
<1> QED BY <1>1, <1>2, <1>4, <1>5, <1>6, <1>7, <1>8, SendQueueSelf DEF Next

LEMMA SelfInvInvariant == Spec => []SelfInv
<1>1. Init => SelfInv
  <2> SUFFICES ASSUME Init PROVE SelfInv
    OBVIOUS
  <2>1. cast = NoCast /\ net = {} /\ \A c \in Clients : client_queue[c] = <<>>
    BY DEF Init, SequencerInit, WireInit, ClientInit
  <2> QED BY <2>1 DEF SelfInv, NoCast
<1> QED BY <1>1, SelfInvStep, TypeInvInvariant, PTL DEF Spec

-----------------------------------------------------------------------------
(* What one message shown does to the client's two queues of lines.        *)
FromTemp(c, n) ==
  \E k \in DOMAIN temp_queue[c] :
    /\ temp_queue'[c][n].sender_seq = temp_queue[c][k].sender_seq
    /\ temp_queue'[c][n].text = temp_queue[c][k].text

StillTemp(c, k) ==
  \E n \in DOMAIN temp_queue'[c] : temp_queue'[c][n].text = temp_queue[c][k].text

LEMMA PrintNextLines ==
  ASSUME TypeInv, NEW c \in Clients, PrintNext(c)
  PROVE  \E i \in DOMAIN client_queue[c] :
           LET msg == client_queue[c][i].m
           IN  /\ printed' = [printed EXCEPT ![c] = Append(@, msg)]
               /\ \A b \in Clients : b # c => /\ temp_queue'[b] = temp_queue[b]
                                             /\ outgoing_queue'[b] = outgoing_queue[b]
               /\ \A n \in DOMAIN temp_queue'[c] : FromTemp(c, n)
               /\ \/ outgoing_queue'[c] = outgoing_queue[c]
                  \/ \E x \in Machine \X Nat : outgoing_queue'[c] = Append(outgoing_queue[c], x)
               /\ \A k \in DOMAIN temp_queue[c] :
                    \/ StillTemp(c, k)
                    \/ msg.about = c /\ msg.sender_seq = temp_queue[c][k].sender_seq
                    \/ outgoing_queue'[c] = Append(outgoing_queue[c], temp_queue[c][k].text)
<1> DEFINE sent == temp_queue[c]
           temp == Aged(sent)
           At(i) == StopsAt(c, client_queue[c][i].m, temp)
<1>1. PICK i \in DOMAIN client_queue[c] :
        /\ PrintMessage(c, client_queue[c][i].m)
        /\ temp_queue' = [temp_queue EXCEPT ![c] =
                             IF At(i) = 0 THEN temp ELSE RemoveAt(temp, At(i))]
        /\ outgoing_queue' =
              IF At(i) = 0 \/ IsOwn(c, client_queue[c][i].m, temp[At(i)]) THEN outgoing_queue
              ELSE [outgoing_queue EXCEPT ![c] = Append(@, temp[At(i)].text)]
  BY DEF PrintNext
<1>2. /\ temp_queue \in [Clients -> Seq(SentNode)]
      /\ outgoing_queue \in [Clients -> Seq(Machine \X Nat)] /\ sent \in Seq(SentNode)
  BY DEF TypeInv, TypeOK, ClientTypeOK
<1>3. temp \in Seq(SentNode) /\ DOMAIN temp = DOMAIN sent
  BY <1>2, AgedType
<1>4. \A k \in DOMAIN sent :
        temp[k].sender_seq = sent[k].sender_seq /\ temp[k].text = sent[k].text
  <2> TAKE k \in DOMAIN sent
  <2>1. sent[k] \in SentNode
    BY <1>2
  <2> QED BY <2>1 DEF Aged, SentNode
<1>5. At(i) # 0 => At(i) \in 1..Len(temp)
  BY <1>3, StopsAtType
<1> DEFINE a == At(i)
           msg == client_queue[c][i].m
<1>6. /\ printed' = [printed EXCEPT ![c] = Append(@, msg)]
      /\ temp_queue'[c] = IF a = 0 THEN temp ELSE RemoveAt(temp, a)
      /\ outgoing_queue'[c] = IF a = 0 \/ IsOwn(c, msg, temp[a]) THEN outgoing_queue[c]
                              ELSE Append(outgoing_queue[c], temp[a].text)
      /\ \A b \in Clients : b # c => /\ temp_queue'[b] = temp_queue[b]
                                    /\ outgoing_queue'[b] = outgoing_queue[b]
  BY <1>1, <1>2 DEF PrintMessage
<1>7. a # 0 => a \in 1..Len(temp)
  BY <1>5
<1> HIDE DEF sent, temp, At, a, msg
<1>8. /\ \A n \in DOMAIN temp_queue'[c] : \E k \in DOMAIN temp : temp_queue'[c][n] = temp[k]
      /\ \A k \in DOMAIN temp : k = a \/ \E n \in DOMAIN temp_queue'[c] : temp_queue'[c][n] = temp[k]
  <2>1. CASE a = 0
    BY <1>6, <2>1
  <2>2. CASE a # 0
    <3>0. DOMAIN temp = 1..Len(temp) /\ Len(temp) \in Nat /\ a \in 1..Len(temp)
      BY <1>3, <1>7, <2>2, LenProperties
    <3>1. PICK rest : rest = RemoveAt(temp, a)
      OBVIOUS
    <3>2. /\ rest \in Seq(SentNode) /\ Len(rest) = Len(temp) - 1
          /\ \A k \in 1..(Len(temp) - 1) : rest[k] = IF k < a THEN temp[k] ELSE temp[k + 1]
      BY <1>3, <3>0, <3>1, RemoveAtProperties
    <3>3. DOMAIN rest = 1..(Len(temp) - 1)
      BY <3>2, LenProperties
    <3>4. ASSUME NEW n \in DOMAIN rest PROVE \E k \in DOMAIN temp : rest[n] = temp[k]
      <4>1. n \in DOMAIN temp /\ n + 1 \in DOMAIN temp
        BY <3>0, <3>3
      <4> QED BY <3>2, <3>3, <4>1
    <3>5. ASSUME NEW k \in DOMAIN temp, k # a PROVE \E n \in DOMAIN rest : rest[n] = temp[k]
      <4>1. CASE k < a
        <5>1. k \in DOMAIN rest
          BY <3>0, <3>3, <4>1
        <5> QED BY <3>2, <3>3, <4>1, <5>1
      <4>2. CASE k > a
        <5>1. k - 1 \in 1..(Len(temp) - 1) /\ ~(k - 1 < a) /\ (k - 1) + 1 = k
          BY <3>0, <4>2
        <5>2. rest[k - 1] = temp[k]
          BY <3>2, <5>1
        <5> QED BY <3>3, <5>1, <5>2
      <4> QED BY <3>0, <3>5, <4>1, <4>2
    <3>6. temp_queue'[c] = rest
      BY <1>6, <2>2, <3>1
    <3> QED BY <3>4, <3>5, <3>6
  <2> QED BY <2>1, <2>2
<1>9. \A n \in DOMAIN temp_queue'[c] : FromTemp(c, n)
  BY <1>3, <1>4, <1>8 DEF FromTemp, sent
<1>10. ASSUME NEW k \in DOMAIN sent
       PROVE  \/ StillTemp(c, k)
              \/ msg.about = c /\ msg.sender_seq = sent[k].sender_seq
              \/ outgoing_queue'[c] = Append(outgoing_queue[c], sent[k].text)
  <2>1. CASE k # a
    BY <1>3, <1>4, <1>8, <2>1 DEF StillTemp, sent
  <2>2. CASE k = a
    <3>1. a # 0
      BY <1>2, <2>2, LenProperties
    <3> QED BY <1>4, <1>6, <2>2, <3>1 DEF IsOwn
  <2> QED BY <2>1, <2>2
<1>11. \/ outgoing_queue'[c] = outgoing_queue[c]
       \/ \E x \in Machine \X Nat : outgoing_queue'[c] = Append(outgoing_queue[c], x)
  <2>1. a # 0 => temp[a] \in SentNode
    BY <1>3, <1>7, ElementOfSeq
  <2>2. a # 0 => temp[a].text \in Machine \X Nat
    BY <2>1 DEF SentNode
  <2> QED BY <1>6, <2>2
<1> QED BY <1>6, <1>9, <1>10, <1>11 DEF msg, sent

-----------------------------------------------------------------------------
(* temp_queue gets a line only under a sender_seq that nothing carries yet. *)
LinesStay ==
  \A c \in Clients :
    /\ sendSeqNum[c] <= sendSeqNum'[c]
    /\ \A n \in DOMAIN temp_queue'[c] :
         \/ FromTemp(c, n)
         \/ sendSeqNum[c] < sendSeqNum'[c] /\ temp_queue'[c][n].sender_seq = sendSeqNum[c]

LEMMA ToldStays ==
  ASSUME TypeInv, TypeInv', LinesStay, NEW msg \in Message, Told(msg)
  PROVE  Told(msg)'
<1>1. sendSeqNum \in [Clients -> Nat] /\ sendSeqNum' \in [Clients -> Nat] /\ msg.sender_seq \in Nat
  BY DEF TypeInv, TypeOK, ClientTypeOK, Message
<1> SUFFICES ASSUME NEW c \in Clients, msg.type = "MSG_REQ", msg.about = c
             PROVE  /\ msg.sender_seq < sendSeqNum'[c]
                    /\ \A n \in DOMAIN temp_queue'[c] :
                         temp_queue'[c][n].sender_seq = msg.sender_seq
                           => temp_queue'[c][n].text = msg.text
  BY DEF Told
<1>2. /\ msg.sender_seq < sendSeqNum[c]
      /\ \A n \in DOMAIN temp_queue[c] :
           temp_queue[c][n].sender_seq = msg.sender_seq => temp_queue[c][n].text = msg.text
  BY DEF Told
<1>3. msg.sender_seq < sendSeqNum'[c] /\ msg.sender_seq # sendSeqNum[c]
  BY <1>1, <1>2 DEF LinesStay
<1>4. ASSUME NEW n \in DOMAIN temp_queue'[c],
             temp_queue'[c][n].sender_seq = msg.sender_seq
      PROVE  temp_queue'[c][n].text = msg.text
  <2>1. FromTemp(c, n)
    BY <1>3, <1>4 DEF LinesStay
  <2> QED BY <1>2, <1>4, <2>1 DEF FromTemp
<1> QED BY <1>3, <1>4

LEMMA LinesStaySame == ASSUME TypeInv, UNCHANGED <<temp_queue, sendSeqNum>> PROVE LinesStay
BY DEF LinesStay, FromTemp, TypeInv, TypeOK, ClientTypeOK

(* Messages change hands: what is queued, drafted or requested is new and  *)
(* told, or was there before.                                              *)
HandedOn(t) ==
  \/ draft'[t] = Idle
  \/ Told(draft[t].msg)'
  \/ draft[t] # Idle /\ draft'[t].msg = draft[t].msg
NoRequests == \A d \in net' : d.type = "MSG_REQ" => d \in net

LEMMA HeldAlone ==
  ASSUME TypeInv, TypeInv', ToldInv, LinesStay, order' = order, \A t \in Thread : HandedOn(t)
  PROVE  ToldHeld'
<1>1. ASSUME NEW i \in DOMAIN order' PROVE Told(order[i].m)'
  <2>1. PICK msg : msg = order[i].m
    OBVIOUS
  <2>2. order[i] \in Node /\ i \in DOMAIN order
    BY DEF TypeInv, TypeOK, SequencerTypeOK
  <2>3. msg \in Message /\ Told(msg)
    BY <2>1, <2>2 DEF ToldInv, ToldHeld, Node
  <2>4. Told(msg)' /\ order'[i].m = msg
    BY <2>1, <2>3, ToldStays
  <2> QED BY <2>4 DEF Told
<1>2. ASSUME NEW t \in Thread, draft'[t] # Idle PROVE Told(draft[t].msg)'
  <2>1. CASE draft[t] # Idle /\ draft'[t].msg = draft[t].msg
    <3>1. PICK msg : msg = draft[t].msg
      OBVIOUS
    <3>2. msg \in Message /\ Told(msg)
      BY <2>1, <3>1 DEF TypeInv, TypeOK, SequencerTypeOK, Draft, ToldInv, ToldHeld
    <3>3. Told(msg)' /\ draft'[t].msg = msg
      BY <2>1, <3>1, <3>2, ToldStays
    <3> QED BY <3>3 DEF Told
  <2> QED BY <1>2, <2>1 DEF HandedOn
<1>3. ASSUME NEW c \in Clients, NEW n \in DOMAIN temp_queue'[c]
      PROVE  temp_queue'[c][n].sender_seq < sendSeqNum'[c]
  <2>1. sendSeqNum[c] \in Nat /\ sendSeqNum'[c] \in Nat /\ temp_queue[c] \in Seq(SentNode)
    BY DEF TypeInv, TypeOK, ClientTypeOK
  <2>2. sendSeqNum[c] <= sendSeqNum'[c]
    BY DEF LinesStay
  <2>3. CASE FromTemp(c, n)
    <3>1. PICK k \in DOMAIN temp_queue[c] :
            temp_queue'[c][n].sender_seq = temp_queue[c][k].sender_seq
      BY <2>3 DEF FromTemp
    <3>2. temp_queue[c][k].sender_seq < sendSeqNum[c] /\ temp_queue[c][k] \in SentNode
      BY <2>1 DEF ToldInv, ToldHeld
    <3>3. temp_queue[c][k].sender_seq \in Nat
      BY <3>2 DEF SentNode
    <3> QED BY <2>1, <2>2, <3>1, <3>2, <3>3
  <2> QED BY <2>1, <2>3 DEF LinesStay
<1> QED BY <1>1, <1>2, <1>3 DEF ToldHeld

LEMMA RequestStays ==
  ASSUME TypeInv, TypeInv', ToldInv, LinesStay, NEW d \in net, d.type = "MSG_REQ"
  PROVE  d.msg.type = "MSG_REQ" /\ Told(d.msg)'
<1>1. d.msg \in Message
  BY DatagramFields DEF TypeInv, TypeOK, WireTypeOK
<1>2. d.msg.type = "MSG_REQ" /\ Told(d.msg)
  BY DEF ToldInv
<1> QED BY <1>1, <1>2, ToldStays

LEMMA ToldAlone ==
  ASSUME TypeInv, TypeInv', ToldInv, LinesStay, NoRequests, order' = order,
         \A t \in Thread : HandedOn(t)
  PROVE  ToldInv'
<1>1. ToldHeld'
  BY HeldAlone
<1>2. ASSUME NEW d \in net', d.type = "MSG_REQ" PROVE d.msg.type = "MSG_REQ" /\ Told(d.msg)'
  <2>1. d \in net
    BY <1>2 DEF NoRequests
  <2> QED BY <1>2, <2>1, RequestStays
<1> QED BY <1>1, <1>2 DEF ToldInv

LEMMA EnqueueTold ==
  ASSUME TypeInv, ToldInv, NEW t \in Thread, Enqueue(t), UNCHANGED clientVars
  PROVE  ToldInv'
<1>1. \A msg : Told(msg)' <=> Told(msg)
  BY DEF Told, clientVars
<1> DEFINE node == [v |-> currentSequenceNum, m |-> draft[t].msg]
<1>2. /\ order' = Append(order, node) /\ net' = net /\ Told(node.m)
      /\ node \in Node /\ order \in Seq(Node)
  BY DraftFields DEF Enqueue, wireVars, ToldInv, ToldHeld, Node, Idle, TypeInv, TypeOK, SequencerTypeOK
<1> HIDE DEF node
<1>3. ASSUME NEW i \in DOMAIN order' PROVE Told(order'[i].m)
  <2>1. order'[i] = node \/ (i \in DOMAIN order /\ order'[i] = order[i])
    BY <1>2, AppendProperties, LenProperties
  <2> QED BY <1>2, <2>1 DEF ToldInv, ToldHeld
<1>4. ASSUME NEW s \in Thread, draft'[s] # Idle PROVE Told(draft'[s].msg)
  <2>1. draft[s] # Idle /\ draft'[s].msg = draft[s].msg
    BY <1>4 DEF Enqueue, Hold, Release, Idle, TypeInv, TypeOK, SequencerTypeOK
  <2> QED BY <2>1 DEF ToldInv, ToldHeld
<1> QED BY <1>1, <1>2, <1>3, <1>4 DEF ToldInv, ToldHeld, clientVars

LEMMA LeaderTold ==
  ASSUME TypeInv, TypeInv', ToldInv,
         \/ LeaderThread(Input) \/ LeaderThread(Listen) \/ LeaderThread(SendQueue)
         \/ HeartbeatThread(SendHb) \/ HeartbeatThread(ReceiveBeatAck)
  PROVE  ToldInv'
<1>0. UNCHANGED clientVars /\ LinesStay
  BY LinesStaySame DEF LeaderThread, HeartbeatThread, clientVars
<1>1. \A msg : Told(msg)' <=> Told(msg)
  BY <1>0 DEF Told, clientVars
<1>2. Leader \notin Clients /\ {"input", "listen", "send_hb"} = Thread
  BY LeaderAssumption DEF Thread
<1>3. ASSUME NEW t \in Thread, NEW step, NEW msg, Hold(t, step, msg), Told(msg)
      PROVE  \A s \in Thread : HandedOn(s)
  <2>1. /\ draft'[t] = [step |-> step, msg |-> msg]
        /\ \A s \in Thread \ {t} : draft'[s] = draft[s]
    BY <1>3 DEF Hold, TypeInv, TypeOK, SequencerTypeOK
  <2>2. Told(msg)' /\ draft'[t].msg = msg
    BY <1>1, <1>3, <2>1
  <2>3. HandedOn(t)
    BY <2>2 DEF HandedOn, Told
  <2> QED BY <2>1, <2>3 DEF HandedOn
<1>4. ASSUME draft' = draft PROVE \A s \in Thread : HandedOn(s)
  BY <1>4 DEF HandedOn
<1>5. ASSUME NEW t \in Thread, Enqueue(t) PROVE ToldInv'
  BY <1>0, <1>5, EnqueueTold
<1>6. CASE TypeLine
  <2>1. Told(Stamped("MSG_REQ", Leader, 0, <<Leader, typed + 1>>))
    BY <1>2 DEF Told, Stamped
  <2>2. NoRequests /\ order' = order
    BY <1>6 DEF TypeLine, wireVars, NoRequests
  <2> QED BY <1>0, <1>2, <1>3, <1>6, <2>1, <2>2, ToldAlone DEF TypeLine
<1>7. CASE StampJoin
  <2>1. PICK d \in Addressed("JOIN_REQ", Leader) :
          Transmit({d}, {}) /\ Hold("listen", "add", Stamped("NEW_USER", d.from, 0, <<d.from, 0>>))
    BY <1>7 DEF StampJoin
  <2>2. Told(Stamped("NEW_USER", d.from, 0, <<d.from, 0>>))
    BY DEF Told, Stamped
  <2>3. NoRequests /\ order' = order
    BY <1>7, <2>1 DEF StampJoin, Transmit, NoRequests
  <2> QED BY <1>0, <1>2, <1>3, <2>1, <2>2, <2>3, ToldAlone
<1>8. CASE EnterJoiner
  <2>1. Told(draft["listen"].msg)
    BY <1>2, <1>8 DEF EnterJoiner, ToldInv, ToldHeld, Idle
  <2>2. NoRequests /\ order' = order
    BY <1>8 DEF EnterJoiner, wireVars, NoRequests
  <2> QED BY <1>0, <1>2, <1>3, <1>8, <2>1, <2>2, ToldAlone DEF EnterJoiner
<1>9. CASE AnswerJoiner
  <2>1. \A s \in Thread : HandedOn(s)
    BY <1>9 DEF AnswerJoiner, Release, HandedOn, TypeInv, TypeOK, SequencerTypeOK
  <2>2. NoRequests /\ order' = order
    BY <1>9 DEF AnswerJoiner, Transmit, NoRequests
  <2> QED BY <1>0, <2>1, <2>2, ToldAlone
<1>10. CASE StampLine
  <2>1. PICK d \in Addressed("MSG_REQ", Leader) :
          /\ Transmit({d}, {[type |-> "MSG_RES", to |-> d.from]})
          /\ Hold("listen", "enqueue", Stamped("MSG_REQ", d.msg.about, d.msg.sender_seq, d.msg.text))
    BY <1>10 DEF StampLine
  <2>2. Told(d.msg) /\ d.msg.type = "MSG_REQ"
    BY DEF Addressed, ToldInv, ToldHeld
  <2>3. Told(Stamped("MSG_REQ", d.msg.about, d.msg.sender_seq, d.msg.text))
    BY <2>2 DEF Told, Stamped
  <2>4. NoRequests /\ order' = order
    BY <1>10, <2>1 DEF StampLine, Transmit, NoRequests
  <2> QED BY <1>0, <1>2, <1>3, <2>1, <2>3, <2>4, ToldAlone
<1>11. CASE CountBeat
  <2>1. Told(Stamped("LEAVE", Leader, 0, <<HbSlot.id, 0>>))
    BY DEF Told, Stamped
  <2>2. \A s \in Thread : HandedOn(s)
    BY <1>2, <1>3, <1>4, <1>11, <2>1 DEF CountBeat
  <2>3. NoRequests /\ order' = order
    BY <1>11 DEF CountBeat, wireVars, NoRequests
  <2> QED BY <1>0, <2>2, <2>3, ToldAlone
<1>12. CASE LeaderThread(SendQueue)
  <2>1. NoRequests
    <3> USE DEF NoRequests, Transmit
    <3>1. CASE SendToMember
      BY <3>1 DEF SendToMember, Transmission
    <3>2. CASE ReceiveAck
      BY <3>2 DEF ReceiveAck
    <3>3. CASE AckTimeout
      BY <3>3 DEF AckTimeout, Transmission
    <3>4. CASE net' = net
      BY <3>4
    <3> QED BY <1>12, <3>1, <3>2, <3>3, <3>4
            DEF LeaderThread, SendQueue, BroadcastStart, PrintOwn, SkipJoiner, BroadcastEnd, wireVars
  <2>2. UNCHANGED <<order, draft>>
    BY <1>12 DEF LeaderThread, SendQueue, BroadcastStart, PrintOwn, SkipJoiner, SendToMember,
                 ReceiveAck, AckTimeout, BroadcastEnd
  <2> QED BY <1>0, <1>4, <2>1, <2>2, ToldAlone
<1>13. CASE StartRound \/ EndRound \/ SkipLeader \/ SendBeat \/ RemoveDeparted \/ ReceiveBeatAck
  <2>1. NoRequests
    <3> USE DEF NoRequests, Transmit
    <3>1. CASE SendBeat
      BY <3>1 DEF SendBeat
    <3>2. CASE ReceiveBeatAck
      BY <3>2 DEF ReceiveBeatAck
    <3>3. CASE net' = net
      BY <3>3
    <3> QED BY <1>13, <3>1, <3>2, <3>3
            DEF StartRound, EndRound, SkipLeader, RemoveDeparted, wireVars
  <2>2. UNCHANGED <<order, draft>>
    BY <1>13 DEF StartRound, EndRound, SkipLeader, SendBeat, RemoveDeparted, ReceiveBeatAck,
                 sequencerVars
  <2> QED BY <1>0, <1>4, <2>1, <2>2, ToldAlone
<1> QED BY <1>2, <1>5, <1>6, <1>7, <1>8, <1>9, <1>10, <1>11, <1>12, <1>13
        DEF LeaderThread, HeartbeatThread, Input, Listen, SendHb

LEMMA SendLineTold ==
  ASSUME TypeInv, TypeInv', ToldInv, NEW c \in Clients, ClientThread(SendLine(c))
  PROVE  ToldInv'
<1> DEFINE text == Head(outgoing_queue[c])
           msg == [type |-> "MSG_REQ", about |-> c, seq |-> 0,
                   sender_seq |-> sendSeqNum[c], text |-> text]
           node == [v |-> 0, sender_seq |-> sendSeqNum[c], text |-> text]
           request == [type |-> "MSG_REQ", from |-> c, to |-> host[c], msg |-> msg]
<1>1. /\ temp_queue' = [temp_queue EXCEPT ![c] = Append(@, node)]
      /\ net' \subseteq net \cup {request}
      /\ sendSeqNum' = [sendSeqNum EXCEPT ![c] = @ + 1]
      /\ UNCHANGED <<order, draft>>
  BY DEF ClientThread, SendLine, Transmit, sequencerVars
<1>2. /\ temp_queue \in [Clients -> Seq(SentNode)] /\ sendSeqNum \in [Clients -> Nat]
      /\ text \in Machine \X Nat
  BY HeadTailProperties DEF ClientThread, SendLine, TypeInv, TypeOK, ClientTypeOK
<1>3. /\ node \in SentNode /\ node.sender_seq = sendSeqNum[c] /\ node.text = text
      /\ request.msg = msg /\ msg.type = "MSG_REQ" /\ msg.about = c
      /\ msg.sender_seq = sendSeqNum[c] /\ msg.text = text
  BY <1>2 DEF SentNode
<1> HIDE DEF node, request, msg, text
<1>4. /\ \A n \in DOMAIN temp_queue'[c] :
           temp_queue'[c][n] = node \/ (n \in DOMAIN temp_queue[c]
                                        /\ temp_queue'[c][n] = temp_queue[c][n])
      /\ \A b \in Clients : b # c => temp_queue'[b] = temp_queue[b]
  BY <1>1, <1>2, <1>3, AppendProperties, LenProperties
<1>5. LinesStay
  <2> SUFFICES ASSUME NEW b \in Clients
               PROVE  /\ sendSeqNum[b] <= sendSeqNum'[b]
                      /\ \A n \in DOMAIN temp_queue'[b] :
                           \/ FromTemp(b, n)
                           \/ /\ sendSeqNum[b] < sendSeqNum'[b]
                              /\ temp_queue'[b][n].sender_seq = sendSeqNum[b]
    BY DEF LinesStay
  <2>1. sendSeqNum[b] <= sendSeqNum'[b] /\ sendSeqNum[c] < sendSeqNum'[c]
    BY <1>1, <1>2
  <2>2. CASE b = c
    BY <1>3, <1>4, <2>1, <2>2 DEF FromTemp
  <2>3. CASE b # c
    BY <1>4, <2>1, <2>3 DEF FromTemp
  <2> QED BY <2>2, <2>3
<1>6. ASSUME NEW line, line = msg PROVE Told(line)'
  <2>1. \A n \in DOMAIN temp_queue[c] : temp_queue[c][n].sender_seq < sendSeqNum[c]
    BY DEF ToldInv, ToldHeld
  <2>2. sendSeqNum'[c] = sendSeqNum[c] + 1 /\ sendSeqNum[c] \in Nat
    BY <1>1, <1>2
  <2>3. \A n \in DOMAIN temp_queue'[c] :
          temp_queue'[c][n].sender_seq = sendSeqNum[c] => temp_queue'[c][n].text = text
    BY <1>3, <1>4, <2>1, <2>2
  <2> QED BY <1>3, <1>6, <2>2, <2>3 DEF Told
<1>7. \A t \in Thread : HandedOn(t)
  BY <1>1 DEF HandedOn
<1>8. ToldHeld'
  BY <1>1, <1>5, <1>7, HeldAlone
<1>9. ASSUME NEW d \in net', d.type = "MSG_REQ" PROVE d.msg.type = "MSG_REQ" /\ Told(d.msg)'
  <2>1. CASE d \in net
    BY <1>5, <1>9, <2>1, RequestStays
  <2>2. CASE d = request
    <3>1. d.msg = msg
      BY <1>3, <2>2
    <3>2. PICK line : line = d.msg
      OBVIOUS
    <3>3. Told(line)'
      BY <1>6, <3>1, <3>2
    <3> QED BY <1>3, <3>1, <3>2, <3>3
  <2> QED BY <1>1, <2>1, <2>2
<1> QED BY <1>8, <1>9 DEF ToldInv

LEMMA ToldInvStep == TypeInv /\ TypeInv' /\ ToldInv /\ [Next]_vars => ToldInv'
<1> SUFFICES ASSUME TypeInv, TypeInv', ToldInv, [Next]_vars PROVE ToldInv'
  OBVIOUS
<1>1. ASSUME UNCHANGED <<order, draft>>, LinesStay, NoRequests PROVE ToldInv'
  <2>1. \A t \in Thread : HandedOn(t)
    <3>1. \A t \in Thread : draft[t] = Idle \/ draft[t] # Idle
      OBVIOUS
    <3> QED BY <1>1, <3>1 DEF HandedOn
  <2> QED BY <1>1, <2>1, ToldAlone
<1>2. ASSUME NEW c \in Clients, ClientThread(PrintNext(c)) PROVE ToldInv'
  <2>1. /\ \A b \in Clients : b # c => temp_queue'[b] = temp_queue[b]
        /\ \A n \in DOMAIN temp_queue'[c] : FromTemp(c, n)
    BY <1>2, PrintNextLines DEF ClientThread
  <2>2. UNCHANGED <<sendSeqNum, net, order, draft>>
    BY <1>2 DEF ClientThread, PrintNext, sequencerVars, wireVars
  <2>3. \A b \in Clients : sendSeqNum[b] \in Nat
    BY DEF TypeInv, TypeOK, ClientTypeOK
  <2>4. LinesStay
    BY <2>1, <2>2, <2>3 DEF LinesStay, FromTemp
  <2>5. NoRequests
    BY <2>2 DEF NoRequests
  <2> QED BY <1>1, <2>2, <2>4, <2>5
<1>3. ASSUME NEW c \in Clients,
             \/ ClientThread(Join(c)) \/ ClientThread(TypeClientLine(c))
             \/ ClientThread(LineReceived(c)) \/ ClientThread(ListenAtClient(c))
             \/ ClientThread(AnswerBeat(c)) \/ ClientThread(EndProcess(c))
      PROVE  ToldInv'
  <2>1. UNCHANGED <<temp_queue, sendSeqNum, order, draft>>
    BY <1>3 DEF ClientThread, Join, AskToJoin, AskLeader, EnterChat, GiveUpJoin, TypeClientLine,
                LineReceived, ListenAtClient, Deliver, RedirectJoiner, AnswerBeat, EndProcess,
                Quit, sequencerVars, clientVars
  <2>2. NoRequests
    <3> USE DEF NoRequests, Transmit, CloseSockets
    <3>1. ASSUME NEW h \in Machine, AskToJoin(c, h) PROVE NoRequests
      BY <3>1 DEF AskToJoin
    <3>2. CASE AskLeader(c)
      BY <3>2 DEF AskLeader
    <3>3. CASE EnterChat(c) \/ GiveUpJoin(c, Answering(c)) \/ EndProcess(c)
      BY <3>3 DEF EnterChat, GiveUpJoin, EndProcess, Quit
    <3>4. CASE TypeClientLine(c)
      BY <3>4 DEF TypeClientLine, wireVars
    <3>5. CASE Deliver(c)
      BY <3>5 DEF Deliver
    <3>6. CASE LineReceived(c)
      BY <3>6 DEF LineReceived
    <3>7. CASE RedirectJoiner(c)
      BY <3>7 DEF RedirectJoiner
    <3>8. CASE AnswerBeat(c)
      BY <3>8 DEF AnswerBeat
    <3> QED BY <1>3, <3>1, <3>2, <3>3, <3>4, <3>5, <3>6, <3>7, <3>8
            DEF ClientThread, Join, ListenAtClient
  <2> QED BY <1>1, <2>1, <2>2, LinesStaySame
<1>4. CASE ClientThread(Lose /\ UNCHANGED clientVars)
  BY <1>1, <1>4, LinesStaySame DEF ClientThread, Lose, NoRequests, sequencerVars, clientVars
<1>5. CASE UNCHANGED vars
  BY <1>1, <1>5, LinesStaySame DEF vars, NoRequests, wireVars, sequencerVars, clientVars
<1> QED BY <1>2, <1>3, <1>4, <1>5, LeaderTold, SendLineTold DEF Next, ClientThread, SendOut

LEMMA ToldInvInvariant == Spec => []ToldInv
<1>1. Init => ToldInv
  <2> SUFFICES ASSUME Init PROVE ToldInv
    OBVIOUS
  <2>1. /\ order = <<>> /\ net = {} /\ \A t \in Thread : draft[t] = Idle
        /\ \A c \in Clients : temp_queue[c] = <<>>
    BY DEF Init, SequencerInit, WireInit, ClientInit
  <2> QED BY <2>1 DEF ToldInv, ToldHeld
<1> QED BY <1>1, ToldInvStep, TypeInvInvariant, PTL DEF Spec

-----------------------------------------------------------------------------
(* A client's line is in one of three places.                              *)
InQueue(c, text) == \E i \in DOMAIN outgoing_queue[c] : outgoing_queue[c][i] = text
InTemp(c, text) == \E n \in DOMAIN temp_queue[c] : temp_queue[c][n].text = text
OnScreen(c, text) == \E k \in DOMAIN printed[c] : printed[c][k].text = text

HeadKept(c) ==
  /\ outgoing_queue[c] # <<>>
  /\ \/ InTemp(c, Head(outgoing_queue[c]))
     \/ \E i \in 2..Len(outgoing_queue[c]) : outgoing_queue[c][i] = Head(outgoing_queue[c])
     \/ OnScreen(c, Head(outgoing_queue[c]))

KeptInv == SendingIsHead /\ NoLineForgotten

(* outgoing_queue only grows at its end, and what leaves temp_queue goes   *)
(* to that end or is on the screen.                                        *)
QueueGrows ==
  \A c \in Clients : \A i \in DOMAIN outgoing_queue[c] :
    i \in DOMAIN outgoing_queue'[c] /\ outgoing_queue'[c][i] = outgoing_queue[c][i]
ScreenGrows ==
  \A c \in Clients : \A k \in DOMAIN printed[c] :
    k \in DOMAIN printed'[c] /\ printed'[c][k] = printed[c][k]
TempHandsOver ==
  \A c \in Clients : \A n \in DOMAIN temp_queue[c] :
    LET text == temp_queue[c][n].text
    IN  \/ \E k \in DOMAIN temp_queue'[c] : temp_queue'[c][k].text = text
        \/ \E k \in DOMAIN printed'[c] : printed'[c][k].text = text
        \/ outgoing_queue'[c] = Append(outgoing_queue[c], text)

LEMMA QueueFacts ==
  ASSUME TypeInv, NEW c \in Clients
  PROVE  /\ outgoing_queue[c] \in Seq(Machine \X Nat)
         /\ DOMAIN outgoing_queue[c] = 1..Len(outgoing_queue[c])
         /\ Len(outgoing_queue[c]) \in Nat
         /\ outgoing_queue[c] # <<>> =>
              1 \in DOMAIN outgoing_queue[c] /\ Head(outgoing_queue[c]) = outgoing_queue[c][1]
<1>1. outgoing_queue[c] \in Seq(Machine \X Nat)
  BY DEF TypeInv, TypeOK, ClientTypeOK
<1> QED BY <1>1, LenProperties, HeadTailProperties

LEMMA AppendFacts ==
  ASSUME NEW S, NEW s \in Seq(S), NEW x \in S
  PROVE  /\ DOMAIN Append(s, x) = 1..(Len(s) + 1) /\ DOMAIN s = 1..Len(s) /\ Len(s) \in Nat
         /\ Len(Append(s, x)) = Len(s) + 1
         /\ Append(s, x)[Len(s) + 1] = x
         /\ \A i \in DOMAIN s : Append(s, x)[i] = s[i]
BY AppendProperties, LenProperties

LEMMA TempText ==
  ASSUME TypeInv, NEW c \in Clients, NEW n \in DOMAIN temp_queue[c]
  PROVE  temp_queue[c][n].text \in Machine \X Nat
<1>1. temp_queue[c][n] \in SentNode
  BY DEF TypeInv, TypeOK, ClientTypeOK
<1> QED BY <1>1 DEF SentNode

(* While nothing is taken from the head, what is somewhere stays somewhere. *)
LEMMA KeptAlone ==
  ASSUME TypeInv, TypeInv', KeptInv, QueueGrows, ScreenGrows, TempHandsOver
  PROVE  /\ \A c \in Clients : sending[c] => HeadKept(c)'
         /\ \A c \in Clients : \A k \in 1..lines[c] :
              InQueue(c, <<c, k>>)' \/ InTemp(c, <<c, k>>)' \/ OnScreen(c, <<c, k>>)'
<1>1. ASSUME NEW c \in Clients, sending[c] PROVE HeadKept(c)'
  <2> DEFINE head == Head(outgoing_queue[c])
             len == Len(outgoing_queue[c])
  <2>0. outgoing_queue[c] # <<>>
    BY <1>1 DEF KeptInv, SendingIsHead
  <2>2. /\ DOMAIN outgoing_queue[c] = 1..len /\ len \in Nat
        /\ 1 \in DOMAIN outgoing_queue[c] /\ head = outgoing_queue[c][1]
    BY <2>0, QueueFacts
  <2>3. outgoing_queue'[c] \in Seq(Machine \X Nat)
    BY DEF TypeInv, TypeOK, ClientTypeOK
  <2>1. outgoing_queue'[c] # <<>>
    <3>1. 1 \in DOMAIN outgoing_queue'[c]
      BY <2>2 DEF QueueGrows
    <3>2. 1 \in 1..Len(outgoing_queue'[c])
      BY <2>3, <3>1, LenProperties
    <3> QED BY <3>2
  <2>4. /\ DOMAIN outgoing_queue'[c] = 1..Len(outgoing_queue'[c])
        /\ Head(outgoing_queue'[c]) = outgoing_queue'[c][1]
    BY <2>1, <2>3, LenProperties, HeadTailProperties
  <2>5. Head(outgoing_queue'[c]) = head
    BY <2>2, <2>4 DEF QueueGrows
  <2>6. \/ \E n \in DOMAIN temp_queue[c] : temp_queue[c][n].text = head
        \/ \E i \in 2..len : outgoing_queue[c][i] = head
        \/ \E k \in DOMAIN printed[c] : printed[c][k].text = head
    BY <1>1 DEF KeptInv, SendingIsHead
  <2> HIDE DEF head, len
  <2>7. CASE \E n \in DOMAIN temp_queue[c] : temp_queue[c][n].text = head
    <3>1. PICK n \in DOMAIN temp_queue[c] : temp_queue[c][n].text = head
      BY <2>7
    <3>2. CASE outgoing_queue'[c] = Append(outgoing_queue[c], head)
      <4>1. head \in Machine \X Nat
        BY <3>1, TempText
      <4>2. Len(outgoing_queue'[c]) = len + 1 /\ outgoing_queue'[c][len + 1] = head
        BY <3>2, <4>1, QueueFacts, AppendFacts DEF len
      <4> QED BY <2>1, <2>2, <2>5, <4>2 DEF HeadKept
    <3> QED BY <2>1, <2>5, <3>1, <3>2 DEF TempHandsOver, HeadKept, InTemp, OnScreen
  <2>8. CASE \E i \in 2..len : outgoing_queue[c][i] = head
    <3>1. PICK i \in 2..len : outgoing_queue[c][i] = head
      BY <2>8
    <3>2. i \in DOMAIN outgoing_queue'[c] /\ outgoing_queue'[c][i] = head
      BY <2>2, <3>1 DEF QueueGrows
    <3>3. i \in 2..Len(outgoing_queue'[c])
      BY <2>2, <2>4, <3>1, <3>2
    <3> QED BY <2>1, <2>5, <3>2, <3>3 DEF HeadKept
  <2>9. CASE \E k \in DOMAIN printed[c] : printed[c][k].text = head
    BY <2>1, <2>5, <2>9 DEF ScreenGrows, HeadKept, OnScreen
  <2> QED BY <2>6, <2>7, <2>8, <2>9
<1>3. ASSUME NEW c \in Clients, NEW k \in 1..lines[c]
      PROVE  InQueue(c, <<c, k>>)' \/ InTemp(c, <<c, k>>)' \/ OnScreen(c, <<c, k>>)'
  <2>1. \/ \E i \in DOMAIN outgoing_queue[c] : outgoing_queue[c][i] = <<c, k>>
        \/ \E i \in DOMAIN temp_queue[c] : temp_queue[c][i].text = <<c, k>>
        \/ \E i \in DOMAIN printed[c] : printed[c][i].text = <<c, k>>
    BY DEF KeptInv, NoLineForgotten
  <2>2. CASE \E i \in DOMAIN outgoing_queue[c] : outgoing_queue[c][i] = <<c, k>>
    BY <2>2 DEF QueueGrows, InQueue
  <2>3. CASE \E i \in DOMAIN temp_queue[c] : temp_queue[c][i].text = <<c, k>>
    <3>1. PICK n \in DOMAIN temp_queue[c] : temp_queue[c][n].text = <<c, k>>
      BY <2>3
    <3>2. CASE outgoing_queue'[c] = Append(outgoing_queue[c], <<c, k>>)
      <4>1. <<c, k>> \in Machine \X Nat
        BY <3>1, TempText
      <4>2. Len(outgoing_queue[c]) + 1 \in DOMAIN outgoing_queue'[c]
            /\ outgoing_queue'[c][Len(outgoing_queue[c]) + 1] = <<c, k>>
        BY <3>2, <4>1, QueueFacts, AppendFacts
      <4> QED BY <4>2 DEF InQueue
    <3> QED BY <3>1, <3>2 DEF TempHandsOver, InTemp, OnScreen
  <2>4. CASE \E i \in DOMAIN printed[c] : printed[c][i].text = <<c, k>>
    BY <2>4 DEF ScreenGrows, OnScreen
  <2> QED BY <2>1, <2>2, <2>3, <2>4
<1> QED BY <1>1, <1>3

LEMMA LinesSame ==
  ASSUME TypeInv, TypeInv', KeptInv, QueueGrows, ScreenGrows, TempHandsOver,
         UNCHANGED <<sending, lines>>
  PROVE  KeptInv'
<1>1. ASSUME NEW c \in Clients, NEW k \in 1..lines'[c]
      PROVE  InQueue(c, <<c, k>>)' \/ InTemp(c, <<c, k>>)' \/ OnScreen(c, <<c, k>>)'
  BY KeptAlone
<1>2. NoLineForgotten'
  BY <1>1 DEF NoLineForgotten, InQueue, InTemp, OnScreen
<1>3. SendingIsHead'
  BY KeptAlone DEF SendingIsHead, HeadKept, InTemp, OnScreen
<1> QED BY <1>2, <1>3 DEF KeptInv

LEMMA TypeClientLineKept ==
  ASSUME TypeInv, TypeInv', KeptInv, NEW c \in Clients, ClientThread(TypeClientLine(c))
  PROVE  KeptInv'
<1> DEFINE line == <<c, lines[c] + 1>>
<1>1. /\ lines' = [lines EXCEPT ![c] = @ + 1]
      /\ outgoing_queue' = [outgoing_queue EXCEPT ![c] = Append(@, line)]
      /\ UNCHANGED <<temp_queue, sending, printed>>
  BY DEF ClientThread, TypeClientLine, machineVars
<1>2. /\ outgoing_queue \in [Clients -> Seq(Machine \X Nat)] /\ lines \in [Clients -> Nat]
      /\ line \in Machine \X Nat
  <2>1. lines \in [Clients -> Nat] /\ c \in Machine
    BY DEF TypeInv, TypeOK, ClientTypeOK, Machine
  <2>2. lines[c] + 1 \in Nat
    BY <2>1
  <2> QED BY <2>1, <2>2 DEF TypeInv, TypeOK, ClientTypeOK
<1>3. PICK text : text = line
  OBVIOUS
<1>4. /\ outgoing_queue'[c] = Append(outgoing_queue[c], text)
      /\ \A b \in Clients : b # c => outgoing_queue'[b] = outgoing_queue[b]
  BY <1>1, <1>2, <1>3
<1>5. /\ DOMAIN outgoing_queue'[c] = 1..(Len(outgoing_queue[c]) + 1)
      /\ Len(outgoing_queue[c]) \in Nat
      /\ outgoing_queue'[c][Len(outgoing_queue[c]) + 1] = text
      /\ \A i \in DOMAIN outgoing_queue[c] :
           i \in DOMAIN outgoing_queue'[c] /\ outgoing_queue'[c][i] = outgoing_queue[c][i]
  BY <1>2, <1>3, <1>4, AppendFacts
<1>6. QueueGrows
  BY <1>4, <1>5 DEF QueueGrows
<1>7. ScreenGrows /\ TempHandsOver
  BY <1>1 DEF ScreenGrows, TempHandsOver
<1>8. ASSUME NEW b \in Clients, NEW k \in 1..lines'[b]
      PROVE  InQueue(b, <<b, k>>)' \/ InTemp(b, <<b, k>>)' \/ OnScreen(b, <<b, k>>)'
  <2>1. CASE k \in 1..lines[b]
    BY <1>6, <1>7, <2>1, KeptAlone
  <2>2. CASE ~(k \in 1..lines[b])
    <3>1. b = c /\ k = lines[c] + 1
      BY <1>1, <1>2, <2>2
    <3> QED BY <1>3, <1>5, <3>1 DEF InQueue
  <2> QED BY <2>1, <2>2
<1>9. NoLineForgotten'
  BY <1>8 DEF NoLineForgotten, InQueue, InTemp, OnScreen
<1>10. SendingIsHead'
  BY <1>1, <1>6, <1>7, KeptAlone DEF SendingIsHead, HeadKept, InTemp, OnScreen
<1> QED BY <1>9, <1>10 DEF KeptInv

LEMMA SendLineKept ==
  ASSUME TypeInv, TypeInv', KeptInv, NEW c \in Clients, ClientThread(SendLine(c))
  PROVE  KeptInv'
<1> DEFINE node == [v |-> 0, sender_seq |-> sendSeqNum[c], text |-> Head(outgoing_queue[c])]
<1>1. /\ temp_queue' = [temp_queue EXCEPT ![c] = Append(@, node)]
      /\ sending' = [sending EXCEPT ![c] = TRUE]
      /\ outgoing_queue[c] # <<>> /\ UNCHANGED <<outgoing_queue, lines, printed>>
  BY DEF ClientThread, SendLine, machineVars
<1>2. temp_queue \in [Clients -> Seq(SentNode)] /\ node \in SentNode
  BY <1>1, HeadTailProperties DEF TypeInv, TypeOK, ClientTypeOK, SentNode
<1>3. node.text = Head(outgoing_queue[c])
  OBVIOUS
<1> HIDE DEF node
<1>4. /\ Len(temp_queue[c]) + 1 \in DOMAIN temp_queue'[c]
      /\ temp_queue'[c][Len(temp_queue[c]) + 1] = node
      /\ \A n \in DOMAIN temp_queue[c] :
           n \in DOMAIN temp_queue'[c] /\ temp_queue'[c][n] = temp_queue[c][n]
      /\ \A b \in Clients : b # c => temp_queue'[b] = temp_queue[b]
  BY <1>1, <1>2, AppendFacts
<1>5. QueueGrows /\ ScreenGrows
  BY <1>1 DEF QueueGrows, ScreenGrows
<1>6. TempHandsOver
  BY <1>4 DEF TempHandsOver
<1>7. NoLineForgotten'
  BY <1>1, <1>5, <1>6, KeptAlone DEF NoLineForgotten, InQueue, InTemp, OnScreen
<1>8. HeadKept(c)'
  BY <1>1, <1>3, <1>4 DEF HeadKept, InTemp
<1>9. ASSUME NEW b \in Clients, sending'[b] PROVE HeadKept(b)'
  <2>1. CASE b = c
    BY <1>8, <2>1
  <2>2. CASE sending[b]
    BY <1>5, <1>6, <2>2, KeptAlone
  <2> QED BY <1>1, <1>9, <2>1, <2>2 DEF TypeInv, TypeOK, ClientTypeOK
<1>10. SendingIsHead'
  BY <1>9 DEF SendingIsHead, HeadKept, InTemp, OnScreen
<1> QED BY <1>7, <1>10 DEF KeptInv

LEMMA LineReceivedKept ==
  ASSUME TypeInv, TypeInv', KeptInv, NEW c \in Clients, ClientThread(LineReceived(c))
  PROVE  KeptInv'
<1>1. /\ outgoing_queue' = [outgoing_queue EXCEPT ![c] = Tail(@)]
      /\ sending[c] /\ sending' = [sending EXCEPT ![c] = FALSE]
      /\ UNCHANGED <<temp_queue, lines, printed>>
  BY DEF ClientThread, LineReceived, machineVars
<1> DEFINE queue == outgoing_queue[c]
<1>2. /\ outgoing_queue \in [Clients -> Seq(Machine \X Nat)] /\ sending \in [Clients -> BOOLEAN]
      /\ queue # <<>>
      /\ \/ InTemp(c, Head(queue))
         \/ \E i \in 2..Len(queue) : queue[i] = Head(queue)
         \/ OnScreen(c, Head(queue))
  BY <1>1 DEF TypeInv, TypeOK, ClientTypeOK, KeptInv, SendingIsHead, InTemp, OnScreen
<1>3. /\ queue \in Seq(Machine \X Nat) /\ DOMAIN queue = 1..Len(queue) /\ Len(queue) \in Nat
      /\ Head(queue) = queue[1]
  BY <1>2, QueueFacts
<1>4. \A b \in Clients : b # c => outgoing_queue'[b] = outgoing_queue[b] /\ sending'[b] = sending[b]
  BY <1>1, <1>2
<1>5. PICK rest : rest = Tail(queue)
  OBVIOUS
<1>6. \A i \in 2..Len(queue) : i - 1 \in DOMAIN rest /\ rest[i - 1] = queue[i]
  <2>1. /\ rest \in Seq(Machine \X Nat) /\ Len(rest) = Len(queue) - 1
        /\ \A i \in 1..Len(rest) : rest[i] = queue[i + 1]
    BY <1>2, <1>3, <1>5, HeadTailProperties
  <2>2. DOMAIN rest = 1..(Len(queue) - 1)
    BY <2>1, LenProperties
  <2> TAKE i \in 2..Len(queue)
  <2>3. i - 1 \in 1..(Len(queue) - 1) /\ (i - 1) + 1 = i
    BY <1>3
  <2> QED BY <2>1, <2>2, <2>3
<1>7. outgoing_queue'[c] = rest
  BY <1>1, <1>2, <1>5
<1> HIDE DEF queue
<1>8. ASSUME NEW k \in 1..lines[c]
      PROVE  InQueue(c, <<c, k>>)' \/ InTemp(c, <<c, k>>)' \/ OnScreen(c, <<c, k>>)'
  <2>1. \/ \E i \in DOMAIN queue : queue[i] = <<c, k>>
        \/ InTemp(c, <<c, k>>) \/ OnScreen(c, <<c, k>>)
    BY DEF KeptInv, NoLineForgotten, InTemp, OnScreen, queue
  <2>2. CASE InTemp(c, <<c, k>>) \/ OnScreen(c, <<c, k>>)
    BY <1>1, <2>2 DEF InTemp, OnScreen
  <2>3. CASE \E i \in 2..Len(queue) : queue[i] = <<c, k>>
    BY <1>6, <1>7, <2>3 DEF InQueue
  <2>4. CASE queue[1] = <<c, k>>
    BY <1>2, <1>3, <2>2, <2>3, <2>4
  <2>5. \A i \in DOMAIN queue : i = 1 \/ i \in 2..Len(queue)
    BY <1>3
  <2> QED BY <2>1, <2>2, <2>3, <2>4, <2>5
<1>9. NoLineForgotten'
  <2> SUFFICES ASSUME NEW b \in Clients, NEW k \in 1..lines[b]
               PROVE  (\/ \E i \in DOMAIN outgoing_queue[b] : outgoing_queue[b][i] = <<b, k>>
                       \/ \E i \in DOMAIN temp_queue[b] : temp_queue[b][i].text = <<b, k>>
                       \/ \E i \in DOMAIN printed[b] : printed[b][i].text = <<b, k>>)'
    BY <1>1 DEF NoLineForgotten
  <2>1. CASE b = c
    BY <1>8, <2>1 DEF InQueue, InTemp, OnScreen
  <2>2. CASE b # c
    <3>1. /\ outgoing_queue'[b] = outgoing_queue[b] /\ temp_queue'[b] = temp_queue[b]
          /\ printed'[b] = printed[b]
      BY <1>1, <1>4, <2>2
    <3> QED BY <3>1 DEF KeptInv, NoLineForgotten
  <2> QED BY <2>1, <2>2
<1>10. SendingIsHead'
  <2> SUFFICES ASSUME NEW b \in Clients, sending'[b]
               PROVE  (/\ outgoing_queue[b] # <<>>
                       /\ \/ InTemp(b, Head(outgoing_queue[b]))
                          \/ \E i \in 2..Len(outgoing_queue[b]) :
                               outgoing_queue[b][i] = Head(outgoing_queue[b])
                          \/ OnScreen(b, Head(outgoing_queue[b])))'
    BY DEF SendingIsHead, InTemp, OnScreen
  <2>1. b # c
    BY <1>1, <1>2
  <2>2. outgoing_queue'[b] = outgoing_queue[b] /\ sending[b]
    BY <1>4, <2>1
  <2>3. UNCHANGED <<temp_queue, printed>>
    BY <1>1
  <2> QED BY <2>2, <2>3 DEF KeptInv, SendingIsHead, InTemp, OnScreen
<1> QED BY <1>9, <1>10 DEF KeptInv

(* What is about the client itself and of its sender_seq is the line it    *)
(* keeps in temp_queue: so the line that leaves temp_queue when it is      *)
(* shown is the one on the screen.                                         *)
LEMMA PrintNextKept ==
  ASSUME TypeInv, TypeInv', ScreenInv, SelfInv, ToldInv, KeptInv,
         NEW c \in Clients, ClientThread(PrintNext(c))
  PROVE  KeptInv'
<1>1. PICK i \in DOMAIN client_queue[c] :
        LET msg == client_queue[c][i].m
        IN  /\ printed' = [printed EXCEPT ![c] = Append(@, msg)]
            /\ \A b \in Clients : b # c => /\ temp_queue'[b] = temp_queue[b]
                                          /\ outgoing_queue'[b] = outgoing_queue[b]
            /\ \/ outgoing_queue'[c] = outgoing_queue[c]
               \/ \E x \in Machine \X Nat : outgoing_queue'[c] = Append(outgoing_queue[c], x)
            /\ \A k \in DOMAIN temp_queue[c] :
                 \/ StillTemp(c, k)
                 \/ msg.about = c /\ msg.sender_seq = temp_queue[c][k].sender_seq
                 \/ outgoing_queue'[c] = Append(outgoing_queue[c], temp_queue[c][k].text)
  BY PrintNextLines DEF ClientThread
<1>2. PICK msg : msg = client_queue[c][i].m
  OBVIOUS
<1>3. msg \in Message /\ Ordered(msg) /\ NotToSelf(msg, c)
  <2>1. client_queue[c][i] \in QueuedNode
    BY DEF TypeInv, TypeOK, ClientTypeOK
  <2> QED BY <1>2, <2>1 DEF QueuedNode, ScreenInv, SelfInv
<1>4. Told(msg)
  BY <1>3 DEF Ordered, ToldInv, ToldHeld
<1>5. \A k \in DOMAIN temp_queue[c] :
        msg.about = c /\ msg.sender_seq = temp_queue[c][k].sender_seq
          => msg.text = temp_queue[c][k].text
  <2>1. msg.about = c => msg.type = "MSG_REQ"
    BY <1>3, <1>4, LeaderAssumption DEF Message, NotToSelf, Told
  <2> QED BY <1>4, <2>1 DEF Told
<1>6. printed \in [Machine -> Seq(Message)] /\ c \in Machine
      /\ outgoing_queue[c] \in Seq(Machine \X Nat)
  BY DEF TypeInv, TypeOK, MachinesTypeOK, ClientTypeOK, Machine
<1>7. /\ \A k \in DOMAIN printed[c] : k \in DOMAIN printed'[c] /\ printed'[c][k] = printed[c][k]
      /\ \E k \in DOMAIN printed'[c] : printed'[c][k] = msg
      /\ \A b \in Clients : b # c => printed'[b] = printed[b]
  <2>1. printed[c] \in Seq(Message) /\ printed'[c] = Append(printed[c], msg)
    BY <1>1, <1>2, <1>6
  <2>2. /\ DOMAIN printed'[c] = 1..(Len(printed[c]) + 1) /\ DOMAIN printed[c] = 1..Len(printed[c])
        /\ Len(printed[c]) \in Nat /\ printed'[c][Len(printed[c]) + 1] = msg
        /\ \A k \in DOMAIN printed[c] : printed'[c][k] = printed[c][k]
    BY <1>3, <2>1, AppendFacts
  <2> QED BY <1>1, <1>6, <2>2 DEF Machine
<1>8. ScreenGrows
  BY <1>7 DEF ScreenGrows
<1>9. QueueGrows
  <2>1. ASSUME NEW x \in Machine \X Nat, outgoing_queue'[c] = Append(outgoing_queue[c], x),
               NEW k \in DOMAIN outgoing_queue[c]
        PROVE  k \in DOMAIN outgoing_queue'[c] /\ outgoing_queue'[c][k] = outgoing_queue[c][k]
    <3>1. PICK queue \in Seq(Machine \X Nat) : queue = outgoing_queue[c]
      BY <1>6
    <3>2. k \in DOMAIN Append(queue, x) /\ Append(queue, x)[k] = queue[k]
      BY <2>1, <3>1, AppendFacts
    <3> QED BY <2>1, <3>1, <3>2
  <2> QED BY <1>1, <2>1 DEF QueueGrows
<1>10. TempHandsOver
  <2> SUFFICES ASSUME NEW b \in Clients, NEW n \in DOMAIN temp_queue[b]
               PROVE  LET text == temp_queue[b][n].text
                      IN  \/ \E k \in DOMAIN temp_queue'[b] : temp_queue'[b][k].text = text
                          \/ \E k \in DOMAIN printed'[b] : printed'[b][k].text = text
                          \/ outgoing_queue'[b] = Append(outgoing_queue[b], text)
    BY DEF TempHandsOver
  <2>1. CASE b # c
    BY <1>1, <2>1
  <2>2. CASE b = c
    BY <1>1, <1>2, <1>5, <1>7, <2>2 DEF StillTemp
  <2> QED BY <2>1, <2>2
<1>11. UNCHANGED <<sending, lines>>
  BY DEF ClientThread, PrintNext
<1> QED BY <1>8, <1>9, <1>10, <1>11, LinesSame

LEMMA KeptInvStep ==
  TypeInv /\ TypeInv' /\ ScreenInv /\ SelfInv /\ ToldInv /\ KeptInv /\ [Next]_vars => KeptInv'
<1> SUFFICES ASSUME TypeInv, TypeInv', ScreenInv, SelfInv, ToldInv, KeptInv, [Next]_vars
             PROVE  KeptInv'
  OBVIOUS
<1>1. ASSUME UNCHANGED <<outgoing_queue, temp_queue, sending, lines>>,
             \A c \in Clients : printed'[c] = printed[c]
      PROVE  KeptInv'
  <2>1. QueueGrows /\ ScreenGrows /\ TempHandsOver
    BY <1>1 DEF QueueGrows, ScreenGrows, TempHandsOver
  <2> QED BY <1>1, <2>1, LinesSame
<1>2. CASE LeaderThread(Input) \/ LeaderThread(Listen) \/ LeaderThread(SendQueue)
           \/ HeartbeatThread(SendHb) \/ HeartbeatThread(ReceiveBeatAck)
  <2>1. UNCHANGED clientVars
    BY <1>2 DEF LeaderThread, HeartbeatThread
  <2>2. CASE PrintOwn
    <3>1. printed' = [printed EXCEPT ![Leader] = Append(@, cast.msg)]
      BY <2>2 DEF PrintOwn, PrintMessage
    <3>2. printed \in [Machine -> Seq(Message)] /\ Leader \notin Clients
      BY LeaderAssumption DEF TypeInv, TypeOK, MachinesTypeOK
    <3>3. \A c \in Clients : printed'[c] = printed[c]
      BY <3>1, <3>2 DEF Machine
    <3> QED BY <1>1, <2>1, <3>3 DEF clientVars
  <2>3. CASE printed' = printed
    BY <1>1, <2>1, <2>3 DEF clientVars
  <2>4. PrintOwn \/ printed' = printed
    BY <1>2 DEF LeaderThread, HeartbeatThread, Input, TypeLine, Listen, StampJoin, EnterJoiner,
                AnswerJoiner, StampLine, Enqueue, SendQueue, BroadcastStart, SkipJoiner,
                SendToMember, ReceiveAck, AckTimeout, BroadcastEnd, SendHb, StartRound, EndRound,
                SkipLeader, SendBeat, CountBeat, RemoveDeparted, ReceiveBeatAck, machineVars
  <2> QED BY <2>2, <2>3, <2>4
<1>3. ASSUME NEW c \in Clients,
             \/ ClientThread(Join(c)) \/ ClientThread(ListenAtClient(c))
             \/ ClientThread(AnswerBeat(c)) \/ ClientThread(EndProcess(c))
      PROVE  KeptInv'
  <2>1. UNCHANGED <<outgoing_queue, temp_queue, sending, lines, printed>>
    BY <1>3 DEF ClientThread, Join, AskToJoin, AskLeader, EnterChat, GiveUpJoin, ListenAtClient,
                Deliver, RedirectJoiner, AnswerBeat, EndProcess, Quit, clientVars, machineVars
  <2> QED BY <1>1, <2>1
<1>4. CASE ClientThread(Lose /\ UNCHANGED clientVars)
  BY <1>1, <1>4 DEF ClientThread, Lose, clientVars, machineVars
<1>5. CASE UNCHANGED vars
  BY <1>1, <1>5 DEF vars, clientVars, machineVars
<1> QED BY <1>2, <1>3, <1>4, <1>5, TypeClientLineKept, SendLineKept, LineReceivedKept,
           PrintNextKept DEF Next, ClientThread, SendOut

LEMMA KeptInvInvariant == Spec => []KeptInv
<1>1. Init => KeptInv
  BY DEF Init, ClientInit, KeptInv, SendingIsHead, NoLineForgotten
<1> QED BY <1>1, KeptInvStep, TypeInvInvariant, ScreenInvInvariant, SelfInvInvariant,
           ToldInvInvariant, PTL DEF Spec

(* The line that waits for MSG_RES is the one the answer removes, and it   *)
(* is in temp_queue, resent or shown by then (client.c:506-520, 390).      *)
THEOREM SendingIsHeadAlways == Spec => []SendingIsHead
BY KeptInvInvariant, PTL DEF KeptInv

(* What a client's user typed is in outgoing_queue, in temp_queue or on    *)
(* its screen, whatever the order of answer, broadcast and resend, with    *)
(* any loss and any departure (client.c:494-519, 382-393).                 *)
THEOREM NoLineForgottenAlways == Spec => []NoLineForgotten
BY KeptInvInvariant, PTL DEF KeptInv
=============================================================================
