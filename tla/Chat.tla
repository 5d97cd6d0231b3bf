-------------------------------- MODULE Chat --------------------------------
(***************************************************************************)
(* A chat under its first leader: the leader's threads (Sequencer,         *)
(* Heartbeat), the clients (Client) and the network between them (Wire).   *)
(***************************************************************************)
EXTENDS Sequencer, Heartbeat, Client

CONSTANT Quitters   \* bound: the clients whose process may end
ASSUME ChatAssumption == Quitters \subseteq Clients

vars == <<machineVars, wireVars, sequencerVars, hb, clientVars>>

Init ==
  /\ MachinesInit /\ WireInit /\ SequencerInit /\ HeartbeatInit /\ ClientInit

(* The leader's listener is busy with the request of c. *)
Answering(c) ==
  /\ draft["listen"] # Idle
  /\ draft["listen"].msg.type = "NEW_USER" /\ draft["listen"].msg.about = c

LeaderThread(step) == step /\ UNCHANGED <<hb, clientVars>>
HeartbeatThread(step) == step /\ UNCHANGED clientVars
ClientThread(step) == step /\ UNCHANGED <<sequencerVars, hb>>

Join(c) ==
  \/ \E h \in Machine : AskToJoin(c, h)
  \/ AskLeader(c) \/ EnterChat(c) \/ GiveUpJoin(c, Answering(c))
ListenAtClient(c) == Deliver(c) \/ RedirectJoiner(c)
SendOut(c) == SendLine(c) \/ LineReceived(c)
EndProcess(c) == c \in Quitters /\ Quit(c)

Next ==
  \/ LeaderThread(Input)
  \/ LeaderThread(Listen)
  \/ LeaderThread(SendQueue)
  \/ HeartbeatThread(SendHb)
  \/ HeartbeatThread(ReceiveBeatAck)
  \/ \E c \in Clients :
       \/ ClientThread(Join(c))
       \/ ClientThread(TypeClientLine(c))
       \/ ClientThread(SendOut(c))
       \/ ClientThread(ListenAtClient(c))
       \/ ClientThread(PrintNext(c))
       \/ ClientThread(AnswerBeat(c))
       \/ ClientThread(EndProcess(c))
  \/ ClientThread(Lose /\ UNCHANGED clientVars)

Spec == Init /\ [][Next]_vars

(* Each thread runs whenever it can; nobody has to type, to join or to     *)
(* leave, and the network does not have to lose anything.                  *)
Fairness ==
  /\ WF_vars(LeaderThread(Enqueue("input")))
  /\ WF_vars(LeaderThread(Listen))
  /\ WF_vars(LeaderThread(SendQueue))
  /\ WF_vars(HeartbeatThread(Enqueue("send_hb") /\ UNCHANGED hb))
  /\ \A c \in Clients :
       /\ WF_vars(ClientThread(AskLeader(c) \/ EnterChat(c)))
       /\ WF_vars(ClientThread(SendOut(c)))
       /\ WF_vars(ClientThread(ListenAtClient(c)))
       /\ WF_vars(ClientThread(PrintNext(c)))

FairSpec == Spec /\ Fairness

-----------------------------------------------------------------------------
TypeOK ==
  /\ MachinesTypeOK /\ WireTypeOK /\ SequencerTypeOK /\ HeartbeatTypeOK /\ ClientTypeOK

(* The message a broadcast was started with is still the head of the queue *)
(* when removeElement(sequencer_queue, 0) takes the head away: the other   *)
(* threads only append (sequencer.c:263-268).                              *)
CastIsHead ==
  cast # NoCast =>
    /\ sequencer_queue # <<>>
    /\ Head(sequencer_queue) = [v |-> cast.v, m |-> cast.msg]

(* Likewise the line that waits for MSG_RES is still the head of           *)
(* outgoing_queue when it is removed, the printer's resends included, and  *)
(* it is in temp_queue or has come back (client.c:506-520, 390).           *)
SendingIsHead ==
  \A c \in Clients : sending[c] =>
    /\ outgoing_queue[c] # <<>>
    /\ \/ \E n \in DOMAIN temp_queue[c] : temp_queue[c][n].text = Head(outgoing_queue[c])
       \/ \E i \in 2..Len(outgoing_queue[c]) : outgoing_queue[c][i] = Head(outgoing_queue[c])
       \/ \E k \in DOMAIN printed[c] : printed[c][k].text = Head(outgoing_queue[c])

(* The locked part of the numbering (sequencer.c:109-112, 133-136,         *)
(* 168-171, 317-320): whatever the threads do, the messages are queued     *)
(* under consecutive numbers, and what waits to be broadcast is the end of *)
(* that list.                                                              *)
Numbered ==
  /\ currentSequenceNum = Len(order)
  /\ \A i \in DOMAIN order : order[i].v = i - 1
  /\ Len(sequencer_queue) <= Len(order)
  /\ \A i \in DOMAIN sequencer_queue :
       sequencer_queue[i] = order[Len(order) - Len(sequencer_queue) + i]

(* What the unlocked read of currentSequenceNum can and cannot do          *)
(* (sequencer.c:105, 127, 164, 313): a message may carry a number that     *)
(* somebody else takes first, never one that is still to be given out.     *)
StampNotAhead ==
  /\ \A i \in DOMAIN order : order[i].m.seq <= order[i].v
  /\ \A t \in Thread : draft[t] # Idle => draft[t].msg.seq <= currentSequenceNum

(* A joiner is never told to expect the number of its own notice or an     *)
(* earlier one: broadcast_message skips it there ("notifying of own join   *)
(* is bad", sequencer.c:206-207), so it would wait for that number forever *)
(* (sequencer.c:143 against 127 and 134).                                  *)
JoinerBeyondOwnNotice ==
  \A c \in Clients : status[c] = "in" =>
    \A i \in DOMAIN order :
      order[i].m.type = "NEW_USER" /\ order[i].m.about = c
        => order[i].m.seq <= latestSequenceNum[c]

(* What is on a client's screen is a stretch of the numbering without gap  *)
(* or repetition, up to latestSequenceNum, and consists of messages the    *)
(* leader queued: retransmissions and reordering never show (client.c:365- *)
(* 405).                                                                   *)
ScreenInOrder ==
  \A c \in Clients : \A k \in DOMAIN printed[c] :
    /\ printed[c][k].seq = latestSequenceNum[c] - Len(printed[c]) + k
    /\ \E i \in DOMAIN order : order[i].m = printed[c][k]

(* The leader's own screen is the order of its queue (sequencer.c:199-200, *)
(* 261-270).                                                               *)
LeaderShowsOrder ==
  /\ Len(printed[Leader]) <= Len(order)
  /\ \A k \in DOMAIN printed[Leader] : printed[Leader][k] = order[k].m

(* Total order as the members see it: two members that show a message      *)
(* under the same number show the same message.                            *)
Agreement ==
  \A m1, m2 \in Machine : \A j \in DOMAIN printed[m1], k \in DOMAIN printed[m2] :
    printed[m1][j].seq = printed[m2][k].seq => printed[m1][j] = printed[m2][k]

(* What a client's user typed is never dropped (client.c:494-519,          *)
(* 382-393): it waits in outgoing_queue, or in temp_queue for its return,  *)
(* or is on the client's own screen, whatever the order in which the       *)
(* answer, the broadcast and a resend arrive.                              *)
NoLineForgotten ==
  \A c \in Clients : \A k \in 1..lines[c] :
    \/ \E i \in DOMAIN outgoing_queue[c] : outgoing_queue[c][i] = <<c, k>>
    \/ \E i \in DOMAIN temp_queue[c] : temp_queue[c][i].text = <<c, k>>
    \/ \E i \in DOMAIN printed[c] : printed[c][i].text = <<c, k>>

NoDeparture == \A i \in DOMAIN order : order[i].m.type # "LEAVE"

(* Message order[i] still has to be sent to m, perhaps again. *)
StillToSend(m, i) ==
  \E k \in DOMAIN sequencer_queue :
    /\ sequencer_queue[k] = order[i]
    /\ k > 1 \/ cast = NoCast \/ m \notin cast.served \/ (cast.stage = "wait" /\ cast.to = m)

(* Every message a client still expects is on its way to it: in the        *)
(* leader's queue, in the network or in client_queue -- also for those who *)
(* join while a broadcast is under way; also when acknowledgements are     *)
(* late and a broadcast moves on after somebody else's (sequencer.c:195-   *)
(* 235); and, if no timeout is early, when up to three datagrams are lost: *)
(* a broadcast is sent four times (lines 221-233).                         *)
EnoughArrives == lost = 0 \/ (early = 0 /\ lost <= 3)

NothingMissing ==
  EnoughArrives /\ NoDeparture =>
    \A c \in Clients : InChat(c) =>
      \A i \in DOMAIN order : order[i].m.seq > latestSequenceNum[c] =>
        \/ StillToSend(c, i)
        \/ \E d \in Addressed("CAST", c) : d.msg = order[i].m
        \/ \E k \in DOMAIN client_queue[c] : client_queue[c][k].m = order[i].m

(* Nothing is on its way that could still change a table. *)
Quiet ==
  /\ sequencer_queue = <<>>
  /\ \A t \in Thread : draft[t] = Idle
  /\ \A d \in net : d.type \notin {"CAST", "JOIN_RES"}

(* Everybody's table names the same members once the notices have arrived, *)
(* however joins, snapshots (sequencer.c:144, client.c:56) and notices     *)
(* (client.c:295-296) cross.                                               *)
ViewsAgree ==
  Quiet /\ lost = 0 /\ NoDeparture =>
    \A c \in Clients : InChat(c) => Listed(c) = Listed(Leader)

(* When a broadcast ends it has visited every member of the table, those  *)
(* who joined meanwhile included (sequencer.c:195-235), as long as no      *)
(* member is removed from the table.                                       *)
BroadcastReachesAllStaying ==
  [][cast # NoCast /\ cast' = NoCast /\ NoDeparture
       => Listed(Leader) \subseteq cast.served]_vars

(* A line comes back to its writer's screen (client.c:505-525, 358-411),   *)
(* and every number given out reaches every member's screen.               *)
TypedComesBack ==
  \A c \in Clients : \A k \in 1..MaxLines :
    lines[c] >= k ~> \E i \in DOMAIN printed[c] : printed[c][i].text = <<c, k>>

EveryMemberShowsAll ==
  \A c \in Clients : \A n \in 1..(Cardinality(Clients) * (MaxLines + 1)) :
    InChat(c) /\ Len(order) >= n ~> latestSequenceNum[c] >= n - 1

(* Each message has a number of its own: "The sequence number is assigned  *)
(* to each message based on the order it arrived in. It is incremented     *)
(* each time a message arrives." (README.md)                               *)
FreshStamps ==
  \A i, j \in DOMAIN order : i # j => order[i].m.seq # order[j].m.seq

(* "every machine knows at all times who is in the chat, regardless of     *)
(* failure" (README.md): a client that has shown the notice of a departure *)
(* does not list the departed member.                                      *)
DepartedUnlisted ==
  \A c \in Clients : \A k \in DOMAIN printed[c] :
    printed[c][k].type = "LEAVE" => printed[c][k].text[1] \notin Listed(c)

(* "If after some time the message from temp_queue is not returned, the    *)
(* client adds it back to outgoing_queue to ensure messages are not lost"  *)
(* (README.md): a line that was added back reaches the screen.             *)
AddedBackIsShown ==
  \A c \in Clients : \A k \in 1..MaxLines :
    (\E i \in DOMAIN outgoing_queue[c] : i > 1 /\ outgoing_queue[c][i] = <<c, k>>
        /\ outgoing_queue[c][1] = <<c, k>>)
      ~> \E i \in DOMAIN printed[c] : printed[c][i].text = <<c, k>>
=============================================================================
