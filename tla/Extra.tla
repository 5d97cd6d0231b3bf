-------------------------------- MODULE Extra --------------------------------
(***************************************************************************)
(* The chat of extra_credit_src: the leader (Priority, Traffic) and the    *)
(* clients as far as ciphering, traffic control and the two queues change  *)
(* what they do.  A client's table, its election and its answers to beats  *)
(* are as in Client and Election, and left out.                            *)
(***************************************************************************)
EXTENDS Priority

CONSTANT ResendAfter   \* 1000 in sortAndPrint
ASSUME ResendAssumption == ResendAfter \in Nat

(* Every variable but lost is a function of the client.                    *)
VARIABLES
  status,              \* "out", "asking", "in"
  latestSequenceNum,
  client_queue,        \* the nodes' m
  outgoing_queue,      \* the texts of the nodes' messages
  temp_queue,          \* the nodes' v, and sender_seq and text of their m
  sendSeqNum,
  lines,               \* how many lines the user has typed
  lost                 \* how many datagrams were lost

clientVars ==
  <<status, latestSequenceNum, client_queue, outgoing_queue, temp_queue,
    sendSeqNum, lines>>
vars == <<bounds, trafficVars, leaderVars, net, printed, clientVars, lost>>

SentNode == [v : Nat, sender_seq : Nat, text : Text]

(* addElement without a lock: while another of the client's threads adds   *)
(* to the same queue, or removes from it, the new node may be lost, as in  *)
(* Priority.                                                               *)
Added(queue, node, disturbed) ==
  {Append(queue, node)} \cup (IF disturbed THEN {queue} ELSE {})

Mut_IsNext(c, i) == client_queue[c][i].seq > latestSequenceNum[c]
IsNext(c, i) == client_queue[c][i].seq = latestSequenceNum[c] + 1

(* What user_input, send_out_input and sortAndPrint may be in the middle   *)
(* of.                                                                     *)
Typing(c) == lines[c] < bounds.lines[c]
Sending(c) == sender[c].at = "request"
Printing(c) == \E i \in DOMAIN client_queue[c] : IsNext(c, i)

-----------------------------------------------------------------------------
(* client_start: the leader is asked, and its answer is the number to      *)
(* expect next.                                                            *)
AskToJoin(c) ==
  /\ status[c] = "out" /\ c \in bounds.joiners
  /\ status' = [status EXCEPT ![c] = "asking"]
  /\ net' = net \cup {[type |-> "JOIN_REQ", from |-> c]}
  /\ UNCHANGED <<latestSequenceNum, client_queue, outgoing_queue, temp_queue, sendSeqNum,
                 lines, trafficVars, leaderVars, printed>>

EnterChat(c) ==
  /\ status[c] = "asking"
  /\ \E d \in net :
       /\ d.type = "JOIN_RES" /\ d.to = c
       /\ latestSequenceNum' = [latestSequenceNum EXCEPT ![c] = d.seq - 1]
       /\ net' = net \ {d}
  /\ status' = [status EXCEPT ![c] = "in"]
  /\ UNCHANGED <<client_queue, outgoing_queue, temp_queue, sendSeqNum, lines, trafficVars,
                 leaderVars, printed>>

(* user_input. *)
TypeClientLine(c) ==
  /\ status[c] = "in" /\ Typing(c)
  /\ lines' = [lines EXCEPT ![c] = @ + 1]
  /\ \E queue \in Added(outgoing_queue[c], Plain(<<c, lines[c] + 1>>), Sending(c) \/ Printing(c)) :
       outgoing_queue' = [outgoing_queue EXCEPT ![c] = queue]
  /\ UNCHANGED <<status, latestSequenceNum, client_queue, temp_queue, sendSeqNum,
                 trafficVars, leaderVars, net, printed>>

(* send_out_input, msg_request: a copy of the head is encrypted and sent.  *)
SendLine(c) ==
  /\ status[c] = "in" /\ MaySend(c) /\ outgoing_queue[c] # <<>>
  /\ sendSeqNum[c] < bounds.requests
  /\ LET text == Head(outgoing_queue[c])
         sent == [v |-> 0, sender_seq |-> sendSeqNum[c], text |-> text]
     IN  /\ \E queue \in Added(temp_queue[c], sent, Printing(c)) :
              temp_queue' = [temp_queue EXCEPT ![c] = queue]
         /\ net' = net \cup {[type |-> "MSG_REQ", from |-> c, sender_seq |-> sendSeqNum[c],
                              text |-> Encrypt(text), paced |-> sender[c].paced]}
  /\ sendSeqNum' = [sendSeqNum EXCEPT ![c] = @ + 1]
  /\ BeginRequest(c)
  /\ UNCHANGED <<status, latestSequenceNum, client_queue, outgoing_queue, lines,
                 slow_factor, heard, accounts, leaderVars, printed>>

LineReceived(c) ==
  /\ sender[c].at = "request"
  /\ \E d \in net : d.type = "MSG_RES" /\ d.to = c /\ net' = net \ {d}
  /\ outgoing_queue' = [outgoing_queue EXCEPT ![c] = Tail(@)]
  /\ EndRequest(c)
  /\ UNCHANGED <<status, latestSequenceNum, client_queue, temp_queue, sendSeqNum, lines,
                 slow_factor, heard, accounts, leaderVars, printed>>

(* parse_incoming_cl on a broadcast.                                       *)
Deliver(c) ==
  /\ status[c] = "in"
  /\ \E d \in net :
       /\ d.type = "CAST" /\ d.to = c
       /\ \E queue \in Added(client_queue[c], d.msg, Printing(c)) :
            client_queue' = [client_queue EXCEPT ![c] = queue]
       /\ net' = net \ {d}
  /\ UNCHANGED <<status, latestSequenceNum, outgoing_queue, temp_queue, sendSeqNum, lines,
                 trafficVars, leaderVars, printed>>

(* sortAndPrint: as in Client, with the node decrypted before it is shown. *)
IsOwn(c, msg, sent) == msg.about = c /\ msg.sender_seq = sent.sender_seq

Aged(temp) == [n \in DOMAIN temp |-> [temp[n] EXCEPT !.v = @ + 1]]
StopsAt(c, msg, temp) ==
  {n \in DOMAIN temp : IsOwn(c, msg, temp[n]) \/ temp[n].v > ResendAfter}

PrintNext(c) ==
  /\ status[c] = "in"
  /\ \E i \in DOMAIN client_queue[c] :
       /\ IsNext(c, i) /\ \A j \in 1..(i - 1) : ~IsNext(c, j)
       /\ client_queue' = [client_queue EXCEPT ![c] = RemoveAt(@, i)]
       /\ LET msg == Decrypted(client_queue[c][i])
              temp == Aged(temp_queue[c])
              stops == StopsAt(c, msg, temp)
              n == First(stops)
          IN  /\ printed' = [printed EXCEPT ![c] = Append(@, msg)]
              /\ temp_queue' = [temp_queue EXCEPT ![c] =
                                   IF stops = {} THEN temp ELSE RemoveAt(temp, n)]
              /\ IF stops = {} \/ IsOwn(c, msg, temp[n])
                   THEN UNCHANGED outgoing_queue
                   ELSE \E queue \in Added(outgoing_queue[c], temp[n].text, Sending(c) \/ Typing(c)) :
                          outgoing_queue' = [outgoing_queue EXCEPT ![c] = queue]
  /\ latestSequenceNum' = [latestSequenceNum EXCEPT ![c] = @ + 1]
  /\ UNCHANGED <<status, sendSeqNum, lines, trafficVars, leaderVars, net>>

-----------------------------------------------------------------------------
(* A second passes, whatever the threads are at.                           *)
Handling(type, c) ==
  /\ draft["listen"] # Idle
  /\ draft["listen"].msg.type = type /\ draft["listen"].msg.about = c
Second == Tick({c \in Clients : Handling("MSG_REQ", c)})

Lose ==
  /\ lost < bounds.faults
  /\ lost' = lost + 1
  /\ \/ \E d \in net : net' = net \ {d} /\ UNCHANGED trafficVars
     \/ LoseControl /\ UNCHANGED net
  /\ UNCHANGED <<leaderVars, printed, clientVars>>

Init ==
  /\ TrafficInit /\ LeaderInit
  /\ status = [c \in Clients |-> "out"]
  /\ latestSequenceNum = [c \in Clients |-> 0]
  /\ client_queue = [c \in Clients |-> <<>>]
  /\ outgoing_queue = [c \in Clients |-> <<>>]
  /\ temp_queue = [c \in Clients |-> <<>>]
  /\ sendSeqNum = [c \in Clients |-> 0]
  /\ lines = [c \in Clients |-> 0]
  /\ lost = 0

LeaderStep == (Input \/ Listen \/ SendHb \/ SendQueue) /\ UNCHANGED clientVars
PacingStep(c) ==
  /\ CarryOut(c) \/ BeginWait(c) \/ EndWait(c)
  /\ status[c] = "in"
  /\ UNCHANGED <<leaderVars, net, printed, clientVars>>
ClientStep(c) ==
  \/ AskToJoin(c) \/ EnterChat(c) \/ TypeClientLine(c) \/ SendLine(c) \/ LineReceived(c)
  \/ Deliver(c) \/ PrintNext(c) \/ PacingStep(c)

Next ==
  /\ \/ LeaderStep /\ UNCHANGED lost
     \/ \E c \in Clients : ClientStep(c) /\ UNCHANGED lost
     \/ Second /\ UNCHANGED <<leaderVars, net, printed, clientVars, lost>>
     \/ Lose
  /\ UNCHANGED bounds

Spec == Init /\ [][Next]_vars

-----------------------------------------------------------------------------
TypeOK ==
  /\ TrafficTypeOK /\ LeaderTypeOK
  /\ status \in [Clients -> {"out", "asking", "in"}]
  /\ latestSequenceNum \in [Clients -> Int]
  /\ client_queue \in [Clients -> Seq(Message)]
  /\ outgoing_queue \in [Clients -> Seq(Text)]
  /\ temp_queue \in [Clients -> Seq(SentNode)]
  /\ sendSeqNum \in [Clients -> Nat]
  /\ lines \in [Clients -> Nat]
  /\ lost \in Nat

(* "The encryption is done before any messages are sent from either the    *)
(* client or sequencer and decryption is done before the messages are      *)
(* printed to the screen": the content of a line on its way to the leader  *)
(* and of a broadcast is ciphered exactly once, and on no screen, although *)
(* the same node is kept, copied, sent again and broadcast to many         *)
(* (sequencer.c:114-117, 156-159, 219-224; client.c:233-236, 386-388).     *)
PlainOnlyOnScreens ==
  /\ \A m \in Machine : \A k \in DOMAIN printed[m] : printed[m][k].text.layers = 0
  /\ \A d \in net : /\ d.type = "MSG_REQ" => d.text.layers = 1
                    /\ d.type = "CAST" => d.msg.text.layers = 1

(* "High priority messages will all be sent out before low priority        *)
(* messages are sent out": a notice lets at most one line overtake it, the *)
(* one that sequencer_send_queue had already decided to look for when the  *)
(* notice was queued (sequencer.c:381-388).                                *)
NoticeOvertakenOnce == passed <= 1

(* What the leader shows of each queue is what was put into it, in that    *)
(* order, whatever the other queue and its threads do: the n-th message    *)
(* shown of a kind is the n-th queued, the head removed is the head that   *)
(* was broadcast (sequencer.c:379-390).                                    *)
ShownOf(important, k) == {j \in 1..k : Important(printed[Leader][j]) = important}
EachQueueInOrder ==
  \A k \in DOMAIN printed[Leader] :
    LET msg == printed[Leader][k]
        put == added[Important(msg)]
        n == Cardinality(ShownOf(Important(msg), k))
    IN  n <= Len(put) /\ msg = Decrypted(put[n])

(* A client still shows its messages by number and without a gap, although *)
(* they are broadcast out of that order (client.c:376-416).                *)
ScreenByNumber ==
  \A c \in Clients : \A k \in DOMAIN printed[c] :
    printed[c][k].seq = latestSequenceNum[c] - Len(printed[c]) + k

(* traffic_control: whom the leader has slowed has an average that is not  *)
(* above the threshold, and whom it has not, one that is not below         *)
(* (sequencer.c:289-346), whichever lines came or left the table between.  *)
SlowFitsTimes ==
  \A i \in DOMAIN slots :
    IF slots[i].slow THEN ~SlowEnough(slots[i].times) ELSE ~TooFast(slots[i].times)

(* A member pays for its own lines only: as long as no line came from a    *)
(* machine that had been removed, msg_times holds the gaps of the member's *)
(* own lines, the last NUM_TIMES_TRACKED (sequencer.c:266-286).            *)
PaysForOwnLines ==
  ~strangers =>
    \A i \in DOMAIN slots :
      Len(slots[i].times) =
        IF handled[slots[i].id] < NumTimesTracked THEN handled[slots[i].id] ELSE NumTimesTracked

(* A client goes at the pace its leader believes it goes at, once it has   *)
(* carried out the last CTRL message last: nothing repeats a CTRL message  *)
(* that is lost or overtaken (sequencer.c:299-346, client.c:280-283).      *)
PaceAgreed ==
  \A i \in DOMAIN slots :
    LET c == slots[i].id
    IN  c \in Clients /\ heard[c] = told[c] => slow_factor[c] = slots[i].slow

(* Waiting before each line is enough to be let go: the gap the leader     *)
(* measures before a line that was sent after a wait falls short of the    *)
(* wait only by the seconds of it that the leader spent on the line before *)
(* (from its MSG_RES, which starts the wait, to its taking of the time),   *)
(* and by one, as the clocks are not in phase; at SlowFactor 3 and a       *)
(* leader that spends none the two seconds left are still above            *)
(* CTRL_THRESH (client.c:519-531, sequencer.c:168, 284-287).               *)
WaitedLinesSpaced ==
  ~strangers =>
    \A d \in net : d.type = "MSG_REQ" /\ d.paced =>
      \A i \in SlotsOf(d.from) :
        \/ slots[i].since + sender[d.from].held >= SlowFactor - 1
        \/ slots[i].since >= bounds.gap
=============================================================================
