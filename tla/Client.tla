------------------------------- MODULE Client -------------------------------
(***************************************************************************)
(* client.c without its election: a member that is not the leader.  It     *)
(* joins, sends what its user types one line at a time, keeps each line it *)
(* has sent until the leader's broadcast brings it back, and shows the     *)
(* broadcasts in the order of their numbers.                               *)
(***************************************************************************)
EXTENDS Wire, Integers

CONSTANTS
  ResendAfter,   \* 1000 in sortAndPrint
  MaxLines       \* bound: how many lines each client's user types

ASSUME ClientAssumption == ResendAfter \in Nat /\ MaxLines \in Nat

(* Every variable is a function of the client. *)
VARIABLES
  status,             \* "out", "asking" (in join_request), "in" (client_loop)
  host,               \* host_ip:host_port
  latestSequenceNum,
  client_queue,       \* the nodes' v and m
  outgoing_queue,     \* the texts of the nodes' messages
  temp_queue,         \* the nodes' v, and sender_seq and text of their m
  sendSeqNum,
  sending,            \* send_out_input is in msg_request
  lines               \* how many lines the user has typed

clientVars == <<status, host, latestSequenceNum, client_queue, outgoing_queue,
                temp_queue, sendSeqNum, sending, lines>>

QueuedNode == [v : Nat, m : Message]
SentNode == [v : Nat, sender_seq : Nat, text : Machine \X Nat]

InChat(c) == status[c] = "in" /\ c \notin gone

-----------------------------------------------------------------------------
(* client_start, join_request: the user names a machine to ask. *)
AskToJoin(c, h) ==
  /\ status[c] = "out" /\ c \notin gone
  /\ h = Leader \/ (h \in Clients /\ InChat(h))
  /\ status' = [status EXCEPT ![c] = "asking"]
  /\ host' = [host EXCEPT ![c] = h]
  /\ Transmit({}, {[type |-> "JOIN_REQ", from |-> c, to |-> h]})
  /\ UNCHANGED <<latestSequenceNum, client_queue, outgoing_queue, temp_queue,
                 sendSeqNum, sending, lines, gone, lost, early, machineVars>>

(* parse_incoming_cl on a JOIN_REQ: who the leader is. *)
RedirectJoiner(c) ==
  /\ InChat(c)
  /\ \E d \in Addressed("JOIN_REQ", c) :
       Transmit({d}, {[type |-> "JOIN_RES", to |-> d.from, isLeader |-> FALSE,
                       host |-> host[c], seq |-> 0, table |-> others[c]]})
  /\ UNCHANGED <<clientVars, gone, lost, early, machineVars>>

(* The machine asked was not the leader: ask the one it named. *)
AskLeader(c) ==
  /\ status[c] = "asking"
  /\ \E d \in Addressed("JOIN_RES", c) :
       /\ ~d.isLeader
       /\ host' = [host EXCEPT ![c] = d.host]
       /\ Transmit({d}, {[type |-> "JOIN_REQ", from |-> c, to |-> d.host]})
  /\ UNCHANGED <<status, latestSequenceNum, client_queue, outgoing_queue,
                 temp_queue, sendSeqNum, sending, lines, gone, lost, early,
                 machineVars>>

Mut_LatestAtJoin(number) == number
LatestAtJoin(number) == number - 1

(* The leader's answer: the number to expect and the table.  From here on  *)
(* client_loop's threads run; what was sent to the socket before waits.    *)
EnterChat(c) ==
  /\ status[c] = "asking"
  /\ \E d \in Addressed("JOIN_RES", c) :
       /\ d.isLeader
       /\ Transmit({d}, {})
       /\ latestSequenceNum' = [latestSequenceNum EXCEPT ![c] = LatestAtJoin(d.seq)]
       /\ others' = [others EXCEPT ![c] = UpdateClients(@, d.table)]
  /\ status' = [status EXCEPT ![c] = "in"]
  /\ UNCHANGED <<host, client_queue, outgoing_queue, temp_queue, sendSeqNum,
                 sending, lines, gone, lost, early, printed>>

(* join_request: three seconds without an answer end the process.          *)
(* `answering' says that the leader is busy with this very request.        *)
GiveUpJoin(c, answering) ==
  /\ status[c] = "asking" /\ c \notin gone
  /\ TimeoutExpires(\/ answering
                    \/ \E d \in net : \/ d.type = "JOIN_REQ" /\ d.from = c
                                      \/ d.type = "JOIN_RES" /\ d.to = c)
  /\ CloseSockets(c)
  /\ UNCHANGED <<clientVars, lost, machineVars>>

-----------------------------------------------------------------------------
(* user_input. *)
TypeClientLine(c) ==
  /\ InChat(c) /\ lines[c] < MaxLines
  /\ lines' = [lines EXCEPT ![c] = @ + 1]
  /\ outgoing_queue' = [outgoing_queue EXCEPT ![c] = Append(@, <<c, lines[c] + 1>>)]
  /\ UNCHANGED <<status, host, latestSequenceNum, client_queue, temp_queue,
                 sendSeqNum, sending, wireVars, machineVars>>

(* send_out_input: the head of outgoing_queue gets its sender_seq, goes    *)
(* into temp_queue and to the leader; msg_request waits without a timeout. *)
SendLine(c) ==
  /\ InChat(c) /\ ~sending[c] /\ outgoing_queue[c] # <<>>
  /\ LET text == Head(outgoing_queue[c])
         msg == [type |-> "MSG_REQ", about |-> c, seq |-> 0,
                 sender_seq |-> sendSeqNum[c], text |-> text]
     IN  /\ temp_queue' = [temp_queue EXCEPT ![c] =
               Append(@, [v |-> 0, sender_seq |-> sendSeqNum[c], text |-> text])]
         /\ Transmit({}, {[type |-> "MSG_REQ", from |-> c, to |-> host[c], msg |-> msg]})
  /\ sendSeqNum' = [sendSeqNum EXCEPT ![c] = @ + 1]
  /\ sending' = [sending EXCEPT ![c] = TRUE]
  /\ UNCHANGED <<status, host, latestSequenceNum, client_queue, outgoing_queue,
                 lines, gone, lost, early, machineVars>>

(* MSG_RES: the line leaves outgoing_queue. *)
LineReceived(c) ==
  /\ InChat(c) /\ sending[c]
  /\ \E d \in Addressed("MSG_RES", c) : Transmit({d}, {})
  /\ outgoing_queue' = [outgoing_queue EXCEPT ![c] = Tail(@)]
  /\ sending' = [sending EXCEPT ![c] = FALSE]
  /\ UNCHANGED <<status, host, latestSequenceNum, client_queue, temp_queue,
                 sendSeqNum, lines, gone, lost, early, machineVars>>

-----------------------------------------------------------------------------
(* parse_incoming_cl on a broadcast: queue it under its stamp, acknowledge *)
(* it, and carry out what it says about the table.  latestSequenceNum is   *)
(* the printer's business.                                                 *)
Mut_TableAfter(table, msg) ==
  IF msg.type = "LEAVE" THEN RemoveClient(table, msg.about, IsLeader(msg.about)) ELSE table
TableAfter(table, msg) ==
  CASE msg.type = "NEW_USER" -> AddClient(table, msg.about)
    [] msg.type = "LEAVE" -> RemoveClient(table, msg.about, IsLeader(msg.about))
    [] OTHER -> table

Deliver(c) ==
  /\ InChat(c)
  /\ \E d \in Addressed("CAST", c) :
       /\ client_queue' = [client_queue EXCEPT ![c] =
                              Append(@, [v |-> d.msg.seq, m |-> d.msg])]
       /\ Transmit({d}, {[type |-> "ACK", from |-> c, to |-> Leader,
                          v |-> d.v, try |-> d.try]})
       /\ others' = [others EXCEPT ![c] = TableAfter(@, d.msg)]
  /\ UNCHANGED <<status, host, latestSequenceNum, outgoing_queue, temp_queue,
                 sendSeqNum, sending, lines, gone, lost, early, printed>>

(* sortAndPrint: the first node with the number expected next.  Every line *)
(* in temp_queue ages by one; the scan of temp_queue then stops at the     *)
(* first line that is the one being printed (it leaves temp_queue) or that *)
(* is too old (it goes back to outgoing_queue).                            *)
Mut_IsNext(c, i) == client_queue[c][i].v > latestSequenceNum[c]
IsNext(c, i) == client_queue[c][i].v = latestSequenceNum[c] + 1
Mut_IsOwn(c, msg, sent) == msg.sender_seq = sent.sender_seq
IsOwn(c, msg, sent) == msg.about = c /\ msg.sender_seq = sent.sender_seq

Aged(temp) == [n \in DOMAIN temp |-> [temp[n] EXCEPT !.v = @ + 1]]
StopsAt(c, msg, temp) ==
  First({n \in DOMAIN temp : IsOwn(c, msg, temp[n]) \/ temp[n].v > ResendAfter})

PrintNext(c) ==
  /\ InChat(c)
  /\ \E i \in DOMAIN client_queue[c] :
       /\ IsNext(c, i) /\ \A j \in 1..(i - 1) : ~IsNext(c, j)
       /\ client_queue' = [client_queue EXCEPT ![c] = RemoveAt(@, i)]
       /\ LET msg == client_queue[c][i].m
              temp == Aged(temp_queue[c])
              n == StopsAt(c, msg, temp)
          IN  /\ PrintMessage(c, msg)
              /\ temp_queue' = [temp_queue EXCEPT ![c] =
                                   IF n = 0 THEN temp ELSE RemoveAt(temp, n)]
              /\ outgoing_queue' =
                   IF n = 0 \/ IsOwn(c, msg, temp[n]) THEN outgoing_queue
                   ELSE [outgoing_queue EXCEPT ![c] = Append(@, temp[n].text)]
  /\ latestSequenceNum' = [latestSequenceNum EXCEPT ![c] = @ + 1]
  /\ UNCHANGED <<status, host, sendSeqNum, sending, lines, wireVars, others>>

-----------------------------------------------------------------------------
(* recv_clnt_hb: a beat is answered at once. *)
AnswerBeat(c) ==
  /\ InChat(c)
  /\ \E d \in Addressed("BEAT", c) :
       Transmit({d}, {[type |-> "BEAT_ACK", from |-> c, to |-> Leader,
                       round |-> d.round]})
  /\ UNCHANGED <<clientVars, gone, lost, early, machineVars>>

(* End of input (client_trigger = 1) or a crash: the process ends. *)
Quit(c) ==
  /\ InChat(c)
  /\ CloseSockets(c)
  /\ UNCHANGED <<clientVars, lost, early, machineVars>>

ClientTypeOK ==
  /\ status \in [Clients -> {"out", "asking", "in"}]
  /\ host \in [Clients -> Machine]
  /\ latestSequenceNum \in [Clients -> Int]
  /\ client_queue \in [Clients -> Seq(QueuedNode)]
  /\ outgoing_queue \in [Clients -> Seq(Machine \X Nat)]
  /\ temp_queue \in [Clients -> Seq(SentNode)]
  /\ sendSeqNum \in [Clients -> Nat]
  /\ sending \in [Clients -> BOOLEAN]
  /\ lines \in [Clients -> Nat]

ClientInit ==
  /\ status = [c \in Clients |-> "out"]
  /\ host = [c \in Clients |-> Leader]
  /\ latestSequenceNum = [c \in Clients |-> 0]
  /\ client_queue = [c \in Clients |-> <<>>]
  /\ outgoing_queue = [c \in Clients |-> <<>>]
  /\ temp_queue = [c \in Clients |-> <<>>]
  /\ sendSeqNum = [c \in Clients |-> 0]
  /\ sending = [c \in Clients |-> FALSE]
  /\ lines = [c \in Clients |-> 0]
=============================================================================
