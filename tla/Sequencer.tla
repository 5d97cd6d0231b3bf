----------------------------- MODULE Sequencer ------------------------------
(***************************************************************************)
(* sequencer.c: the leader.  Three of its threads put messages into        *)
(* `sequencer_queue': the main thread the leader's own lines ("input"),    *)
(* the listener what clients send ("listen"), the heartbeat sender the     *)
(* notices of departures ("send_hb").  Each first copies                   *)
(* currentSequenceNum into the message and only afterwards takes           *)
(* msg_queue_lock to queue it, so the copy (`stamp', header.seq_num) and   *)
(* the number it is queued under (node v) are two different reads.  A      *)
(* fourth thread broadcasts the head of the queue, member after member.    *)
(***************************************************************************)
EXTENDS Wire

CONSTANT MaxTyped   \* bound: how many lines the leader's user types
ASSUME SequencerAssumption == MaxTyped \in Nat

VARIABLES
  currentSequenceNum,
  sequencer_queue,   \* the nodes' v and m
  draft,             \* per thread: the message it is about to queue
  typed,             \* how many lines the leader's user has typed
  cast,              \* the broadcast under way
  order              \* history: everything ever put into sequencer_queue

sequencerVars ==
  <<currentSequenceNum, sequencer_queue, draft, typed, cast, order>>

Thread == {"input", "listen", "send_hb"}
Node == [v : Nat, m : Message]

Idle == [step |-> "idle"]
Draft == {Idle} \cup [step : {"add", "enqueue", "reply"}, msg : Message]

(* A broadcast: the message and the number it was queued under, the slot   *)
(* of the table it has come to, the member it waits for an answer of, the  *)
(* number of timeouts it met there; `served' is a history of the members   *)
(* whose slot it has visited.                                              *)
NoCast == [stage |-> "none"]
Cast == {NoCast} \cup
  [stage : {"next", "wait"}, v : Nat, msg : Message, i : Nat \ {0},
   to : Machine, n : 0..2, served : SUBSET Machine]

Mut_Stamp == currentSequenceNum + 1

(* The message a thread makes up, stamped with a read of                   *)
(* currentSequenceNum outside the lock.                                    *)
Stamp == currentSequenceNum
Stamped(type, about, sender_seq, text) ==
  [type |-> type, about |-> about, seq |-> Stamp,
   sender_seq |-> sender_seq, text |-> text]

Hold(t, step, msg) == draft' = [draft EXCEPT ![t] = [step |-> step, msg |-> msg]]
Release(t) == draft' = [draft EXCEPT ![t] = Idle]

-----------------------------------------------------------------------------
(* sequencer_loop: a line of the leader's user. *)
TypeLine ==
  /\ draft["input"] = Idle
  /\ typed < MaxTyped
  /\ typed' = typed + 1
  /\ Hold("input", "enqueue", Stamped("MSG_REQ", Leader, 0, <<Leader, typed + 1>>))
  /\ UNCHANGED <<currentSequenceNum, sequencer_queue, cast, order, wireVars, machineVars>>

(* parse_incoming_seq on a JOIN_REQ, in four steps: the notice is stamped, *)
(* the member entered in the table, the notice queued (Enqueue), the       *)
(* joiner answered with a later read of currentSequenceNum.                *)
StampJoin ==
  /\ draft["listen"] = Idle
  /\ \E d \in Addressed("JOIN_REQ", Leader) :
       /\ Transmit({d}, {})
       /\ Hold("listen", "add", Stamped("NEW_USER", d.from, 0, <<d.from, 0>>))
  /\ UNCHANGED <<currentSequenceNum, sequencer_queue, typed, cast, order,
                 gone, lost, early, machineVars>>

EnterJoiner ==
  /\ draft["listen"].step = "add"
  /\ LET msg == draft["listen"].msg
     IN  /\ others' = [others EXCEPT ![Leader] = AddClient(@, msg.about)]
         /\ Hold("listen", "enqueue", msg)
  /\ UNCHANGED <<currentSequenceNum, sequencer_queue, typed, cast, order,
                 printed, wireVars>>

(* response.header.seq_num, read after the notice has been queued. *)
Mut_JoinNumber == draft["listen"].msg.seq
JoinNumber == currentSequenceNum

AnswerJoiner ==
  /\ draft["listen"].step = "reply"
  /\ LET joiner == draft["listen"].msg.about
     IN  Transmit({}, {[type |-> "JOIN_RES", to |-> joiner, isLeader |-> TRUE,
                        host |-> Leader, seq |-> JoinNumber,
                        table |-> others[Leader]]})
  /\ Release("listen")
  /\ UNCHANGED <<currentSequenceNum, sequencer_queue, typed, cast, order,
                 gone, lost, early, machineVars>>

(* parse_incoming_seq on a MSG_REQ: MSG_RES at once, then the stamp. *)
StampLine ==
  /\ draft["listen"] = Idle
  /\ \E d \in Addressed("MSG_REQ", Leader) :
       /\ Transmit({d}, {[type |-> "MSG_RES", to |-> d.from]})
       /\ Hold("listen", "enqueue",
               Stamped("MSG_REQ", d.msg.about, d.msg.sender_seq, d.msg.text))
  /\ UNCHANGED <<currentSequenceNum, sequencer_queue, typed, cast, order,
                 gone, lost, early, machineVars>>

Mut_NumberAfter(t) == draft[t].msg.seq + 1
Mut_SameNumber(t) == currentSequenceNum
NumberAfter(t) == currentSequenceNum + 1

Mut_Queued(node) == <<node>> \o sequencer_queue
Queued(node) == Append(sequencer_queue, node)

(* lock; addElement(sequencer_queue, currentSequenceNum, ...);             *)
(* currentSequenceNum++; unlock -- the same four lines in each thread.     *)
Enqueue(t) ==
  /\ draft[t].step = "enqueue"
  /\ LET node == [v |-> currentSequenceNum, m |-> draft[t].msg]
     IN  /\ sequencer_queue' = Queued(node)
         /\ order' = Append(order, node)
  /\ currentSequenceNum' = NumberAfter(t)
  /\ IF draft[t].msg.type = "NEW_USER"
       THEN Hold(t, "reply", draft[t].msg)
       ELSE Release(t)
  /\ UNCHANGED <<typed, cast, wireVars, machineVars>>

-----------------------------------------------------------------------------
(* sequencer_send_queue and broadcast_message. *)
BroadcastStart ==
  /\ cast = NoCast
  /\ sequencer_queue # <<>>
  /\ cast' = [stage |-> "next", v |-> Head(sequencer_queue).v,
              msg |-> Head(sequencer_queue).m, i |-> 1, to |-> Leader, n |-> 0,
              served |-> {}]
  /\ UNCHANGED <<currentSequenceNum, sequencer_queue, draft, typed, order,
                 wireVars, machineVars>>

(* The slot the loop looks at: chat_size and others[i] are read anew in    *)
(* every iteration, while other threads add and remove members.            *)
AtSlot == cast.stage = "next" /\ cast.i \in DOMAIN others[Leader]
Slot == others[Leader][cast.i]
AboutJoiner == cast.msg.type = "NEW_USER" /\ cast.msg.about = Slot.id

AtNextSlot(i) ==
  [stage |-> "next", v |-> cast.v, msg |-> cast.msg, i |-> i, to |-> cast.to,
   n |-> 0, served |-> cast.served]
Mut_NextSlot == AtNextSlot(cast.i + 2)
NextSlot == AtNextSlot(cast.i + 1)
Serve == [NextSlot EXCEPT !.served = @ \cup {Slot.id}]
Transmission(to, try) ==
  [type |-> "CAST", to |-> to, v |-> cast.v, try |-> try, msg |-> cast.msg]

PrintOwn ==
  /\ AtSlot /\ Slot.isLeader
  /\ PrintMessage(Leader, cast.msg)
  /\ cast' = Serve
  /\ UNCHANGED <<currentSequenceNum, sequencer_queue, draft, typed, order,
                 others, wireVars>>

SkipJoiner ==
  /\ AtSlot /\ ~Slot.isLeader /\ AboutJoiner
  /\ cast' = Serve
  /\ UNCHANGED <<currentSequenceNum, sequencer_queue, draft, typed, order,
                 wireVars, machineVars>>

SendToMember ==
  /\ AtSlot /\ ~Slot.isLeader /\ ~AboutJoiner
  /\ Transmit({}, {Transmission(Slot.id, 0)})
  /\ cast' = [cast EXCEPT !.stage = "wait", !.to = Slot.id,
                          !.served = @ \cup {Slot.id}]
  /\ UNCHANGED <<currentSequenceNum, sequencer_queue, draft, typed, order,
                 gone, lost, early, machineVars>>

(* Any datagram that reaches the broadcast's socket counts as the answer.  *)
ReceiveAck ==
  /\ cast.stage = "wait"
  /\ \E d \in Addressed("ACK", Leader) : d.v = cast.v /\ Transmit({d}, {})
  /\ cast' = NextSlot
  /\ UNCHANGED <<currentSequenceNum, sequencer_queue, draft, typed, order,
                 gone, lost, early, machineVars>>

(* One second without an answer: send again; after the third time do not   *)
(* wait any more.                                                          *)
AckTimeout ==
  /\ cast.stage = "wait"
  /\ TimeoutExpires(\E d \in Addressed("CAST", cast.to) \cup Addressed("ACK", Leader) :
                      d.v = cast.v)
  /\ Transmit({}, {Transmission(cast.to, cast.n + 1)})
  /\ cast' = IF cast.n = 2 THEN NextSlot ELSE [cast EXCEPT !.n = @ + 1]
  /\ UNCHANGED <<currentSequenceNum, sequencer_queue, draft, typed, order,
                 gone, lost, machineVars>>

(* The table is through: the head leaves the queue, removeElement(.., 0). *)
Mut_Dequeued == sequencer_queue
Dequeued == Tail(sequencer_queue)

BroadcastEnd ==
  /\ cast.stage = "next" /\ cast.i \notin DOMAIN others[Leader]
  /\ cast' = NoCast
  /\ sequencer_queue' = Dequeued
  /\ UNCHANGED <<currentSequenceNum, draft, typed, order, wireVars, machineVars>>

-----------------------------------------------------------------------------
Listen == StampJoin \/ EnterJoiner \/ AnswerJoiner \/ StampLine \/ Enqueue("listen")
Input == TypeLine \/ Enqueue("input")
SendQueue ==
  \/ BroadcastStart \/ PrintOwn \/ SkipJoiner \/ SendToMember
  \/ ReceiveAck \/ AckTimeout \/ BroadcastEnd

SequencerTypeOK ==
  /\ currentSequenceNum \in Nat
  /\ sequencer_queue \in Seq(Node)
  /\ draft \in [Thread -> Draft]
  /\ typed \in Nat
  /\ cast \in Cast
  /\ order \in Seq(Node)

SequencerInit ==
  /\ currentSequenceNum = 0
  /\ sequencer_queue = <<>>
  /\ draft = [t \in Thread |-> Idle]
  /\ typed = 0
  /\ cast = NoCast
  /\ order = <<>>
=============================================================================
