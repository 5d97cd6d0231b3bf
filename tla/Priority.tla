------------------------------ MODULE Priority -------------------------------
(***************************************************************************)
(* extra_credit_src/sequencer.c: the leader with two queues, one for       *)
(* notices, which go first, and one for lines.  There is no lock: threads  *)
(* number, queue and remove as they come.  All content is ciphered (each   *)
(* character + 7) except while a machine shows it.                         *)
(*                                                                         *)
(* Waiting for acknowledgements and sending again are left to Sequencer,   *)
(* the beats to Heartbeat: the code is the same.  Here a broadcast goes on *)
(* to the next member when it likes, and a member is declared dead at any  *)
(* time.                                                                   *)
(***************************************************************************)
EXTENDS Traffic

VARIABLES
  net,                  \* the other datagrams in flight
  currentSequenceNum,
  important_queue, sequencer_queue,
  draft,                \* per thread: the message it is about to queue
  cast,                 \* sequencer_send_queue
  typed, dead,          \* how many lines the leader's user has typed, and
                        \* members were declared dead
  printed,              \* the messages each machine has shown, in order
  added,                \* history: what was put into the queue for notices
                        \* (TRUE) and for lines (FALSE)
  passed                \* history: the lines taken while a notice waited

queueVars == <<currentSequenceNum, important_queue, sequencer_queue, added>>
leaderVars == <<queueVars, draft, cast, typed, dead, passed>>

(* `layers' counts how often 7 was added to the characters.                *)
Text == [line : Machine \X Nat, layers : Int]
Message ==
  [type : {"MSG_REQ", "NEW_USER", "LEAVE"}, about : Machine, seq : Nat,
   sender_seq : Nat, text : Text]
Datagram ==
  [type : {"JOIN_REQ"}, from : Machine]
    \cup [type : {"JOIN_RES"}, to : Machine, seq : Nat]
    \cup [type : {"MSG_REQ"}, from : Machine, sender_seq : Nat, text : Text, paced : BOOLEAN]
    \cup [type : {"MSG_RES"}, to : Machine]
    \cup [type : {"CAST"}, to : Machine, msg : Message]

Thread == {"input", "listen", "send_hb"}
Idle == [step |-> "idle"]
Draft ==
  {Idle} \cup [step : {"enter", "add", "count", "reply", "remove"}, msg : Message]
         \cup [step : {"store"}, msg : Message, loaded : Nat]
Cast ==
  [stage : {"important", "lines"}]
    \cup [stage : {"next", "remove"}, msg : Message, i : Nat \ {0}]

Important(msg) == msg.type # "MSG_REQ"

Plain(line) == [line |-> line, layers |-> 0]
Mut_Encrypt(text) == text
Encrypt(text) == [text EXCEPT !.layers = @ + 1]
Decrypt(text) == [text EXCEPT !.layers = @ - 1]
Decrypted(msg) == [msg EXCEPT !.text = Decrypt(@)]

Stamped(type, about, sender_seq, text) ==
  [type |-> type, about |-> about, seq |-> currentSequenceNum,
   sender_seq |-> sender_seq, text |-> Encrypt(text)]

Hold(t, step, msg) == draft' = [draft EXCEPT ![t] = [step |-> step, msg |-> msg]]
Release(t) == draft' = [draft EXCEPT ![t] = Idle]

-----------------------------------------------------------------------------
(* sequencer_loop: a line of the leader's user. *)
TypeLine ==
  /\ draft["input"] = Idle /\ typed < bounds.typed
  /\ typed' = typed + 1
  /\ Hold("input", "add", Stamped("MSG_REQ", Leader, 0, Plain(<<Leader, typed + 1>>)))
  /\ UNCHANGED <<queueVars, cast, dead, passed, net, printed, trafficVars>>

(* parse_incoming_seq on JOIN_REQ.                                         *)
StampJoin ==
  /\ draft["listen"] = Idle
  /\ \E d \in net :
       /\ d.type = "JOIN_REQ"
       /\ net' = net \ {d}
       /\ Hold("listen", "enter", Stamped("NEW_USER", d.from, 0, Plain(<<d.from, 0>>)))
  /\ UNCHANGED <<queueVars, cast, typed, dead, passed, printed, trafficVars>>

EnterJoiner ==
  /\ draft["listen"].step = "enter"
  /\ slots' = AddClient(draft["listen"].msg.about)
  /\ Hold("listen", "add", draft["listen"].msg)
  /\ UNCHANGED <<queueVars, cast, typed, dead, passed, net, printed,
                 pacing, control, told, handled, strangers>>

AnswerJoiner ==
  /\ draft["listen"].step = "reply"
  /\ net' = net \cup {[type |-> "JOIN_RES", to |-> draft["listen"].msg.about,
                       seq |-> currentSequenceNum]}
  /\ Release("listen")
  /\ UNCHANGED <<queueVars, cast, typed, dead, passed, printed, trafficVars>>

(* On MSG_REQ: the content is decrypted, MSG_RES sent, and the line with   *)
(* its writer's name encrypted again.                                      *)
StampLine ==
  /\ draft["listen"] = Idle
  /\ \E d \in net :
       /\ d.type = "MSG_REQ"
       /\ net' = (net \ {d}) \cup {[type |-> "MSG_RES", to |-> d.from]}
       /\ Hold("listen", "add", Stamped("MSG_REQ", d.from, d.sender_seq, Decrypt(d.text)))
  /\ UNCHANGED <<queueVars, cast, typed, dead, passed, printed, trafficVars>>

(* send_hb: a member is declared dead.                                     *)
DeclareDead ==
  /\ draft["send_hb"] = Idle /\ dead < bounds.departures
  /\ \E m \in Listed \ {Leader} :
       Hold("send_hb", "add", Stamped("LEAVE", Leader, 0, Plain(<<m, 0>>)))
  /\ dead' = dead + 1
  /\ UNCHANGED <<queueVars, cast, typed, passed, net, printed, trafficVars>>

RemoveDeparted ==
  /\ draft["send_hb"].step = "remove"
  /\ slots' = RemoveClient(draft["send_hb"].msg.text.line[1])
  /\ Release("send_hb")
  /\ UNCHANGED <<queueVars, cast, typed, dead, passed, net, printed,
                 pacing, control, told, handled, strangers>>

-----------------------------------------------------------------------------
(* addElement without a lock: while another thread adds to the same queue, *)
(* or removes from it, one of them may undo the other's writes, and the    *)
(* new node be lost.  (It may also end the process: nothing follows then.) *)
Disturbed(t) ==
  LET msg == draft[t].msg
  IN  \/ \E u \in Thread \ {t} : /\ draft[u].step = "add"
                                 /\ Important(draft[u].msg) = Important(msg)
      \/ cast.stage = "remove" /\ Important(cast.msg) = Important(msg)

Put(msg) ==
  IF Important(msg)
    THEN /\ important_queue' = Append(important_queue, msg)
         /\ UNCHANGED sequencer_queue
    ELSE /\ sequencer_queue' = Append(sequencer_queue, msg)
         /\ UNCHANGED important_queue

Recorded(msg) == [added EXCEPT ![Important(msg)] = Append(@, msg)]

Add(t) ==
  /\ draft[t].step = "add"
  /\ \/ Put(draft[t].msg) /\ added' = Recorded(draft[t].msg)
     \/ Disturbed(t) /\ UNCHANGED <<important_queue, sequencer_queue, added>>
  /\ Hold(t, "count", draft[t].msg)
  /\ UNCHANGED <<currentSequenceNum, cast, typed, dead, passed, net, printed, trafficVars>>

(* currentSequenceNum++ loads and stores: what others stored in between is *)
(* undone.  And what the thread does next.                                 *)
Load(t) ==
  /\ draft[t].step = "count"
  /\ draft' = [draft EXCEPT ![t] =
                 [step |-> "store", msg |-> draft[t].msg, loaded |-> currentSequenceNum]]
  /\ UNCHANGED <<queueVars, cast, typed, dead, passed, net, printed, trafficVars>>

StepAfter(msg) == IF msg.type = "NEW_USER" THEN "reply" ELSE "remove"

Count(t) ==
  /\ draft[t].step = "store"
  /\ currentSequenceNum' = draft[t].loaded + 1
  /\ IF Important(draft[t].msg)
       THEN Hold(t, StepAfter(draft[t].msg), draft[t].msg)
       ELSE Release(t)
  /\ IF t = "listen" /\ ~Important(draft[t].msg)
       THEN TrafficControl(draft[t].msg.about) /\ UNCHANGED pacing
       ELSE UNCHANGED trafficVars
  /\ UNCHANGED <<important_queue, sequencer_queue, added, cast, typed, dead, passed, net,
                 printed>>

-----------------------------------------------------------------------------
(* sequencer_send_queue: the two lengths are tested one after the other.   *)
Rest(stage) == cast' = [stage |-> stage]
Start(msg) == cast' = [stage |-> "next", msg |-> msg, i |-> 1]

TakeNotice ==
  /\ cast.stage = "important" /\ important_queue # <<>>
  /\ Start(Head(important_queue))
  /\ passed' = 0

Mut_NoNotice == cast.stage = "important" /\ Rest("lines") /\ UNCHANGED passed
NoNotice ==
  /\ cast.stage = "important" /\ important_queue = <<>>
  /\ Rest("lines")
  /\ UNCHANGED passed

TakeLine ==
  /\ cast.stage = "lines" /\ sequencer_queue # <<>>
  /\ Start(Head(sequencer_queue))
  /\ passed' = IF important_queue = <<>> THEN 0 ELSE passed + 1

NoLine ==
  /\ cast.stage = "lines" /\ sequencer_queue = <<>>
  /\ Rest("important")
  /\ UNCHANGED passed

Take ==
  /\ TakeNotice \/ NoNotice \/ TakeLine \/ NoLine
  /\ UNCHANGED <<queueVars, draft, typed, dead, net, printed, trafficVars>>

(* broadcast_message, slot by slot.  The leader shows a decrypted copy;    *)
(* the joiner himself is not told that he joined.                          *)
AtSlot == cast.stage = "next" /\ cast.i \in DOMAIN slots
SlotId == slots[cast.i].id
AboutJoiner == cast.msg.type = "NEW_USER" /\ cast.msg.about = SlotId
ToNextSlot == cast' = [cast EXCEPT !.i = @ + 1]

PrintOwn ==
  /\ AtSlot /\ SlotId = Leader
  /\ printed' = [printed EXCEPT ![Leader] = Append(@, Decrypted(cast.msg))]
  /\ ToNextSlot
  /\ UNCHANGED <<queueVars, draft, typed, dead, passed, net, trafficVars>>

SkipJoiner ==
  /\ AtSlot /\ SlotId # Leader /\ AboutJoiner
  /\ ToNextSlot
  /\ UNCHANGED <<queueVars, draft, typed, dead, passed, net, printed, trafficVars>>

SendToMember ==
  /\ AtSlot /\ SlotId # Leader /\ ~AboutJoiner
  /\ net' = net \cup {[type |-> "CAST", to |-> SlotId, msg |-> cast.msg]}
  /\ ToNextSlot
  /\ UNCHANGED <<queueVars, draft, typed, dead, passed, printed, trafficVars>>

BroadcastEnd ==
  /\ cast.stage = "next" /\ cast.i \notin DOMAIN slots
  /\ cast' = [cast EXCEPT !.stage = "remove"]
  /\ UNCHANGED <<queueVars, draft, typed, dead, passed, net, printed, trafficVars>>

(* removeElement(queue, 0) on the queue the message was taken from.        *)
Mut_Unqueue(msg) ==
  IF important_queue # <<>>
    THEN important_queue' = Tail(important_queue) /\ UNCHANGED sequencer_queue
    ELSE sequencer_queue' = Tail(sequencer_queue) /\ UNCHANGED important_queue
Unqueue(msg) ==
  IF Important(msg)
    THEN important_queue' = Tail(important_queue) /\ UNCHANGED sequencer_queue
    ELSE sequencer_queue' = Tail(sequencer_queue) /\ UNCHANGED important_queue

RemoveSent ==
  /\ cast.stage = "remove"
  /\ Unqueue(cast.msg)
  /\ Rest("important")
  /\ UNCHANGED <<currentSequenceNum, added, draft, typed, dead, passed, net, printed,
                 trafficVars>>

Listen ==
  \/ StampJoin \/ EnterJoiner \/ AnswerJoiner \/ StampLine
  \/ Add("listen") \/ Load("listen") \/ Count("listen")
Input == TypeLine \/ Add("input") \/ Load("input") \/ Count("input")
SendHb == DeclareDead \/ Add("send_hb") \/ Load("send_hb") \/ Count("send_hb") \/ RemoveDeparted
SendQueue ==
  \/ Take \/ PrintOwn \/ SkipJoiner \/ SendToMember \/ BroadcastEnd \/ RemoveSent

LeaderTypeOK ==
  /\ net \subseteq Datagram
  /\ currentSequenceNum \in Nat
  /\ important_queue \in Seq(Message) /\ sequencer_queue \in Seq(Message)
  /\ draft \in [Thread -> Draft]
  /\ cast \in Cast
  /\ typed \in Nat /\ dead \in Nat
  /\ printed \in [Machine -> Seq(Message)]
  /\ added \in [BOOLEAN -> Seq(Message)]
  /\ passed \in Nat

LeaderInit ==
  /\ net = {}
  /\ currentSequenceNum = 0
  /\ important_queue = <<>> /\ sequencer_queue = <<>>
  /\ draft = [t \in Thread |-> Idle]
  /\ cast = [stage |-> "important"]
  /\ typed = 0 /\ dead = 0
  /\ printed = [m \in Machine |-> <<>>]
  /\ added = [important \in BOOLEAN |-> <<>>]
  /\ passed = 0
=============================================================================
