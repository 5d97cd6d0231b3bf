---------------------------- MODULE OrderProofs -----------------------------
(***************************************************************************)
(* From the numbers to the order: what a joiner is told, that the screens  *)
(* agree and that the chat implements TotalOrder, as long as no two        *)
(* messages carry the same number.  The second part is about what the      *)
(* members are sent.                                                       *)
(***************************************************************************)
EXTENDS ChatProofs, ChatOrder

(* A client's request to join is in one place at a time: in a JOIN_REQ, in *)
(* the hands of the leader's listener, or in an answer.  `Tokens' are the  *)
(* datagrams.                                                              *)
Token(d, c) ==
  \/ d.type = "JOIN_REQ" /\ d.from = c
  \/ d.type = "JOIN_RES" /\ d.to = c
Tokens(c) == {d \in net : Token(d, c)}

(* The answer of a member that is not the leader says nothing about the    *)
(* numbers.                                                                *)
Redirection(d) == d.type = "JOIN_RES" => ~d.isLeader /\ d.seq = 0

OneToken(c) ==
  /\ \A d, e \in Tokens(c) : d = e
  /\ Answering(c) => Tokens(c) = {}
  /\ status[c] # "asking" => Tokens(c) = {} /\ ~Answering(c)

Notice(i, c) == order[i].m.type = "NEW_USER" /\ order[i].m.about = c

(* The notice is older than what the answer says, and than what a member   *)
(* already counts as shown.                                                *)
NoticeBefore(c) ==
  \A i \in DOMAIN order : Notice(i, c) =>
    /\ \A d \in Tokens(c) : d.type = "JOIN_RES" /\ d.isLeader => order[i].m.seq < d.seq
    /\ status[c] = "in" => order[i].m.seq <= latestSequenceNum[c]

OnlyListener ==
  /\ \A t \in Thread \ {"listen"} : draft[t] # Idle => draft[t].msg.type # "NEW_USER"
  /\ draft["listen"].step = "reply" => draft["listen"].msg.type = "NEW_USER"

AnswersKnown == \A d \in net : d.type = "JOIN_RES" => d.seq <= currentSequenceNum

JoinInv ==
  /\ \A c \in Clients : OneToken(c) /\ NoticeBefore(c)
  /\ OnlyListener /\ AnswersKnown

-----------------------------------------------------------------------------
NoNewAnswers == \A d \in net' : d.type \in {"JOIN_REQ", "JOIN_RES"} => d \in net

(* Most steps neither ask, nor answer, nor queue anything. *)
LEMMA JoinAlone ==
  ASSUME JoinInv, NoNewAnswers, OnlyListener',
         \A c \in Clients : Answering(c)' => Answering(c),
         UNCHANGED <<status, order, latestSequenceNum, currentSequenceNum>>
  PROVE  JoinInv'
<1>1. AnswersKnown'
  BY DEF JoinInv, AnswersKnown, NoNewAnswers
<1>2. ASSUME NEW c \in Clients PROVE (OneToken(c) /\ NoticeBefore(c))'
  <2>1. Tokens(c)' \subseteq Tokens(c)
    BY DEF Tokens, Token, NoNewAnswers
  <2>2. OneToken(c)'
    BY <2>1 DEF JoinInv, OneToken
  <2>3. NoticeBefore(c)'
    BY <2>1 DEF JoinInv, NoticeBefore, Notice
  <2> QED BY <2>2, <2>3
<1> QED BY <1>1, <1>2 DEF JoinInv

(* The same while the leader's threads leave their drafts alone. *)
LEMMA JoinAloneIdle ==
  ASSUME JoinInv, NoNewAnswers,
         UNCHANGED <<status, order, latestSequenceNum, currentSequenceNum, draft>>
  PROVE  JoinInv'
<1>1. OnlyListener'
  BY DEF JoinInv, OnlyListener
<1>2. \A c \in Clients : Answering(c)' => Answering(c)
  BY DEF Answering
<1> QED BY <1>1, <1>2, JoinAlone

LEMMA HeldDraft ==
  ASSUME TypeInv, NEW t \in Thread, NEW step, NEW msg, Hold(t, step, msg)
  PROVE  /\ draft'[t] = [step |-> step, msg |-> msg]
         /\ \A s \in Thread \ {t} : draft'[s] = draft[s]
BY DEF Hold, TypeInv, TypeOK, SequencerTypeOK

LEMMA ReleasedDraft ==
  ASSUME TypeInv, NEW t \in Thread, Release(t)
  PROVE  draft'[t] = Idle /\ \A s \in Thread \ {t} : draft'[s] = draft[s]
BY DEF Release, TypeInv, TypeOK, SequencerTypeOK

(* Queueing a message: the notice of a joiner is queued while nothing of   *)
(* its request is in the network.                                          *)
LEMMA EnqueueJoin ==
  ASSUME TypeInv, JoinInv, NEW t \in Thread, Enqueue(t), UNCHANGED clientVars
  PROVE  JoinInv'
<1> DEFINE node == [v |-> currentSequenceNum, m |-> draft[t].msg]
<1>0. "listen" \in Thread /\ draft[t] # Idle
  BY DEF Thread, Enqueue, Idle
<1>1. /\ order' = Append(order, node) /\ currentSequenceNum' = currentSequenceNum + 1
      /\ net' = net /\ status' = status /\ latestSequenceNum' = latestSequenceNum
      /\ currentSequenceNum \in Nat
  BY DEF Enqueue, NumberAfter, wireVars, clientVars, TypeInv, TypeOK, SequencerTypeOK
<1>2. draft[t].msg \in Message /\ node \in Node /\ order \in Seq(Node)
  BY DraftFields DEF Enqueue, Node, TypeInv, TypeOK, SequencerTypeOK
<1>3. /\ DOMAIN order = 1..Len(order) /\ Len(order) \in Nat
      /\ DOMAIN order' = 1..(Len(order) + 1)
      /\ \A i \in 1..Len(order) : order'[i] = order[i]
      /\ order'[Len(order) + 1].m = draft[t].msg
  <2> HIDE DEF node
  <2>1. order'[Len(order) + 1] = node
    BY <1>1, <1>2, AppendProperties
  <2>2. node.m = draft[t].msg
    BY DEF node
  <2> QED BY <1>1, <1>2, <2>1, <2>2, AppendProperties, LenProperties
<1>a. /\ \A s \in Thread \ {t} : draft'[s] = draft[s]
      /\ draft[t].msg.type = "NEW_USER" =>
           draft'[t] # Idle /\ draft'[t].msg = draft[t].msg
      /\ draft[t].msg.type # "NEW_USER" => draft'[t] = Idle /\ draft'[t].step # "reply"
  <2>1. CASE draft[t].msg.type = "NEW_USER"
    <3>1. Hold(t, "reply", draft[t].msg)
      BY <2>1 DEF Enqueue
    <3>2. /\ draft'[t] = [step |-> "reply", msg |-> draft[t].msg]
          /\ \A s \in Thread \ {t} : draft'[s] = draft[s]
      BY <3>1, HeldDraft
    <3>3. draft'[t] # Idle
      BY <3>2 DEF Idle
    <3> QED BY <2>1, <3>2, <3>3
  <2>2. CASE draft[t].msg.type # "NEW_USER"
    <3>1. Release(t)
      BY <2>2 DEF Enqueue
    <3>2. draft'[t] = Idle /\ \A s \in Thread \ {t} : draft'[s] = draft[s]
      BY <3>1, ReleasedDraft
    <3>3. draft'[t].step # "reply"
      BY <3>2 DEF Idle
    <3> QED BY <2>2, <3>2, <3>3
  <2> QED BY <2>1, <2>2
<1>b. draft[t].msg.type = "NEW_USER" => t = "listen"
  BY <1>0 DEF JoinInv, OnlyListener
<1> HIDE DEF node
<1>4. AnswersKnown'
  <2> SUFFICES ASSUME NEW d \in net, d.type = "JOIN_RES" PROVE d.seq <= currentSequenceNum + 1
    BY <1>1 DEF AnswersKnown
  <2>1. d.seq <= currentSequenceNum /\ d.seq \in Nat
    BY DatagramFields DEF JoinInv, AnswersKnown, TypeInv, TypeOK, WireTypeOK
  <2> QED BY <1>1, <2>1
<1>5. OnlyListener'
  BY <1>0, <1>a, <1>b DEF JoinInv, OnlyListener
<1>6. ASSUME NEW c \in Clients PROVE (OneToken(c) /\ NoticeBefore(c))'
  <2>1. Tokens(c)' = Tokens(c)
    BY <1>1 DEF Tokens, Token
  <2>2. Answering(c)' <=> Answering(c)
    <3>1. CASE t = "listen"
      BY <1>0, <1>a, <3>1 DEF Answering
    <3>2. CASE t # "listen"
      BY <1>0, <1>a, <3>2 DEF Answering
    <3> QED BY <3>1, <3>2
  <2>3. OneToken(c)'
    BY <1>1, <2>1, <2>2 DEF JoinInv, OneToken
  <2>4. ASSUME NEW i \in DOMAIN order', Notice(i, c)',
               Tokens(c) # {} \/ status[c] = "in"
        PROVE  i \in DOMAIN order /\ Notice(i, c)
    <3>1. CASE i = Len(order) + 1
      <4>1. draft[t].msg.type = "NEW_USER" /\ draft[t].msg.about = c
        BY <1>3, <2>4, <3>1 DEF Notice
      <4>2. Answering(c)
        BY <1>0, <1>b, <4>1 DEF Answering
      <4> QED BY <2>4, <4>2 DEF JoinInv, OneToken
    <3> QED BY <1>3, <2>4, <3>1 DEF Notice
  <2>5. NoticeBefore(c)'
    <3> SUFFICES ASSUME NEW i \in DOMAIN order', Notice(i, c)'
        PROVE  /\ \A d \in Tokens(c) :
                    d.type = "JOIN_RES" /\ d.isLeader => order'[i].m.seq < d.seq
               /\ status[c] = "in" => order'[i].m.seq <= latestSequenceNum[c]
      BY <1>1, <2>1 DEF NoticeBefore
    <3>1. CASE Tokens(c) # {} \/ status[c] = "in"
      <4>1. i \in DOMAIN order /\ Notice(i, c) /\ order'[i] = order[i]
        BY <1>3, <2>4, <3>1
      <4> QED BY <4>1 DEF JoinInv, NoticeBefore
    <3> QED BY <3>1
  <2> QED BY <2>3, <2>5
<1> QED BY <1>4, <1>5, <1>6 DEF JoinInv

(* No queued message carries a number that is still to be given out.       *)
LEMMA NumbersBelow ==
  ASSUME TypeInv, NumberInv
  PROVE  \A i \in DOMAIN order : order[i].m.seq < currentSequenceNum
<1> SUFFICES ASSUME NEW i \in DOMAIN order PROVE order[i].m.seq < currentSequenceNum
  OBVIOUS
<1>1. order \in Seq(Node)
  BY DEF TypeInv, TypeOK, SequencerTypeOK
<1>2. i \in 1..Len(order) /\ order[i] \in Node /\ Len(order) \in Nat
  BY <1>1, LenProperties
<1>3. order[i].m.seq \in Nat /\ order[i].m.seq <= order[i].v /\ order[i].v = i - 1
  BY <1>2 DEF Node, Message, NumberInv, Numbered, StampNotAhead
<1> QED BY <1>2, <1>3 DEF NumberInv, Numbered

(* The leader's listener: the request comes in, is answered with a number  *)
(* behind everything queued, or the answer to it is somebody else's.       *)
LEMMA ListenJoin ==
  ASSUME TypeInv, NumberInv, JoinInv, LeaderThread(Listen)
  PROVE  JoinInv'
<1> USE DEF LeaderThread, clientVars
<1>0. "listen" \in Thread /\ currentSequenceNum \in Nat /\ net \subseteq Datagram
  BY DEF Thread, TypeInv, TypeOK, SequencerTypeOK, WireTypeOK
<1>1. CASE StampJoin
  <2>1. PICK d \in Addressed("JOIN_REQ", Leader) :
          /\ Transmit({d}, {})
          /\ Hold("listen", "add", Stamped("NEW_USER", d.from, 0, <<d.from, 0>>))
    BY <1>1 DEF StampJoin
  <2>2. net' = net \ {d} /\ d \in net /\ d.type = "JOIN_REQ"
    BY <2>1 DEF Transmit, Addressed
  <2>3. /\ draft'["listen"] # Idle
        /\ draft'["listen"].msg.type = "NEW_USER" /\ draft'["listen"].msg.about = d.from
        /\ \A s \in Thread \ {"listen"} : draft'[s] = draft[s]
    <3>1. PICK msg : /\ msg = Stamped("NEW_USER", d.from, 0, <<d.from, 0>>)
                     /\ Hold("listen", "add", msg)
      BY <2>1
    <3>2. /\ draft'["listen"] = [step |-> "add", msg |-> msg]
          /\ \A s \in Thread \ {"listen"} : draft'[s] = draft[s]
      BY <1>0, <3>1, HeldDraft
    <3>3. draft'["listen"] # Idle
      BY <3>2 DEF Idle
    <3>4. msg.type = "NEW_USER" /\ msg.about = d.from
      BY <3>1 DEF Stamped
    <3> QED BY <3>2, <3>3, <3>4
  <2>4. UNCHANGED <<status, order, latestSequenceNum, currentSequenceNum>>
    BY <1>1 DEF StampJoin
  <2>5. ASSUME NEW c \in Clients PROVE (OneToken(c) /\ NoticeBefore(c))'
    <3>1. Tokens(c)' \subseteq Tokens(c) /\ d \notin Tokens(c)'
      BY <2>2 DEF Tokens, Token
    <3>2. Answering(c)' <=> d.from = c
      BY <2>3 DEF Answering
    <3>3. d.from = c => d \in Tokens(c)
      BY <2>2 DEF Tokens, Token
    <3>4. OneToken(c)'
      BY <2>4, <3>1, <3>2, <3>3 DEF JoinInv, OneToken
    <3>5. NoticeBefore(c)'
      BY <2>4, <3>1 DEF JoinInv, NoticeBefore, Notice
    <3> QED BY <3>4, <3>5
  <2>6. OnlyListener'
    BY <2>3 DEF JoinInv, OnlyListener
  <2>7. AnswersKnown'
    BY <2>2, <2>4 DEF JoinInv, AnswersKnown
  <2> QED BY <2>5, <2>6, <2>7 DEF JoinInv
<1>2. CASE EnterJoiner
  <2>1. /\ \A s \in Thread \ {"listen"} : draft'[s] = draft[s]
        /\ draft'["listen"].msg = draft["listen"].msg /\ draft["listen"] # Idle
        /\ draft'["listen"].step # "reply"
    <3>1. PICK msg : msg = draft["listen"].msg /\ Hold("listen", "enqueue", msg)
      BY <1>2 DEF EnterJoiner
    <3>2. /\ draft'["listen"] = [step |-> "enqueue", msg |-> msg]
          /\ \A s \in Thread \ {"listen"} : draft'[s] = draft[s]
      BY <1>0, <3>1, HeldDraft
    <3>3. draft["listen"] # Idle
      BY <1>2 DEF EnterJoiner, Idle
    <3> QED BY <3>1, <3>2, <3>3
  <2>2. OnlyListener' /\ \A c \in Clients : Answering(c)' => Answering(c)
    BY <2>1 DEF JoinInv, OnlyListener, Answering
  <2> QED BY <1>2, <2>2, JoinAlone DEF EnterJoiner, wireVars, NoNewAnswers
<1>3. CASE AnswerJoiner
  <2> DEFINE joiner == draft["listen"].msg.about
             answer == [type |-> "JOIN_RES", to |-> joiner, isLeader |-> TRUE,
                        host |-> Leader, seq |-> currentSequenceNum,
                        table |-> others[Leader]]
  <2>1. /\ draft["listen"] # Idle
        /\ draft'["listen"] = Idle /\ draft'["listen"].step # "reply"
        /\ \A s \in Thread \ {"listen"} : draft'[s] = draft[s]
    <3>1. Release("listen") /\ draft["listen"].step = "reply"
      BY <1>3 DEF AnswerJoiner
    <3>2. draft["listen"] # Idle
      BY <3>1 DEF Idle
    <3>3. Idle.step # "reply"
      BY DEF Idle
    <3> QED BY <1>0, <3>1, <3>2, <3>3, ReleasedDraft
  <2>2. net' \subseteq net \cup {answer}
    BY <1>3 DEF AnswerJoiner, Transmit, JoinNumber
  <2>3. /\ answer.type = "JOIN_RES" /\ answer.to = joiner /\ answer.seq = currentSequenceNum
        /\ UNCHANGED <<status, order, latestSequenceNum, currentSequenceNum>>
    BY <1>3 DEF AnswerJoiner
  <2> HIDE DEF answer
  <2>4. draft["listen"].msg.type = "NEW_USER"
    BY <1>3 DEF AnswerJoiner, JoinInv, OnlyListener
  <2>5. ASSUME NEW c \in Clients PROVE (OneToken(c) /\ NoticeBefore(c))'
    <3>1. ~Answering(c)'
      BY <2>1 DEF Answering
    <3>2. CASE c = joiner
      <4>1. Answering(c)
        BY <2>1, <2>4, <3>2 DEF Answering
      <4>2. Tokens(c)' \subseteq {answer} /\ status[c] = "asking"
        BY <2>2, <4>1 DEF Tokens, Token, JoinInv, OneToken
      <4>3. OneToken(c)'
        BY <2>3, <3>1, <4>2 DEF OneToken
      <4>4. \A i \in DOMAIN order : order[i].m.seq < currentSequenceNum
        BY NumbersBelow
      <4>5. NoticeBefore(c)'
        BY <2>3, <4>2, <4>4 DEF NoticeBefore
      <4> QED BY <4>3, <4>5
    <3>3. CASE c # joiner
      <4>1. Tokens(c)' \subseteq Tokens(c)
        BY <2>2, <2>3, <3>3 DEF Tokens, Token
      <4> QED BY <2>3, <3>1, <4>1 DEF JoinInv, OneToken, NoticeBefore, Notice
    <3> QED BY <3>2, <3>3
  <2>6. OnlyListener'
    BY <2>1 DEF JoinInv, OnlyListener
  <2>7. AnswersKnown'
    BY <1>0, <2>2, <2>3 DEF JoinInv, AnswersKnown
  <2> QED BY <2>5, <2>6, <2>7 DEF JoinInv
<1>4. CASE StampLine
  <2>1. PICK d \in Addressed("MSG_REQ", Leader) :
          /\ Transmit({d}, {[type |-> "MSG_RES", to |-> d.from]})
          /\ Hold("listen", "enqueue", Stamped("MSG_REQ", d.msg.about, d.msg.sender_seq, d.msg.text))
    BY <1>4 DEF StampLine
  <2>2. NoNewAnswers
    BY <2>1 DEF NoNewAnswers, Transmit
  <2>3. /\ draft'["listen"].msg.type = "MSG_REQ" /\ draft'["listen"].step # "reply"
        /\ \A s \in Thread \ {"listen"} : draft'[s] = draft[s]
    <3>1. PICK msg : /\ msg = Stamped("MSG_REQ", d.msg.about, d.msg.sender_seq, d.msg.text)
                     /\ Hold("listen", "enqueue", msg)
      BY <2>1
    <3>2. /\ draft'["listen"] = [step |-> "enqueue", msg |-> msg]
          /\ \A s \in Thread \ {"listen"} : draft'[s] = draft[s]
      BY <1>0, <3>1, HeldDraft
    <3>3. msg.type = "MSG_REQ"
      BY <3>1 DEF Stamped
    <3> QED BY <3>2, <3>3
  <2>4. OnlyListener' /\ \A c \in Clients : Answering(c)' => Answering(c)
    BY <2>3 DEF JoinInv, OnlyListener, Answering
  <2> QED BY <1>4, <2>2, <2>4, JoinAlone DEF StampLine
<1>5. CASE Enqueue("listen")
  BY <1>0, <1>5, EnqueueJoin
<1> QED BY <1>1, <1>2, <1>3, <1>4, <1>5 DEF Listen

-----------------------------------------------------------------------------
(* A joiner asks, is sent on by a member, and comes in.                    *)
LEMMA AskToJoinJoin ==
  ASSUME TypeInv, JoinInv, NEW b \in Clients, NEW h \in Machine,
         ClientThread(AskToJoin(b, h))
  PROVE  JoinInv'
<1> DEFINE request == [type |-> "JOIN_REQ", from |-> b, to |-> h]
<1>1. /\ net' \subseteq net \cup {request}
      /\ status[b] = "out" /\ status' = [status EXCEPT ![b] = "asking"]
      /\ UNCHANGED <<order, latestSequenceNum, currentSequenceNum, draft>>
  BY DEF ClientThread, AskToJoin, Transmit, sequencerVars
<1>2. request.type = "JOIN_REQ" /\ request.from = b
  OBVIOUS
<1> HIDE DEF request
<1>3. ASSUME NEW c \in Clients PROVE (OneToken(c) /\ NoticeBefore(c))'
  <2>0. (Answering(c)' <=> Answering(c)) /\ status \in [Clients -> {"out", "asking", "in"}]
    BY <1>1 DEF Answering, TypeInv, TypeOK, ClientTypeOK
  <2>1. CASE c = b
    <3>1. Tokens(c)' \subseteq {request} /\ ~Answering(c)' /\ status'[c] = "asking"
      BY <1>1, <2>0, <2>1 DEF Tokens, Token, JoinInv, OneToken
    <3> QED BY <1>2, <3>1 DEF OneToken, NoticeBefore
  <2>2. CASE c # b
    <3>1. Tokens(c)' \subseteq Tokens(c) /\ status'[c] = status[c]
      BY <1>1, <1>2, <2>2 DEF Tokens, Token
    <3> QED BY <1>1, <2>0, <3>1 DEF JoinInv, OneToken, NoticeBefore, Notice
  <2> QED BY <2>1, <2>2
<1>4. OnlyListener' /\ AnswersKnown'
  BY <1>1, <1>2 DEF JoinInv, OnlyListener, AnswersKnown
<1> QED BY <1>3, <1>4 DEF JoinInv

(* One datagram of a request is exchanged for the next one.                *)
LEMMA TokenExchanged ==
  ASSUME TypeInv, JoinInv, NEW b \in Machine, NEW d \in net, NEW e,
         Token(d, b), Token(e, b), Redirection(e),
         net' \subseteq (net \ {d}) \cup {e},
         UNCHANGED <<status, order, latestSequenceNum, currentSequenceNum, draft>>
  PROVE  JoinInv'
<1>1. ASSUME NEW c \in Clients PROVE (OneToken(c) /\ NoticeBefore(c))'
  <2>0. Answering(c)' <=> Answering(c)
    BY DEF Answering
  <2>1. CASE c = b
    <3>1. d \in Tokens(c)
      BY <2>1 DEF Tokens, Token
    <3>2. ~Answering(c) /\ status[c] = "asking" /\ Tokens(c)' \subseteq {e}
      BY <3>1 DEF JoinInv, OneToken, Tokens, Token
    <3> QED BY <2>0, <3>2 DEF OneToken, NoticeBefore, Redirection
  <2>2. CASE c # b
    <3>1. Tokens(c)' \subseteq Tokens(c)
      BY <2>2 DEF Tokens, Token
    <3> QED BY <2>0, <3>1 DEF JoinInv, OneToken, NoticeBefore, Notice
  <2> QED BY <2>1, <2>2
<1>2. OnlyListener' /\ AnswersKnown'
  BY DEF JoinInv, OnlyListener, AnswersKnown, Redirection, TypeInv, TypeOK, SequencerTypeOK
<1> QED BY <1>1, <1>2 DEF JoinInv

LEMMA EnterChatJoin ==
  ASSUME TypeInv, JoinInv, NEW b \in Clients, ClientThread(EnterChat(b))
  PROVE  JoinInv'
<1>1. PICK d \in Addressed("JOIN_RES", b) :
        /\ d.isLeader /\ Transmit({d}, {})
        /\ latestSequenceNum' = [latestSequenceNum EXCEPT ![b] = LatestAtJoin(d.seq)]
  BY DEF ClientThread, EnterChat
<1>2. d \in Tokens(b) /\ d.type = "JOIN_RES" /\ d.isLeader /\ net' \subseteq net /\ d \notin net'
  BY <1>1 DEF Tokens, Token, Addressed, Transmit
<1>3. /\ status' = [status EXCEPT ![b] = "in"]
      /\ UNCHANGED <<order, currentSequenceNum, draft>>
      /\ status \in [Clients -> {"out", "asking", "in"}]
      /\ latestSequenceNum \in [Clients -> Int] /\ d.seq \in Nat /\ order \in Seq(Node)
  BY <1>2, DatagramFields
     DEF ClientThread, EnterChat, sequencerVars, TypeInv, TypeOK, ClientTypeOK, WireTypeOK,
         SequencerTypeOK, Tokens, Token
<1>4. ASSUME NEW c \in Clients PROVE (OneToken(c) /\ NoticeBefore(c))'
  <2>0. Answering(c)' <=> Answering(c)
    BY <1>3 DEF Answering
  <2>1. CASE c = b
    <3>1. ~Answering(c) /\ Tokens(c)' = {}
      BY <1>2, <2>1 DEF JoinInv, OneToken, Tokens, Token
    <3>2. status'[c] = "in" /\ latestSequenceNum'[c] = d.seq - 1
      BY <1>1, <1>3, <2>1 DEF LatestAtJoin
    <3>3. ASSUME NEW i \in DOMAIN order, Notice(i, c) PROVE order[i].m.seq <= d.seq - 1
      <4>1. order[i].m.seq < d.seq
        BY <1>2, <2>1, <3>3 DEF JoinInv, NoticeBefore
      <4>2. order[i].m.seq \in Nat
        <5>1. order[i] \in Node
          BY <1>3
        <5> QED BY <5>1 DEF Node, Message
      <4> QED BY <1>3, <4>1, <4>2
    <3> QED BY <1>3, <2>0, <3>1, <3>2, <3>3 DEF OneToken, NoticeBefore, Notice
  <2>2. CASE c # b
    <3>1. /\ Tokens(c)' \subseteq Tokens(c) /\ status'[c] = status[c]
          /\ latestSequenceNum'[c] = latestSequenceNum[c]
      BY <1>1, <1>2, <1>3, <2>2 DEF Tokens, Token
    <3> QED BY <1>3, <2>0, <3>1 DEF JoinInv, OneToken, NoticeBefore, Notice
  <2> QED BY <2>1, <2>2
<1>5. OnlyListener' /\ AnswersKnown'
  BY <1>2, <1>3 DEF JoinInv, OnlyListener, AnswersKnown
<1> QED BY <1>4, <1>5 DEF JoinInv

LEMMA PrintNextJoin ==
  ASSUME TypeInv, JoinInv, NEW b \in Clients, ClientThread(PrintNext(b))
  PROVE  JoinInv'
<1>1. /\ latestSequenceNum' = [latestSequenceNum EXCEPT ![b] = @ + 1]
      /\ UNCHANGED <<status, order, net, currentSequenceNum, draft>>
      /\ latestSequenceNum \in [Clients -> Int] /\ order \in Seq(Node)
  BY DEF ClientThread, PrintNext, sequencerVars, wireVars, TypeInv, TypeOK, ClientTypeOK,
         SequencerTypeOK
<1>2. ASSUME NEW c \in Clients PROVE (OneToken(c) /\ NoticeBefore(c))'
  <2>1. (Answering(c)' <=> Answering(c)) /\ Tokens(c)' = Tokens(c)
    BY <1>1 DEF Answering, Tokens, Token
  <2>2. OneToken(c)'
    BY <1>1, <2>1 DEF JoinInv, OneToken
  <2>3. latestSequenceNum'[c] >= latestSequenceNum[c] /\ latestSequenceNum'[c] \in Int
        /\ latestSequenceNum[c] \in Int
    BY <1>1
  <2>4. ASSUME NEW i \in DOMAIN order, order[i].m.seq <= latestSequenceNum[c]
        PROVE  order[i].m.seq <= latestSequenceNum'[c]
    <3>1. order[i].m.seq \in Nat
      <4>1. order[i] \in Node
        BY <1>1
      <4> QED BY <4>1 DEF Node, Message
    <3> QED BY <2>3, <2>4, <3>1
  <2>5. NoticeBefore(c)'
    BY <1>1, <2>1, <2>4 DEF JoinInv, NoticeBefore, Notice
  <2> QED BY <2>2, <2>5
<1>3. OnlyListener' /\ AnswersKnown'
  BY <1>1 DEF JoinInv, OnlyListener, AnswersKnown
<1> QED BY <1>2, <1>3 DEF JoinInv

LEMMA JoinInvStep == TypeInv /\ NumberInv /\ JoinInv /\ [Next]_vars => JoinInv'
<1> SUFFICES ASSUME TypeInv, NumberInv, JoinInv, [Next]_vars PROVE JoinInv'
  OBVIOUS
<1>0. {"input", "send_hb", "listen"} \subseteq Thread
  BY DEF Thread
<1>1. CASE LeaderThread(Input)
  <2>1. CASE TypeLine
    <3>1. PICK msg : /\ msg = Stamped("MSG_REQ", Leader, 0, <<Leader, typed + 1>>)
                     /\ Hold("input", "enqueue", msg)
      BY <2>1 DEF TypeLine
    <3>2. /\ draft'["input"] = [step |-> "enqueue", msg |-> msg]
          /\ \A s \in Thread \ {"input"} : draft'[s] = draft[s]
      BY <1>0, <3>1, HeldDraft
    <3>3. msg.type # "NEW_USER"
      BY <3>1 DEF Stamped
    <3>4. OnlyListener' /\ \A c \in Clients : Answering(c)' => Answering(c)
      BY <1>0, <3>2, <3>3 DEF JoinInv, OnlyListener, Answering
    <3> QED BY <1>1, <2>1, <3>4, JoinAlone DEF LeaderThread, TypeLine, NoNewAnswers, wireVars, clientVars
  <2>2. CASE Enqueue("input")
    BY <1>0, <1>1, <2>2, EnqueueJoin DEF LeaderThread
  <2> QED BY <1>1, <2>1, <2>2 DEF LeaderThread, Input
<1>2. CASE LeaderThread(SendQueue)
  <2>1. NoNewAnswers
    <3>1. CASE SendToMember
      BY <3>1 DEF SendToMember, NoNewAnswers, Transmit, Transmission
    <3>2. CASE ReceiveAck
      BY <3>2 DEF ReceiveAck, NoNewAnswers, Transmit
    <3>3. CASE AckTimeout
      BY <3>3 DEF AckTimeout, NoNewAnswers, Transmit, Transmission
    <3>4. CASE BroadcastStart \/ PrintOwn \/ SkipJoiner \/ BroadcastEnd
      BY <3>4 DEF BroadcastStart, PrintOwn, SkipJoiner, BroadcastEnd, NoNewAnswers, wireVars
    <3> QED BY <1>2, <3>1, <3>2, <3>3, <3>4 DEF LeaderThread, SendQueue
  <2>2. UNCHANGED <<status, order, latestSequenceNum, currentSequenceNum, draft>>
    BY <1>2 DEF LeaderThread, SendQueue, BroadcastStart, PrintOwn, SkipJoiner, SendToMember,
                ReceiveAck, AckTimeout, BroadcastEnd, clientVars
  <2> QED BY <2>1, <2>2, JoinAloneIdle
<1>3. CASE HeartbeatThread(SendHb)
  <2>1. CASE CountBeat
    <3>1. \/ draft' = draft
          \/ \E msg : msg.type = "LEAVE" /\ Hold("send_hb", "enqueue", msg)
      BY <2>1 DEF CountBeat, Stamped
    <3>2. OnlyListener' /\ \A c \in Clients : Answering(c)' => Answering(c)
      <4>1. CASE draft' = draft
        BY <4>1 DEF JoinInv, OnlyListener, Answering
      <4>2. ASSUME NEW msg, msg.type = "LEAVE", Hold("send_hb", "enqueue", msg)
            PROVE  OnlyListener' /\ \A c \in Clients : Answering(c)' => Answering(c)
        <5>1. /\ draft'["send_hb"] = [step |-> "enqueue", msg |-> msg]
              /\ \A s \in Thread \ {"send_hb"} : draft'[s] = draft[s]
          BY <1>0, <4>2, HeldDraft
        <5> QED BY <1>0, <4>2, <5>1 DEF JoinInv, OnlyListener, Answering
      <4> QED BY <3>1, <4>1, <4>2
    <3> QED BY <1>3, <2>1, <3>2, JoinAlone DEF HeartbeatThread, CountBeat, NoNewAnswers, wireVars, clientVars
  <2>2. CASE Enqueue("send_hb")
    BY <1>0, <1>3, <2>2, EnqueueJoin DEF HeartbeatThread
  <2>3. CASE StartRound \/ EndRound \/ SkipLeader \/ SendBeat \/ RemoveDeparted
    <3>1. NoNewAnswers
      BY <2>3 DEF StartRound, EndRound, SkipLeader, SendBeat, RemoveDeparted, NoNewAnswers,
                  Transmit, wireVars
    <3>2. UNCHANGED <<status, order, latestSequenceNum, currentSequenceNum, draft>>
      BY <1>3, <2>3 DEF HeartbeatThread, StartRound, EndRound, SkipLeader, SendBeat,
                        RemoveDeparted, sequencerVars, clientVars
    <3> QED BY <3>1, <3>2, JoinAloneIdle
  <2> QED BY <1>3, <2>1, <2>2, <2>3 DEF HeartbeatThread, SendHb
<1>4. CASE HeartbeatThread(ReceiveBeatAck)
  BY <1>4, JoinAloneIdle
     DEF HeartbeatThread, ReceiveBeatAck, Transmit, NoNewAnswers, sequencerVars, clientVars
<1>5. ASSUME NEW c \in Clients, ClientThread(Join(c)) PROVE JoinInv'
  <2>1. CASE AskLeader(c)
    <3>1. PICK d \in Addressed("JOIN_RES", c) :
            Transmit({d}, {[type |-> "JOIN_REQ", from |-> c, to |-> d.host]})
      BY <2>1 DEF AskLeader
    <3>2. PICK e : /\ e = [type |-> "JOIN_REQ", from |-> c, to |-> d.host]
                   /\ net' \subseteq (net \ {d}) \cup {e}
      BY <3>1 DEF Transmit
    <3>3. UNCHANGED <<status, order, latestSequenceNum, currentSequenceNum, draft>>
      BY <1>5, <2>1 DEF ClientThread, AskLeader, sequencerVars
    <3>4. c \in Machine /\ d \in net /\ Token(d, c) /\ Token(e, c) /\ Redirection(e)
      BY <3>2 DEF Addressed, Machine, Token, Redirection
    <3>5. net' \subseteq (net \ {d}) \cup {e}
      BY <3>2
    <3> QED BY <3>3, <3>4, <3>5, TokenExchanged
  <2>2. CASE GiveUpJoin(c, Answering(c))
    BY <1>5, <2>2, JoinAloneIdle
       DEF ClientThread, GiveUpJoin, CloseSockets, NoNewAnswers, sequencerVars, clientVars
  <2> QED BY <1>5, <2>1, <2>2, AskToJoinJoin, EnterChatJoin DEF Join, ClientThread
<1>6. ASSUME NEW c \in Clients, ClientThread(ListenAtClient(c)) PROVE JoinInv'
  <2>1. CASE Deliver(c)
    <3>1. NoNewAnswers
      BY <2>1 DEF Deliver, Transmit, NoNewAnswers
    <3> QED BY <1>6, <2>1, <3>1, JoinAloneIdle DEF ClientThread, Deliver, sequencerVars
  <2>2. CASE RedirectJoiner(c)
    <3>1. PICK d \in Addressed("JOIN_REQ", c) :
            Transmit({d}, {[type |-> "JOIN_RES", to |-> d.from, isLeader |-> FALSE,
                            host |-> host[c], seq |-> 0, table |-> others[c]]})
      BY <2>2 DEF RedirectJoiner
    <3>2. PICK e : /\ e = [type |-> "JOIN_RES", to |-> d.from, isLeader |-> FALSE,
                            host |-> host[c], seq |-> 0, table |-> others[c]]
                   /\ net' \subseteq (net \ {d}) \cup {e}
      BY <3>1 DEF Transmit
    <3>3. UNCHANGED <<status, order, latestSequenceNum, currentSequenceNum, draft>>
      BY <1>6, <2>2 DEF ClientThread, RedirectJoiner, sequencerVars, clientVars
    <3>4. d \in net /\ d.type = "JOIN_REQ" /\ d.from \in Machine
      BY DatagramFields DEF Addressed, TypeInv, TypeOK, WireTypeOK
    <3>5. Token(d, d.from) /\ Token(e, d.from) /\ Redirection(e)
      BY <3>2, <3>4 DEF Token, Redirection
    <3>6. net' \subseteq (net \ {d}) \cup {e}
      BY <3>2
    <3> QED BY <3>3, <3>4, <3>5, <3>6, TokenExchanged
  <2> QED BY <1>6, <2>1, <2>2 DEF ListenAtClient, ClientThread
<1>7. ASSUME NEW c \in Clients,
             \/ ClientThread(TypeClientLine(c)) \/ ClientThread(SendOut(c))
             \/ ClientThread(AnswerBeat(c)) \/ ClientThread(EndProcess(c))
      PROVE  JoinInv'
  <2>1. NoNewAnswers
    BY <1>7 DEF ClientThread, TypeClientLine, SendOut, SendLine, LineReceived, AnswerBeat,
                EndProcess, Quit, CloseSockets, Transmit, NoNewAnswers, wireVars
  <2>2. UNCHANGED <<status, order, latestSequenceNum, currentSequenceNum, draft>>
    BY <1>7 DEF ClientThread, TypeClientLine, SendOut, SendLine, LineReceived, AnswerBeat,
                EndProcess, Quit, sequencerVars, clientVars
  <2> QED BY <2>1, <2>2, JoinAloneIdle
<1>8. CASE ClientThread(Lose /\ UNCHANGED clientVars)
  BY <1>8, JoinAloneIdle DEF ClientThread, Lose, NoNewAnswers, sequencerVars, clientVars
<1>9. CASE UNCHANGED vars
  BY <1>9, JoinAloneIdle DEF vars, NoNewAnswers, wireVars, sequencerVars, clientVars
<1> QED BY <1>1, <1>2, <1>3, <1>4, <1>5, <1>6, <1>7, <1>8, <1>9, ListenJoin, PrintNextJoin DEF Next

LEMMA JoinInvInvariant == Spec => []JoinInv
<1>1. Init => JoinInv
  <2> SUFFICES ASSUME Init PROVE JoinInv
    OBVIOUS
  <2>1. net = {} /\ order = <<>> /\ \A t \in Thread : draft[t] = Idle
    BY DEF Init, SequencerInit, WireInit
  <2>2. Idle.step # "reply" /\ "listen" \in Thread
    BY DEF Idle, Thread
  <2> QED BY <2>1, <2>2
          DEF JoinInv, OneToken, NoticeBefore, OnlyListener, AnswersKnown, Tokens, Token, Answering
<1> QED BY <1>1, JoinInvStep, TypeInvInvariant, NumberInvInvariant, PTL DEF Spec

(* A joiner is told to expect a number behind its own notice, which is     *)
(* never sent to it, and no later notice about it is queued: whatever      *)
(* happens between the stamp, the queueing and the answer, and however the *)
(* request travels through other members (sequencer.c:118-150, 206-207).   *)
THEOREM JoinerBeyondOwnNoticeAlways == Spec => []JoinerBeyondOwnNotice
<1>1. JoinInv => JoinerBeyondOwnNotice
  BY DEF JoinInv, NoticeBefore, Notice, JoinerBeyondOwnNotice
<1> QED BY <1>1, JoinInvInvariant, PTL

-----------------------------------------------------------------------------
(* If no two messages carry the same number, a message carries the number  *)
(* it is queued under: stamps are never ahead, so a smallest stale stamp   *)
(* would be the stamp of an earlier message.                               *)
LEMMA FreshNumbers ==
  ASSUME TypeInv, NumberInv, FreshStamps
  PROVE  \A i \in DOMAIN order : order[i].m.seq = i - 1
<1> DEFINE Stale == {i \in DOMAIN order : order[i].m.seq # i - 1}
<1>1. order \in Seq(Node)
  BY DEF TypeInv, TypeOK, SequencerTypeOK
<1>2. DOMAIN order = 1..Len(order) /\ Len(order) \in Nat
  BY <1>1, LenProperties
<1>3. ASSUME NEW i \in DOMAIN order
      PROVE  order[i].m.seq \in Nat /\ order[i].m.seq <= i - 1 /\ i \in Nat \ {0}
  <2>1. order[i] \in Node /\ i \in Nat \ {0}
    BY <1>1, <1>2
  <2> QED BY <2>1 DEF Node, Message, NumberInv, Numbered, StampNotAhead
<1>4. Stale \in SUBSET Nat
  BY <1>2
<1>5. CASE Stale # {}
  <2>1. PICK i \in Stale : \A j \in Stale : i <= j
    <3> HIDE DEF Stale
    <3> QED BY <1>4, <1>5, MinIsMember
  <2>2. i \in DOMAIN order /\ order[i].m.seq # i - 1
    BY <2>1
  <2> DEFINE k == order[i].m.seq + 1
  <2>3. k \in 1..(i - 1) /\ i \in Nat
    BY <1>3, <2>2
  <2>4. k \in DOMAIN order /\ k < i
    BY <1>2, <2>2, <2>3
  <2>5. k \notin Stale
    BY <1>4, <2>1, <2>3, <2>4
  <2>6. order[k].m.seq = order[i].m.seq
    BY <1>3, <2>2, <2>4, <2>5
  <2> QED BY <2>2, <2>3, <2>4, <2>6 DEF FreshStamps
<1> QED BY <1>5

(* What a member shows under a number is the message of that number.       *)
LEMMA ShownIsOrdered ==
  ASSUME TypeInv, NumberInv, ScreenInv, LeaderInv, FreshStamps, NEW m \in Machine,
         NEW j \in DOMAIN printed[m]
  PROVE  /\ printed[m][j].seq + 1 \in DOMAIN order
         /\ printed[m][j] = order[printed[m][j].seq + 1].m
<1>1. PICK i \in DOMAIN order : order[i].m = printed[m][j]
  <2>1. CASE m = Leader
    <3>1. order \in Seq(Node) /\ printed[Leader] \in Seq(Message)
      BY DEF TypeInv, TypeOK, SequencerTypeOK, MachinesTypeOK, Machine
    <3>2. /\ DOMAIN order = 1..Len(order) /\ DOMAIN printed[Leader] = 1..Len(printed[Leader])
          /\ Len(order) \in Nat /\ Len(printed[Leader]) \in Nat
      BY <3>1, LenProperties
    <3>3. j \in DOMAIN order
      BY <2>1, <3>2 DEF LeaderInv, LeaderShowsOrder
    <3> QED BY <2>1, <3>3 DEF LeaderInv, LeaderShowsOrder
  <2>2. CASE m \in Clients
    BY <2>2 DEF ScreenInv, ScreenInOrder
  <2> QED BY <2>1, <2>2 DEF Machine
<1>2. order[i].m.seq = i - 1
  BY FreshNumbers
<1>3. i \in Nat
  BY LenProperties DEF TypeInv, TypeOK, SequencerTypeOK
<1>4. printed[m][j].seq + 1 = i
  BY <1>1, <1>2, <1>3
<1> QED BY <1>1, <1>4

(* As long as no two messages carry the same number, two members that show *)
(* a message under the same number show the same message, the leader       *)
(* included (client.c:358-411, sequencer.c:195-233).                       *)
THEOREM AgreementWhileFresh == Spec => [](FreshStamps => Agreement)
<1>1. TypeInv /\ NumberInv /\ ScreenInv /\ LeaderInv => (FreshStamps => Agreement)
  <2> SUFFICES ASSUME TypeInv, NumberInv, ScreenInv, LeaderInv, FreshStamps,
                      NEW m1 \in Machine, NEW m2 \in Machine,
                      NEW j \in DOMAIN printed[m1], NEW k \in DOMAIN printed[m2],
                      printed[m1][j].seq = printed[m2][k].seq
               PROVE  printed[m1][j] = printed[m2][k]
    BY DEF Agreement
  <2>1. printed[m1][j] = order[printed[m1][j].seq + 1].m
    BY ShownIsOrdered
  <2>2. printed[m2][k] = order[printed[m2][k].seq + 1].m
    BY ShownIsOrdered
  <2> QED BY <2>1, <2>2
<1> QED BY <1>1, TypeInvInvariant, NumberInvInvariant, ScreenInvInvariant, LeaderInvInvariant, PTL

-----------------------------------------------------------------------------
(* The refinement of TotalOrder.  `Log' is the list of the messages.       *)
Messages(list) == [i \in DOMAIN list |-> list[i].m]
Log == Messages(order)
AbsVars == <<Log, present, start, printed>>

LEMMA MessagesFacts ==
  ASSUME NEW list \in Seq(Node)
  PROVE  /\ DOMAIN Messages(list) = 1..Len(list) /\ Len(list) \in Nat
         /\ Len(Messages(list)) = Len(list)
         /\ \A i \in 1..Len(list) :
              Messages(list)[i] = list[i].m /\ Messages(list)[i] \in Message
<1>1. DOMAIN list = 1..Len(list) /\ Len(list) \in Nat
  BY LenProperties
<1>2. \A i \in 1..Len(list) : list[i].m \in Message
  <2> TAKE i \in 1..Len(list)
  <2>1. list[i] \in Node
    OBVIOUS
  <2> QED BY <2>1 DEF Node
<1>3. Messages(list) \in Seq(Message)
  BY <1>1, <1>2 DEF Messages
<1>4. DOMAIN Messages(list) = 1..Len(list)
  BY <1>1 DEF Messages
<1>5. Len(Messages(list)) = Len(list)
  BY <1>1, <1>3, <1>4, LenProperties
<1> QED BY <1>1, <1>2, <1>4, <1>5 DEF Messages

LEMMA LogFacts ==
  ASSUME TypeInv
  PROVE  /\ DOMAIN Log = 1..Len(order) /\ Len(order) \in Nat /\ Len(Log) = Len(order)
         /\ \A i \in 1..Len(order) : Log[i] = order[i].m /\ Log[i] \in Message
BY MessagesFacts DEF Log, TypeInv, TypeOK, SequencerTypeOK

(* Steps that neither queue nor show nor let anybody in. *)
LEMMA OrderAlone ==
  ASSUME UNCHANGED <<order, printed, latestSequenceNum>>,
         \A c \in Clients : status'[c] = "in" <=> status[c] = "in"
  PROVE  UNCHANGED AbsVars
<1>1. Log' = Log /\ printed' = printed
  BY DEF Log, Messages
<1>2. present' = present
  BY DEF present
<1>3. start' = start
  BY DEF start, Machine
<1> QED BY <1>1, <1>2, <1>3 DEF AbsVars

LEMMA EnqueuePublishes ==
  ASSUME TypeInv, NEW t \in Thread, Enqueue(t), UNCHANGED clientVars
  PROVE  Abstract!Publish
<1> DEFINE node == [v |-> currentSequenceNum, m |-> draft[t].msg]
<1>1. /\ order' = Append(order, node)
      /\ UNCHANGED <<printed, status, latestSequenceNum>>
  BY DEF Enqueue, machineVars, clientVars
<1>2. node \in Node /\ order \in Seq(Node)
  BY DraftFields DEF Enqueue, Node, TypeInv, TypeOK, SequencerTypeOK
<1> HIDE DEF node
<1>3. Len(order') = Len(order) + 1 /\ \A i \in 1..Len(order) : order'[i] = order[i]
  BY <1>1, <1>2, AppendProperties, LenProperties
<1>4. /\ DOMAIN Log = 1..Len(order) /\ Len(order) \in Nat /\ Len(Log) = Len(order)
      /\ \A i \in 1..Len(order) : Log[i] = order[i].m /\ Log[i] \in Message
  BY LogFacts
<1>5. /\ DOMAIN Log' = 1..Len(order') /\ Len(Log') = Len(order')
      /\ \A i \in 1..Len(order') : Log'[i] = order'[i].m /\ Log'[i] \in Message
  <2>1. order' \in Seq(Node)
    BY <1>1, <1>2, AppendProperties
  <2> QED BY <2>1, MessagesFacts DEF Log
<1>6. SubSeq(Log', 1, Len(Log)) = Log
  <2>1. \A i \in 1..Len(Log) : Log'[i] = Log[i] /\ Log'[i] \in Message
    BY <1>3, <1>4, <1>5
  <2>2. /\ SubSeq(Log', 1, Len(Log)) \in Seq(Message)
        /\ Len(SubSeq(Log', 1, Len(Log))) = Len(Log)
        /\ \A i \in 1..Len(Log) : SubSeq(Log', 1, Len(Log))[i] = Log'[i]
    BY <1>4, <2>1, SubSeqProperties
  <2>3. Log \in Seq(Message)
    BY <1>4 DEF Log, Messages
  <2> QED BY <2>1, <2>2, <2>3, SeqEqual
<1>7. UNCHANGED <<present, start, printed>>
  BY <1>1 DEF present, start, Machine
<1> QED BY <1>3, <1>4, <1>5, <1>6, <1>7 DEF Abstract!Publish, Log, Messages

LEMMA EnterChatEnters ==
  ASSUME TypeInv, NumberInv, ScreenInv, JoinInv, NEW c \in Clients, ClientThread(EnterChat(c))
  PROVE  Abstract!Enter(c)
<1>1. PICK d \in Addressed("JOIN_RES", c) :
        latestSequenceNum' = [latestSequenceNum EXCEPT ![c] = LatestAtJoin(d.seq)]
  BY DEF ClientThread, EnterChat
<1>2. d.seq \in Nat /\ d.seq <= Len(order)
  <2>1. d \in net /\ d \in Datagram /\ d.type = "JOIN_RES"
    BY DEF Addressed, TypeInv, TypeOK, WireTypeOK
  <2> QED BY <2>1, DatagramFields DEF JoinInv, AnswersKnown, NumberInv, Numbered
<1>3. /\ UNCHANGED <<order, printed>> /\ status[c] = "asking"
      /\ status' = [status EXCEPT ![c] = "in"]
      /\ status \in [Clients -> {"out", "asking", "in"}]
      /\ latestSequenceNum \in [Clients -> Int] /\ c # Leader
  BY LeaderAssumption DEF ClientThread, EnterChat, sequencerVars, TypeInv, TypeOK, ClientTypeOK
<1>4. printed[c] = <<>> /\ latestSequenceNum'[c] = d.seq - 1
  BY <1>1, <1>3 DEF ScreenInv, LatestAtJoin
<1>5. c \notin present /\ present' = present \cup {c}
  BY <1>3 DEF present
<1>6. start' = [start EXCEPT ![c] = d.seq]
  <2>1. start'[c] = d.seq
    BY <1>2, <1>3, <1>4 DEF start, Machine
  <2>2. ASSUME NEW m \in Machine, m # c PROVE start'[m] = start[m]
    BY <1>1, <1>3, <2>2 DEF start, Machine
  <2>3. DOMAIN start = Machine /\ DOMAIN start' = Machine /\ c \in Machine
    BY DEF start, Machine
  <2>4. start' = [m \in Machine |-> start'[m]]
    BY DEF start
  <2> QED BY <2>1, <2>2, <2>3, <2>4
<1>7. d.seq \in 0..Len(Log) /\ Log' = Log
  BY <1>2, <1>3, LogFacts DEF Log, Messages
<1> QED BY <1>3, <1>5, <1>6, <1>7 DEF Abstract!Enter, Log, Messages

LEMMA PrintOwnShows ==
  ASSUME TypeInv, NumberInv, LeaderInv, PrintOwn, UNCHANGED clientVars
  PROVE  Abstract!Show(Leader)
<1>1. Shown + 1 \in 1..Len(order) /\ order[Shown + 1].m = cast.msg
  BY OwnIsNext
<1>2. UNCHANGED <<order, status, latestSequenceNum>>
      /\ printed' = [printed EXCEPT ![Leader] = Append(@, cast.msg)]
  BY DEF PrintOwn, PrintMessage, clientVars
<1>3. start[Leader] = 0 /\ Leader \in present
  BY DEF start, present, Machine
<1>4. UNCHANGED <<Log, present>>
  BY <1>2 DEF Log, Messages, present
<1>5. start' = start
  BY <1>2, LeaderAssumption DEF start, Machine, TypeInv, TypeOK, MachinesTypeOK
<1>6. Len(printed[Leader]) \in Nat
  BY LenProperties DEF TypeInv, TypeOK, MachinesTypeOK, Machine
<1>7. start[Leader] + Len(printed[Leader]) + 1 = Shown + 1
  BY <1>3, <1>6 DEF Shown
<1>8. Shown + 1 <= Len(Log) /\ Log[Shown + 1] = cast.msg
  BY <1>1, LogFacts
<1> QED BY <1>2, <1>3, <1>4, <1>5, <1>7, <1>8 DEF Abstract!Show, Log, Messages

LEMMA PrintNextShows ==
  ASSUME TypeInv, NumberInv, ScreenInv, FreshStamps, NEW c \in Clients,
         ClientThread(PrintNext(c))
  PROVE  Abstract!Show(c)
<1>1. PICK i \in DOMAIN client_queue[c] :
        IsNext(c, i) /\ printed' = [printed EXCEPT ![c] = Append(@, client_queue[c][i].m)]
  BY DEF ClientThread, PrintNext, PrintMessage
<1>2. /\ UNCHANGED <<order, status>> /\ status[c] = "in" /\ c # Leader /\ c \in Machine
      /\ latestSequenceNum' = [latestSequenceNum EXCEPT ![c] = @ + 1]
      /\ latestSequenceNum \in [Clients -> Int] /\ printed \in [Machine -> Seq(Message)]
  BY LeaderAssumption
     DEF ClientThread, PrintNext, InChat, sequencerVars, TypeInv, TypeOK, ClientTypeOK,
         MachinesTypeOK, Machine
<1> DEFINE msg == client_queue[c][i].m
<1>3. Ordered(msg) /\ msg.seq = latestSequenceNum[c] + 1
  BY <1>1 DEF ScreenInv, IsNext
<1>4. PICK k \in DOMAIN order : order[k].m = msg
  BY <1>3 DEF Ordered
<1>5. k \in 1..Len(order) /\ Len(order) \in Nat
  BY LenProperties DEF TypeInv, TypeOK, SequencerTypeOK
<1>6. k = latestSequenceNum[c] + 2
  <2>1. order[k].m.seq = k - 1
    BY FreshNumbers
  <2> QED BY <1>2, <1>3, <1>4, <1>5, <2>1
<1>a. Len(printed[c]) \in Nat
  BY <1>2, LenProperties
<1>7. start[c] + Len(printed[c]) + 1 = k
  <2>1. start[c] = latestSequenceNum[c] + 1 - Len(printed[c])
    BY <1>2 DEF start
  <2> QED BY <1>2, <1>6, <1>a, <2>1
<1>8. k <= Len(Log) /\ Log[k] = msg
  BY <1>4, <1>5, LogFacts
<1>9. printed' = [printed EXCEPT ![c] = Append(@, Log[k])]
  BY <1>1, <1>8
<1>10. UNCHANGED <<Log, present>> /\ c \in present
  BY <1>2 DEF Log, Messages, present
<1>11. start' = start
  <2>1. start'[c] = start[c]
    <3>1. Len(printed'[c]) = Len(printed[c]) + 1
      BY <1>1, <1>2, AppendProperties
    <3> QED BY <1>2, <1>a, <3>1 DEF start
  <2>2. \A m \in Machine : m # c => start'[m] = start[m]
    BY <1>1, <1>2 DEF start, Machine
  <2>3. start = [m \in Machine |-> start[m]] /\ start' = [m \in Machine |-> start'[m]]
    BY DEF start
  <2> QED BY <2>1, <2>2, <2>3
<1> QED BY <1>7, <1>8, <1>9, <1>10, <1>11 DEF Abstract!Show, Log, Messages

LEMMA OrderStep ==
  TypeInv /\ NumberInv /\ ScreenInv /\ LeaderInv /\ JoinInv /\ FreshStamps /\ [Next]_vars
    => [Abstract!Next]_(Abstract!absVars)
<1> SUFFICES ASSUME TypeInv, NumberInv, ScreenInv, LeaderInv, JoinInv, FreshStamps, [Next]_vars
             PROVE  Abstract!Next \/ UNCHANGED AbsVars
  BY DEF AbsVars, Log, Messages, Abstract!absVars
<1> USE DEF Abstract!Next
<1>0. Leader \in Machine /\ Clients \subseteq Machine /\ {"input", "listen", "send_hb"} = Thread
  BY DEF Machine, Thread
<1>1. ASSUME NEW t \in Thread, Enqueue(t), UNCHANGED clientVars PROVE Abstract!Next
  BY <1>1, EnqueuePublishes
<1>2. CASE LeaderThread(Input)
  <2>1. CASE TypeLine
    BY <1>2, <2>1, OrderAlone DEF LeaderThread, TypeLine, machineVars, clientVars
  <2> QED BY <1>0, <1>1, <1>2, <2>1 DEF LeaderThread, Input
<1>3. CASE LeaderThread(Listen)
  <2>1. CASE StampJoin \/ EnterJoiner \/ AnswerJoiner \/ StampLine
    BY <1>3, <2>1, OrderAlone
       DEF LeaderThread, StampJoin, EnterJoiner, AnswerJoiner, StampLine, machineVars, clientVars
  <2> QED BY <1>0, <1>1, <1>3, <2>1 DEF LeaderThread, Listen
<1>4. CASE LeaderThread(SendQueue)
  <2>1. CASE PrintOwn
    BY <1>0, <1>4, <2>1, PrintOwnShows DEF LeaderThread
  <2>2. CASE BroadcastStart \/ SkipJoiner \/ SendToMember \/ ReceiveAck \/ AckTimeout \/ BroadcastEnd
    BY <1>4, <2>2, OrderAlone
       DEF LeaderThread, BroadcastStart, SkipJoiner, SendToMember, ReceiveAck, AckTimeout,
           BroadcastEnd, machineVars, clientVars
  <2> QED BY <1>4, <2>1, <2>2 DEF LeaderThread, SendQueue
<1>5. CASE HeartbeatThread(SendHb)
  <2>1. CASE StartRound \/ EndRound \/ SkipLeader \/ SendBeat \/ CountBeat \/ RemoveDeparted
    BY <1>5, <2>1, OrderAlone
       DEF HeartbeatThread, StartRound, EndRound, SkipLeader, SendBeat, CountBeat,
           RemoveDeparted, sequencerVars, machineVars, clientVars
  <2> QED BY <1>0, <1>1, <1>5, <2>1 DEF HeartbeatThread, SendHb
<1>6. CASE HeartbeatThread(ReceiveBeatAck)
  BY <1>6, OrderAlone DEF HeartbeatThread, ReceiveBeatAck, sequencerVars, clientVars
<1>7. ASSUME NEW c \in Clients, ClientThread(Join(c)) PROVE Abstract!Next \/ UNCHANGED AbsVars
  <2>1. CASE EnterChat(c)
    BY <1>0, <1>7, <2>1, EnterChatEnters DEF ClientThread
  <2>2. ASSUME NEW h \in Machine, AskToJoin(c, h) PROVE UNCHANGED AbsVars
    <3>1. UNCHANGED <<order, printed, latestSequenceNum>>
      BY <1>7, <2>2 DEF ClientThread, AskToJoin, sequencerVars, machineVars
    <3>2. \A b \in Clients : status'[b] = "in" <=> status[b] = "in"
      BY <2>2 DEF AskToJoin, TypeInv, TypeOK, ClientTypeOK
    <3> QED BY <3>1, <3>2, OrderAlone
  <2>3. CASE AskLeader(c) \/ GiveUpJoin(c, Answering(c))
    BY <1>7, <2>3, OrderAlone
       DEF ClientThread, AskLeader, GiveUpJoin, sequencerVars, machineVars, clientVars
  <2> QED BY <1>7, <2>1, <2>2, <2>3 DEF ClientThread, Join
<1>8. ASSUME NEW c \in Clients, ClientThread(PrintNext(c)) PROVE Abstract!Next
  BY <1>0, <1>8, PrintNextShows
<1>9. ASSUME NEW c \in Clients,
             \/ ClientThread(TypeClientLine(c)) \/ ClientThread(SendOut(c))
             \/ ClientThread(ListenAtClient(c)) \/ ClientThread(AnswerBeat(c))
             \/ ClientThread(EndProcess(c))
      PROVE  UNCHANGED AbsVars
  <2>1. UNCHANGED <<order, printed, latestSequenceNum, status>>
    BY <1>9 DEF ClientThread, TypeClientLine, SendOut, SendLine, LineReceived, ListenAtClient,
                Deliver, RedirectJoiner, AnswerBeat, EndProcess, Quit, sequencerVars,
                machineVars, clientVars
  <2> QED BY <2>1, OrderAlone
<1>10. CASE ClientThread(Lose /\ UNCHANGED clientVars)
  BY <1>10, OrderAlone DEF ClientThread, Lose, sequencerVars, machineVars, clientVars
<1>11. CASE UNCHANGED vars
  BY <1>11, OrderAlone DEF vars, sequencerVars, machineVars, clientVars
<1> QED BY <1>2, <1>3, <1>4, <1>5, <1>6, <1>7, <1>8, <1>9, <1>10, <1>11 DEF Next

LEMMA OrderInit == Init => Abstract!Init
<1> SUFFICES ASSUME Init PROVE Abstract!Init
  OBVIOUS
<1>1. /\ order = <<>> /\ printed = [m \in Machine |-> <<>>]
      /\ \A c \in Clients : status[c] = "out"
  BY DEF Init, SequencerInit, MachinesInit, ClientInit
<1>2. [i \in DOMAIN order |-> order[i].m] = <<>>
  BY <1>1
<1>3. present = {Leader} /\ start = [m \in Machine |-> 0]
  BY <1>1 DEF present, start, Machine
<1> QED BY <1>1, <1>2, <1>3 DEF Abstract!Init

(* The refinement, for every number of clients, lines and faults: as long  *)
(* as no two messages carry the same number, the chat implements           *)
(* TotalOrder.  FreshStamps is what the unlocked reads of                  *)
(* currentSequenceNum may break (sequencer.c:105, 127, 164, 313), and      *)
(* nothing else in the chat can break the order.                           *)
THEOREM TotalOrderWhileFresh == Spec /\ []FreshStamps => ImplementsTotalOrder
BY OrderInit, OrderStep, TypeInvInvariant, NumberInvInvariant, ScreenInvInvariant,
   LeaderInvInvariant, JoinInvInvariant, PTL DEF Spec, ImplementsTotalOrder, Abstract!Spec

-----------------------------------------------------------------------------
(* One thread that stamps: the leader's user does not type and nobody is   *)
(* watched.  Then nobody takes a number between the listener's read and    *)
(* its locked part.                                                        *)
ListenerAlone == MaxTyped = 0 /\ MaxRounds = 0

StampInv ==
  /\ ListenerAlone
  /\ draft["input"] = Idle /\ draft["send_hb"] = Idle /\ hb.step = "rest" /\ hb.round = 0
  /\ typed = 0
  /\ draft["listen"].step \in {"add", "enqueue"} => draft["listen"].msg.seq = currentSequenceNum
  /\ \A i \in DOMAIN order : order[i].m.seq = order[i].v

LEMMA StampsAlone ==
  ASSUME StampInv, UNCHANGED <<currentSequenceNum, order, draft, hb, typed>>
  PROVE  StampInv'
BY DEF StampInv, ListenerAlone

LEMMA ListenStamps ==
  ASSUME TypeInv, StampInv, LeaderThread(Listen)
  PROVE  StampInv'
<1>0. "listen" \in Thread /\ {"input", "send_hb"} \subseteq Thread \ {"listen"}
  BY DEF Thread
<1>a. UNCHANGED <<hb, typed>>
  BY DEF LeaderThread, Listen, StampJoin, EnterJoiner, AnswerJoiner, StampLine, Enqueue
<1>1. ASSUME NEW step, NEW msg, msg.seq = currentSequenceNum, Hold("listen", step, msg),
             UNCHANGED <<currentSequenceNum, order>>
      PROVE  StampInv'
  <2>1. /\ draft'["listen"] = [step |-> step, msg |-> msg]
        /\ \A s \in Thread \ {"listen"} : draft'[s] = draft[s]
    BY <1>0, <1>1, HeldDraft
  <2> QED BY <1>0, <1>a, <1>1, <2>1 DEF StampInv, ListenerAlone
<1>2. CASE StampJoin
  <2>1. PICK d \in Addressed("JOIN_REQ", Leader) :
          Hold("listen", "add", Stamped("NEW_USER", d.from, 0, <<d.from, 0>>))
    BY <1>2 DEF StampJoin
  <2>2. Stamped("NEW_USER", d.from, 0, <<d.from, 0>>).seq = currentSequenceNum
    BY DEF Stamped, Stamp
  <2> QED BY <1>1, <1>2, <2>1, <2>2 DEF StampJoin
<1>3. CASE StampLine
  <2>1. PICK d \in Addressed("MSG_REQ", Leader) :
          Hold("listen", "enqueue", Stamped("MSG_REQ", d.msg.about, d.msg.sender_seq, d.msg.text))
    BY <1>3 DEF StampLine
  <2>2. Stamped("MSG_REQ", d.msg.about, d.msg.sender_seq, d.msg.text).seq = currentSequenceNum
    BY DEF Stamped, Stamp
  <2> QED BY <1>1, <1>3, <2>1, <2>2 DEF StampLine
<1>4. CASE EnterJoiner
  <2>1. draft["listen"].msg.seq = currentSequenceNum
    BY <1>4 DEF EnterJoiner, StampInv
  <2> QED BY <1>1, <1>4, <2>1 DEF EnterJoiner
<1>5. CASE AnswerJoiner
  <2>1. draft'["listen"] = Idle /\ \A s \in Thread \ {"listen"} : draft'[s] = draft[s]
    BY <1>0, <1>5, ReleasedDraft DEF AnswerJoiner
  <2>2. draft'["listen"].step \notin {"add", "enqueue"}
    BY <2>1 DEF Idle
  <2>3. UNCHANGED <<currentSequenceNum, order>>
    BY <1>5 DEF AnswerJoiner
  <2> QED BY <1>0, <1>a, <2>1, <2>2, <2>3 DEF StampInv, ListenerAlone
<1>6. CASE Enqueue("listen")
  <2> DEFINE node == [v |-> currentSequenceNum, m |-> draft["listen"].msg]
  <2>1. order' = Append(order, node) /\ node.m.seq = node.v
    BY <1>6 DEF Enqueue, StampInv
  <2>2. node \in Node /\ order \in Seq(Node)
    BY <1>0, <1>6, DraftFields DEF Enqueue, Node, TypeInv, TypeOK, SequencerTypeOK
  <2> HIDE DEF node
  <2>3. /\ DOMAIN order' = 1..(Len(order) + 1) /\ order'[Len(order) + 1] = node
        /\ DOMAIN order = 1..Len(order) /\ Len(order) \in Nat
        /\ \A i \in 1..Len(order) : order'[i] = order[i]
    BY <2>1, <2>2, AppendProperties, LenProperties
  <2>4. \A i \in DOMAIN order' : order'[i].m.seq = order'[i].v
    BY <2>1, <2>3 DEF StampInv
  <2>5. /\ draft'["listen"].step \notin {"add", "enqueue"}
        /\ \A s \in Thread \ {"listen"} : draft'[s] = draft[s]
    <3>1. CASE Hold("listen", "reply", draft["listen"].msg)
      <4>1. /\ draft'["listen"] = [step |-> "reply", msg |-> draft["listen"].msg]
            /\ \A s \in Thread \ {"listen"} : draft'[s] = draft[s]
        BY <1>0, <3>1, HeldDraft
      <4> QED BY <4>1
    <3>2. CASE Release("listen")
      <4>1. draft'["listen"] = Idle /\ \A s \in Thread \ {"listen"} : draft'[s] = draft[s]
        BY <1>0, <3>2, ReleasedDraft
      <4> QED BY <4>1 DEF Idle
    <3> QED BY <1>6, <3>1, <3>2 DEF Enqueue
  <2> QED BY <1>0, <1>a, <2>4, <2>5 DEF StampInv, ListenerAlone
<1> QED BY <1>2, <1>3, <1>4, <1>5, <1>6 DEF LeaderThread, Listen

LEMMA StampInvStep == TypeInv /\ StampInv /\ [Next]_vars => StampInv'
<1> SUFFICES ASSUME TypeInv, StampInv, [Next]_vars PROVE StampInv'
  OBVIOUS
<1>1. CASE LeaderThread(Input)
  BY <1>1 DEF LeaderThread, Input, TypeLine, Enqueue, StampInv, ListenerAlone, Idle
<1>2. CASE HeartbeatThread(SendHb)
  <2>1. draft["send_hb"].step # "enqueue" /\ hb.step = "rest" /\ ~(hb.round < MaxRounds)
    BY DEF StampInv, ListenerAlone, Idle
  <2> QED BY <1>2, <2>1 DEF HeartbeatThread, SendHb, StartRound, EndRound, SkipLeader, SendBeat,
                            CountBeat, RemoveDeparted, Enqueue, HbAt
<1>3. CASE LeaderThread(SendQueue)
  BY <1>3, StampsAlone
     DEF LeaderThread, SendQueue, BroadcastStart, PrintOwn, SkipJoiner, SendToMember,
         ReceiveAck, AckTimeout, BroadcastEnd
<1>4. CASE HeartbeatThread(ReceiveBeatAck)
  BY <1>4, StampsAlone DEF HeartbeatThread, ReceiveBeatAck, sequencerVars
<1>5. ASSUME UNCHANGED <<sequencerVars, hb>> PROVE StampInv'
  BY <1>5, StampsAlone DEF sequencerVars
<1>6. CASE UNCHANGED vars
  BY <1>5, <1>6 DEF vars
<1> QED BY <1>1, <1>2, <1>3, <1>4, <1>5, <1>6, ListenStamps DEF Next, ClientThread

LEMMA FreshWhenAlone == TypeInv /\ NumberInv /\ StampInv => FreshStamps
<1> SUFFICES ASSUME TypeInv, NumberInv, StampInv, NEW i \in DOMAIN order, NEW j \in DOMAIN order,
                    order[i].m.seq = order[j].m.seq
             PROVE  i = j
  BY DEF FreshStamps
<1>1. i \in Nat /\ j \in Nat
  BY LenProperties DEF TypeInv, TypeOK, SequencerTypeOK
<1>2. i - 1 = j - 1
  BY DEF StampInv, NumberInv, Numbered
<1> QED BY <1>1, <1>2

(* With one stamping thread the chat implements TotalOrder, without any    *)
(* further condition: for every number of clients and lines, however       *)
(* members join, however datagrams are lost, repeated and overtaken        *)
(* (sequencer.c:99-189, 195-273, client.c:255-411).                        *)
THEOREM TotalOrderOfOneStamper == ListenerAlone /\ Spec => ImplementsTotalOrder
<1>1. ListenerAlone /\ Init => StampInv
  <2> SUFFICES ASSUME ListenerAlone, Init PROVE StampInv
    OBVIOUS
  <2>1. /\ draft["input"] = Idle /\ draft["send_hb"] = Idle /\ draft["listen"] = Idle
        /\ hb.step = "rest" /\ hb.round = 0 /\ typed = 0 /\ order = <<>>
    BY DEF Init, SequencerInit, HeartbeatInit, Thread
  <2>2. draft["listen"].step \notin {"add", "enqueue"}
    BY <2>1 DEF Idle
  <2> QED BY <2>1, <2>2 DEF StampInv
<1> QED BY <1>1, StampInvStep, FreshWhenAlone, TypeInvInvariant, NumberInvInvariant,
           TotalOrderWhileFresh, PTL DEF Spec
-----------------------------------------------------------------------------
(***************************************************************************)
(* What the members are sent: as long as nobody leaves and at most three   *)
(* datagrams of a broadcast are lost, every message a member still expects *)
(* is on its way to it, and the tables agree once everything has arrived.  *)
(***************************************************************************)

Ids(table) == {table[k].id : k \in DOMAIN table}

(* Broadcasts and acknowledgements under way. *)
Pending == {d \in net : d.type \in {"CAST", "ACK"}}

(* Nothing is sent to a process that has ended, and the leader's has not.  *)
NoneStray == Leader \notin gone /\ \A d \in net : d.to \notin gone

(* As long as no timeout is early there is one broadcast or one            *)
(* acknowledgement under way, and each repetition has cost a loss.         *)
Waiting ==
  /\ \A d \in Pending :
       /\ d.v = cast.v
       /\ d.type = "ACK" => d.to = Leader
       /\ d.type = "CAST" => d.to = cast.to /\ d.msg = cast.msg
  /\ cast.to \notin gone => lost >= cast.n /\ (Pending = {} => lost > cast.n)

Calm ==
  early = 0 /\ lost < 3 =>
    /\ \A d, e \in Pending : d = e
    /\ IF cast.stage = "wait" THEN Waiting ELSE Pending = {}
    /\ cast.stage = "next" => cast.n = 0

(* Who is in the leader's table, and why. *)
Entering(m) ==
  draft["listen"].step = "enqueue" /\ draft["listen"].msg.type = "NEW_USER"
    /\ draft["listen"].msg.about = m

Noticed ==
  /\ draft["listen"].step = "add" => draft["listen"].msg.type = "NEW_USER"
  /\ draft["listen"].step \in {"enqueue", "reply"} /\ draft["listen"].msg.type = "NEW_USER"
       => draft["listen"].msg.about \in Listed(Leader)
  /\ \A i \in DOMAIN order : order[i].m.type = "NEW_USER" => order[i].m.about \in Listed(Leader)
  /\ \A m \in Listed(Leader) : m = Leader \/ Entering(m) \/ \E i \in DOMAIN order : Notice(i, m)

(* Message order[i] is still on its way to c: it will be sent, is being    *)
(* sent, or will be sent again.                                            *)
Queues(c, i) ==
  \E k \in DOMAIN sequencer_queue :
    sequencer_queue[k] = order[i] /\ (k > 1 \/ cast = NoCast \/ c \notin cast.served)
Travels(c, i) ==
  \E d \in net : d.type = "CAST" /\ d.to = c /\ d.v = order[i].v /\ d.msg = order[i].m
SentAgain(c, i) ==
  /\ cast.stage = "wait" /\ cast.to = c /\ order[i].v = cast.v /\ order[i].m = cast.msg
  /\ \A d \in Pending : d.v # cast.v
OnWay(c, i) == Queues(c, i) \/ Travels(c, i) \/ SentAgain(c, i)

(* Or c does not need it: it expects a later number or has received the    *)
(* message, and knows the member it is about.                              *)
Held(c, i, number, ids) ==
  /\ \/ order[i].m.seq < number
     \/ \E k \in DOMAIN client_queue[c] : client_queue[c][k].m = order[i].m
  /\ order[i].m.type = "NEW_USER" => order[i].m.about \in ids

View(c, number, ids) ==
  /\ c \in ids /\ Leader \in ids /\ ids \subseteq Listed(Leader)
  /\ \A i \in DOMAIN order : OnWay(c, i) \/ Held(c, i, number, ids)

(* What c knows, or will know from the answer on its way: the number to    *)
(* expect and the members.                                                 *)
Answer(d, c) == d.type = "JOIN_RES" /\ d.isLeader /\ d.to = c
Knows(c, number, ids) ==
  \/ InChat(c) /\ number = latestSequenceNum[c] + 1 /\ ids = Listed(c)
  \/ \E d \in net : Answer(d, c) /\ number = d.seq /\ ids = Ids(d.table)

Views == \A c \in Clients : \A number, ids : Knows(c, number, ids) => View(c, number, ids)

ReachInv ==
  NoneStray /\ Calm /\ (NoDeparture => Noticed) /\ (EnoughArrives /\ NoDeparture => Views)

-----------------------------------------------------------------------------
LEMMA IdsListed == \A m : Listed(m) = Ids(others[m])
BY DEF Listed, Ids

LEMMA IdsAdded ==
  ASSUME NEW table \in Seq(Entry), NEW m \in Machine
  PROVE  Ids(AddClient(table, m)) = Ids(table) \cup {m}
<1>1. CASE \E i \in DOMAIN table : table[i].id = m /\ table[i].isLeader = IsLeader(m)
  BY <1>1 DEF AddClient, Ids
<1>2. CASE ~\E i \in DOMAIN table : table[i].id = m /\ table[i].isLeader = IsLeader(m)
  <2>1. NewEntry(m) \in Entry /\ NewEntry(m).id = m
    BY DEF NewEntry, Entry, IsLeader
  <2>2. PICK longer : longer = Append(table, NewEntry(m))
    OBVIOUS
  <2>3. /\ DOMAIN table = 1..Len(table) /\ Len(table) \in Nat
        /\ DOMAIN longer = 1..(Len(table) + 1)
        /\ \A i \in 1..Len(table) : longer[i] = table[i]
        /\ longer[Len(table) + 1] = NewEntry(m)
    BY <2>1, <2>2, AppendProperties, LenProperties
  <2>4. DOMAIN longer = DOMAIN table \cup {Len(table) + 1}
    BY <2>3
  <2>5. Ids(longer) = Ids(table) \cup {m}
    BY <2>1, <2>3, <2>4 DEF Ids
  <2> QED BY <1>2, <2>2, <2>5 DEF AddClient
<1> QED BY <1>1, <1>2

LEMMA IdsCounted ==
  ASSUME NEW table \in Seq(Entry), NEW i \in DOMAIN table, NEW n
  PROVE  Ids([table EXCEPT ![i].missed = n]) = Ids(table)
<1>1. \A k \in DOMAIN table : table[k] \in Entry
  OBVIOUS
<1>2. [table[i] EXCEPT !.missed = n].id = table[i].id
  BY <1>1 DEF Entry
<1> QED BY <1>2 DEF Ids

LEMMA DepartureStays == OrderGrows /\ NoDeparture' => NoDeparture
BY DEF OrderGrows, NoDeparture

LEMMA NoticedAlone ==
  ASSUME Noticed, UNCHANGED order, draft'["listen"] = draft["listen"],
         Listed(Leader)' = Listed(Leader)
  PROVE  Noticed'
BY DEF Noticed, Entering, Notice

(* Everyone's view goes on if what is on its way stays on its way or       *)
(* arrives, and nobody gets to know anything new.                          *)
LEMMA ViewsGoOn ==
  ASSUME Views, UNCHANGED <<order, client_queue>>, Listed(Leader) \subseteq Listed(Leader)',
         \A c \in Clients : \A number, ids : Knows(c, number, ids)' => Knows(c, number, ids),
         \A c \in Clients, i \in DOMAIN order : \A number, ids :
           Knows(c, number, ids) /\ c \in ids /\ ids \subseteq Listed(Leader) /\ OnWay(c, i)
             => OnWay(c, i)' \/ Held(c, i, number, ids)
  PROVE  Views'
<1> SUFFICES ASSUME NEW c \in Clients, NEW number, NEW ids, Knows(c, number, ids)'
             PROVE  View(c, number, ids)'
  BY DEF Views
<1>1. Knows(c, number, ids) /\ View(c, number, ids)
  BY DEF Views
<1>2. ASSUME NEW i \in DOMAIN order PROVE OnWay(c, i)' \/ Held(c, i, number, ids)
  BY <1>1 DEF View
<1>3. \A i : Held(c, i, number, ids)' <=> Held(c, i, number, ids)
  BY DEF Held
<1> QED BY <1>1, <1>2, <1>3 DEF View

(* Steps aside of the broadcasts: they leave alone what is numbered, sent  *)
(* and queued.                                                             *)
Aside ==
  /\ UNCHANGED <<order, sequencer_queue, cast, client_queue, latestSequenceNum, gone, lost, early>>
  /\ Pending' = Pending
  /\ \A d \in net' : d \in net \/ (d.to \notin gone /\ ~(d.type = "JOIN_RES" /\ d.isLeader))
  /\ \A c \in Clients : (InChat(c)' => InChat(c)) /\ Listed(c)' = Listed(c)
  /\ NoDeparture => Listed(Leader) \subseteq Listed(Leader)'

LEMMA AsideReach ==
  ASSUME ReachInv, Aside, NoDeparture' => Noticed'
  PROVE  ReachInv'
<1>1. NoneStray'
  BY DEF ReachInv, NoneStray, Aside
<1>2. Calm'
  BY DEF ReachInv, Calm, Waiting, Aside
<1>3. (NoDeparture' <=> NoDeparture) /\ (EnoughArrives' <=> EnoughArrives)
  BY DEF NoDeparture, EnoughArrives, Aside
<1>4. ASSUME NEW c \in Clients, NEW number, NEW ids, Knows(c, number, ids)'
      PROVE  Knows(c, number, ids)
  BY <1>4 DEF Aside, Knows, Answer
<1>5. ASSUME NEW c \in Clients, NEW i \in DOMAIN order, OnWay(c, i) PROVE OnWay(c, i)'
  <2>1. Queues(c, i) => Queues(c, i)'
    BY DEF Queues, Aside
  <2>2. Travels(c, i) => Travels(c, i)'
    BY DEF Travels, Aside, Pending
  <2>3. SentAgain(c, i) => SentAgain(c, i)'
    BY DEF SentAgain, Aside
  <2> QED BY <1>5, <2>1, <2>2, <2>3 DEF OnWay
<1>6. EnoughArrives' /\ NoDeparture' => Views'
  <2> SUFFICES ASSUME EnoughArrives', NoDeparture' PROVE Views'
    OBVIOUS
  <2>1. Views /\ Listed(Leader) \subseteq Listed(Leader)'
    BY <1>3 DEF ReachInv, Aside
  <2>2. UNCHANGED <<order, client_queue>>
    BY DEF Aside
  <2> QED BY <1>4, <1>5, <2>1, <2>2, ViewsGoOn
<1> QED BY <1>1, <1>2, <1>6 DEF ReachInv

LEMMA AsideNet ==
  ASSUME NEW received, NEW sent, Transmit(received, sent),
         \A d \in received : d.type \notin {"CAST", "ACK"},
         \A d \in sent : d.type \notin {"CAST", "ACK"} /\ ~(d.type = "JOIN_RES" /\ d.isLeader)
  PROVE  /\ Pending' = Pending
         /\ \A d \in net' :
              d \in net \/ (d.to \notin gone /\ ~(d.type = "JOIN_RES" /\ d.isLeader))
<1>1. net' = (net \ received) \cup {d \in sent : d.to \notin gone}
  BY DEF Transmit
<1>2. \A d : d \in Pending' <=> d \in Pending
  BY <1>1 DEF Pending
<1>3. Pending' = Pending
  BY <1>2 DEF Pending
<1> QED BY <1>1, <1>3

NetAside ==
  \/ net' = net
  \/ /\ Pending' = Pending
     /\ \A d \in net' : d \in net \/ (d.to \notin gone /\ ~(d.type = "JOIN_RES" /\ d.isLeader))

LEMMA AsideOf ==
  ASSUME NetAside,
         UNCHANGED <<order, sequencer_queue, cast, client_queue, latestSequenceNum, gone, lost, early>>,
         \A c \in Clients : InChat(c)' => InChat(c),
         \A c \in Clients : others'[c] = others[c],
         NoDeparture => Listed(Leader) \subseteq Listed(Leader)'
  PROVE  Aside
<1>1. \A c \in Clients : Listed(c)' = Listed(c)
  BY DEF Listed
<1>2. Pending' = Pending
  BY DEF NetAside, Pending
<1> QED BY <1>1, <1>2 DEF Aside, NetAside

(* The clients' steps that are aside of the broadcasts.                    *)
LEMMA ClientAside ==
  ASSUME TypeInv, NEW c \in Clients,
         \/ \E h \in Machine : ClientThread(AskToJoin(c, h))
         \/ ClientThread(AskLeader(c)) \/ ClientThread(TypeClientLine(c))
         \/ ClientThread(SendOut(c)) \/ ClientThread(RedirectJoiner(c))
         \/ ClientThread(AnswerBeat(c))
  PROVE  Aside /\ UNCHANGED <<draft, others>>
<1> USE DEF ClientThread
<1>1. UNCHANGED <<order, sequencer_queue, cast, draft, others, client_queue, latestSequenceNum,
                  gone, lost, early>>
  BY DEF AskToJoin, AskLeader, TypeClientLine, SendOut, SendLine, LineReceived, RedirectJoiner,
         AnswerBeat, sequencerVars, machineVars, wireVars, clientVars
<1>2. NetAside
  <2>1. ASSUME NEW h \in Machine, AskToJoin(c, h) PROVE NetAside
    BY <2>1, AsideNet DEF AskToJoin, NetAside
  <2>2. CASE AskLeader(c)
    <3>1. PICK d \in Addressed("JOIN_RES", c) :
            Transmit({d}, {[type |-> "JOIN_REQ", from |-> c, to |-> d.host]})
      BY <2>2 DEF AskLeader
    <3>2. d.type = "JOIN_RES"
      BY DEF Addressed
    <3> QED BY <3>1, <3>2, AsideNet DEF NetAside
  <2>3. CASE TypeClientLine(c)
    BY <2>3 DEF TypeClientLine, wireVars, NetAside
  <2>4. CASE SendLine(c)
    <3>1. PICK msg : Transmit({}, {[type |-> "MSG_REQ", from |-> c, to |-> host[c], msg |-> msg]})
      BY <2>4 DEF SendLine
    <3> QED BY <3>1, AsideNet DEF NetAside
  <2>5. CASE LineReceived(c)
    <3>1. PICK d \in Addressed("MSG_RES", c) : Transmit({d}, {})
      BY <2>5 DEF LineReceived
    <3>2. d.type = "MSG_RES"
      BY DEF Addressed
    <3> QED BY <3>1, <3>2, AsideNet DEF NetAside
  <2>6. CASE RedirectJoiner(c)
    <3>1. PICK d, answer :
            /\ d \in Addressed("JOIN_REQ", c)
            /\ Transmit({d}, {answer})
            /\ answer = [type |-> "JOIN_RES", to |-> d.from, isLeader |-> FALSE,
                         host |-> host[c], seq |-> 0, table |-> others[c]]
      BY <2>6 DEF RedirectJoiner
    <3>2. d.type = "JOIN_REQ" /\ answer.type = "JOIN_RES" /\ ~answer.isLeader
      BY <3>1 DEF Addressed
    <3> QED BY <3>1, <3>2, AsideNet DEF NetAside
  <2>7. CASE AnswerBeat(c)
    <3>1. PICK d, answer :
            /\ d \in Addressed("BEAT", c)
            /\ Transmit({d}, {answer})
            /\ answer = [type |-> "BEAT_ACK", from |-> c, to |-> Leader, round |-> d.round]
      BY <2>7 DEF AnswerBeat
    <3>2. d.type = "BEAT" /\ answer.type = "BEAT_ACK"
      BY <3>1 DEF Addressed
    <3> QED BY <3>1, <3>2, AsideNet DEF NetAside
  <2> QED BY <2>1, <2>2, <2>3, <2>4, <2>5, <2>6, <2>7 DEF SendOut
<1>3. status' = status \/ status' = [status EXCEPT ![c] = "asking"]
  BY DEF AskToJoin, AskLeader, TypeClientLine, SendOut, SendLine, LineReceived, RedirectJoiner,
         AnswerBeat, clientVars
<1>4. \A b \in Clients : InChat(b)' => InChat(b)
  BY <1>1, <1>3 DEF InChat, TypeInv, TypeOK, ClientTypeOK
<1>5. Listed(Leader)' = Listed(Leader)
  BY <1>1 DEF Listed
<1> QED BY <1>1, <1>2, <1>4, <1>5, AsideOf

(* The heartbeats count, but do not remove anybody while no notice of a    *)
(* departure has been queued.                                              *)
LEMMA HeartbeatAside ==
  ASSUME TypeInv, VisitInv,
         \/ HeartbeatThread(ReceiveBeatAck)
         \/ HeartbeatThread(StartRound \/ EndRound \/ SkipLeader \/ SendBeat \/ CountBeat
                             \/ RemoveDeparted)
  PROVE  /\ Aside /\ draft'["listen"] = draft["listen"]
         /\ NoDeparture => Listed(Leader)' = Listed(Leader)
<1> USE DEF HeartbeatThread
<1>0. /\ others \in [Machine -> Seq(Entry)] /\ others[Leader] \in Seq(Entry)
      /\ Leader \in DOMAIN others /\ Leader \notin Clients /\ draft \in [Thread -> Draft]
  BY LeaderAssumption DEF TypeInv, TypeOK, MachinesTypeOK, SequencerTypeOK, Machine
<1>1. /\ UNCHANGED <<order, sequencer_queue, cast, client_queue, latestSequenceNum, status,
                      gone, lost, early>>
      /\ draft'["listen"] = draft["listen"]
  <2>1. CASE CountBeat
    BY <1>0, <2>1 DEF CountBeat, Hold, Thread, wireVars, clientVars
  <2> QED BY <2>1 DEF ReceiveBeatAck, StartRound, EndRound, SkipLeader, SendBeat, RemoveDeparted,
                      sequencerVars, wireVars, clientVars
<1>2. \A c \in Clients : InChat(c)' => InChat(c)
  BY <1>1 DEF InChat
<1>3. CASE StartRound \/ EndRound \/ SkipLeader
  <2>1. UNCHANGED <<net, others>>
    BY <1>3 DEF StartRound, EndRound, SkipLeader, wireVars, machineVars
  <2> QED BY <1>1, <1>2, <2>1, AsideOf DEF NetAside, Listed
<1>4. CASE SendBeat
  <2>1. Transmit({}, {[type |-> "BEAT", to |-> HbSlot.id, round |-> hb.round]}) /\ others' = others
    BY <1>4 DEF SendBeat, machineVars
  <2>2. NetAside
    BY <2>1, AsideNet DEF NetAside
  <2> QED BY <1>1, <1>2, <2>1, <2>2, AsideOf DEF Listed
<1>5. CASE CountBeat
  <2>1. hb.i \in DOMAIN others[Leader] /\ net' = net
    BY <1>5 DEF CountBeat, HbAt, wireVars
  <2>2. PICK n : others' = [others EXCEPT ![Leader][hb.i].missed = n]
    BY <1>5 DEF CountBeat
  <2>3. PICK counted : counted = [others[Leader] EXCEPT ![hb.i].missed = n]
    OBVIOUS
  <2>4. Ids(counted) = Ids(others[Leader])
    BY <1>0, <2>1, <2>3, IdsCounted
  <2>5. others'[Leader] = counted /\ \A c \in Clients : others'[c] = others[c]
    BY <1>0, <2>2, <2>3
  <2>6. Listed(Leader)' = Listed(Leader)
    BY <2>4, <2>5 DEF Listed, Ids
  <2> QED BY <1>1, <1>2, <2>1, <2>5, <2>6, AsideOf DEF NetAside
<1>6. CASE RemoveDeparted
  <2>1. ~NoDeparture
    BY <1>6 DEF RemoveDeparted, HbAt, VisitInv, NoticeFirst
  <2>2. net' = net /\ \A c \in Clients : others'[c] = others[c]
    BY <1>0, <1>6 DEF RemoveDeparted, wireVars
  <2> QED BY <1>1, <1>2, <2>1, <2>2, AsideOf DEF NetAside
<1>7. CASE ReceiveBeatAck
  <2>1. PICK d \in Addressed("BEAT_ACK", Leader) :
          /\ Transmit({d}, {})
          /\ LET slots == {i \in DOMAIN others[Leader] : others[Leader][i].id = d.from}
             IN  others' = IF slots = {} THEN others
                           ELSE [others EXCEPT ![Leader][Min(slots)].missed = 0]
    BY <1>7 DEF ReceiveBeatAck
  <2>2. NetAside
    <3>1. d.type = "BEAT_ACK"
      BY DEF Addressed
    <3> QED BY <2>1, <3>1, AsideNet DEF NetAside
  <2> DEFINE slots == {i \in DOMAIN others[Leader] : others[Leader][i].id = d.from}
  <2>3. slots \in SUBSET Nat /\ slots \subseteq DOMAIN others[Leader]
    BY <1>0, LenProperties
  <2>4. others' = IF slots = {} THEN others ELSE [others EXCEPT ![Leader][Min(slots)].missed = 0]
    BY <2>1
  <2> HIDE DEF slots
  <2>5. (\A c \in Clients : others'[c] = others[c]) /\ Listed(Leader)' = Listed(Leader)
    <3>1. CASE slots = {}
      BY <2>4, <3>1 DEF Listed
    <3>2. CASE slots # {}
      <4>1. PICK k : k = Min(slots) /\ k \in DOMAIN others[Leader]
        BY <2>3, <3>2, MinIsMember
      <4>2. PICK counted : counted = [others[Leader] EXCEPT ![k].missed = 0]
        OBVIOUS
      <4>3. Ids(counted) = Ids(others[Leader])
        BY <1>0, <4>1, <4>2, IdsCounted
      <4>4. others'[Leader] = counted /\ \A c \in Clients : others'[c] = others[c]
        BY <1>0, <2>4, <3>2, <4>1, <4>2
      <4> QED BY <4>3, <4>4 DEF Listed, Ids
    <3> QED BY <3>1, <3>2
  <2> QED BY <1>1, <1>2, <2>2, <2>5, AsideOf
<1> QED BY <1>3, <1>4, <1>5, <1>6, <1>7

-----------------------------------------------------------------------------
LEMMA TypeLineReach ==
  ASSUME TypeInv, ReachInv, LeaderThread(TypeLine)
  PROVE  ReachInv'
<1> USE DEF LeaderThread
<1>1. /\ UNCHANGED <<order, sequencer_queue, cast, client_queue, latestSequenceNum, status, net,
                      gone, lost, early, others>>
      /\ draft'["listen"] = draft["listen"]
  BY DEF TypeLine, Hold, Thread, TypeInv, TypeOK, SequencerTypeOK, wireVars, machineVars, clientVars
<1>2. Listed(Leader)' = Listed(Leader) /\ \A c \in Clients : InChat(c)' => InChat(c)
  BY <1>1 DEF Listed, InChat
<1>3. Aside
  BY <1>1, <1>2, AsideOf DEF NetAside
<1>4. NoDeparture' => Noticed'
  BY <1>1, <1>2, NoticedAlone DEF ReachInv, NoDeparture
<1> QED BY <1>3, <1>4, AsideReach

(* The listener's first steps: a request is stamped, the joiner entered in *)
(* the table.                                                              *)
LEMMA ListenAside ==
  ASSUME TypeInv, ReachInv,
         LeaderThread(StampJoin) \/ LeaderThread(EnterJoiner) \/ LeaderThread(StampLine)
  PROVE  ReachInv'
<1> USE DEF LeaderThread
<1>0. /\ others \in [Machine -> Seq(Entry)] /\ others[Leader] \in Seq(Entry) /\ "listen" \in Thread
      /\ Leader \in DOMAIN others /\ Leader \notin Clients
  BY LeaderAssumption DEF TypeInv, TypeOK, MachinesTypeOK, Machine, Thread
<1>1. UNCHANGED <<order, sequencer_queue, cast, client_queue, latestSequenceNum, status, gone, lost,
                  early>>
  BY DEF StampJoin, EnterJoiner, StampLine, wireVars, clientVars
<1>2. /\ \A c \in Clients : InChat(c)' => InChat(c)
      /\ NoDeparture' <=> NoDeparture
  BY <1>1 DEF InChat, NoDeparture
<1>3. CASE StampJoin
  <2>1. PICK d, msg :
          /\ d \in Addressed("JOIN_REQ", Leader)
          /\ Transmit({d}, {}) /\ Hold("listen", "add", msg)
          /\ msg = Stamped("NEW_USER", d.from, 0, <<d.from, 0>>)
    BY <1>3 DEF StampJoin
  <2>2. NetAside
    <3>1. d.type = "JOIN_REQ"
      BY <2>1 DEF Addressed
    <3> QED BY <2>1, <3>1, AsideNet DEF NetAside
  <2>3. draft'["listen"] = [step |-> "add", msg |-> msg] /\ msg.type = "NEW_USER"
    <3>1. msg.type = "NEW_USER"
      BY <2>1 DEF Stamped
    <3> QED BY <1>0, <2>1, <3>1, HeldDraft
  <2>4. draft["listen"].step = "idle" /\ others' = others
    BY <1>3 DEF StampJoin, Idle, machineVars
  <2>5. Listed(Leader)' = Listed(Leader)
    BY <2>4 DEF Listed
  <2>6. Noticed => Noticed'
    BY <1>1, <2>3, <2>4, <2>5 DEF Noticed, Entering, Notice
  <2>7. Aside
    BY <1>1, <1>2, <2>2, <2>4, <2>5, AsideOf
  <2> QED BY <1>2, <2>6, <2>7, AsideReach DEF ReachInv
<1>4. CASE EnterJoiner
  <2>1. PICK msg : msg = draft["listen"].msg
    OBVIOUS
  <2>2. /\ others' = [others EXCEPT ![Leader] = AddClient(@, msg.about)] /\ net' = net
        /\ Hold("listen", "enqueue", msg) /\ draft["listen"].step = "add"
    BY <1>4, <2>1 DEF EnterJoiner, wireVars
  <2>3. msg.about \in Machine
    BY <1>0, <2>1, <2>2, DraftFields DEF TypeInv, Message
  <2>4. draft'["listen"] = [step |-> "enqueue", msg |-> msg]
    BY <1>0, <2>2, HeldDraft
  <2>5. others'[Leader] = AddClient(others[Leader], msg.about)
        /\ \A c \in Clients : others'[c] = others[c]
    BY <1>0, <2>2
  <2>6. Listed(Leader)' = Listed(Leader) \cup {msg.about}
    <3>1. PICK longer : longer = AddClient(others[Leader], msg.about)
      OBVIOUS
    <3>2. Ids(longer) = Ids(others[Leader]) \cup {msg.about}
      BY <1>0, <2>3, <3>1, IdsAdded
    <3> QED BY <2>5, <3>1, <3>2 DEF Listed, Ids
  <2>7. Noticed => Noticed'
    <3> SUFFICES ASSUME Noticed PROVE Noticed'
      OBVIOUS
    <3>1. msg.type = "NEW_USER"
      BY <2>1, <2>2 DEF Noticed
    <3>2. \A m : ~Entering(m)
      BY <2>2 DEF Entering
    <3>3. Entering(msg.about)'
      BY <2>4, <3>1 DEF Entering
    <3>4. \A m \in Listed(Leader)' :
            m = Leader \/ Entering(m)' \/ \E i \in DOMAIN order' : Notice(i, m)'
      BY <1>1, <2>6, <3>2, <3>3 DEF Noticed, Notice
    <3> QED BY <1>1, <2>4, <2>6, <3>1, <3>4 DEF Noticed
  <2>8. Aside
    BY <1>1, <1>2, <2>2, <2>5, <2>6, AsideOf DEF NetAside
  <2> QED BY <1>2, <2>7, <2>8, AsideReach DEF ReachInv
<1>5. CASE StampLine
  <2>1. PICK d, msg, answer :
          /\ d \in Addressed("MSG_REQ", Leader)
          /\ Transmit({d}, {answer}) /\ Hold("listen", "enqueue", msg)
          /\ answer = [type |-> "MSG_RES", to |-> d.from]
          /\ msg = Stamped("MSG_REQ", d.msg.about, d.msg.sender_seq, d.msg.text)
    BY <1>5 DEF StampLine
  <2>2. NetAside
    <3>1. d.type = "MSG_REQ" /\ answer.type = "MSG_RES"
      BY <2>1 DEF Addressed
    <3> QED BY <2>1, <3>1, AsideNet DEF NetAside
  <2>3. draft'["listen"] = [step |-> "enqueue", msg |-> msg] /\ msg.type = "MSG_REQ"
    <3>1. msg.type = "MSG_REQ"
      BY <2>1 DEF Stamped
    <3> QED BY <1>0, <2>1, <3>1, HeldDraft
  <2>4. draft["listen"].step = "idle" /\ others' = others
    BY <1>5 DEF StampLine, Idle, machineVars
  <2>5. Listed(Leader)' = Listed(Leader)
    BY <2>4 DEF Listed
  <2>6. Noticed => Noticed'
    BY <1>1, <2>3, <2>4, <2>5 DEF Noticed, Entering, Notice
  <2>7. Aside
    BY <1>1, <1>2, <2>2, <2>4, <2>5, AsideOf
  <2> QED BY <1>2, <2>6, <2>7, AsideReach DEF ReachInv
<1> QED BY <1>3, <1>4, <1>5

(* The answer to a joiner: everything queued so far has a number before    *)
(* the one it is told, and its table has everyone a notice is about.       *)
LEMMA AnswerJoinerReach ==
  ASSUME TypeInv, NumberInv, LeaderInv, JoinInv, ReachInv, LeaderThread(AnswerJoiner)
  PROVE  ReachInv'
<1> USE DEF LeaderThread
<1>0. PICK joiner, answer :
        /\ joiner = draft["listen"].msg.about
        /\ answer = [type |-> "JOIN_RES", to |-> joiner, isLeader |-> TRUE, host |-> Leader,
                     seq |-> currentSequenceNum, table |-> others[Leader]]
  OBVIOUS
<1>1. /\ UNCHANGED <<order, sequencer_queue, cast, client_queue, latestSequenceNum, status, gone,
                      lost, early, others>>
      /\ Transmit({}, {answer}) /\ Release("listen") /\ draft["listen"].step = "reply"
  BY <1>0 DEF AnswerJoiner, JoinNumber, machineVars, clientVars
<1>2. /\ answer.type = "JOIN_RES" /\ answer.to = joiner /\ answer.seq = currentSequenceNum
      /\ answer.table = others[Leader]
  BY <1>0
<1>3. net \subseteq net' /\ \A d \in net' : d \in net \/ (d = answer /\ d.to \notin gone)
  BY <1>1 DEF Transmit
<1>4. Pending' = Pending
  <2>1. \A d : d \in Pending' <=> d \in Pending
    BY <1>2, <1>3 DEF Pending
  <2> QED BY <2>1 DEF Pending
<1>5. NoneStray' /\ Calm'
  <2>1. NoneStray'
    BY <1>1, <1>3 DEF ReachInv, NoneStray
  <2>2. Calm'
    BY <1>1, <1>4 DEF ReachInv, Calm, Waiting
  <2> QED BY <2>1, <2>2
<1>6. Noticed => Noticed'
  <2>1. draft'["listen"].step = "idle"
    <3>1. draft'["listen"] = Idle
      BY <1>1, ReleasedDraft DEF Thread
    <3> QED BY <3>1 DEF Idle
  <2>2. \A m : ~Entering(m)
    BY <1>1 DEF Entering
  <2>3. Listed(Leader)' = Listed(Leader)
    BY <1>1 DEF Listed
  <2> QED BY <1>1, <2>1, <2>2, <2>3 DEF Noticed, Notice
<1>7. (NoDeparture' <=> NoDeparture) /\ (EnoughArrives' <=> EnoughArrives)
  BY <1>1 DEF NoDeparture, EnoughArrives
<1>8. ASSUME NoDeparture, Views PROVE Views'
  <2> SUFFICES ASSUME NEW c \in Clients, NEW number, NEW ids, Knows(c, number, ids)'
               PROVE  View(c, number, ids)'
    BY DEF Views
  <2>0. (\A m : Listed(m)' = Listed(m)) /\ (InChat(c)' <=> InChat(c))
    BY <1>1 DEF Listed, InChat
  <2>1. CASE Knows(c, number, ids)
    <3>1. View(c, number, ids)
      BY <1>8, <2>1 DEF Views
    <3>2. ASSUME NEW i \in DOMAIN order, OnWay(c, i) PROVE OnWay(c, i)'
      <4>1. Queues(c, i) => Queues(c, i)'
        BY <1>1 DEF Queues
      <4>2. Travels(c, i) => Travels(c, i)'
        BY <1>1, <1>3 DEF Travels
      <4>3. SentAgain(c, i) => SentAgain(c, i)'
        BY <1>1, <1>4 DEF SentAgain
      <4> QED BY <3>2, <4>1, <4>2, <4>3 DEF OnWay
    <3>3. \A i : Held(c, i, number, ids)' <=> Held(c, i, number, ids)
      BY <1>1 DEF Held
    <3> QED BY <1>1, <2>0, <3>1, <3>2, <3>3 DEF View
  <2>2. CASE c = joiner /\ number = currentSequenceNum /\ ids = Listed(Leader)
    <3>1. Noticed
      BY <1>8 DEF ReachInv
    <3>2. c \in ids
      <4>1. draft["listen"].msg.type = "NEW_USER"
        BY <1>1 DEF JoinInv, OnlyListener
      <4> QED BY <1>0, <1>1, <2>2, <3>1, <4>1 DEF Noticed
    <3>3. Leader \in ids
      BY <2>2 DEF LeaderInv, LeaderFirst, Listed
    <3>4. ASSUME NEW i \in DOMAIN order PROVE Held(c, i, number, ids)'
      BY <1>1, <2>2, <3>1, NumbersBelow DEF Held, Noticed
    <3> QED BY <1>1, <2>0, <2>2, <3>2, <3>3, <3>4 DEF View
  <2>3. Knows(c, number, ids) \/ (c = joiner /\ number = currentSequenceNum /\ ids = Listed(Leader))
    <3>1. CASE InChat(c)' /\ number = latestSequenceNum'[c] + 1 /\ ids = Listed(c)'
      BY <1>1, <2>0, <3>1 DEF Knows
    <3>2. ASSUME NEW d \in net', Answer(d, c), number = d.seq, ids = Ids(d.table)
          PROVE  Knows(c, number, ids)
                   \/ (c = joiner /\ number = currentSequenceNum /\ ids = Listed(Leader))
      <4>1. CASE d \in net
        BY <3>2, <4>1 DEF Knows
      <4>2. CASE d = answer
        BY <1>2, <3>2, <4>2, IdsListed DEF Answer
      <4> QED BY <1>3, <4>1, <4>2
    <3>3. (Knows(c, number, ids))' =>
            \/ InChat(c)' /\ number = latestSequenceNum'[c] + 1 /\ ids = Listed(c)'
            \/ \E d \in net' : Answer(d, c) /\ number = d.seq /\ ids = Ids(d.table)
      BY DEF Knows, Answer, Ids
    <3> QED BY <3>1, <3>2, <3>3
  <2> QED BY <2>1, <2>2, <2>3
<1> QED BY <1>5, <1>6, <1>7, <1>8 DEF ReachInv

(* A message just queued is on its way to everyone.                        *)
LEMMA EnqueueReach ==
  ASSUME TypeInv, JoinInv, ReachInv, NEW t \in Thread, Enqueue(t), UNCHANGED clientVars
  PROVE  ReachInv'
<1> DEFINE node == [v |-> currentSequenceNum, m |-> draft[t].msg]
<1>a. PICK len, last : len = Len(sequencer_queue) /\ last = Len(order) + 1
  OBVIOUS
<1>0. /\ node \in Node /\ order \in Seq(Node) /\ sequencer_queue \in Seq(Node)
      /\ order' = Append(order, node) /\ sequencer_queue' = Append(sequencer_queue, node)
      /\ node.m = draft[t].msg
  BY DraftFields DEF Enqueue, Queued, Node, TypeInv, TypeOK, SequencerTypeOK
<1> HIDE DEF node
<1>1. /\ DOMAIN order = 1..Len(order) /\ Len(order) \in Nat /\ DOMAIN order' = 1..last /\ last = Len(order) + 1
      /\ \A i \in 1..Len(order) : order'[i] = order[i]
      /\ order'[last] = node
  BY <1>0, <1>a, AppendProperties, LenProperties
<1>2. /\ DOMAIN sequencer_queue = 1..len /\ len \in Nat /\ DOMAIN sequencer_queue' = 1..(len + 1)
      /\ \A k \in 1..len : sequencer_queue'[k] = sequencer_queue[k]
      /\ sequencer_queue'[len + 1] = node
      /\ len = 0 => sequencer_queue = <<>>
  BY <1>0, <1>a, AppendProperties, LenProperties, EmptySeq
<1>3. UNCHANGED <<cast, net, gone, lost, early, others, status, client_queue, latestSequenceNum>>
  BY DEF Enqueue, wireVars, machineVars, clientVars
<1>4. NoneStray' /\ Calm'
  BY <1>3 DEF ReachInv, NoneStray, Calm, Waiting, Pending
<1>5. (NoDeparture' => NoDeparture) /\ (EnoughArrives' <=> EnoughArrives)
      /\ \A m : Listed(m)' = Listed(m)
  BY <1>1, <1>3 DEF NoDeparture, EnoughArrives, Listed
<1>6. \A i \in DOMAIN order : i \in DOMAIN order' /\ order'[i] = order[i]
  BY <1>1
<1>7. Noticed => Noticed'
  <2> SUFFICES ASSUME Noticed PROVE Noticed'
    OBVIOUS
  <2>1. CASE node.m.type = "NEW_USER"
    <3>1. t = "listen"
      BY <1>0, <2>1 DEF JoinInv, OnlyListener, Enqueue, Idle
    <3>2. PICK msg : msg = node.m
      OBVIOUS
    <3>3. Hold(t, "reply", msg) /\ draft["listen"].step = "enqueue" /\ draft["listen"].msg = msg
      BY <1>0, <2>1, <3>1, <3>2 DEF Enqueue
    <3>4. draft'["listen"] = [step |-> "reply", msg |-> msg]
      BY <3>1, <3>3, HeldDraft
    <3>5. msg.about \in Listed(Leader)
      BY <2>1, <3>2, <3>3 DEF Noticed
    <3>6. last \in DOMAIN order' /\ Notice(last, msg.about)'
      BY <1>1, <2>1, <3>2 DEF Notice
    <3>7. \A m \in Listed(Leader) : m = Leader \/ \E i \in DOMAIN order' : Notice(i, m)'
      <4> TAKE m \in Listed(Leader)
      <4>1. CASE m = msg.about
        BY <3>6, <4>1
      <4>2. CASE m # msg.about
        <5>1. m = Leader \/ \E i \in DOMAIN order : Notice(i, m)
          BY <3>3, <4>2 DEF Noticed, Entering
        <5> QED BY <1>6, <5>1 DEF Notice
      <4> QED BY <4>1, <4>2
    <3>8. \A i \in DOMAIN order' :
            order'[i].m.type = "NEW_USER" => order'[i].m.about \in Listed(Leader)
      <4> TAKE i \in DOMAIN order'
      <4>1. CASE i = last
        BY <1>1, <3>2, <3>5, <4>1
      <4>2. CASE i # last
        <5>1. i \in DOMAIN order /\ order'[i] = order[i]
          BY <1>1, <4>2
        <5> QED BY <5>1 DEF Noticed
      <4> QED BY <4>1, <4>2
    <3> QED BY <1>5, <3>4, <3>5, <3>7, <3>8 DEF Noticed
  <2>2. CASE node.m.type # "NEW_USER"
    <3>1. Release(t)
      BY <1>0, <2>2 DEF Enqueue
    <3>2. draft'[t].step = "idle" /\ \A s \in Thread \ {t} : draft'[s] = draft[s]
      BY <3>1, ReleasedDraft DEF Idle
    <3>3. \A m : Entering(m) => Entering(m)' /\ t # "listen"
      BY <1>0, <2>2, <3>2 DEF Entering, Thread
    <3>4. draft'["listen"].step = "idle" \/ draft'["listen"] = draft["listen"]
      BY <3>2 DEF Thread
    <3>5. \A m \in Listed(Leader) : m = Leader \/ Entering(m)' \/ \E i \in DOMAIN order' : Notice(i, m)'
      BY <1>6, <3>3 DEF Noticed, Notice
    <3>6. \A i \in DOMAIN order' :
            order'[i].m.type = "NEW_USER" => i \in DOMAIN order /\ order'[i] = order[i]
      BY <1>1, <2>2
    <3> QED BY <1>5, <3>4, <3>5, <3>6 DEF Noticed
  <2> QED BY <2>1, <2>2
<1>8. Views => Views'
  <2> SUFFICES ASSUME Views, NEW c \in Clients, NEW number, NEW ids, Knows(c, number, ids)'
               PROVE  View(c, number, ids)'
    BY DEF Views
  <2>1. Knows(c, number, ids) /\ View(c, number, ids)
    BY <1>3, <1>5 DEF Views, Knows, InChat, Answer
  <2>2. ASSUME NEW i \in 1..Len(order) PROVE OnWay(c, i)' \/ Held(c, i, number, ids)'
    <3>1. order'[i] = order[i] /\ i \in DOMAIN order
      BY <1>1
    <3>2. Queues(c, i) => Queues(c, i)'
      BY <1>2, <1>3, <3>1 DEF Queues
    <3>3. Travels(c, i) => Travels(c, i)'
      BY <1>3, <3>1 DEF Travels
    <3>4. SentAgain(c, i) => SentAgain(c, i)'
      BY <1>3, <3>1 DEF SentAgain, Pending
    <3>5. Held(c, i, number, ids) => Held(c, i, number, ids)'
      BY <1>3, <3>1 DEF Held
    <3> QED BY <2>1, <3>1, <3>2, <3>3, <3>4, <3>5 DEF View, OnWay
  <2>3. Queues(c, last)'
    <3>1. len + 1 > 1 \/ cast = NoCast
      BY <1>2 DEF TypeInv, CastIsHead
    <3> QED BY <1>1, <1>2, <1>3, <3>1 DEF Queues
  <2>4. \A i \in DOMAIN order' : i = last \/ i \in 1..Len(order)
    BY <1>1
  <2> QED BY <1>5, <2>1, <2>2, <2>3, <2>4 DEF View, OnWay
<1> QED BY <1>4, <1>5, <1>7, <1>8 DEF ReachInv

-----------------------------------------------------------------------------
(* The broadcast: it leaves the queue, the tables and the answers alone.   *)
LEMMA BroadcastReach ==
  ASSUME ReachInv, NoneStray', Calm',
         UNCHANGED <<order, client_queue, latestSequenceNum, status, gone, lost, draft, others>>,
         early = 0 \/ early' # 0,
         \A d \in net' : d.type = "JOIN_RES" => d \in net,
         NoDeparture =>
           \A c \in Clients, i \in DOMAIN order : \A number, ids :
             Knows(c, number, ids) /\ c \in ids /\ ids \subseteq Listed(Leader) /\ OnWay(c, i)
               => OnWay(c, i)' \/ Held(c, i, number, ids)
  PROVE  ReachInv'
<1>1. (NoDeparture' <=> NoDeparture) /\ (EnoughArrives' => EnoughArrives)
  BY DEF NoDeparture, EnoughArrives
<1>2. \A m : Listed(m)' = Listed(m)
  BY DEF Listed
<1>3. \A c \in Clients : \A number, ids : Knows(c, number, ids)' => Knows(c, number, ids)
  BY <1>2 DEF Knows, InChat, Answer
<1>4. Noticed => Noticed'
  BY <1>2, NoticedAlone
<1>5. Views /\ NoDeparture => Views'
  <2> SUFFICES ASSUME Views, NoDeparture PROVE Views'
    OBVIOUS
  <2>1. Listed(Leader) \subseteq Listed(Leader)'
    BY <1>2
  <2> QED BY <1>3, <2>1, ViewsGoOn
<1> QED BY <1>1, <1>4, <1>5 DEF ReachInv

(* Slot after slot: what is on its way to a member and is not of this      *)
(* broadcast stays so.                                                     *)
LEMMA SlotsReach ==
  ASSUME TypeInv, LeaderInv, JoinInv, ReachInv,
         BroadcastStart \/ PrintOwn \/ SkipJoiner, UNCHANGED clientVars
  PROVE  ReachInv'
<1>1. UNCHANGED <<order, sequencer_queue, client_queue, latestSequenceNum, status, gone, lost, early,
                  net, draft, others>>
  BY DEF BroadcastStart, PrintOwn, SkipJoiner, wireVars, machineVars, clientVars
<1>2. cast.stage # "wait" /\ cast'.stage = "next" /\ cast'.n = 0
  BY DEF BroadcastStart, PrintOwn, SkipJoiner, AtSlot, Serve, NextSlot, AtNextSlot, NoCast
<1>3. NoneStray' /\ Calm'
  BY <1>1, <1>2 DEF ReachInv, NoneStray, Calm, Pending
<1>4. \A c \in Clients, i \in DOMAIN order : (Travels(c, i) => Travels(c, i)') /\ ~SentAgain(c, i)
  BY <1>1, <1>2 DEF Travels, SentAgain
<1>5. CASE BroadcastStart
  <2>1. cast = NoCast /\ cast'.served = {}
    BY <1>5 DEF BroadcastStart
  <2>2. \A c \in Clients, i \in DOMAIN order : Queues(c, i) => Queues(c, i)'
    BY <1>1, <2>1 DEF Queues
  <2> QED BY <1>1, <1>3, <1>4, <2>2, BroadcastReach DEF OnWay
<1>6. CASE PrintOwn \/ SkipJoiner
  <2>1. /\ cast # NoCast /\ cast \in Cast /\ cast'.served = cast.served \cup {Slot.id}
        /\ cast.i \in DOMAIN others[Leader]
    BY <1>6 DEF PrintOwn, SkipJoiner, AtSlot, Serve, NextSlot, AtNextSlot, NoCast,
                TypeInv, TypeOK, SequencerTypeOK
  <2>2. ASSUME NEW c \in Clients, NEW i \in DOMAIN order, c # Slot.id, Queues(c, i)
        PROVE  Queues(c, i)'
    BY <1>1, <2>1, <2>2 DEF Queues
  <2>3. CASE PrintOwn
    <3>1. Slot.id = Leader
      BY <2>1, <2>3 DEF PrintOwn, Slot, LeaderInv, LeaderFirst
    <3>2. \A c \in Clients, i \in DOMAIN order : OnWay(c, i) => OnWay(c, i)'
      BY <1>4, <2>2, <3>1, LeaderAssumption DEF OnWay
    <3> QED BY <1>1, <1>3, <3>2, BroadcastReach
  <2>4. CASE SkipJoiner
    <3>1. cast.msg.type = "NEW_USER" /\ cast.msg.about = Slot.id
      BY <2>4 DEF SkipJoiner, AboutJoiner
    <3>2. ASSUME NEW c \in Clients, NEW i \in DOMAIN order, NEW number, NEW ids,
                 Knows(c, number, ids), c \in ids, OnWay(c, i)
          PROVE  OnWay(c, i)' \/ Held(c, i, number, ids)
      <4>1. CASE c # Slot.id \/ Travels(c, i) \/ Queues(c, i)'
        BY <1>4, <2>2, <3>2, <4>1 DEF OnWay
      <4>2. CASE c = Slot.id /\ Queues(c, i) /\ ~Queues(c, i)'
        <5>1. PICK k \in DOMAIN sequencer_queue :
                sequencer_queue[k] = order[i] /\ (k > 1 \/ cast = NoCast \/ c \notin cast.served)
          BY <4>2 DEF Queues
        <5>2. ~(k > 1)
          BY <1>1, <4>2, <5>1 DEF Queues
        <5>3. sequencer_queue \in Seq(Node) /\ sequencer_queue # <<>>
              /\ Head(sequencer_queue) = [v |-> cast.v, m |-> cast.msg]
          BY <2>1 DEF TypeInv, TypeOK, SequencerTypeOK, CastIsHead
        <5>4. k = 1 /\ Head(sequencer_queue) = sequencer_queue[1]
          BY <5>2, <5>3, HeadTailProperties, LenProperties
        <5>5. order[i].m = cast.msg
          BY <5>1, <5>3, <5>4
        <5>6. Notice(i, c)
          BY <3>1, <4>2, <5>5 DEF Notice
        <5>7. order[i].m.seq < number
          <6>1. CASE InChat(c) /\ number = latestSequenceNum[c] + 1
            <7>1. order[i].m.seq <= latestSequenceNum[c]
              BY <5>6, <6>1 DEF JoinInv, NoticeBefore, InChat
            <7>2. order[i].m.seq \in Nat /\ latestSequenceNum[c] \in Int
              <8>1. order[i] \in Node
                BY DEF TypeInv, TypeOK, SequencerTypeOK
              <8> QED BY <8>1 DEF Node, Message, TypeInv, TypeOK, ClientTypeOK
            <7> QED BY <6>1, <7>1, <7>2
          <6>2. ASSUME NEW d \in net, Answer(d, c), number = d.seq PROVE order[i].m.seq < number
            <7>1. d \in Tokens(c) /\ d.type = "JOIN_RES" /\ d.isLeader
              BY <6>2 DEF Answer, Tokens, Token
            <7> QED BY <5>6, <6>2, <7>1 DEF JoinInv, NoticeBefore
          <6> QED BY <3>2, <6>1, <6>2 DEF Knows
        <5>8. order[i].m.type = "NEW_USER" /\ order[i].m.about = c
          BY <5>6 DEF Notice
        <5> QED BY <3>2, <5>7, <5>8 DEF Held
      <4> QED BY <1>4, <3>2, <4>1, <4>2 DEF OnWay
    <3> QED BY <1>1, <1>3, <3>2, BroadcastReach
  <2> QED BY <1>6, <2>3, <2>4
<1> QED BY <1>5, <1>6

(* The head of the queue is what the broadcast sends.                      *)
LEMMA HeadIsSent ==
  ASSUME TypeInv, cast # NoCast, NEW i \in DOMAIN order, NEW k \in DOMAIN sequencer_queue,
         sequencer_queue[k] = order[i], ~(k > 1)
  PROVE  order[i].v = cast.v /\ order[i].m = cast.msg
<1>1. sequencer_queue \in Seq(Node) /\ sequencer_queue # <<>>
      /\ Head(sequencer_queue) = [v |-> cast.v, m |-> cast.msg]
  BY DEF TypeInv, TypeOK, SequencerTypeOK, CastIsHead
<1>2. k = 1 /\ Head(sequencer_queue) = sequencer_queue[1]
  BY <1>1, HeadTailProperties, LenProperties
<1> QED BY <1>1, <1>2

(* The wire with one more broadcast datagram.                              *)
LEMMA TransmissionFacts ==
  ASSUME NoneStray, NEW to, NEW try, Transmit({}, {Transmission(to, try)})
  PROVE  \E sent :
           /\ sent.type = "CAST" /\ sent.to = to /\ sent.v = cast.v /\ sent.msg = cast.msg
           /\ net' = IF to \in gone THEN net ELSE net \cup {sent}
           /\ Pending' = IF to \in gone THEN Pending ELSE Pending \cup {sent}
<1>1. PICK sent : sent = Transmission(to, try)
  OBVIOUS
<1>2. sent.type = "CAST" /\ sent.to = to /\ sent.v = cast.v /\ sent.msg = cast.msg
  BY <1>1 DEF Transmission
<1>3. net' = IF to \in gone THEN net ELSE net \cup {sent}
  BY <1>1, <1>2 DEF Transmit
<1>4. \A d : d \in Pending' <=> d \in IF to \in gone THEN Pending ELSE Pending \cup {sent}
  BY <1>2, <1>3 DEF Pending
<1>5. Pending' = IF to \in gone THEN Pending ELSE Pending \cup {sent}
  BY <1>4 DEF Pending
<1> QED BY <1>2, <1>3, <1>5

LEMMA KnowerListens ==
  ASSUME NoneStray, NEW c, NEW number, NEW ids, Knows(c, number, ids)
  PROVE  c \notin gone
BY DEF NoneStray, Knows, InChat, Answer

LEMMA SendToMemberReach ==
  ASSUME TypeInv, ReachInv, SendToMember, UNCHANGED clientVars
  PROVE  ReachInv'
<1>1. UNCHANGED <<order, sequencer_queue, client_queue, latestSequenceNum, status, gone, lost, early,
                  draft, others>>
  BY DEF SendToMember, machineVars, clientVars
<1>2. PICK to : to = Slot.id
  OBVIOUS
<1>3. PICK sent :
        /\ sent.type = "CAST" /\ sent.to = to /\ sent.v = cast.v /\ sent.msg = cast.msg
        /\ net' = IF to \in gone THEN net ELSE net \cup {sent}
        /\ Pending' = IF to \in gone THEN Pending ELSE Pending \cup {sent}
  BY <1>2, TransmissionFacts DEF SendToMember, ReachInv
<1>4. /\ cast # NoCast /\ cast.stage = "next" /\ cast'.stage = "wait" /\ cast'.to = to
      /\ cast'.v = cast.v /\ cast'.msg = cast.msg /\ cast'.n = cast.n /\ cast' # NoCast
      /\ cast'.served = cast.served \cup {to}
  <2>1. cast \in Cast /\ cast.stage = "next"
    BY DEF SendToMember, AtSlot, TypeInv, TypeOK, SequencerTypeOK
  <2>2. cast # NoCast
    BY <2>1 DEF NoCast
  <2>3. cast' = [cast EXCEPT !.stage = "wait", !.to = to, !.served = @ \cup {to}]
    BY <1>2 DEF SendToMember
  <2>4. /\ cast'.stage = "wait" /\ cast'.to = to /\ cast'.v = cast.v /\ cast'.msg = cast.msg
        /\ cast'.n = cast.n /\ cast'.served = cast.served \cup {to}
    BY <2>1, <2>2, <2>3 DEF Cast
  <2>5. cast' # NoCast
    BY <2>4 DEF NoCast
  <2> QED BY <2>1, <2>2, <2>4, <2>5
<1>5. NoneStray'
  BY <1>1, <1>3 DEF ReachInv, NoneStray
<1>6. Calm'
  <2> SUFFICES ASSUME early = 0, lost < 3 PROVE Calm'
    BY <1>1 DEF Calm
  <2>1. Pending = {} /\ cast.n = 0 /\ lost \in Nat
    BY <1>4 DEF ReachInv, Calm, TypeInv, TypeOK, WireTypeOK
  <2>2. \A d \in Pending' : d = sent
    BY <1>3, <2>1
  <2>3. to \notin gone => Pending' # {}
    BY <1>3
  <2> QED BY <1>1, <1>3, <1>4, <2>1, <2>2, <2>3 DEF Calm, Waiting
<1>7. ASSUME NEW c \in Clients, NEW i \in DOMAIN order, c \notin gone, OnWay(c, i)
      PROVE  OnWay(c, i)'
  <2>1. ~SentAgain(c, i)
    BY <1>4 DEF SentAgain
  <2>2. Travels(c, i) => Travels(c, i)'
    BY <1>1, <1>3 DEF Travels
  <2>3. CASE Queues(c, i)
    <3>1. PICK k \in DOMAIN sequencer_queue :
            sequencer_queue[k] = order[i] /\ (k > 1 \/ cast = NoCast \/ c \notin cast.served)
      BY <2>3 DEF Queues
    <3>2. CASE k > 1 \/ c # to
      BY <1>1, <1>4, <3>1, <3>2 DEF OnWay, Queues
    <3>3. CASE ~(k > 1) /\ c = to
      <4>1. order[i].v = cast.v /\ order[i].m = cast.msg
        BY <1>4, <3>1, <3>3, HeadIsSent
      <4>2. sent \in net' /\ sent.to = c
        BY <1>3, <1>7, <3>3
      <4> QED BY <1>1, <1>3, <4>1, <4>2 DEF OnWay, Travels
    <3> QED BY <3>2, <3>3
  <2> QED BY <1>7, <2>1, <2>2, <2>3 DEF OnWay
<1>8. \A c \in Clients, i \in DOMAIN order : \A number, ids :
        Knows(c, number, ids) /\ OnWay(c, i) => OnWay(c, i)'
  BY <1>7, KnowerListens DEF ReachInv
<1>9. \A d \in net' : d.type = "JOIN_RES" => d \in net
  BY <1>3
<1> QED BY <1>1, <1>5, <1>6, <1>8, <1>9, BroadcastReach

LEMMA ReceiveAckReach ==
  ASSUME TypeInv, ReachInv, ReceiveAck, UNCHANGED clientVars
  PROVE  ReachInv'
<1>1. UNCHANGED <<order, sequencer_queue, client_queue, latestSequenceNum, status, gone, lost, early,
                  draft, others>>
  BY DEF ReceiveAck, machineVars, clientVars
<1>2. PICK d \in Addressed("ACK", Leader) : d.v = cast.v /\ Transmit({d}, {})
  BY DEF ReceiveAck
<1>3. d \in net /\ d.type = "ACK" /\ d \in Pending /\ net' = net \ {d}
  BY <1>2 DEF Addressed, Pending, Transmit
<1>4. /\ cast # NoCast /\ cast.stage = "wait" /\ cast'.stage = "next" /\ cast'.n = 0
      /\ cast' # NoCast /\ cast'.served = cast.served
  BY DEF ReceiveAck, NextSlot, AtNextSlot, NoCast
<1>5. NoneStray'
  BY <1>1, <1>3 DEF ReachInv, NoneStray
<1>6. Calm'
  <2> SUFFICES ASSUME early = 0, lost < 3 PROVE Calm'
    BY <1>1 DEF Calm
  <2>1. \A e \in Pending : e = d
    BY <1>3 DEF ReachInv, Calm
  <2>2. Pending' = {}
    BY <1>3, <2>1 DEF Pending
  <2> QED BY <1>4, <2>2 DEF Calm
<1>7. \A c \in Clients, i \in DOMAIN order : OnWay(c, i) => OnWay(c, i)'
  <2> TAKE c \in Clients, i \in DOMAIN order
  <2>1. ~SentAgain(c, i)
    BY <1>2, <1>3 DEF SentAgain
  <2>2. Travels(c, i) => Travels(c, i)'
    BY <1>1, <1>3 DEF Travels
  <2>3. Queues(c, i) => Queues(c, i)'
    BY <1>1, <1>4 DEF Queues
  <2> QED BY <2>1, <2>2, <2>3 DEF OnWay
<1>8. \A e \in net' : e.type = "JOIN_RES" => e \in net
  BY <1>3
<1> QED BY <1>1, <1>5, <1>6, <1>7, <1>8, BroadcastReach

(* No answer within a second: if that is not early, the last transmission  *)
(* or its acknowledgement is lost, and the next one takes its place; the   *)
(* third time in a row cannot be reached with two losses.                  *)
LEMMA AckTimeoutReach ==
  ASSUME TypeInv, ReachInv, AckTimeout, UNCHANGED clientVars
  PROVE  ReachInv'
<1>1. /\ UNCHANGED <<order, sequencer_queue, client_queue, latestSequenceNum, status, gone, lost,
                     draft, others>>
      /\ cast.stage = "wait"
  BY DEF AckTimeout, machineVars, clientVars
<1>2. PICK to : to = cast.to
  OBVIOUS
<1>3. PICK sent :
        /\ sent.type = "CAST" /\ sent.to = to /\ sent.v = cast.v /\ sent.msg = cast.msg
        /\ net' = IF to \in gone THEN net ELSE net \cup {sent}
        /\ Pending' = IF to \in gone THEN Pending ELSE Pending \cup {sent}
  BY <1>2, TransmissionFacts DEF AckTimeout, ReachInv
<1>4. early = 0 \/ early' # 0
  BY DEF AckTimeout, TimeoutExpires, TypeInv, TypeOK, WireTypeOK
<1>5. /\ cast # NoCast /\ cast \in Cast /\ lost \in Nat /\ early \in Nat
  BY <1>1 DEF NoCast, TypeInv, TypeOK, SequencerTypeOK, WireTypeOK
<1>6. /\ cast' # NoCast /\ cast'.served = cast.served
      /\ \/ cast.n = 2 /\ cast'.stage = "next" /\ cast'.n = 0
         \/ /\ cast.n \in 0..1 /\ cast'.stage = "wait" /\ cast'.n = cast.n + 1
            /\ cast'.to = to /\ cast'.v = cast.v /\ cast'.msg = cast.msg
  <2>1. CASE cast.n = 2
    BY <2>1 DEF AckTimeout, NextSlot, AtNextSlot, NoCast
  <2>2. CASE cast.n # 2
    <3>1. cast.n \in 0..1 /\ cast' = [cast EXCEPT !.n = @ + 1]
      BY <1>1, <1>5, <2>2 DEF AckTimeout, Cast, NoCast
    <3> QED BY <1>1, <1>2, <1>5, <3>1 DEF Cast, NoCast
  <2> QED BY <2>1, <2>2
<1>7. NoneStray'
  BY <1>1, <1>3 DEF ReachInv, NoneStray
<1>8. Calm'
  <2> SUFFICES ASSUME early' = 0, lost < 3 PROVE Calm'
    BY <1>1 DEF Calm
  <2>1. early = 0
    BY <1>4
  <2>2. Waiting
    BY <1>1, <2>1 DEF ReachInv, Calm
  <2>3. Pending = {}
    <3>1. ~\E d \in Addressed("CAST", cast.to) \cup Addressed("ACK", Leader) : d.v = cast.v
      BY <2>1, <1>5 DEF AckTimeout, TimeoutExpires
    <3>2. ASSUME NEW d \in Pending PROVE FALSE
      <4>1. d \in net /\ d.type \in {"CAST", "ACK"} /\ d.v = cast.v
        BY <2>2 DEF Pending, Waiting
      <4>2. CASE d.type = "CAST"
        <5>1. d.to = cast.to
          BY <2>2, <4>2 DEF Waiting
        <5> QED BY <3>1, <4>1, <4>2, <5>1 DEF Addressed
      <4>3. CASE d.type = "ACK"
        <5>1. d.to = Leader
          BY <2>2, <4>3 DEF Waiting
        <5> QED BY <3>1, <4>1, <4>3, <5>1 DEF Addressed
      <4> QED BY <4>1, <4>2, <4>3
    <3> QED BY <3>2
  <2>4. to \notin gone => lost > cast.n
    BY <1>2, <2>2, <2>3 DEF Waiting
  <2>5. \A d \in Pending' : d = sent
    BY <1>3, <2>3
  <2>6. to \in gone => Pending' = {}
    BY <1>3, <2>3
  <2>7. to \notin gone => Pending' # {}
    BY <1>3
  <2>8. CASE cast'.stage = "next"
    <3>1. to \in gone
      BY <1>5, <1>6, <2>4, <2>8
    <3> QED BY <1>6, <2>6, <2>8, <3>1 DEF Calm
  <2>9. CASE cast'.stage = "wait"
    <3>1. /\ cast.n \in 0..1 /\ cast'.n = cast.n + 1
          /\ cast'.to = to /\ cast'.v = cast.v /\ cast'.msg = cast.msg
      BY <1>6, <2>9
    <3>2. Waiting'
      <4>1. to \notin gone => lost >= cast'.n
        BY <1>5, <2>4, <3>1
      <4> QED BY <1>1, <1>3, <2>5, <2>7, <3>1, <4>1 DEF Waiting
    <3> QED BY <2>5, <2>9, <3>2 DEF Calm
  <2> QED BY <1>6, <2>8, <2>9
<1>9. ASSUME NEW c \in Clients, NEW i \in DOMAIN order, c \notin gone, OnWay(c, i)
      PROVE  OnWay(c, i)'
  <2>1. SentAgain(c, i) => Travels(c, i)'
    BY <1>1, <1>2, <1>3, <1>9 DEF SentAgain, Travels
  <2>2. Travels(c, i) => Travels(c, i)'
    BY <1>1, <1>3 DEF Travels
  <2>3. Queues(c, i) => Queues(c, i)'
    BY <1>1, <1>5, <1>6 DEF Queues
  <2> QED BY <1>9, <2>1, <2>2, <2>3 DEF OnWay
<1>10. \A c \in Clients, i \in DOMAIN order : \A number, ids :
         Knows(c, number, ids) /\ OnWay(c, i) => OnWay(c, i)'
  BY <1>9, KnowerListens DEF ReachInv
<1>11. \A d \in net' : d.type = "JOIN_RES" => d \in net
  BY <1>3
<1> QED BY <1>1, <1>4, <1>7, <1>8, <1>10, <1>11, BroadcastReach

(* When the broadcast ends, everyone in the table has been sent to.        *)
LEMMA BroadcastEndReach ==
  ASSUME TypeInv, VisitInv, ReachInv, BroadcastEnd, UNCHANGED clientVars
  PROVE  ReachInv'
<1>1. UNCHANGED <<order, client_queue, latestSequenceNum, status, gone, lost, early, net, draft,
                  others>>
  BY DEF BroadcastEnd, wireVars, machineVars, clientVars
<1>2. /\ cast # NoCast /\ cast.stage = "next" /\ cast' = NoCast /\ cast'.stage = "none"
      /\ cast.i \in Nat \ {0} /\ cast.i \notin DOMAIN others[Leader]
  BY DEF BroadcastEnd, NoCast, TypeInv, TypeOK, SequencerTypeOK, Cast
<1>3. NoneStray' /\ Calm'
  BY <1>1, <1>2 DEF ReachInv, NoneStray, Calm, Pending
<1>4. NoDeparture => Listed(Leader) \subseteq cast.served
  <2> SUFFICES ASSUME NoDeparture PROVE Listed(Leader) \subseteq cast.served
    OBVIOUS
  <2>1. DOMAIN others[Leader] = 1..Len(others[Leader]) /\ Len(others[Leader]) \in Nat
    BY TableFacts DEF TypeInv
  <2>2. \A i \in DOMAIN others[Leader] : i < cast.i
    BY <1>2, <2>1 DEF VisitInv, SlotsServed
  <2> QED BY <1>2, <2>2 DEF VisitInv, SlotsServed, Listed
<1>5. /\ sequencer_queue \in Seq(Node) /\ sequencer_queue # <<>>
      /\ sequencer_queue' = Tail(sequencer_queue)
  BY <1>2 DEF BroadcastEnd, Dequeued, TypeInv, TypeOK, SequencerTypeOK, CastIsHead
<1>6. /\ DOMAIN sequencer_queue = 1..Len(sequencer_queue) /\ Len(sequencer_queue) \in Nat
      /\ DOMAIN sequencer_queue' = 1..(Len(sequencer_queue) - 1)
      /\ \A k \in 1..(Len(sequencer_queue) - 1) : sequencer_queue'[k] = sequencer_queue[k + 1]
  BY <1>5, HeadTailProperties, LenProperties
<1>7. ASSUME NoDeparture, NEW c \in Clients, NEW i \in DOMAIN order, c \in Listed(Leader), OnWay(c, i)
      PROVE  OnWay(c, i)'
  <2>1. ~SentAgain(c, i)
    BY <1>2 DEF SentAgain
  <2>2. Travels(c, i) => Travels(c, i)'
    BY <1>1 DEF Travels
  <2>3. CASE Queues(c, i)
    <3>1. PICK k \in DOMAIN sequencer_queue :
            sequencer_queue[k] = order[i] /\ (k > 1 \/ cast = NoCast \/ c \notin cast.served)
      BY <2>3 DEF Queues
    <3>2. k > 1
      BY <1>2, <1>4, <1>7, <3>1
    <3>3. k - 1 \in 1..(Len(sequencer_queue) - 1) /\ (k - 1) + 1 = k
      BY <1>6, <3>2
    <3>4. k - 1 \in DOMAIN sequencer_queue' /\ sequencer_queue'[k - 1] = order[i]
      BY <1>6, <3>1, <3>3
    <3> QED BY <1>1, <1>2, <3>4 DEF Queues, OnWay
  <2> QED BY <1>7, <2>1, <2>2, <2>3 DEF OnWay
<1>8. NoDeparture =>
        \A c \in Clients, i \in DOMAIN order : \A number, ids :
          Knows(c, number, ids) /\ c \in ids /\ ids \subseteq Listed(Leader) /\ OnWay(c, i)
            => OnWay(c, i)'
  BY <1>7
<1> QED BY <1>1, <1>3, <1>8, BroadcastReach

-----------------------------------------------------------------------------
(* The leader's answer becomes what the client knows.                      *)
LEMMA EnterChatReach ==
  ASSUME TypeInv, ReachInv, NEW c \in Clients, ClientThread(EnterChat(c))
  PROVE  ReachInv'
<1>1. PICK d \in net :
        /\ d.type = "JOIN_RES" /\ d.to = c /\ d.isLeader /\ Transmit({d}, {})
        /\ latestSequenceNum' = [latestSequenceNum EXCEPT ![c] = d.seq - 1]
        /\ others' = [others EXCEPT ![c] = d.table]
  BY DEF ClientThread, EnterChat, Addressed, LatestAtJoin, UpdateClients
<1>2. /\ UNCHANGED <<order, sequencer_queue, cast, draft, client_queue, gone, lost, early>>
      /\ status' = [status EXCEPT ![c] = "in"] /\ net' = net \ {d}
  BY <1>1 DEF ClientThread, EnterChat, sequencerVars, Transmit
<1>3. d.seq \in Nat
  BY <1>1, DatagramFields DEF TypeInv, TypeOK, WireTypeOK
<1>4. /\ latestSequenceNum'[c] + 1 = d.seq /\ others'[c] = d.table
      /\ \A b \in Machine : b # c => others'[b] = others[b]
      /\ \A b \in Clients : b # c => latestSequenceNum'[b] = latestSequenceNum[b]
                                      /\ status'[b] = status[b]
  <2>1. c \in DOMAIN latestSequenceNum /\ c \in DOMAIN others
        /\ others \in [Machine -> Seq(Entry)] /\ latestSequenceNum \in [Clients -> Int]
        /\ status \in [Clients -> {"out", "asking", "in"}]
    BY DEF TypeInv, TypeOK, ClientTypeOK, MachinesTypeOK, Machine
  <2> QED BY <1>1, <1>2, <1>3, <2>1
<1>5. Listed(Leader)' = Listed(Leader)
  BY <1>4, LeaderAssumption DEF Listed, Machine
<1>6. Pending' = Pending
  <2>1. \A e : e \in Pending' <=> e \in Pending
    BY <1>1, <1>2 DEF Pending
  <2> QED BY <2>1 DEF Pending
<1>7. NoneStray' /\ Calm'
  BY <1>2, <1>6 DEF ReachInv, NoneStray, Calm, Waiting
<1>8. ASSUME NEW b \in Clients, NEW number, NEW ids, Knows(b, number, ids)'
      PROVE  Knows(b, number, ids)
  <2>1. CASE InChat(b)' /\ number = latestSequenceNum'[b] + 1 /\ ids = Listed(b)'
    <3>1. CASE b = c
      <4>1. number = d.seq /\ ids = Ids(d.table)
        BY <1>4, <2>1, <3>1 DEF Listed, Ids
      <4> QED BY <1>1, <3>1, <4>1 DEF Knows, Answer
    <3>2. CASE b # c
      BY <1>2, <1>4, <2>1, <3>2 DEF Knows, InChat, Listed, Machine
    <3> QED BY <3>1, <3>2
  <2>2. CASE \E e \in net' : Answer(e, b) /\ number = e.seq /\ ids = Ids(e.table)
    BY <1>2, <2>2 DEF Knows
  <2>3. \/ InChat(b)' /\ number = latestSequenceNum'[b] + 1 /\ ids = Listed(b)'
        \/ \E e \in net' : Answer(e, b) /\ number = e.seq /\ ids = Ids(e.table)
    BY <1>8 DEF Knows, Answer, Ids
  <2> QED BY <2>1, <2>2, <2>3
<1>9. ASSUME NEW b \in Clients, NEW i \in DOMAIN order, OnWay(b, i) PROVE OnWay(b, i)'
  <2>1. Queues(b, i) => Queues(b, i)'
    BY <1>2 DEF Queues
  <2>2. Travels(b, i) => Travels(b, i)'
    BY <1>1, <1>2 DEF Travels
  <2>3. SentAgain(b, i) => SentAgain(b, i)'
    BY <1>2, <1>6 DEF SentAgain
  <2> QED BY <1>9, <2>1, <2>2, <2>3 DEF OnWay
<1>10. Views => Views'
  <2> SUFFICES ASSUME Views PROVE Views'
    OBVIOUS
  <2> QED BY <1>2, <1>5, <1>8, <1>9, ViewsGoOn
<1>11. (NoDeparture' <=> NoDeparture) /\ (EnoughArrives' <=> EnoughArrives)
  BY <1>2 DEF NoDeparture, EnoughArrives
<1>12. Noticed => Noticed'
  BY <1>2, <1>5, NoticedAlone
<1> QED BY <1>7, <1>10, <1>11, <1>12 DEF ReachInv

(* A client whose process ends knows and expects nothing any more.         *)
LEMMA SocketsClosedReach ==
  ASSUME TypeInv, ReachInv, NEW k \in Clients,
         \/ \E answering \in BOOLEAN : ClientThread(GiveUpJoin(k, answering))
         \/ ClientThread(Quit(k))
  PROVE  ReachInv'
<1>1. /\ UNCHANGED <<order, sequencer_queue, cast, draft, client_queue, latestSequenceNum, status,
                     others, lost>>
      /\ gone' = gone \cup {k} /\ net' = {d \in net : d.to # k}
  BY DEF ClientThread, GiveUpJoin, Quit, CloseSockets, sequencerVars, machineVars, clientVars
<1>2. early = 0 \/ early' # 0
  BY DEF ClientThread, GiveUpJoin, Quit, TimeoutExpires, TypeInv, TypeOK, WireTypeOK
<1>3. k # Leader
  BY LeaderAssumption
<1>4. NoneStray'
  BY <1>1, <1>3 DEF ReachInv, NoneStray
<1>5. Pending' = {d \in Pending : d.to # k}
  <2>1. \A d : d \in Pending' <=> d \in Pending /\ d.to # k
    BY <1>1 DEF Pending
  <2> QED BY <2>1 DEF Pending
<1>6. Calm'
  <2> SUFFICES ASSUME early' = 0, lost < 3 PROVE Calm'
    BY <1>1 DEF Calm
  <2>1. early = 0
    BY <1>2
  <2>2. CASE cast.stage = "wait"
    <3>1. Waiting
      BY <2>1, <2>2 DEF ReachInv, Calm
    <3>2. cast.to \notin gone' => Pending' = Pending
      <4> SUFFICES ASSUME cast.to # k PROVE \A d \in Pending : d.to # k
        BY <1>1, <1>5
      <4>1. \A d \in Pending : d.type \in {"CAST", "ACK"}
        BY DEF Pending
      <4> QED BY <1>3, <3>1, <4>1 DEF Waiting
    <3>3. Waiting'
      BY <1>1, <1>5, <3>1, <3>2 DEF Waiting
    <3> QED BY <1>1, <1>5, <2>1, <2>2, <3>3 DEF ReachInv, Calm
  <2>3. CASE cast.stage # "wait"
    BY <1>1, <1>5, <2>1, <2>3 DEF ReachInv, Calm
  <2> QED BY <2>2, <2>3
<1>7. (NoDeparture' <=> NoDeparture) /\ (EnoughArrives' => EnoughArrives)
  BY <1>1, <1>2 DEF NoDeparture, EnoughArrives
<1>8. \A m : Listed(m)' = Listed(m)
  BY <1>1 DEF Listed
<1>9. Noticed => Noticed'
  BY <1>1, <1>8, NoticedAlone
<1>10. Views => Views'
  <2> SUFFICES ASSUME Views, NEW c \in Clients, NEW number, NEW ids, Knows(c, number, ids)'
               PROVE  View(c, number, ids)'
    BY DEF Views
  <2>1. Knows(c, number, ids) /\ c # k
    BY <1>1, <1>8 DEF Knows, InChat, Answer
  <2>2. View(c, number, ids)
    BY <2>1 DEF Views
  <2>3. ASSUME NEW i \in DOMAIN order, OnWay(c, i) PROVE OnWay(c, i)'
    <3>1. Queues(c, i) => Queues(c, i)'
      BY <1>1 DEF Queues
    <3>2. Travels(c, i) => Travels(c, i)'
      BY <1>1, <2>1 DEF Travels
    <3>3. SentAgain(c, i) => SentAgain(c, i)'
      BY <1>1, <1>5 DEF SentAgain
    <3> QED BY <2>3, <3>1, <3>2, <3>3 DEF OnWay
  <2>4. \A i : Held(c, i, number, ids)' <=> Held(c, i, number, ids)
    BY <1>1 DEF Held
  <2> QED BY <1>1, <1>8, <2>2, <2>3, <2>4 DEF View
<1> QED BY <1>4, <1>6, <1>7, <1>9, <1>10 DEF ReachInv

(* A lost broadcast datagram is the only one under way; it is sent again.  *)
LEMMA LoseReach ==
  ASSUME TypeInv, ReachInv, ClientThread(Lose /\ UNCHANGED clientVars)
  PROVE  ReachInv'
<1>1. /\ UNCHANGED <<order, sequencer_queue, cast, draft, client_queue, latestSequenceNum, status,
                     others, gone, early>>
      /\ lost' = lost + 1
  BY DEF ClientThread, Lose, sequencerVars, machineVars, clientVars
<1>2. PICK d \in net : net' = net \ {d}
  BY DEF ClientThread, Lose
<1>3. lost \in Nat /\ cast \in Cast
  BY DEF TypeInv, TypeOK, WireTypeOK, SequencerTypeOK
<1>4. NoneStray'
  BY <1>1, <1>2 DEF ReachInv, NoneStray
<1>5. Pending' = Pending \ {d}
  <2>1. \A e : e \in Pending' <=> e \in Pending /\ e # d
    BY <1>2 DEF Pending
  <2> QED BY <2>1 DEF Pending
<1>6. Calm'
  <2> SUFFICES ASSUME early = 0, lost' < 3 PROVE Calm'
    BY <1>1 DEF Calm
  <2>1. lost < 3
    BY <1>1, <1>3
  <2>2. CASE cast.stage = "wait"
    <3>1. Waiting
      BY <2>1, <2>2 DEF ReachInv, Calm
    <3>2. cast.n \in Nat
      BY <1>3, <2>2 DEF Cast, NoCast
    <3>3. cast.to \notin gone => lost' >= cast.n /\ lost' > cast.n
      BY <1>1, <1>3, <3>1, <3>2 DEF Waiting
    <3>4. Waiting'
      BY <1>1, <1>5, <3>1, <3>3 DEF Waiting
    <3> QED BY <1>1, <1>5, <2>1, <2>2, <3>4 DEF ReachInv, Calm
  <2>3. CASE cast.stage # "wait"
    BY <1>1, <1>5, <2>1, <2>3 DEF ReachInv, Calm
  <2> QED BY <2>2, <2>3
<1>7. (NoDeparture' <=> NoDeparture) /\ (EnoughArrives' => EnoughArrives /\ early = 0 /\ lost < 3)
  BY <1>1, <1>3 DEF NoDeparture, EnoughArrives
<1>8. \A m : Listed(m)' = Listed(m)
  BY <1>1 DEF Listed
<1>9. Noticed => Noticed'
  BY <1>1, <1>8, NoticedAlone
<1>10. ASSUME early = 0, lost < 3, NEW c \in Clients, NEW i \in DOMAIN order, OnWay(c, i)
       PROVE  OnWay(c, i)'
  <2>1. Queues(c, i) => Queues(c, i)'
    BY <1>1 DEF Queues
  <2>2. SentAgain(c, i) => SentAgain(c, i)'
    BY <1>1, <1>5 DEF SentAgain
  <2>3. CASE Travels(c, i)
    <3>1. PICK e \in net : e.type = "CAST" /\ e.to = c /\ e.v = order[i].v /\ e.msg = order[i].m
      BY <2>3 DEF Travels
    <3>2. CASE e # d
      BY <1>1, <1>2, <3>1, <3>2 DEF OnWay, Travels
    <3>3. CASE e = d
      <4>1. d \in Pending
        BY <3>1, <3>3 DEF Pending
      <4>2. cast.stage = "wait" /\ Waiting /\ \A f \in Pending : f = d
        BY <1>10, <4>1 DEF ReachInv, Calm
      <4>3. cast.to = c /\ order[i].v = cast.v /\ order[i].m = cast.msg
        BY <3>1, <3>3, <4>1, <4>2 DEF Waiting
      <4>4. Pending' = {}
        BY <1>5, <4>2
      <4>5. SentAgain(c, i)'
        BY <1>1, <4>2, <4>3, <4>4 DEF SentAgain
      <4> QED BY <4>5 DEF OnWay
    <3> QED BY <3>2, <3>3
  <2> QED BY <1>10, <2>1, <2>2, <2>3 DEF OnWay
<1>11. \A c \in Clients : \A number, ids : Knows(c, number, ids)' => Knows(c, number, ids)
  BY <1>1, <1>2, <1>8 DEF Knows, InChat, Answer
<1>12. Views /\ early = 0 /\ lost < 3 => Views'
  <2> SUFFICES ASSUME Views, early = 0, lost < 3 PROVE Views'
    OBVIOUS
  <2>1. UNCHANGED <<order, client_queue>> /\ Listed(Leader) \subseteq Listed(Leader)'
    BY <1>1, <1>8
  <2> QED BY <1>10, <1>11, <2>1, ViewsGoOn
<1> QED BY <1>4, <1>6, <1>7, <1>9, <1>12 DEF ReachInv

(* A message shown is a message counted: what c expected stays with it.    *)
LEMMA PrintNextReach ==
  ASSUME TypeInv, ScreenInv, JoinInv, ReachInv, NEW c \in Clients, ClientThread(PrintNext(c))
  PROVE  ReachInv'
<1>1. PICK i \in DOMAIN client_queue[c] :
        IsNext(c, i) /\ client_queue' = [client_queue EXCEPT ![c] = RemoveAt(@, i)]
  BY DEF ClientThread, PrintNext
<1>2. /\ UNCHANGED <<order, sequencer_queue, cast, draft, status, others, net, gone, lost, early>>
      /\ latestSequenceNum' = [latestSequenceNum EXCEPT ![c] = @ + 1]
      /\ status[c] = "in"
  BY DEF ClientThread, PrintNext, InChat, sequencerVars, wireVars
<1>3. PICK queue, n : queue = client_queue[c] /\ n = latestSequenceNum[c] + 1
  OBVIOUS
<1>4. /\ queue \in Seq(QueuedNode) /\ c \in DOMAIN client_queue /\ c \in DOMAIN latestSequenceNum
      /\ n \in Int /\ client_queue \in [Clients -> Seq(QueuedNode)]
      /\ latestSequenceNum \in [Clients -> Int]
  BY <1>3 DEF TypeInv, TypeOK, ClientTypeOK
<1>5. /\ DOMAIN queue = 1..Len(queue) /\ Len(queue) \in Nat /\ i \in 1..Len(queue)
  BY <1>1, <1>3, <1>4, LenProperties
<1>a. PICK rest : rest = RemoveAt(queue, i)
  OBVIOUS
<1>b. /\ rest \in Seq(QueuedNode) /\ Len(rest) = Len(queue) - 1
      /\ \A k \in 1..(Len(queue) - 1) : rest[k] = IF k < i THEN queue[k] ELSE queue[k + 1]
  BY <1>4, <1>5, <1>a, RemoveAtProperties
<1>6. /\ DOMAIN rest = 1..(Len(queue) - 1)
      /\ \A k \in 1..(Len(queue) - 1) : rest[k] = IF k < i THEN queue[k] ELSE queue[k + 1]
  BY <1>b, LenProperties
<1>7. /\ client_queue'[c] = rest /\ latestSequenceNum'[c] = n
      /\ \A b \in Clients : b # c => client_queue'[b] = client_queue[b]
                                      /\ latestSequenceNum'[b] = latestSequenceNum[b]
  BY <1>1, <1>2, <1>3, <1>4, <1>a
<1>8. queue[i].m.seq = n
  <2>1. queue[i].v = queue[i].m.seq /\ queue[i].v = n
    BY <1>1, <1>3 DEF ScreenInv, IsNext
  <2> QED BY <2>1
<1>9. NoneStray' /\ Calm'
  BY <1>2 DEF ReachInv, NoneStray, Calm, Waiting, Pending
<1>10. (NoDeparture' <=> NoDeparture) /\ (EnoughArrives' <=> EnoughArrives)
       /\ \A m : Listed(m)' = Listed(m)
  BY <1>2 DEF NoDeparture, EnoughArrives, Listed
<1>11. Noticed => Noticed'
  BY <1>2, <1>10, NoticedAlone
<1>12. \A b \in Clients, j \in DOMAIN order : OnWay(b, j) => OnWay(b, j)'
  BY <1>2 DEF OnWay, Queues, Travels, SentAgain, Pending
<1>13. ASSUME NEW j \in DOMAIN order, NEW ids, Held(c, j, n, ids)
       PROVE  Held(c, j, n + 1, ids)'
  <2>1. order[j].m.seq \in Nat
    <3>1. order[j] \in Node
      BY DEF TypeInv, TypeOK, SequencerTypeOK
    <3> QED BY <3>1 DEF Node, Message
  <2>2. CASE order[j].m.seq < n
    <3>1. order[j].m.seq < n + 1
      BY <1>4, <2>1, <2>2
    <3> QED BY <1>2, <1>13, <3>1 DEF Held
  <2>3. ASSUME NEW k \in DOMAIN queue, queue[k].m = order[j].m PROVE Held(c, j, n + 1, ids)'
    <3>1. CASE k = i
      <4>1. order[j].m.seq < n + 1
        BY <1>4, <1>8, <2>3, <3>1
      <4> QED BY <1>2, <1>13, <4>1 DEF Held
    <3>2. CASE k < i
      <4>1. k \in DOMAIN rest /\ rest[k] = queue[k]
        BY <1>5, <1>6, <3>2
      <4> QED BY <1>2, <1>7, <1>13, <2>3, <4>1 DEF Held
    <3>3. CASE k > i
      <4>1. k - 1 \in 1..(Len(queue) - 1) /\ ~(k - 1 < i) /\ (k - 1) + 1 = k
        BY <1>5, <3>3
      <4>2. k - 1 \in DOMAIN rest /\ rest[k - 1] = queue[k]
        BY <1>6, <4>1
      <4> QED BY <1>2, <1>7, <1>13, <2>3, <4>2 DEF Held
    <3> QED BY <1>5, <3>1, <3>2, <3>3
  <2> QED BY <1>3, <1>13, <2>2, <2>3 DEF Held
<1>14. ASSUME Views, NEW b \in Clients, NEW number, NEW ids, Knows(b, number, ids)'
       PROVE  View(b, number, ids)'
  <2>1. CASE b # c
    <3>1. Knows(b, number, ids)
      BY <1>2, <1>7, <1>10, <1>14, <2>1 DEF Knows, InChat, Answer
    <3>2. View(b, number, ids)
      BY <1>14, <3>1 DEF Views
    <3>3. \A j : Held(b, j, number, ids)' <=> Held(b, j, number, ids)
      BY <1>2, <1>7, <2>1 DEF Held
    <3> QED BY <1>2, <1>10, <1>12, <3>2, <3>3 DEF View
  <2>2. CASE b = c
    <3>1. \A d \in net : ~Answer(d, c)
      BY <1>2 DEF JoinInv, OneToken, Tokens, Token, Answer
    <3>2. InChat(c) /\ number = n + 1 /\ ids = Listed(c)
      BY <1>2, <1>7, <1>10, <1>14, <2>2, <3>1 DEF Knows, InChat, Answer
    <3>3. Knows(c, n, ids)
      BY <1>3, <3>2 DEF Knows
    <3>4. View(c, n, ids)
      BY <1>14, <3>3 DEF Views
    <3> QED BY <1>2, <1>10, <1>12, <1>13, <2>2, <3>2, <3>4 DEF View
  <2> QED BY <2>1, <2>2
<1> QED BY <1>9, <1>10, <1>11, <1>14 DEF ReachInv, Views

(* What a delivered message does to the table.                             *)
LEMMA TableAfterIds ==
  ASSUME NEW table \in Seq(Entry), NEW msg \in Message, msg.type # "LEAVE"
  PROVE  Ids(TableAfter(table, msg)) =
           IF msg.type = "NEW_USER" THEN Ids(table) \cup {msg.about} ELSE Ids(table)
<1>1. msg.about \in Machine
  BY DEF Message
<1>2. CASE msg.type = "NEW_USER"
  <2>1. TableAfter(table, msg) = AddClient(table, msg.about)
    BY <1>2 DEF TableAfter
  <2> QED BY <1>1, <1>2, <2>1, IdsAdded
<1>3. CASE msg.type # "NEW_USER"
  BY <1>3 DEF TableAfter
<1> QED BY <1>2, <1>3

(* A message delivered is no longer on its way but held, and its           *)
(* acknowledgement takes its place on the wire.                            *)
LEMMA DeliverReach ==
  ASSUME TypeInv, ScreenInv, JoinInv, ReachInv, NEW c \in Clients, ClientThread(Deliver(c))
  PROVE  ReachInv'
<1>1. PICK d, ack, node :
        /\ d \in Addressed("CAST", c)
        /\ ack = [type |-> "ACK", from |-> c, to |-> Leader, v |-> d.v, try |-> d.try]
        /\ node = [v |-> d.msg.seq, m |-> d.msg]
        /\ client_queue' = [client_queue EXCEPT ![c] = Append(@, node)]
        /\ Transmit({d}, {ack})
        /\ others' = [others EXCEPT ![c] = TableAfter(@, d.msg)]
  BY DEF ClientThread, Deliver
<1>2. /\ UNCHANGED <<order, sequencer_queue, cast, draft, status, latestSequenceNum, gone, lost,
                     early>>
      /\ status[c] = "in" /\ InChat(c)
  BY DEF ClientThread, Deliver, InChat, sequencerVars
<1>3. /\ d \in net /\ d.type = "CAST" /\ d.to = c /\ d \in Pending
      /\ ack.type = "ACK" /\ ack.to = Leader /\ ack.v = d.v /\ node.m = d.msg
  BY <1>1 DEF Addressed, Pending
<1>4. net' = (net \ {d}) \cup {ack}
  BY <1>1, <1>3 DEF Transmit, ReachInv, NoneStray
<1>5. Pending' = (Pending \ {d}) \cup {ack}
  <2>1. \A e : e \in Pending' <=> e \in (Pending \ {d}) \cup {ack}
    BY <1>3, <1>4 DEF Pending
  <2> QED BY <2>1 DEF Pending
<1>6. NoneStray'
  BY <1>2, <1>3, <1>4 DEF ReachInv, NoneStray
<1>7. Calm'
  <2> SUFFICES ASSUME early = 0, lost < 3 PROVE Calm'
    BY <1>2 DEF Calm
  <2>1. (\A e \in Pending : e = d) /\ cast.stage = "wait" /\ Waiting
    BY <1>3 DEF ReachInv, Calm
  <2>2. \A e \in Pending' : e = ack
    BY <1>5, <2>1
  <2>3. d.v = cast.v
    BY <1>3, <2>1 DEF Waiting
  <2>4. Pending' # {}
    BY <1>5
  <2>5. Waiting'
    BY <1>2, <1>3, <2>1, <2>2, <2>3, <2>4 DEF Waiting
  <2> QED BY <1>2, <2>1, <2>2, <2>5 DEF Calm
<1>8. PICK queue : queue = client_queue[c] /\ queue \in Seq(QueuedNode)
  BY DEF TypeInv, TypeOK, ClientTypeOK
<1>9. d.msg \in Message /\ node \in QueuedNode
  BY <1>1, <1>3, DatagramFields DEF TypeInv, TypeOK, WireTypeOK, QueuedNode, Message
<1>a. PICK longer : longer = Append(queue, node)
  OBVIOUS
<1>10. /\ longer = Append(queue, node)
       /\ DOMAIN queue = 1..Len(queue) /\ Len(queue) \in Nat
       /\ DOMAIN longer = 1..(Len(queue) + 1)
       /\ \A k \in 1..Len(queue) : longer[k] = queue[k]
       /\ longer[Len(queue) + 1] = node
  BY <1>8, <1>9, <1>a, AppendProperties, LenProperties
<1>11. /\ client_queue'[c] = longer /\ others'[c] = TableAfter(others[c], d.msg)
       /\ \A b \in Clients : b # c => client_queue'[b] = client_queue[b]
       /\ \A m \in Machine : m # c => others'[m] = others[m]
       /\ others[c] \in Seq(Entry)
  <2>1. client_queue \in [Clients -> Seq(QueuedNode)] /\ others \in [Machine -> Seq(Entry)]
        /\ c \in Machine
    BY DEF TypeInv, TypeOK, ClientTypeOK, MachinesTypeOK, Machine
  <2> QED BY <1>1, <1>8, <1>10, <2>1
<1>12. Listed(Leader)' = Listed(Leader) /\ \A b \in Clients : b # c => Listed(b)' = Listed(b)
  BY <1>11, LeaderAssumption DEF Listed, Machine
<1>13. (NoDeparture' <=> NoDeparture) /\ (EnoughArrives' <=> EnoughArrives)
  BY <1>2 DEF NoDeparture, EnoughArrives
<1>14. Noticed => Noticed'
  BY <1>2, <1>12, NoticedAlone
<1>15. ASSUME NEW b \in Clients, NEW i \in DOMAIN order, OnWay(b, i)
       PROVE  OnWay(b, i)' \/ (b = c /\ d.msg = order[i].m)
  <2>1. Queues(b, i) => Queues(b, i)'
    BY <1>2 DEF Queues
  <2>2. SentAgain(b, i) => SentAgain(b, i)'
    BY <1>2, <1>3, <1>5 DEF SentAgain
  <2>3. CASE Travels(b, i)
    <3>1. PICK e \in net : e.type = "CAST" /\ e.to = b /\ e.v = order[i].v /\ e.msg = order[i].m
      BY <2>3 DEF Travels
    <3>2. CASE e # d
      BY <1>2, <1>4, <3>1, <3>2 DEF OnWay, Travels
    <3> QED BY <1>3, <3>1, <3>2
  <2> QED BY <1>15, <2>1, <2>2, <2>3 DEF OnWay
<1>16. NoDeparture => d.msg.type # "LEAVE"
  BY <1>3 DEF ScreenInv, Ordered, NoDeparture
<1>17. NoDeparture /\ Noticed =>
         /\ Listed(c) \subseteq Listed(c)' /\ Listed(c)' \subseteq Listed(c) \cup Listed(Leader)
         /\ d.msg.type = "NEW_USER" => d.msg.about \in Listed(c)'
  <2> SUFFICES ASSUME NoDeparture, Noticed
               PROVE  /\ Listed(c) \subseteq Listed(c)'
                      /\ Listed(c)' \subseteq Listed(c) \cup Listed(Leader)
                      /\ d.msg.type = "NEW_USER" => d.msg.about \in Listed(c)'
    OBVIOUS
  <2>1. PICK table : table = TableAfter(others[c], d.msg)
    OBVIOUS
  <2>2. Ids(table) = IF d.msg.type = "NEW_USER" THEN Ids(others[c]) \cup {d.msg.about}
                     ELSE Ids(others[c])
    BY <1>9, <1>11, <1>16, <2>1, TableAfterIds
  <2>3. Listed(c)' = Ids(table) /\ Listed(c) = Ids(others[c])
    BY <1>11, <2>1 DEF Listed, Ids
  <2>4. d.msg.type = "NEW_USER" => d.msg.about \in Listed(Leader)
    BY <1>3 DEF ScreenInv, Ordered, Noticed
  <2> QED BY <2>2, <2>3, <2>4
<1>18. ASSUME NoDeparture, Noticed, Views, NEW b \in Clients, NEW number, NEW ids,
              Knows(b, number, ids)'
       PROVE  View(b, number, ids)'
  <2>1. \A e \in net' : e.type = "JOIN_RES" => e \in net
    BY <1>3, <1>4
  <2>2. CASE b # c
    <3>1. Knows(b, number, ids)
      BY <1>2, <1>12, <1>18, <2>1, <2>2 DEF Knows, InChat, Answer
    <3>2. View(b, number, ids)
      BY <1>18, <3>1 DEF Views
    <3>3. \A j : Held(b, j, number, ids)' <=> Held(b, j, number, ids)
      BY <1>2, <1>11, <2>2 DEF Held
    <3>4. \A j \in DOMAIN order : OnWay(b, j) => OnWay(b, j)'
      BY <1>15, <2>2
    <3> QED BY <1>2, <1>12, <3>2, <3>3, <3>4 DEF View
  <2>3. CASE b = c
    <3>1. \A e \in net' : ~Answer(e, c)
      BY <1>2, <2>1 DEF JoinInv, OneToken, Tokens, Token, Answer
    <3>2. number = latestSequenceNum[c] + 1 /\ ids = Listed(c)'
      BY <1>2, <1>18, <2>3, <3>1 DEF Knows, Answer
    <3>3. PICK old : old = Listed(c)
      OBVIOUS
    <3>4. Knows(c, number, old)
      BY <1>2, <3>2, <3>3 DEF Knows
    <3>5. View(c, number, old)
      BY <1>18, <3>4 DEF Views
    <3>6. old \subseteq ids /\ ids \subseteq old \cup Listed(Leader)
          /\ (d.msg.type = "NEW_USER" => d.msg.about \in ids)
      BY <1>17, <1>18, <3>2, <3>3
    <3>7. ASSUME NEW j \in DOMAIN order PROVE OnWay(c, j)' \/ Held(c, j, number, ids)'
      <4>1. CASE Held(c, j, number, old)
        <5>1. \A k \in DOMAIN queue : k \in DOMAIN longer /\ longer[k] = queue[k]
          BY <1>10
        <5> QED BY <1>2, <1>8, <1>11, <3>6, <4>1, <5>1 DEF Held
      <4>2. CASE d.msg = order[j].m
        <5>1. Len(queue) + 1 \in DOMAIN longer /\ longer[Len(queue) + 1].m = order[j].m
          BY <1>3, <1>10, <4>2
        <5> QED BY <1>2, <1>11, <3>6, <4>2, <5>1 DEF Held
      <4> QED BY <1>15, <3>5, <4>1, <4>2 DEF View
    <3>8. c \in ids /\ Leader \in ids /\ ids \subseteq Listed(Leader)'
      BY <1>12, <3>5, <3>6 DEF View
    <3> QED BY <1>2, <2>3, <3>7, <3>8 DEF View
  <2> QED BY <2>2, <2>3
<1>19. NoDeparture /\ Noticed /\ Views => Views'
  BY <1>18 DEF Views
<1> QED BY <1>6, <1>7, <1>13, <1>14, <1>19 DEF ReachInv

-----------------------------------------------------------------------------
LEMMA SendQueueReach ==
  ASSUME TypeInv, VisitInv, LeaderInv, JoinInv, ReachInv, LeaderThread(SendQueue)
  PROVE  ReachInv'
<1> UNCHANGED clientVars
  BY DEF LeaderThread
<1>1. CASE BroadcastStart \/ PrintOwn \/ SkipJoiner
  BY <1>1, SlotsReach
<1>2. CASE SendToMember
  BY <1>2, SendToMemberReach
<1>3. CASE ReceiveAck
  BY <1>3, ReceiveAckReach
<1>4. CASE AckTimeout
  BY <1>4, AckTimeoutReach
<1>5. CASE BroadcastEnd
  BY <1>5, BroadcastEndReach
<1> QED BY <1>1, <1>2, <1>3, <1>4, <1>5 DEF LeaderThread, SendQueue

LEMMA HeartbeatReach ==
  ASSUME TypeInv, VisitInv, JoinInv, ReachInv,
         HeartbeatThread(SendHb) \/ HeartbeatThread(ReceiveBeatAck)
  PROVE  ReachInv'
<1>1. CASE Enqueue("send_hb")
  BY <1>1, EnqueueReach DEF HeartbeatThread, Thread
<1>2. CASE ~Enqueue("send_hb")
  <2>1. /\ Aside /\ draft'["listen"] = draft["listen"]
        /\ NoDeparture => Listed(Leader)' = Listed(Leader)
    BY <1>2, HeartbeatAside DEF HeartbeatThread, SendHb
  <2>2. order' = order
    BY <2>1 DEF Aside
  <2>3. NoDeparture' => Noticed'
    BY <2>1, <2>2, NoticedAlone DEF ReachInv, NoDeparture
  <2> QED BY <2>1, <2>3, AsideReach
<1> QED BY <1>1, <1>2

LEMMA StillReach ==
  ASSUME ReachInv, Aside, UNCHANGED <<draft, others>>
  PROVE  ReachInv'
<1>1. order' = order /\ Listed(Leader)' = Listed(Leader)
  BY DEF Aside, Listed
<1>2. NoDeparture' => Noticed'
  BY <1>1, NoticedAlone DEF ReachInv, NoDeparture
<1> QED BY <1>2, AsideReach

LEMMA ClientReach ==
  ASSUME TypeInv, ScreenInv, JoinInv, ReachInv, NEW c \in Clients,
         \/ ClientThread(Join(c)) \/ ClientThread(TypeClientLine(c)) \/ ClientThread(SendOut(c))
         \/ ClientThread(ListenAtClient(c)) \/ ClientThread(PrintNext(c))
         \/ ClientThread(AnswerBeat(c)) \/ ClientThread(EndProcess(c))
  PROVE  ReachInv'
<1>1. CASE \/ \E h \in Machine : ClientThread(AskToJoin(c, h))
           \/ ClientThread(AskLeader(c)) \/ ClientThread(TypeClientLine(c))
           \/ ClientThread(SendOut(c)) \/ ClientThread(RedirectJoiner(c))
           \/ ClientThread(AnswerBeat(c))
  BY <1>1, ClientAside, StillReach
<1>2. CASE ClientThread(EnterChat(c))
  BY <1>2, EnterChatReach
<1>3. CASE ClientThread(GiveUpJoin(c, Answering(c))) \/ ClientThread(Quit(c))
  <2>1. Answering(c) \in BOOLEAN
    BY DEF Answering
  <2> QED BY <1>3, <2>1, SocketsClosedReach
<1>4. CASE ClientThread(Deliver(c))
  BY <1>4, DeliverReach
<1>5. CASE ClientThread(PrintNext(c))
  BY <1>5, PrintNextReach
<1> QED BY <1>1, <1>2, <1>3, <1>4, <1>5 DEF ClientThread, Join, ListenAtClient, EndProcess

LEMMA ReachInvStep ==
  TypeInv /\ NumberInv /\ VisitInv /\ ScreenInv /\ LeaderInv /\ JoinInv /\ ReachInv /\ [Next]_vars
    => ReachInv'
<1> SUFFICES ASSUME TypeInv, NumberInv, VisitInv, ScreenInv, LeaderInv, JoinInv, ReachInv,
                    [Next]_vars
             PROVE  ReachInv'
  OBVIOUS
<1>0. {"input", "listen"} \subseteq Thread
  BY DEF Thread
<1>1. CASE LeaderThread(Input)
  BY <1>0, <1>1, TypeLineReach, EnqueueReach DEF LeaderThread, Input
<1>2. CASE LeaderThread(Listen)
  BY <1>0, <1>2, ListenAside, AnswerJoinerReach, EnqueueReach DEF LeaderThread, Listen
<1>3. CASE LeaderThread(SendQueue)
  BY <1>3, SendQueueReach
<1>4. CASE HeartbeatThread(SendHb) \/ HeartbeatThread(ReceiveBeatAck)
  BY <1>4, HeartbeatReach
<1>5. ASSUME NEW c \in Clients,
             \/ ClientThread(Join(c)) \/ ClientThread(TypeClientLine(c)) \/ ClientThread(SendOut(c))
             \/ ClientThread(ListenAtClient(c)) \/ ClientThread(PrintNext(c))
             \/ ClientThread(AnswerBeat(c)) \/ ClientThread(EndProcess(c))
      PROVE  ReachInv'
  BY <1>5, ClientReach
<1>6. CASE ClientThread(Lose /\ UNCHANGED clientVars)
  BY <1>6, LoseReach
<1>7. CASE UNCHANGED vars
  <2>1. UNCHANGED <<draft, others, order, sequencer_queue, cast, client_queue, latestSequenceNum,
                    status, net, gone, lost, early>>
    BY <1>7 DEF vars, machineVars, wireVars, sequencerVars, clientVars
  <2>2. Aside
    BY <2>1, AsideOf DEF NetAside, InChat, Listed
  <2> QED BY <2>1, <2>2, StillReach
<1> QED BY <1>1, <1>2, <1>3, <1>4, <1>5, <1>6, <1>7 DEF Next

LEMMA ReachInvInvariant == Spec => []ReachInv
<1>1. Init => ReachInv
  <2> SUFFICES ASSUME Init PROVE ReachInv
    OBVIOUS
  <2>1. /\ net = {} /\ gone = {} /\ order = <<>> /\ cast = NoCast /\ draft["listen"] = Idle
        /\ \A c \in Clients : status[c] # "in"
        /\ others[Leader] = <<NewEntry(Leader)>>
    BY DEF Init, WireInit, SequencerInit, ClientInit, MachinesInit, IsLeader, Machine, Thread
  <2>2. DOMAIN order = {} /\ Pending = {}
    BY <2>1 DEF Pending
  <2>3. Listed(Leader) = {Leader}
    BY <2>1 DEF Listed, NewEntry
  <2>4. \A c, number, ids : c \in Clients => ~Knows(c, number, ids)
    BY <2>1 DEF Knows, InChat
  <2>5. NoneStray /\ Calm
    BY <2>1, <2>2 DEF NoneStray, Calm, NoCast
  <2>6. Noticed
    BY <2>1, <2>2, <2>3 DEF Noticed, Idle
  <2> QED BY <2>4, <2>5, <2>6 DEF ReachInv, Views
<1> QED BY <1>1, ReachInvStep, TypeInvInvariant, NumberInvInvariant, VisitInvInvariant,
           ScreenInvInvariant, LeaderInvInvariant, JoinInvInvariant, PTL DEF Spec

-----------------------------------------------------------------------------
(* What a member of the chat knows.                                        *)
LEMMA MemberView ==
  ASSUME TypeInv, ReachInv, EnoughArrives, NoDeparture, NEW c \in Clients, InChat(c)
  PROVE  View(c, latestSequenceNum[c] + 1, Listed(c))
<1>1. Knows(c, latestSequenceNum[c] + 1, Listed(c))
  BY DEF Knows
<1> QED BY <1>1 DEF ReachInv, Views

(* As long as nobody is removed, and no datagram is lost, or three at most *)
(* and no timeout is early: every message a member still expects is in the *)
(* leader's queue, in the network, in the member's queue, or will be sent  *)
(* again.  However members join during a broadcast, whoever's              *)
(* acknowledgement is taken for whose (sequencer.c:127-150, 195-235,       *)
(* client.c:56, 277-296).                                                  *)
THEOREM NothingMissingAlways == Spec => []NothingMissing
<1>1. TypeInv /\ ReachInv => NothingMissing
  <2> SUFFICES ASSUME TypeInv, ReachInv, EnoughArrives, NoDeparture, NEW c \in Clients, InChat(c),
                      NEW i \in DOMAIN order, order[i].m.seq > latestSequenceNum[c]
               PROVE  \/ StillToSend(c, i)
                      \/ \E d \in Addressed("CAST", c) : d.msg = order[i].m
                      \/ \E k \in DOMAIN client_queue[c] : client_queue[c][k].m = order[i].m
    BY DEF NothingMissing
  <2>1. PICK number, ids : number = latestSequenceNum[c] + 1 /\ View(c, number, ids)
    BY MemberView
  <2>2. CASE Queues(c, i)
    BY <2>2 DEF Queues, StillToSend
  <2>3. CASE Travels(c, i)
    BY <2>3 DEF Travels, Addressed
  <2>4. CASE SentAgain(c, i)
    <3>1. cast # NoCast /\ cast.stage = "wait" /\ cast.to = c
      BY <2>4 DEF SentAgain, NoCast
    <3>2. sequencer_queue \in Seq(Node) /\ sequencer_queue # <<>>
          /\ Head(sequencer_queue) = [v |-> cast.v, m |-> cast.msg]
      BY <3>1 DEF TypeInv, TypeOK, SequencerTypeOK, CastIsHead
    <3>3. 1 \in DOMAIN sequencer_queue /\ sequencer_queue[1] = [v |-> cast.v, m |-> cast.msg]
      BY <3>2, HeadTailProperties, LenProperties, EmptySeq
    <3>4. order[i] = [v |-> cast.v, m |-> cast.msg]
      <4>1. order[i] \in Node
        BY DEF TypeInv, TypeOK, SequencerTypeOK
      <4> QED BY <2>4, <4>1 DEF SentAgain, Node
    <3> QED BY <3>1, <3>3, <3>4 DEF StillToSend
  <2>5. CASE Held(c, i, number, ids)
    <3>1. order[i].m.seq \in Nat /\ latestSequenceNum[c] \in Int
      <4>1. order[i] \in Node
        BY DEF TypeInv, TypeOK, SequencerTypeOK
      <4> QED BY <4>1 DEF Node, Message, TypeInv, TypeOK, ClientTypeOK
    <3>2. ~(order[i].m.seq < number)
      BY <2>1, <3>1
    <3> QED BY <2>5, <3>2 DEF Held
  <2> QED BY <2>1, <2>2, <2>3, <2>4, <2>5 DEF View, OnWay
<1> QED BY <1>1, TypeInvInvariant, ReachInvInvariant, PTL

(* When nothing is on its way any more, every member lists whom the leader *)
(* lists, however joins, copies of the table and notices crossed           *)
(* (sequencer.c:118-150, client.c:56, 295-296).                            *)
THEOREM ViewsAgreeAlways == Spec => []ViewsAgree
<1>1. TypeInv /\ ReachInv => ViewsAgree
  <2> SUFFICES ASSUME TypeInv, ReachInv, Quiet, lost = 0, NoDeparture, NEW c \in Clients, InChat(c)
               PROVE  Listed(c) = Listed(Leader)
    BY DEF ViewsAgree
  <2>1. PICK number, ids : ids = Listed(c) /\ View(c, number, ids)
    BY MemberView DEF EnoughArrives
  <2>2. ASSUME NEW m \in Listed(Leader) PROVE m \in ids
    <3>1. CASE m = Leader
      BY <2>1, <3>1 DEF View
    <3>2. ASSUME NEW i \in DOMAIN order, Notice(i, m) PROVE m \in ids
      <4>1. ~Queues(c, i)
        BY DEF Quiet, Queues
      <4>2. ~Travels(c, i)
        BY DEF Quiet, Travels
      <4>3. ~SentAgain(c, i)
        BY DEF Quiet, SentAgain, TypeInv, CastIsHead, NoCast
      <4>4. Held(c, i, number, ids)
        BY <2>1, <4>1, <4>2, <4>3 DEF View, OnWay
      <4> QED BY <3>2, <4>4 DEF Held, Notice
    <3>3. ~Entering(m)
      BY DEF Quiet, Entering, Idle, Thread
    <3> QED BY <3>1, <3>2, <3>3 DEF ReachInv, Noticed
  <2> QED BY <2>1, <2>2 DEF View
<1> QED BY <1>1, TypeInvInvariant, ReachInvInvariant, PTL
=============================================================================
