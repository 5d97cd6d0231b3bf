----------------------------- MODULE ExtraProofs -----------------------------
(***************************************************************************)
(* The extra-credit chat, for any leader, any set of clients, any bounds,  *)
(* any NumTimesTracked and SlowFactor, any interleaving of the leader's    *)
(* threads, which no lock keeps apart, and any datagrams lost.             *)
(***************************************************************************)
EXTENDS Extra, SeqLemmas, FiniteSetTheorems

-----------------------------------------------------------------------------
(* The last of a set of indices that is not empty and bounded. *)
LEMMA MaxIsMember ==
  ASSUME NEW n \in Nat, NEW I \in SUBSET (1..n), I # {}
  PROVE  Max(I) \in I
<1> DEFINE J == {n - i : i \in I}
<1>1. J \in SUBSET Nat /\ J # {}
  <2>1. \A i \in I : n - i \in Nat
    OBVIOUS
  <2> QED BY <2>1
<1>2. PICK k \in J : \A j \in J : k <= j
  <2> HIDE DEF J
  <2> QED BY <1>1, MinIsMember
<1>3. PICK i \in I : k = n - i
  OBVIOUS
<1>4. \A j \in I : i >= j
  <2> TAKE j \in I
  <2>1. n - i <= n - j
    BY <1>2, <1>3
  <2> QED BY <2>1
<1> QED BY <1>4 DEF Max

LEMMA NextCardinality ==
  ASSUME NEW n \in Nat, NEW I \in SUBSET (1..n), I # {}
  PROVE  /\ Max(I) \in I /\ I \ {Max(I)} \in SUBSET (1..n)
         /\ Cardinality(I) \in Nat \ {0}
         /\ Cardinality(I \ {Max(I)}) = Cardinality(I) - 1
<1>1. IsFiniteSet(I)
  <2>1. IsFiniteSet(1..n)
    BY FS_Interval
  <2> QED BY <2>1, FS_Subset
<1> QED BY <1>1, MaxIsMember, FS_RemoveElement, FS_CardinalityType, FS_EmptySet

(* The seconds kept in a slot have a sum: the fold is well-defined on the  *)
(* sets of indices of at most k elements, for each k in turn.              *)
LEMMA SumIsNat ==
  ASSUME NEW times \in Seq(Nat)
  PROVE  Sum(times) \in Nat /\ (times = <<>> => Sum(times) = 0)
<1> DEFINE D == DOMAIN times
           Upto(k) == {s \in SUBSET D : Cardinality(s) <= k}
           IsFold(f, U) == f = [s \in U |-> IF s = {} THEN 0 ELSE f[s \ {Max(s)}] + times[Max(s)]]
<1>1. D = 1..Len(times) /\ Len(times) \in Nat
  BY LenProperties
<1>2. \A s \in SUBSET D : s # {} =>
        /\ Max(s) \in s /\ s \ {Max(s)} \in SUBSET D /\ times[Max(s)] \in Nat
        /\ Cardinality(s) \in Nat \ {0}
        /\ Cardinality(s \ {Max(s)}) = Cardinality(s) - 1
  BY <1>1, NextCardinality, ElementOfSeq
<1>3. Cardinality({}) = 0 /\ \A s \in SUBSET D : Cardinality(s) \in 0..Len(times)
  <2>1. IsFiniteSet(1..Len(times)) /\ Cardinality(1..Len(times)) = Len(times)
    <3>1. PICK n : n = Len(times)
      OBVIOUS
    <3>2. n \in Nat
      BY <1>1, <3>1
    <3> HIDE DEF D
    <3>3. IsFiniteSet(1..n) /\ Cardinality(1..n) = IF 1 > n THEN 0 ELSE n - 1 + 1
      BY <3>2, FS_Interval
    <3>4. (IF 1 > n THEN 0 ELSE n - 1 + 1) = n
      BY <3>2
    <3> QED BY <3>1, <3>3, <3>4
  <2>2. IsFiniteSet(D) /\ Cardinality(D) = Len(times)
    BY <2>1, <1>1
  <2> QED BY <2>2, <1>1, FS_Subset, FS_CardinalityType, FS_EmptySet
<1>4. \A k \in Nat : \E f : IsFold(f, Upto(k))
  <2> DEFINE Bad == {k \in Nat : ~ \E f : IsFold(f, Upto(k))}
  <2> SUFFICES Bad = {}
    OBVIOUS
  <2>1. SUFFICES ASSUME Bad # {} PROVE FALSE
    OBVIOUS
  <2>2. PICK k \in Bad : \A j \in Bad : k <= j
    <3>1. Bad \in SUBSET Nat
      OBVIOUS
    <3> HIDE DEF Bad
    <3> QED BY <2>1, <3>1, MinIsMember
  <2>3. CASE k = 0
    <3> DEFINE f == [s \in Upto(0) |-> 0]
    <3>1. \A s \in Upto(0) : s = {}
      <4> TAKE s \in Upto(0)
      <4>1. s \in SUBSET D /\ ~(Cardinality(s) \in Nat \ {0})
        OBVIOUS
      <4> QED BY <4>1, <1>2
    <3>2. IsFold(f, Upto(0))
      BY <3>1
    <3> QED BY <3>2, <2>3
  <2>4. CASE k # 0
    <3>0. k \in Nat
      OBVIOUS
    <3>1. k - 1 \in Nat /\ k - 1 \notin Bad
      <4>1. k - 1 \in Nat /\ ~(k <= k - 1)
        BY <3>0, <2>4
      <4> HIDE DEF Bad
      <4> QED BY <4>1, <2>2
    <3>2. PICK f : IsFold(f, Upto(k - 1))
      BY <3>1
    <3> DEFINE g == [s \in Upto(k) |-> IF s = {} THEN 0 ELSE f[s \ {Max(s)}] + times[Max(s)]]
    <3>3. \A s \in Upto(k - 1) : s \in Upto(k) /\ g[s] = f[s]
      <4> TAKE s \in Upto(k - 1)
      <4>1. s \in Upto(k)
        BY <1>3
      <4>2. f[s] = IF s = {} THEN 0 ELSE f[s \ {Max(s)}] + times[Max(s)]
        BY <3>2
      <4> QED BY <4>1, <4>2
    <3>4. \A s \in Upto(k) : s # {} => s \ {Max(s)} \in Upto(k - 1)
      <4> TAKE s \in Upto(k)
      <4> HAVE s # {}
      <4>1. Cardinality(s) <= k /\ s \in SUBSET D
        OBVIOUS
      <4>2. /\ s \ {Max(s)} \in SUBSET D /\ Cardinality(s) \in Nat
            /\ Cardinality(s \ {Max(s)}) = Cardinality(s) - 1
        BY <4>1, <1>2
      <4>3. Cardinality(s \ {Max(s)}) <= k - 1
        BY <4>1, <4>2, <3>0
      <4> QED BY <4>2, <4>3
    <3>5. \A s \in Upto(k) :
            g[s] = IF s = {} THEN 0 ELSE g[s \ {Max(s)}] + times[Max(s)]
      BY <3>3, <3>4
    <3>6. IsFold(g, Upto(k))
      BY <3>5
    <3> QED BY <3>6
  <2> QED BY <2>3, <2>4
<1>5. \E f : IsFold(f, SUBSET D)
  <2>1. Upto(Len(times)) = SUBSET D
    BY <1>3
  <2> HIDE DEF Upto, IsFold
  <2> QED BY <2>1, <1>4, <1>1
<1> DEFINE fold == CHOOSE f : IsFold(f, SUBSET D)
<1>6. Sum(times) = fold[D]
  BY DEF Sum, FoldLeft, MapThenFoldSet
<1>7. IsFold(fold, SUBSET D)
  <2> HIDE DEF IsFold, D
  <2> QED BY <1>5
<1> HIDE DEF fold
<1>8. /\ fold[{}] = 0
      /\ \A s \in SUBSET D : s # {} => fold[s] = fold[s \ {Max(s)}] + times[Max(s)]
  BY <1>7
<1>9. \A k \in Nat : \A s \in Upto(k) : fold[s] \in Nat
  <2> DEFINE Bad == {k \in Nat : ~ \A s \in Upto(k) : fold[s] \in Nat}
  <2> SUFFICES Bad = {}
    OBVIOUS
  <2>1. SUFFICES ASSUME Bad # {} PROVE FALSE
    OBVIOUS
  <2>2. PICK k \in Bad : \A j \in Bad : k <= j
    <3>1. Bad \in SUBSET Nat
      OBVIOUS
    <3> HIDE DEF Bad
    <3> QED BY <2>1, <3>1, MinIsMember
  <2>3. PICK s \in Upto(k) : fold[s] \notin Nat
    OBVIOUS
  <2>4. s # {} /\ s \in SUBSET D /\ Cardinality(s) <= k /\ k \in Nat
    <3>1. s \in SUBSET D /\ Cardinality(s) <= k /\ k \in Nat
      OBVIOUS
    <3>2. fold[s] \notin Nat
      BY <2>3
    <3>3. fold[{}] \in Nat
      BY <1>8
    <3>4. s # {}
      BY <3>2, <3>3
    <3> QED BY <3>1, <3>4
  <2>5. k - 1 \in Nat /\ s \ {Max(s)} \in Upto(k - 1)
    <3>1. Cardinality(s) \in Nat \ {0} /\ Cardinality(s \ {Max(s)}) = Cardinality(s) - 1
      BY <2>4, <1>2
    <3>2. s \ {Max(s)} \in SUBSET D
      BY <2>4, <1>2
    <3> QED BY <3>1, <3>2, <2>4
  <2>6. k - 1 \notin Bad
    <3>1. ~(k <= k - 1)
      BY <2>4
    <3> HIDE DEF Bad
    <3> QED BY <3>1, <2>2
  <2>7. fold[s \ {Max(s)}] \in Nat
    BY <2>5, <2>6
  <2>8. fold[s] = fold[s \ {Max(s)}] + times[Max(s)]
    BY <2>4, <1>8
  <2>9. times[Max(s)] \in Nat
    BY <2>4, <1>2
  <2>10. fold[s] \in Nat
    BY <2>7, <2>8, <2>9
  <2> QED BY <2>3, <2>10
<1>10. fold[D] \in Nat
  <2>1. D \in Upto(Len(times))
    BY <1>3
  <2> QED BY <2>1, <1>9, <1>1
<1>11. times = <<>> => D = {}
  BY <1>1, EmptySeq
<1> QED BY <1>6, <1>8, <1>10, <1>11

-----------------------------------------------------------------------------
(* What the types leave open, and what no handler says where it takes the  *)
(* head of a queue away or goes back to a slot: who may write what in      *)
(* which step, that a queue still holds what was taken from it, and that   *)
(* the leader stays in its slot.                                           *)
DraftInv ==
  /\ draft["input"] # Idle =>
       /\ draft["input"].msg.type = "MSG_REQ"
       /\ draft["input"].step \in {"add", "count", "store"}
  /\ draft["listen"] # Idle =>
       \/ /\ draft["listen"].msg.type = "MSG_REQ"
          /\ draft["listen"].step \in {"add", "count", "store"}
          /\ draft["listen"].msg.about \in Clients
       \/ /\ draft["listen"].msg.type = "NEW_USER"
          /\ draft["listen"].step \in {"enter", "add", "count", "store", "reply"}
          /\ draft["listen"].msg.about \in Clients
  /\ draft["send_hb"] # Idle =>
       /\ draft["send_hb"].msg.type = "LEAVE"
       /\ draft["send_hb"].step \in {"add", "count", "store", "remove"}
       /\ draft["send_hb"].msg.text.line[1] # Leader
  /\ \A d \in net : d.type \in {"JOIN_REQ", "MSG_REQ"} => d.from \in Clients

Queue(important) == IF important THEN important_queue ELSE sequencer_queue
Casting == cast.stage \in {"next", "remove"}

HeadInv ==
  /\ Casting => /\ Queue(Important(cast.msg)) # <<>>
                /\ cast.msg = Head(Queue(Important(cast.msg)))
  /\ \A c \in Clients : sender[c].at = "request" => outgoing_queue[c] # <<>>
  /\ \A k \in DOMAIN important_queue : Important(important_queue[k])
  /\ \A k \in DOMAIN sequencer_queue : ~Important(sequencer_queue[k])
  /\ slots # <<>> /\ slots[1].id = Leader

TypeInv == TypeOK /\ DraftInv /\ HeadInv

-----------------------------------------------------------------------------
(* The parts of a record, by what is known of its kind. *)
LEMMA LeaderIsMachine == Leader \in Machine /\ Clients \subseteq Machine
BY DEF Machine

LEMMA DraftFields ==
  ASSUME TypeOK, NEW t \in Thread
  PROVE  /\ draft[t].step # "idle" => draft[t] # Idle
         /\ draft[t] # Idle => /\ draft[t].msg \in Message
                               /\ draft[t].step \in {"enter", "add", "count", "store", "reply", "remove"}
                               /\ draft[t].step = "store" => draft[t].loaded \in Nat
BY DEF TypeOK, LeaderTypeOK, Draft, Idle

LEMMA DatagramFields ==
  ASSUME TypeOK, NEW d \in net
  PROVE  /\ d.type = "JOIN_REQ" => d = [type |-> "JOIN_REQ", from |-> d.from] /\ d.from \in Machine
         /\ d.type = "JOIN_RES" => d.to \in Machine /\ d.seq \in Nat
         /\ d.type = "MSG_REQ" => /\ d.from \in Machine /\ d.sender_seq \in Nat
                                  /\ d.text \in Text /\ d.paced \in BOOLEAN
         /\ d.type = "MSG_RES" => d.to \in Machine
         /\ d.type = "CAST" => d.to \in Machine /\ d.msg \in Message
BY DEF TypeOK, LeaderTypeOK, Datagram

LEMMA CastFields ==
  ASSUME TypeOK
  PROVE  /\ cast.stage \in {"important", "lines", "next", "remove"}
         /\ Casting => /\ cast.msg \in Message /\ cast.i \in Nat \ {0}
                       /\ cast = [stage |-> cast.stage, msg |-> cast.msg, i |-> cast.i]
BY DEF TypeOK, LeaderTypeOK, Cast, Casting

LEMMA MessageFields ==
  ASSUME NEW msg \in Message
  PROVE  /\ msg.type \in {"MSG_REQ", "NEW_USER", "LEAVE"} /\ msg.about \in Machine
         /\ msg.seq \in Nat /\ msg.sender_seq \in Nat /\ msg.text \in Text
         /\ msg.text.line \in Machine \X Nat /\ msg.text.line[1] \in Machine
         /\ msg.text.layers \in Int /\ Important(msg) \in BOOLEAN
BY DEF Message, Text, Important

LEMMA TextTypes ==
  /\ \A m \in Machine, n \in Nat :
       /\ Plain(<<m, n>>) \in Text /\ Plain(<<m, n>>).layers = 0
       /\ Plain(<<m, n>>).line = <<m, n>>
  /\ \A text \in Text :
       /\ Encrypt(text) \in Text /\ Encrypt(text).layers = text.layers + 1
       /\ Encrypt(text).line = text.line
       /\ Decrypt(text) \in Text /\ Decrypt(text).layers = text.layers - 1
       /\ Decrypt(text).line = text.line
BY DEF Plain, Encrypt, Decrypt, Text

LEMMA DecryptedType ==
  ASSUME NEW msg \in Message
  PROVE  /\ Decrypted(msg) \in Message
         /\ Decrypted(msg).type = msg.type /\ Decrypted(msg).about = msg.about
         /\ Decrypted(msg).seq = msg.seq /\ Decrypted(msg).text = Decrypt(msg.text)
<1>1. msg.text \in Text /\ Decrypt(msg.text) \in Text
  BY MessageFields, TextTypes
<1>2. Decrypted(msg) = [msg EXCEPT !.text = Decrypt(msg.text)]
  BY DEF Decrypted
<1> QED BY <1>1, <1>2 DEF Message

LEMMA StampedType ==
  ASSUME TypeOK, NEW type \in {"MSG_REQ", "NEW_USER", "LEAVE"}, NEW about \in Machine,
         NEW sender_seq \in Nat, NEW text \in Text
  PROVE  LET msg == Stamped(type, about, sender_seq, text)
         IN  /\ msg \in Message /\ msg.type = type /\ msg.about = about
             /\ msg.text = Encrypt(text)
<1>1. Encrypt(text) \in Text
  BY TextTypes
<1> QED BY <1>1 DEF Stamped, Message, TypeOK, LeaderTypeOK

(* A thread takes up a message, or is done with it. *)
LEMMA HoldType ==
  ASSUME TypeOK, NEW t \in Thread, NEW step \in {"enter", "add", "count", "reply", "remove"},
         NEW msg \in Message, Hold(t, step, msg)
  PROVE  /\ draft' \in [Thread -> Draft]
         /\ draft'[t] # Idle /\ draft'[t].step = step /\ draft'[t].msg = msg
         /\ \A u \in Thread \ {t} : draft'[u] = draft[u]
<1>1. draft \in [Thread -> Draft] /\ draft' = [draft EXCEPT ![t] = [step |-> step, msg |-> msg]]
  BY DEF Hold, TypeOK, LeaderTypeOK
<1>2. [step |-> step, msg |-> msg] \in Draft /\ [step |-> step, msg |-> msg] # Idle
  BY DEF Draft, Idle
<1> QED BY <1>1, <1>2

LEMMA ReleaseType ==
  ASSUME TypeOK, NEW t \in Thread, Release(t)
  PROVE  /\ draft' \in [Thread -> Draft]
         /\ draft'[t] = Idle /\ \A u \in Thread \ {t} : draft'[u] = draft[u]
<1>1. draft \in [Thread -> Draft] /\ draft' = [draft EXCEPT ![t] = Idle]
  BY DEF Release, TypeOK, LeaderTypeOK
<1>2. Idle \in Draft
  BY DEF Draft
<1> QED BY <1>1, <1>2

-----------------------------------------------------------------------------
(* The table of members. *)
LEMMA FirstIsMember ==
  ASSUME NEW I \in SUBSET Nat, I # {}
  PROVE  First(I) \in I
<1>1. \E i \in I : \A j \in I : i <= j
  BY MinIsMember
<1> QED BY <1>1 DEF First

LEMMA SlotFields ==
  ASSUME TypeOK
  PROVE  /\ slots \in Seq(Slot) /\ Len(slots) \in Nat /\ DOMAIN slots = 1..Len(slots)
         /\ \A i \in DOMAIN slots :
              /\ slots[i] \in Slot /\ slots[i].id \in Machine /\ slots[i].times \in Seq(Nat)
              /\ slots[i].since \in Nat /\ slots[i].slow \in BOOLEAN
              /\ Len(slots[i].times) \in 0..NumTimesTracked
<1>1. slots \in Seq(Slot)
  BY DEF TypeOK, TrafficTypeOK
<1>2. Len(slots) \in Nat /\ DOMAIN slots = 1..Len(slots)
  BY <1>1, LenProperties
<1>3. \A i \in DOMAIN slots : slots[i] \in Slot
  BY <1>1, <1>2, ElementOfSeq
<1>4. \A i \in DOMAIN slots : slots[i].times \in Seq(Nat) /\ Len(slots[i].times) <= NumTimesTracked
  BY <1>3 DEF Slot, TypeOK, TrafficTypeOK
<1>5. \A i \in DOMAIN slots : Len(slots[i].times) \in 0..NumTimesTracked
  BY <1>4, LenProperties, TrackedAssumption
<1> QED BY <1>1, <1>2, <1>3, <1>5 DEF Slot

LEMMA FirstSlot ==
  ASSUME TypeOK, NEW m \in Listed
  PROVE  First(SlotsOf(m)) \in DOMAIN slots /\ slots[First(SlotsOf(m))].id = m
<1>1. SlotsOf(m) \in SUBSET Nat /\ SlotsOf(m) # {}
  BY SlotFields DEF SlotsOf, Listed
<1>2. First(SlotsOf(m)) \in SlotsOf(m)
  BY <1>1, FirstIsMember
<1> QED BY <1>2 DEF SlotsOf

LEMMA AddClientProperties ==
  ASSUME TypeOK, NEW m \in Machine
  PROVE  /\ AddClient(m) \in Seq(Slot)
         /\ Len(AddClient(m)) = IF m \in Listed THEN Len(slots) ELSE Len(slots) + 1
         /\ DOMAIN AddClient(m) = 1..Len(AddClient(m))
         /\ \A i \in DOMAIN slots : AddClient(m)[i] = slots[i]
         /\ m \notin Listed => AddClient(m)[Len(slots) + 1] = NewSlot(m)
<1>1. NewSlot(m) \in Slot
  BY EmptySeq DEF NewSlot, Slot
<1>2. slots \in Seq(Slot) /\ Len(slots) \in Nat /\ DOMAIN slots = 1..Len(slots)
  BY SlotFields
<1>3. CASE m \in Listed
  BY <1>2, <1>3 DEF AddClient
<1>4. CASE m \notin Listed
  <2>1. AddClient(m) = Append(slots, NewSlot(m))
    BY <1>4 DEF AddClient
  <2>2. /\ AddClient(m) \in Seq(Slot) /\ Len(AddClient(m)) = Len(slots) + 1
        /\ \A i \in 1..Len(slots) : AddClient(m)[i] = slots[i]
        /\ AddClient(m)[Len(slots) + 1] = NewSlot(m)
    BY <2>1, <1>1, <1>2, AppendProperties
  <2>3. DOMAIN AddClient(m) = 1..Len(AddClient(m))
    BY <2>2, LenProperties
  <2> QED BY <2>2, <2>3, <1>2, <1>4
<1> QED BY <1>3, <1>4

LEMMA RemoveClientProperties ==
  ASSUME TypeOK, NEW m \in Listed
  PROVE  /\ RemoveClient(m) \in Seq(Slot)
         /\ Len(RemoveClient(m)) = Len(slots) - 1
         /\ DOMAIN RemoveClient(m) = 1..(Len(slots) - 1)
         /\ First(SlotsOf(m)) \in 1..Len(slots) /\ slots[First(SlotsOf(m))].id = m
         /\ \A i \in DOMAIN RemoveClient(m) :
              RemoveClient(m)[i] = IF i < First(SlotsOf(m)) THEN slots[i] ELSE slots[i + 1]
<1>1. slots \in Seq(Slot) /\ DOMAIN slots = 1..Len(slots)
  BY SlotFields
<1>2. PICK k : k = First(SlotsOf(m))
  OBVIOUS
<1>3. k \in 1..Len(slots) /\ slots[k].id = m
  BY <1>1, <1>2, FirstSlot
<1>4. RemoveClient(m) = RemoveAt(slots, k)
  BY <1>2 DEF RemoveClient
<1>5. /\ RemoveAt(slots, k) \in Seq(Slot) /\ Len(RemoveAt(slots, k)) = Len(slots) - 1
      /\ \A i \in 1..(Len(slots) - 1) :
           RemoveAt(slots, k)[i] = IF i < k THEN slots[i] ELSE slots[i + 1]
  BY <1>1, <1>3, RemoveAtProperties
<1>6. DOMAIN RemoveAt(slots, k) = 1..(Len(slots) - 1)
  BY <1>5, LenProperties
<1> QED BY <1>2, <1>3, <1>4, <1>5, <1>6

(* The seconds kept of a member are never more than NumTimesTracked: the   *)
(* oldest goes when one more is noted.                                     *)
LEMMA TimesWithProperties ==
  ASSUME NEW times \in Seq(Nat), Len(times) <= NumTimesTracked, NEW gap \in Nat
  PROVE  /\ TimesWith(times, gap) \in Seq(Nat)
         /\ Len(TimesWith(times, gap)) =
              IF Len(times) < NumTimesTracked THEN Len(times) + 1 ELSE NumTimesTracked
<1>1. Len(times) \in Nat /\ NumTimesTracked \in Nat \ {0}
  BY LenProperties, TrackedAssumption
<1>2. CASE Len(times) < NumTimesTracked
  <2>1. TimesWith(times, gap) = Append(times, gap)
    BY <1>1, <1>2 DEF TimesWith
  <2> QED BY <2>1, <1>2, AppendProperties
<1>3. CASE ~(Len(times) < NumTimesTracked)
  <2>1. times # <<>> /\ Len(times) = NumTimesTracked
    BY <1>1, <1>3, EmptySeq
  <2>2. Tail(times) \in Seq(Nat) /\ Len(Tail(times)) = NumTimesTracked - 1
    BY <2>1, HeadTailProperties
  <2>3. TimesWith(times, gap) = Append(Tail(times), gap)
    BY <1>1, <2>1 DEF TimesWith
  <2>4. /\ Append(Tail(times), gap) \in Seq(Nat)
        /\ Len(Append(Tail(times), gap)) = Len(Tail(times)) + 1
    BY <2>2, AppendProperties
  <2> QED BY <2>2, <2>3, <2>4, <1>1, <1>3
<1> QED BY <1>2, <1>3

(* A slot whose slow_factor fits its times: what traffic_control restores. *)
Fits(slot) == IF slot.slow THEN ~SlowEnough(slot.times) ELSE ~TooFast(slot.times)

LEMMA ChargedProperties ==
  ASSUME NEW slot \in Slot, Len(slot.times) <= NumTimesTracked
  PROVE  /\ Charged(slot) \in Slot
         /\ Charged(slot).id = slot.id /\ Charged(slot).since = 0
         /\ Charged(slot).times = TimesWith(slot.times, slot.since)
         /\ Fits(Charged(slot))
<1>1. slot.times \in Seq(Nat) /\ slot.since \in Nat /\ slot.slow \in BOOLEAN /\ slot.id \in Machine
  BY DEF Slot
<1>2. PICK times : times = TimesWith(slot.times, slot.since)
  OBVIOUS
<1>3. times \in Seq(Nat)
  BY <1>1, <1>2, TimesWithProperties
<1>4. Sum(times) \in Nat /\ Len(times) \in Nat
  BY <1>3, SumIsNat, LenProperties
<1>5. SlowEnough(times) \in BOOLEAN /\ TooFast(times) \in BOOLEAN /\ ~(SlowEnough(times) /\ TooFast(times))
  BY <1>4 DEF SlowEnough, TooFast
<1>6. PICK slow : slow = IF slot.slow THEN ~SlowEnough(times) ELSE TooFast(times)
  OBVIOUS
<1>7. slow \in BOOLEAN /\ IF slow THEN ~SlowEnough(times) ELSE ~TooFast(times)
  BY <1>5, <1>6, <1>1
<1>8. Charged(slot) = [slot EXCEPT !.times = times, !.since = 0, !.slow = slow]
  BY <1>2, <1>6 DEF Charged
<1>9. Charged(slot) = [id |-> slot.id, times |-> times, since |-> 0, slow |-> slow]
  BY <1>8 DEF Slot
<1> QED BY <1>1, <1>2, <1>3, <1>7, <1>9 DEF Slot, Fits

(* What traffic_control does to the table: one slot is charged, the        *)
(* writer's if the writer is listed.                                       *)
LEMMA TrafficControlProperties ==
  ASSUME TypeInv, NEW m \in Machine, TrafficControl(m)
  PROVE  \E i \in DOMAIN slots :
           /\ m \in Listed => slots[i].id = m
           /\ slots' = [slots EXCEPT ![i] = Charged(slots[i])]
           /\ slots' \in Seq(Slot) /\ DOMAIN slots' = DOMAIN slots
           /\ slots'[i] = Charged(slots[i]) /\ slots'[i] \in Slot
           /\ slots'[i].id = slots[i].id /\ slots'[i].since = 0 /\ Fits(slots'[i])
           /\ slots'[i].times = TimesWith(slots[i].times, slots[i].since)
           /\ \A j \in DOMAIN slots : j # i => slots'[j] = slots[j]
           /\ IF slots'[i].slow = slots[i].slow
                THEN UNCHANGED <<control, told>>
                ELSE /\ told' = [told EXCEPT ![slots[i].id] = @ + 1]
                     /\ control' = control \cup
                          {[to |-> slots[i].id, slow |-> slots'[i].slow, n |-> told[slots[i].id] + 1]}
<1>1. PICK i : i = ChargedSlot(m)
  OBVIOUS
<1>2. i \in DOMAIN slots /\ (m \in Listed => slots[i].id = m)
  <2>1. CASE m \in Listed
    BY <1>1, <2>1, FirstSlot DEF ChargedSlot, TypeInv
  <2>2. CASE m \notin Listed
    BY <1>1, <2>2, SlotFields, EmptySeq DEF ChargedSlot, TypeInv, HeadInv
  <2> QED BY <2>1, <2>2
<1>3. slots[i] \in Slot /\ Len(slots[i].times) <= NumTimesTracked
  BY <1>2, SlotFields DEF TypeInv, TypeOK, TrafficTypeOK
<1>4. PICK slot : slot = Charged(slots[i])
  OBVIOUS
<1>5. /\ slot \in Slot /\ slot.id = slots[i].id /\ slot.since = 0 /\ Fits(slot)
      /\ slot.times = TimesWith(slots[i].times, slots[i].since)
  BY <1>3, <1>4, ChargedProperties
<1>6. slots' = [slots EXCEPT ![i] = slot]
  BY <1>1, <1>4 DEF TrafficControl
<1>7. /\ slots' \in Seq(Slot) /\ DOMAIN slots' = DOMAIN slots
      /\ slots'[i] = slot /\ \A j \in DOMAIN slots : j # i => slots'[j] = slots[j]
  BY <1>2, <1>5, <1>6, SlotFields, ExceptSeq DEF TypeInv
<1>8. IF slot.slow = slots[i].slow
        THEN UNCHANGED <<control, told>>
        ELSE /\ told' = [told EXCEPT ![slots[i].id] = @ + 1]
             /\ control' = control \cup
                  {[to |-> slots[i].id, slow |-> slot.slow, n |-> told[slots[i].id] + 1]}
  BY <1>1, <1>4 DEF TrafficControl
<1> QED BY <1>2, <1>4, <1>5, <1>6, <1>7, <1>8

LEMMA TrafficControlType ==
  ASSUME TypeInv, NEW m \in Machine, TrafficControl(m), UNCHANGED <<bounds, pacing>>
  PROVE  TrafficTypeOK' /\ slots' # <<>> /\ slots'[1].id = Leader
<1>1. PICK i \in DOMAIN slots :
        /\ slots' \in Seq(Slot) /\ DOMAIN slots' = DOMAIN slots
        /\ slots'[i] \in Slot /\ slots'[i].id = slots[i].id
        /\ slots'[i].times = TimesWith(slots[i].times, slots[i].since)
        /\ \A j \in DOMAIN slots : j # i => slots'[j] = slots[j]
        /\ IF slots'[i].slow = slots[i].slow
             THEN UNCHANGED <<control, told>>
             ELSE /\ told' = [told EXCEPT ![slots[i].id] = @ + 1]
                  /\ control' = control \cup
                       {[to |-> slots[i].id, slow |-> slots'[i].slow, n |-> told[slots[i].id] + 1]}
  BY TrafficControlProperties
<1>2. \A j \in DOMAIN slots' : Len(slots'[j].times) <= NumTimesTracked
  <2> TAKE j \in DOMAIN slots'
  <2>1. CASE j = i
    <3>1. /\ slots[i].times \in Seq(Nat) /\ slots[i].since \in Nat
          /\ Len(slots[i].times) \in 0..NumTimesTracked
      BY <1>1, SlotFields DEF TypeInv
    <3>2. Len(slots[i].times) <= NumTimesTracked
      BY <3>1, TrackedAssumption
    <3>3. PICK n : n = Len(slots[i].times)
      OBVIOUS
    <3>4. Len(TimesWith(slots[i].times, slots[i].since)) =
            IF n < NumTimesTracked THEN n + 1 ELSE NumTimesTracked
      BY <3>1, <3>2, <3>3, TimesWithProperties
    <3>5. n \in Nat /\ NumTimesTracked \in Nat
      BY <3>1, <3>3, TrackedAssumption
    <3>6. (IF n < NumTimesTracked THEN n + 1 ELSE NumTimesTracked) <= NumTimesTracked
      BY <3>5
    <3> QED BY <3>4, <3>6, <2>1, <1>1
  <2>2. CASE j # i
    BY <2>2, <1>1 DEF TypeInv, TypeOK, TrafficTypeOK
  <2> QED BY <2>1, <2>2
<1>3. slots[i].id \in Machine /\ slots'[i].slow \in BOOLEAN
  BY <1>1, SlotFields DEF TypeInv, Slot
<1>4. told' \in [Machine -> Nat] /\ control' \subseteq Control
  <2>1. CASE UNCHANGED <<control, told>>
    BY <2>1 DEF TypeInv, TypeOK, TrafficTypeOK
  <2>2. CASE /\ told' = [told EXCEPT ![slots[i].id] = @ + 1]
             /\ control' = control \cup
                  {[to |-> slots[i].id, slow |-> slots'[i].slow, n |-> told[slots[i].id] + 1]}
    <3>1. told \in [Machine -> Nat] /\ control \subseteq Control
      BY DEF TypeInv, TypeOK, TrafficTypeOK
    <3>2. [to |-> slots[i].id, slow |-> slots'[i].slow, n |-> told[slots[i].id] + 1] \in Control
      BY <1>3, <3>1 DEF Control
    <3> QED BY <2>2, <3>1, <3>2, <1>3
  <2> QED BY <2>1, <2>2, <1>1
<1>5. handled' \in [Machine -> Nat] /\ strangers' \in BOOLEAN
  BY DEF TrafficControl, TypeInv, TypeOK, TrafficTypeOK
<1>6. slots' # <<>> /\ slots'[1].id = Leader
  <2>1. 1 \in DOMAIN slots /\ slots[1].id = Leader
    BY SlotFields, EmptySeq DEF TypeInv, HeadInv
  <2>2. slots'[1].id = Leader
    BY <2>1, <1>1
  <2>3. slots' # <<>>
    BY <2>1, <1>1, EmptySeq, LenProperties
  <2> QED BY <2>2, <2>3
<1> QED BY <1>1, <1>2, <1>4, <1>5, <1>6 DEF TrafficTypeOK, TypeInv, TypeOK, pacing

-----------------------------------------------------------------------------
(* The leader's listener. *)
LEMMA TypeLineType ==
  ASSUME TypeInv, TypeLine, UNCHANGED <<bounds, clientVars, lost>>
  PROVE  TypeInv'
<1> USE DEF TypeInv
<1>1. typed \in Nat /\ typed' = typed + 1
  BY DEF TypeLine, TypeOK, LeaderTypeOK
<1>2. PICK msg : msg = Stamped("MSG_REQ", Leader, 0, Plain(<<Leader, typed + 1>>))
  OBVIOUS
<1>3. msg \in Message /\ msg.type = "MSG_REQ"
  BY <1>1, <1>2, LeaderIsMachine, TextTypes, StampedType
<1>4. Hold("input", "add", msg)
  BY <1>2 DEF TypeLine
<1>5. /\ draft' \in [Thread -> Draft] /\ draft'["input"].step = "add" /\ draft'["input"].msg = msg
      /\ \A u \in {"listen", "send_hb"} : draft'[u] = draft[u]
  BY <1>3, <1>4, HoldType DEF Thread
<1>6. TypeOK'
  BY <1>1, <1>5 DEF TypeLine, TypeOK, TrafficTypeOK, LeaderTypeOK, trafficVars, queueVars, clientVars
<1>7. DraftInv'
  BY <1>3, <1>5 DEF TypeLine, DraftInv
<1>8. HeadInv'
  BY DEF TypeLine, HeadInv, Queue, Casting, queueVars, trafficVars, clientVars
<1> QED BY <1>6, <1>7, <1>8

LEMMA StampJoinType ==
  ASSUME TypeInv, StampJoin, UNCHANGED <<bounds, clientVars, lost>>
  PROVE  TypeInv'
<1> USE DEF TypeInv
<1>1. PICK d \in net :
        /\ d.type = "JOIN_REQ" /\ net' = net \ {d}
        /\ Hold("listen", "enter", Stamped("NEW_USER", d.from, 0, Plain(<<d.from, 0>>)))
  BY DEF StampJoin
<1>2. d.from \in Machine /\ d.from \in Clients
  BY <1>1, DatagramFields DEF DraftInv
<1>3. PICK msg : msg = Stamped("NEW_USER", d.from, 0, Plain(<<d.from, 0>>))
  OBVIOUS
<1>4. msg \in Message /\ msg.type = "NEW_USER" /\ msg.about = d.from
  <2>1. Plain(<<d.from, 0>>) \in Text
    BY <1>2, TextTypes
  <2> QED BY <2>1, <1>2, <1>3, StampedType
<1>5. /\ draft' \in [Thread -> Draft] /\ draft'["listen"].step = "enter" /\ draft'["listen"].msg = msg
      /\ \A u \in {"input", "send_hb"} : draft'[u] = draft[u]
  BY <1>1, <1>3, <1>4, HoldType DEF Thread
<1>6. TypeOK'
  BY <1>1, <1>5 DEF StampJoin, TypeOK, TrafficTypeOK, LeaderTypeOK, trafficVars, queueVars, clientVars
<1>7. DraftInv'
  BY <1>1, <1>2, <1>4, <1>5 DEF DraftInv
<1>8. HeadInv'
  BY DEF StampJoin, HeadInv, Queue, Casting, queueVars, trafficVars, clientVars
<1> QED BY <1>6, <1>7, <1>8

LEMMA EnterJoinerType ==
  ASSUME TypeInv, EnterJoiner, UNCHANGED <<bounds, clientVars, lost>>
  PROVE  TypeInv'
<1> USE DEF TypeInv
<1>1. PICK msg : msg = draft["listen"].msg
  OBVIOUS
<1>2. msg \in Message /\ msg.about \in Machine /\ msg.type = "NEW_USER" /\ msg.about \in Clients
  BY <1>1, DraftFields, MessageFields DEF EnterJoiner, DraftInv, Thread
<1>3. /\ draft' \in [Thread -> Draft] /\ draft'["listen"].step = "add" /\ draft'["listen"].msg = msg
      /\ \A u \in {"input", "send_hb"} : draft'[u] = draft[u]
  BY <1>1, <1>2, HoldType DEF EnterJoiner, Thread
<1>4. slots' = AddClient(msg.about)
  BY <1>1 DEF EnterJoiner
<1>5. PICK m : m = msg.about
  OBVIOUS
<1>6. /\ slots' \in Seq(Slot) /\ slots' # <<>> /\ slots'[1].id = Leader
      /\ \A i \in DOMAIN slots' : Len(slots'[i].times) <= NumTimesTracked
  <2>1. CASE m \in Listed
    <3>1. slots' = slots
      BY <2>1, <1>4, <1>5 DEF AddClient
    <3> QED BY <3>1 DEF TypeOK, TrafficTypeOK, HeadInv
  <2>2. CASE m \notin Listed
    <3>1. /\ slots' \in Seq(Slot) /\ DOMAIN slots' = 1..Len(slots') /\ Len(slots') = Len(slots) + 1
          /\ \A i \in DOMAIN slots : slots'[i] = slots[i]
          /\ slots'[Len(slots) + 1] = NewSlot(m)
      BY <2>2, <1>2, <1>4, <1>5, AddClientProperties
    <3>2. Len(slots) \in Nat /\ DOMAIN slots = 1..Len(slots) /\ 1 \in DOMAIN slots
      BY SlotFields, EmptySeq DEF HeadInv
    <3>3. slots' # <<>> /\ slots'[1].id = Leader
      BY <3>1, <3>2, EmptySeq DEF HeadInv
    <3>4. ASSUME NEW i \in DOMAIN slots' PROVE Len(slots'[i].times) <= NumTimesTracked
      <4>1. CASE i \in DOMAIN slots
        BY <4>1, <3>1 DEF TypeOK, TrafficTypeOK
      <4>2. CASE i \notin DOMAIN slots
        <5>1. i = Len(slots) + 1
          BY <4>2, <3>1, <3>2
        <5>2. slots'[i].times = <<>>
          BY <5>1, <3>1 DEF NewSlot
        <5> QED BY <5>2, EmptySeq, TrackedAssumption
      <4> QED BY <4>1, <4>2
    <3> QED BY <3>1, <3>3, <3>4
  <2> QED BY <2>1, <2>2
<1>9. TypeOK'
  BY <1>3, <1>6 DEF EnterJoiner, TypeOK, TrafficTypeOK, LeaderTypeOK, pacing, queueVars, clientVars
<1>10. DraftInv'
  BY <1>2, <1>3 DEF EnterJoiner, DraftInv
<1>11. HeadInv'
  BY <1>6 DEF EnterJoiner, HeadInv, Queue, Casting, queueVars, pacing, clientVars
<1> QED BY <1>9, <1>10, <1>11

LEMMA AnswerJoinerType ==
  ASSUME TypeInv, AnswerJoiner, UNCHANGED <<bounds, clientVars, lost>>
  PROVE  TypeInv'
<1> USE DEF TypeInv
<1>1. draft["listen"].msg \in Message /\ draft["listen"].msg.about \in Machine
  BY DraftFields, MessageFields DEF AnswerJoiner, Thread
<1>2. /\ draft' \in [Thread -> Draft] /\ draft'["listen"] = Idle
      /\ \A u \in {"input", "send_hb"} : draft'[u] = draft[u]
  BY ReleaseType DEF AnswerJoiner, Thread
<1>3. PICK d : d = [type |-> "JOIN_RES", to |-> draft["listen"].msg.about, seq |-> currentSequenceNum]
  OBVIOUS
<1>4. d \in Datagram /\ d.type = "JOIN_RES" /\ net' = net \cup {d}
  BY <1>1, <1>3 DEF AnswerJoiner, Datagram, TypeOK, LeaderTypeOK
<1>5. TypeOK'
  BY <1>2, <1>4 DEF AnswerJoiner, TypeOK, TrafficTypeOK, LeaderTypeOK, trafficVars, queueVars, clientVars
<1>6. DraftInv'
  BY <1>2, <1>4 DEF DraftInv
<1>7. HeadInv'
  BY DEF AnswerJoiner, HeadInv, Queue, Casting, queueVars, trafficVars, clientVars
<1> QED BY <1>5, <1>6, <1>7

LEMMA StampLineType ==
  ASSUME TypeInv, StampLine, UNCHANGED <<bounds, clientVars, lost>>
  PROVE  TypeInv'
<1> USE DEF TypeInv
<1>1. PICK d \in net :
        /\ d.type = "MSG_REQ"
        /\ net' = (net \ {d}) \cup {[type |-> "MSG_RES", to |-> d.from]}
        /\ Hold("listen", "add", Stamped("MSG_REQ", d.from, d.sender_seq, Decrypt(d.text)))
  BY DEF StampLine
<1>2. d.from \in Machine /\ d.from \in Clients /\ d.sender_seq \in Nat /\ Decrypt(d.text) \in Text
  BY <1>1, DatagramFields, TextTypes DEF DraftInv
<1>3. PICK msg : msg = Stamped("MSG_REQ", d.from, d.sender_seq, Decrypt(d.text))
  OBVIOUS
<1>4. msg \in Message /\ msg.type = "MSG_REQ" /\ msg.about = d.from
  BY <1>2, <1>3, StampedType
<1>5. /\ draft' \in [Thread -> Draft] /\ draft'["listen"].step = "add" /\ draft'["listen"].msg = msg
      /\ \A u \in {"input", "send_hb"} : draft'[u] = draft[u]
  BY <1>1, <1>3, <1>4, HoldType DEF Thread
<1>6. PICK e : e = [type |-> "MSG_RES", to |-> d.from]
  OBVIOUS
<1>7. e \in Datagram /\ e.type = "MSG_RES" /\ net' = (net \ {d}) \cup {e}
  BY <1>1, <1>2, <1>6 DEF Datagram
<1>8. TypeOK'
  BY <1>5, <1>7 DEF StampLine, TypeOK, TrafficTypeOK, LeaderTypeOK, trafficVars, queueVars, clientVars
<1>9. DraftInv'
  BY <1>2, <1>4, <1>5, <1>7 DEF DraftInv
<1>10. HeadInv'
  BY DEF StampLine, HeadInv, Queue, Casting, queueVars, trafficVars, clientVars
<1> QED BY <1>8, <1>9, <1>10

LEMMA DeclareDeadType ==
  ASSUME TypeInv, DeclareDead, UNCHANGED <<bounds, clientVars, lost>>
  PROVE  TypeInv'
<1> USE DEF TypeInv
<1>1. PICK m \in Listed \ {Leader} : Hold("send_hb", "add", Stamped("LEAVE", Leader, 0, Plain(<<m, 0>>)))
  BY DEF DeclareDead
<1>2. m \in Machine
  BY SlotFields DEF Listed
<1>3. PICK msg : msg = Stamped("LEAVE", Leader, 0, Plain(<<m, 0>>))
  OBVIOUS
<1>4. msg \in Message /\ msg.type = "LEAVE" /\ msg.text.line[1] # Leader
  <2>1. Plain(<<m, 0>>) \in Text /\ Plain(<<m, 0>>).line = <<m, 0>>
    BY <1>2, TextTypes
  <2>2. msg \in Message /\ msg.type = "LEAVE" /\ msg.text = Encrypt(Plain(<<m, 0>>))
    BY <1>3, <2>1, LeaderIsMachine, StampedType
  <2>3. msg.text.line = <<m, 0>>
    BY <2>1, <2>2, TextTypes
  <2> QED BY <2>2, <2>3
<1>5. /\ draft' \in [Thread -> Draft] /\ draft'["send_hb"].step = "add" /\ draft'["send_hb"].msg = msg
      /\ \A u \in {"input", "listen"} : draft'[u] = draft[u]
  BY <1>1, <1>3, <1>4, HoldType DEF Thread
<1>6. TypeOK'
  BY <1>5 DEF DeclareDead, TypeOK, TrafficTypeOK, LeaderTypeOK, trafficVars, queueVars, clientVars
<1>7. DraftInv'
  BY <1>4, <1>5 DEF DeclareDead, DraftInv
<1>8. HeadInv'
  BY DEF DeclareDead, HeadInv, Queue, Casting, queueVars, trafficVars, clientVars
<1> QED BY <1>6, <1>7, <1>8

LEMMA RemoveDepartedType ==
  ASSUME TypeInv, RemoveDeparted, UNCHANGED <<bounds, clientVars, lost>>
  PROVE  TypeInv'
<1> USE DEF TypeInv
<1>1. PICK m : m = draft["send_hb"].msg.text.line[1]
  OBVIOUS
<1>2. m # Leader /\ slots' = RemoveClient(m)
  BY <1>1, DraftFields DEF RemoveDeparted, DraftInv, Thread
<1>3. /\ slots' \in Seq(Slot) /\ slots' # <<>> /\ slots'[1].id = Leader
      /\ \A i \in DOMAIN slots' : Len(slots'[i].times) <= NumTimesTracked
  <2>1. 1 \in DOMAIN slots /\ slots[1].id = Leader
    BY SlotFields, EmptySeq DEF HeadInv
  <2>2. CASE m \notin Listed
    BY <2>2, <1>2 DEF RemoveClient, HeadInv, TypeOK, TrafficTypeOK
  <2>3. CASE m \in Listed
    <3>1. PICK k : k = First(SlotsOf(m))
      OBVIOUS
    <3>2. /\ slots' \in Seq(Slot) /\ Len(slots') = Len(slots) - 1
          /\ DOMAIN slots' = 1..(Len(slots) - 1)
          /\ k \in 1..Len(slots) /\ slots[k].id = m
          /\ \A i \in DOMAIN slots' : slots'[i] = IF i < k THEN slots[i] ELSE slots[i + 1]
      BY <1>2, <2>3, <3>1, RemoveClientProperties
    <3>3. Len(slots) \in Nat /\ DOMAIN slots = 1..Len(slots)
      BY SlotFields
    <3>4. k > 1
      BY <2>1, <3>2, <1>2
    <3>5. slots' # <<>> /\ slots'[1].id = Leader
      BY <2>1, <3>2, <3>3, <3>4, EmptySeq
    <3>6. \A i \in DOMAIN slots' : i \in DOMAIN slots /\ i + 1 \in DOMAIN slots
      BY <3>2, <3>3
    <3>7. \A i \in DOMAIN slots' : Len(slots'[i].times) <= NumTimesTracked
      BY <3>2, <3>6 DEF TypeOK, TrafficTypeOK
    <3> QED BY <3>2, <3>5, <3>7
  <2> QED BY <2>2, <2>3
<1>4. /\ draft' \in [Thread -> Draft] /\ draft'["send_hb"] = Idle
      /\ \A u \in {"input", "listen"} : draft'[u] = draft[u]
  BY ReleaseType DEF RemoveDeparted, Thread
<1>5. TypeOK'
  BY <1>3, <1>4 DEF RemoveDeparted, TypeOK, TrafficTypeOK, LeaderTypeOK, pacing, queueVars, clientVars
<1>6. DraftInv'
  BY <1>4 DEF RemoveDeparted, DraftInv
<1>7. HeadInv'
  BY <1>3 DEF RemoveDeparted, HeadInv, Queue, Casting, queueVars, pacing, clientVars
<1> QED BY <1>5, <1>6, <1>7

-----------------------------------------------------------------------------
(* The queues. *)
LEMMA AppendHead ==
  ASSUME NEW S, NEW s \in Seq(S), NEW x \in S
  PROVE  /\ Append(s, x) \in Seq(S) /\ Append(s, x) # <<>>
         /\ Len(Append(s, x)) = Len(s) + 1 /\ DOMAIN Append(s, x) = 1..(Len(s) + 1)
         /\ DOMAIN s = 1..Len(s) /\ Len(s) \in Nat
         /\ \A k \in DOMAIN s : Append(s, x)[k] = s[k]
         /\ Append(s, x)[Len(s) + 1] = x
         /\ s # <<>> => Head(Append(s, x)) = Head(s)
<1>1. /\ Append(s, x) \in Seq(S) /\ Len(Append(s, x)) = Len(s) + 1
      /\ \A k \in 1..Len(s) : Append(s, x)[k] = s[k]
      /\ Append(s, x)[Len(s) + 1] = x
  BY AppendProperties
<1>2. Len(s) \in Nat /\ DOMAIN s = 1..Len(s) /\ DOMAIN Append(s, x) = 1..Len(Append(s, x))
  BY <1>1, LenProperties
<1>3. Append(s, x) # <<>>
  BY AppendNotEmpty
<1>4. s # <<>> => Head(Append(s, x)) = Head(s)
  <2> HAVE s # <<>>
  <2>1. 1 \in 1..Len(s)
    BY <1>2, EmptySeq
  <2>2. Head(s) = s[1] /\ Head(Append(s, x)) = Append(s, x)[1]
    BY <1>3, <1>1
  <2> QED BY <2>1, <2>2, <1>1
<1> QED BY <1>1, <1>2, <1>3, <1>4

(* A message is put at the end of its queue, and recorded, or it is lost.  *)
PutOrLost(msg) ==
  \/ Put(msg) /\ added' = Recorded(msg)
  \/ UNCHANGED <<important_queue, sequencer_queue, added>>

LEMMA PutType ==
  ASSUME TypeInv, NEW msg \in Message, PutOrLost(msg)
  PROVE  /\ important_queue' \in Seq(Message) /\ sequencer_queue' \in Seq(Message)
         /\ added' \in [BOOLEAN -> Seq(Message)]
         /\ important_queue # <<>> =>
              important_queue' # <<>> /\ Head(important_queue') = Head(important_queue)
         /\ sequencer_queue # <<>> =>
              sequencer_queue' # <<>> /\ Head(sequencer_queue') = Head(sequencer_queue)
         /\ \A k \in DOMAIN important_queue' : Important(important_queue'[k])
         /\ \A k \in DOMAIN sequencer_queue' : ~Important(sequencer_queue'[k])
<1>1. /\ important_queue \in Seq(Message) /\ sequencer_queue \in Seq(Message)
      /\ added \in [BOOLEAN -> Seq(Message)]
      /\ \A k \in DOMAIN important_queue : Important(important_queue[k])
      /\ \A k \in DOMAIN sequencer_queue : ~Important(sequencer_queue[k])
  BY DEF TypeInv, TypeOK, LeaderTypeOK, HeadInv
<1>2. CASE UNCHANGED <<important_queue, sequencer_queue, added>>
  BY <1>1, <1>2
<1>3. CASE Put(msg) /\ added' = Recorded(msg)
  <2>1. PICK b \in BOOLEAN : b = Important(msg)
    BY MessageFields
  <2>2. added' = [added EXCEPT ![b] = Append(@, msg)]
    BY <1>3, <2>1 DEF Recorded
  <2>3. Append(added[b], msg) \in Seq(Message)
    BY <1>1, AppendHead
  <2>4. added' \in [BOOLEAN -> Seq(Message)]
    BY <1>1, <2>2, <2>3
  <2>5. CASE b
    <3>1. important_queue' = Append(important_queue, msg) /\ UNCHANGED sequencer_queue
      BY <2>1, <2>5, <1>3 DEF Put
    <3>2. \A k \in DOMAIN important_queue' : Important(important_queue'[k])
      <4>1. /\ DOMAIN important_queue' = 1..(Len(important_queue) + 1)
            /\ DOMAIN important_queue = 1..Len(important_queue) /\ Len(important_queue) \in Nat
            /\ \A k \in DOMAIN important_queue : important_queue'[k] = important_queue[k]
            /\ important_queue'[Len(important_queue) + 1] = msg
        BY <3>1, <1>1, AppendHead
      <4> TAKE k \in DOMAIN important_queue'
      <4>2. k \in DOMAIN important_queue \/ k = Len(important_queue) + 1
        BY <4>1
      <4> QED BY <4>1, <4>2, <1>1, <2>1, <2>5
    <3>3. /\ important_queue' \in Seq(Message) /\ important_queue' # <<>>
          /\ important_queue # <<>> => Head(important_queue') = Head(important_queue)
      BY <3>1, <1>1, AppendHead
    <3> QED BY <3>1, <3>2, <3>3, <1>1, <2>4
  <2>6. CASE ~b
    <3>1. sequencer_queue' = Append(sequencer_queue, msg) /\ UNCHANGED important_queue
      BY <2>1, <2>6, <1>3 DEF Put
    <3>2. \A k \in DOMAIN sequencer_queue' : ~Important(sequencer_queue'[k])
      <4>1. /\ DOMAIN sequencer_queue' = 1..(Len(sequencer_queue) + 1)
            /\ DOMAIN sequencer_queue = 1..Len(sequencer_queue) /\ Len(sequencer_queue) \in Nat
            /\ \A k \in DOMAIN sequencer_queue : sequencer_queue'[k] = sequencer_queue[k]
            /\ sequencer_queue'[Len(sequencer_queue) + 1] = msg
        BY <3>1, <1>1, AppendHead
      <4> TAKE k \in DOMAIN sequencer_queue'
      <4>2. k \in DOMAIN sequencer_queue \/ k = Len(sequencer_queue) + 1
        BY <4>1
      <4> QED BY <4>1, <4>2, <1>1, <2>1, <2>6
    <3>3. /\ sequencer_queue' \in Seq(Message) /\ sequencer_queue' # <<>>
          /\ sequencer_queue # <<>> => Head(sequencer_queue') = Head(sequencer_queue)
      BY <3>1, <1>1, AppendHead
    <3> QED BY <3>1, <3>2, <3>3, <1>1, <2>4
  <2> QED BY <2>5, <2>6
<1> QED BY <1>2, <1>3 DEF PutOrLost

LEMMA AddType ==
  ASSUME TypeInv, NEW t \in Thread, Add(t), UNCHANGED <<bounds, clientVars, lost>>
  PROVE  TypeInv'
<1> USE DEF TypeInv
<1>1. PICK msg : msg = draft[t].msg
  OBVIOUS
<1>2. msg \in Message /\ draft[t] # Idle /\ draft[t].step = "add" /\ Hold(t, "count", msg)
  BY <1>1, DraftFields DEF Add
<1>3. PutOrLost(msg)
  BY <1>1 DEF Add, PutOrLost
<1>4. /\ important_queue' \in Seq(Message) /\ sequencer_queue' \in Seq(Message)
      /\ added' \in [BOOLEAN -> Seq(Message)]
      /\ important_queue # <<>> =>
           important_queue' # <<>> /\ Head(important_queue') = Head(important_queue)
      /\ sequencer_queue # <<>> =>
           sequencer_queue' # <<>> /\ Head(sequencer_queue') = Head(sequencer_queue)
      /\ \A k \in DOMAIN important_queue' : Important(important_queue'[k])
      /\ \A k \in DOMAIN sequencer_queue' : ~Important(sequencer_queue'[k])
  BY <1>2, <1>3, PutType
<1>5. /\ draft' \in [Thread -> Draft] /\ draft'[t] # Idle /\ draft'[t].step = "count" /\ draft'[t].msg = msg
      /\ \A u \in Thread \ {t} : draft'[u] = draft[u]
  BY <1>2, HoldType
<1>6. TypeOK'
  BY <1>4, <1>5 DEF Add, TypeOK, TrafficTypeOK, LeaderTypeOK, trafficVars, clientVars
<1>7. DraftInv'
  BY <1>1, <1>2, <1>5 DEF Add, DraftInv, Thread
<1>8. HeadInv'
  <2>1. Casting => Queue(Important(cast.msg))' # <<>> /\ Head(Queue(Important(cast.msg))') = cast.msg
    BY <1>4 DEF Add, HeadInv, Queue
  <2>2. UNCHANGED <<cast, Casting, slots, sender, outgoing_queue>> /\ UNCHANGED Important(cast.msg)
    BY DEF Add, Casting, trafficVars, clientVars, Important
  <2>3. /\ (\A k \in DOMAIN important_queue : Important(important_queue[k]))'
        /\ (\A k \in DOMAIN sequencer_queue : ~Important(sequencer_queue[k]))'
    BY <1>4 DEF Important
  <2> QED BY <2>1, <2>2, <2>3 DEF HeadInv, Queue
<1> QED BY <1>6, <1>7, <1>8

(* currentSequenceNum++, with what the thread does next. *)
LEMMA LoadDraft ==
  ASSUME TypeOK, NEW t \in Thread, Load(t)
  PROVE  /\ draft[t].msg \in Message /\ draft[t] # Idle /\ draft[t].step = "count"
         /\ draft' \in [Thread -> Draft] /\ \A u \in Thread \ {t} : draft'[u] = draft[u]
         /\ draft'[t] # Idle /\ draft'[t].msg = draft[t].msg /\ draft'[t].step = "store"
<1>1. PICK msg : msg = draft[t].msg
  OBVIOUS
<1>2. msg \in Message /\ draft[t] # Idle /\ draft[t].step = "count"
  BY <1>1, DraftFields DEF Load
<1>3. PICK new : new = [step |-> "store", msg |-> msg, loaded |-> currentSequenceNum]
  OBVIOUS
<1>4. new \in Draft /\ new # Idle /\ new.msg = msg /\ new.step = "store"
  BY <1>2, <1>3 DEF Draft, Idle, TypeOK, LeaderTypeOK
<1>5. draft \in [Thread -> Draft] /\ draft' = [draft EXCEPT ![t] = new]
  BY <1>1, <1>3 DEF Load, TypeOK, LeaderTypeOK
<1> QED BY <1>1, <1>2, <1>4, <1>5

LEMMA LoadType ==
  ASSUME TypeInv, NEW t \in Thread, Load(t), UNCHANGED <<bounds, clientVars, lost>>
  PROVE  TypeInv'
<1> USE DEF TypeInv
<1>1. /\ draft[t].msg \in Message /\ draft[t] # Idle /\ draft[t].step = "count"
      /\ draft' \in [Thread -> Draft] /\ \A u \in Thread \ {t} : draft'[u] = draft[u]
      /\ draft'[t] # Idle /\ draft'[t].msg = draft[t].msg /\ draft'[t].step = "store"
  BY LoadDraft
<1>2. TypeOK'
  BY <1>1 DEF Load, TypeOK, TrafficTypeOK, LeaderTypeOK, queueVars, trafficVars, clientVars
<1>3. DraftInv'
  BY <1>1 DEF Load, DraftInv, Thread
<1>4. HeadInv'
  BY DEF Load, HeadInv, Queue, Casting, queueVars, trafficVars, clientVars
<1> QED BY <1>2, <1>3, <1>4

LEMMA CountDraft ==
  ASSUME TypeInv, NEW t \in Thread, Count(t)
  PROVE  /\ draft[t].msg \in Message /\ draft[t] # Idle
         /\ draft' \in [Thread -> Draft] /\ \A u \in Thread \ {t} : draft'[u] = draft[u]
         /\ draft'[t] # Idle => /\ Important(draft[t].msg) /\ draft'[t].msg = draft[t].msg
                               /\ draft'[t].step = StepAfter(draft[t].msg)
<1> USE DEF TypeInv
<1>1. PICK msg : msg = draft[t].msg
  OBVIOUS
<1>2. msg \in Message /\ draft[t] # Idle
  BY <1>1, DraftFields DEF Count
<1>3. StepAfter(msg) \in {"reply", "remove"}
  BY DEF StepAfter
<1>4. CASE Important(msg)
  <2>1. Hold(t, StepAfter(msg), msg)
    BY <1>1, <1>4 DEF Count
  <2>2. PICK step \in {"reply", "remove"} : step = StepAfter(msg)
    BY <1>3
  <2>3. /\ draft' \in [Thread -> Draft] /\ draft'[t].step = step /\ draft'[t].msg = msg
        /\ \A u \in Thread \ {t} : draft'[u] = draft[u]
    BY <1>2, <2>1, <2>2, HoldType
  <2> QED BY <2>2, <2>3, <1>1, <1>2, <1>4
<1>5. CASE ~Important(msg)
  <2>1. Release(t)
    BY <1>1, <1>5 DEF Count
  <2> QED BY <2>1, <1>1, <1>2, ReleaseType
<1> QED BY <1>4, <1>5

LEMMA CountType ==
  ASSUME TypeInv, NEW t \in Thread, Count(t), UNCHANGED <<bounds, clientVars, lost>>
  PROVE  TypeInv'
<1> USE DEF TypeInv
<1>1. /\ draft[t].msg \in Message /\ draft[t] # Idle
      /\ draft' \in [Thread -> Draft] /\ \A u \in Thread \ {t} : draft'[u] = draft[u]
      /\ draft'[t] # Idle => /\ Important(draft[t].msg) /\ draft'[t].msg = draft[t].msg
                            /\ draft'[t].step = StepAfter(draft[t].msg)
  BY CountDraft
<1>2. currentSequenceNum' \in Nat
  BY DraftFields DEF Count
<1>3. TrafficTypeOK' /\ slots' # <<>> /\ slots'[1].id = Leader /\ UNCHANGED pacing
  <2>1. CASE UNCHANGED trafficVars
    BY <2>1 DEF trafficVars, pacing, TypeOK, TrafficTypeOK, HeadInv
  <2>2. CASE TrafficControl(draft[t].msg.about) /\ UNCHANGED pacing
    <3>1. draft[t].msg.about \in Machine
      BY <1>1, MessageFields
    <3> QED BY <2>2, <3>1, TrafficControlType
  <2> QED BY <2>1, <2>2 DEF Count
<1>4. TypeOK'
  BY <1>1, <1>2, <1>3 DEF Count, TypeOK, LeaderTypeOK, clientVars
<1>5. DraftInv'
  BY <1>1 DEF Count, DraftInv, Thread, StepAfter, Important
<1>6. HeadInv'
  BY <1>3 DEF Count, HeadInv, Queue, Casting, pacing, clientVars
<1> QED BY <1>4, <1>5, <1>6

-----------------------------------------------------------------------------
(* sequencer_send_queue. *)
LEMMA TakeType ==
  ASSUME TypeInv, Take, UNCHANGED <<bounds, clientVars, lost>>
  PROVE  TypeInv' /\ passed' \in Nat
<1> USE DEF TypeInv
<1>1. important_queue \in Seq(Message) /\ sequencer_queue \in Seq(Message) /\ passed \in Nat
  BY DEF TypeOK, LeaderTypeOK
<1>2. /\ important_queue # <<>> =>
           Head(important_queue) \in Message /\ Important(Head(important_queue))
      /\ sequencer_queue # <<>> =>
           Head(sequencer_queue) \in Message /\ ~Important(Head(sequencer_queue))
  <2>1. /\ important_queue # <<>> => 1 \in DOMAIN important_queue
        /\ sequencer_queue # <<>> => 1 \in DOMAIN sequencer_queue
    BY <1>1, EmptySeq, LenProperties
  <2> QED BY <2>1, <1>1, HeadTailProperties DEF HeadInv
<1>3. cast' \in Cast /\ passed' \in Nat /\
      (Casting' => Queue(Important(cast'.msg)) # <<>> /\ cast'.msg = Head(Queue(Important(cast'.msg))))
  <2>1. CASE TakeNotice
    BY <2>1, <1>1, <1>2 DEF TakeNotice, Start, Cast, Casting, Queue
  <2>2. CASE NoNotice
    BY <2>2, <1>1 DEF NoNotice, Rest, Cast, Casting
  <2>3. CASE TakeLine
    BY <2>3, <1>1, <1>2 DEF TakeLine, Start, Cast, Casting, Queue
  <2>4. CASE NoLine
    BY <2>4, <1>1 DEF NoLine, Rest, Cast, Casting
  <2> QED BY <2>1, <2>2, <2>3, <2>4 DEF Take
<1>4. TypeOK'
  BY <1>3 DEF Take, TypeOK, TrafficTypeOK, LeaderTypeOK, trafficVars, queueVars, clientVars
<1>5. DraftInv'
  BY DEF Take, DraftInv
<1>6. HeadInv'
  BY <1>3 DEF Take, HeadInv, trafficVars, queueVars, clientVars, Queue, Important
<1> QED BY <1>3, <1>4, <1>5, <1>6

LEMMA ToNextSlotType ==
  ASSUME TypeOK, AtSlot, ToNextSlot
  PROVE  /\ cast' \in Cast /\ Casting /\ Casting' /\ cast'.msg = cast.msg /\ cast'.stage = "next"
         /\ cast'.i = cast.i + 1 /\ cast.msg \in Message /\ cast.i \in DOMAIN slots
         /\ SlotId \in Machine
<1>1. cast.stage = "next" /\ cast.i \in DOMAIN slots /\ Casting
  BY DEF AtSlot, Casting
<1>2. /\ cast.msg \in Message /\ cast.i \in Nat \ {0}
      /\ cast = [stage |-> "next", msg |-> cast.msg, i |-> cast.i]
  BY <1>1, CastFields
<1>3. cast' = [stage |-> "next", msg |-> cast.msg, i |-> cast.i + 1]
  BY <1>2 DEF ToNextSlot
<1>4. cast' \in Cast
  BY <1>2, <1>3 DEF Cast
<1>5. SlotId \in Machine
  BY <1>1, SlotFields DEF SlotId
<1> QED BY <1>1, <1>2, <1>3, <1>4, <1>5 DEF Casting

(* A step of the broadcast that leaves the queues and the table alone.     *)
LEMMA HeadKept ==
  ASSUME TypeInv, UNCHANGED <<queueVars, slots, sender, outgoing_queue>>,
         Casting' => Casting /\ cast'.msg = cast.msg
  PROVE  HeadInv'
<1>1. UNCHANGED <<important_queue, sequencer_queue, slots, sender, outgoing_queue>>
  BY DEF queueVars
<1>2. CASE ~Casting'
  BY <1>1, <1>2 DEF TypeInv, HeadInv, Important
<1>3. CASE Casting'
  BY <1>1, <1>3 DEF TypeInv, HeadInv, Queue, Important
<1> QED BY <1>2, <1>3

LEMMA PrintOwnType ==
  ASSUME TypeInv, PrintOwn, UNCHANGED <<bounds, clientVars, lost>>
  PROVE  TypeInv'
<1> USE DEF TypeInv
<1>1. /\ cast' \in Cast /\ Casting /\ Casting' /\ cast'.msg = cast.msg /\ cast.msg \in Message
  BY ToNextSlotType DEF PrintOwn
<1>2. printed \in [Machine -> Seq(Message)] /\ Decrypted(cast.msg) \in Message
  BY <1>1, DecryptedType DEF TypeOK, LeaderTypeOK
<1>3. Append(printed[Leader], Decrypted(cast.msg)) \in Seq(Message)
  BY <1>2, LeaderIsMachine, AppendProperties
<1>4. printed' \in [Machine -> Seq(Message)]
  BY <1>2, <1>3 DEF PrintOwn
<1>5. TypeOK'
  BY <1>1, <1>4 DEF PrintOwn, TypeOK, TrafficTypeOK, LeaderTypeOK, trafficVars, queueVars, clientVars
<1>6. DraftInv'
  BY DEF PrintOwn, DraftInv
<1>7. HeadInv'
  BY <1>1, HeadKept DEF PrintOwn, trafficVars, clientVars
<1> QED BY <1>5, <1>6, <1>7

LEMMA SkipJoinerType ==
  ASSUME TypeInv, SkipJoiner, UNCHANGED <<bounds, clientVars, lost>>
  PROVE  TypeInv'
<1> USE DEF TypeInv
<1>1. /\ cast' \in Cast /\ Casting /\ Casting' /\ cast'.msg = cast.msg /\ cast.msg \in Message
  BY ToNextSlotType DEF SkipJoiner
<1>2. TypeOK'
  BY <1>1 DEF SkipJoiner, TypeOK, TrafficTypeOK, LeaderTypeOK, trafficVars, queueVars, clientVars
<1>3. DraftInv'
  BY DEF SkipJoiner, DraftInv
<1>4. HeadInv'
  BY <1>1, HeadKept DEF SkipJoiner, trafficVars, clientVars
<1> QED BY <1>2, <1>3, <1>4

LEMMA SendToMemberType ==
  ASSUME TypeInv, SendToMember, UNCHANGED <<bounds, clientVars, lost>>
  PROVE  TypeInv'
<1> USE DEF TypeInv
<1>1. /\ cast' \in Cast /\ Casting /\ Casting' /\ cast'.msg = cast.msg /\ cast.msg \in Message
      /\ SlotId \in Machine
  BY ToNextSlotType DEF SendToMember
<1>2. PICK d : d = [type |-> "CAST", to |-> SlotId, msg |-> cast.msg]
  OBVIOUS
<1>3. d \in Datagram /\ d.type = "CAST" /\ net' = net \cup {d}
  BY <1>1, <1>2 DEF SendToMember, Datagram
<1>4. TypeOK'
  BY <1>1, <1>3 DEF SendToMember, TypeOK, TrafficTypeOK, LeaderTypeOK, trafficVars, queueVars, clientVars
<1>5. DraftInv'
  BY <1>3 DEF SendToMember, DraftInv
<1>6. HeadInv'
  BY <1>1, HeadKept DEF SendToMember, trafficVars, clientVars
<1> QED BY <1>4, <1>5, <1>6

LEMMA BroadcastEndType ==
  ASSUME TypeInv, BroadcastEnd, UNCHANGED <<bounds, clientVars, lost>>
  PROVE  TypeInv'
<1> USE DEF TypeInv
<1>1. /\ cast.msg \in Message /\ cast.i \in Nat \ {0} /\ Casting
      /\ cast = [stage |-> "next", msg |-> cast.msg, i |-> cast.i]
  BY CastFields DEF BroadcastEnd, Casting
<1>2. cast' = [stage |-> "remove", msg |-> cast.msg, i |-> cast.i]
  BY <1>1 DEF BroadcastEnd
<1>3. cast' \in Cast /\ cast'.msg = cast.msg
  BY <1>1, <1>2 DEF Cast
<1>4. TypeOK'
  BY <1>3 DEF BroadcastEnd, TypeOK, TrafficTypeOK, LeaderTypeOK, trafficVars, queueVars, clientVars
<1>5. DraftInv'
  BY DEF BroadcastEnd, DraftInv
<1>6. HeadInv'
  BY <1>1, <1>3, HeadKept DEF BroadcastEnd, trafficVars, clientVars
<1> QED BY <1>4, <1>5, <1>6

(* The tail of a queue holds messages of the queue's kind. *)
LEMMA TailElements ==
  ASSUME NEW S, NEW s \in Seq(S), s # <<>>
  PROVE  /\ Tail(s) \in Seq(S) /\ Len(Tail(s)) = Len(s) - 1 /\ Len(s) \in Nat \ {0}
         /\ DOMAIN s = 1..Len(s) /\ DOMAIN Tail(s) = 1..(Len(s) - 1)
         /\ \A k \in DOMAIN Tail(s) : k + 1 \in DOMAIN s /\ Tail(s)[k] = s[k + 1]
<1>1. /\ Tail(s) \in Seq(S) /\ Len(Tail(s)) = Len(s) - 1
      /\ \A k \in 1..Len(Tail(s)) : Tail(s)[k] = s[k + 1]
  BY HeadTailProperties
<1>2. Len(s) \in Nat \ {0} /\ DOMAIN s = 1..Len(s)
  BY EmptySeq, LenProperties
<1>3. DOMAIN Tail(s) = 1..(Len(s) - 1)
  BY <1>1, LenProperties
<1>4. \A k \in 1..(Len(s) - 1) : k + 1 \in 1..Len(s)
  BY <1>2
<1> QED BY <1>1, <1>2, <1>3, <1>4

LEMMA RemoveSentType ==
  ASSUME TypeInv, RemoveSent, UNCHANGED <<bounds, clientVars, lost>>
  PROVE  TypeInv'
<1> USE DEF TypeInv
<1>1. Casting /\ cast' = [stage |-> "important"] /\ cast' \in Cast
  BY DEF RemoveSent, Casting, Rest, Cast
<1>2. /\ important_queue \in Seq(Message) /\ sequencer_queue \in Seq(Message)
      /\ \A k \in DOMAIN important_queue : Important(important_queue[k])
      /\ \A k \in DOMAIN sequencer_queue : ~Important(sequencer_queue[k])
  BY DEF TypeOK, LeaderTypeOK, HeadInv
<1>3. /\ important_queue' \in Seq(Message) /\ sequencer_queue' \in Seq(Message)
      /\ \A k \in DOMAIN important_queue' : Important(important_queue'[k])
      /\ \A k \in DOMAIN sequencer_queue' : ~Important(sequencer_queue'[k])
  <2>1. CASE Important(cast.msg)
    <3>1. important_queue' = Tail(important_queue) /\ UNCHANGED sequencer_queue /\ important_queue # <<>>
      BY <1>1, <2>1 DEF RemoveSent, Unqueue, HeadInv, Queue
    <3> QED BY <3>1, <1>2, TailElements
  <2>2. CASE ~Important(cast.msg)
    <3>1. sequencer_queue' = Tail(sequencer_queue) /\ UNCHANGED important_queue /\ sequencer_queue # <<>>
      BY <1>1, <2>2 DEF RemoveSent, Unqueue, HeadInv, Queue
    <3> QED BY <3>1, <1>2, TailElements
  <2> QED BY <2>1, <2>2
<1>4. TypeOK'
  BY <1>1, <1>3 DEF RemoveSent, TypeOK, TrafficTypeOK, LeaderTypeOK, trafficVars, clientVars
<1>5. DraftInv'
  BY DEF RemoveSent, DraftInv
<1>6. HeadInv'
  <2>1. ~Casting'
    BY <1>1 DEF Casting
  <2>2. UNCHANGED <<slots, sender, outgoing_queue>>
    BY DEF RemoveSent, trafficVars, clientVars
  <2> QED BY <2>1, <2>2, <1>3 DEF HeadInv, Important
<1> QED BY <1>4, <1>5, <1>6

-----------------------------------------------------------------------------
(* A client. *)
LEMMA ClientTypes ==
  ASSUME TypeInv, NEW c \in Clients
  PROVE  /\ c \in Machine
         /\ client_queue[c] \in Seq(Message) /\ outgoing_queue[c] \in Seq(Text)
         /\ temp_queue[c] \in Seq(SentNode) /\ printed[c] \in Seq(Message)
         /\ sendSeqNum[c] \in Nat /\ lines[c] \in Nat /\ sender[c] \in Sender
         /\ sender[c].paced \in BOOLEAN /\ sender[c].left \in Nat
         /\ sender[c].at \in {"test", "wait", "request"}
BY LeaderIsMachine DEF TypeInv, TypeOK, TrafficTypeOK, LeaderTypeOK, Sender

LEMMA AskToJoinType ==
  ASSUME TypeInv, NEW c \in Clients, AskToJoin(c), UNCHANGED <<bounds, lost>>
  PROVE  TypeInv'
<1> USE DEF TypeInv
<1>1. PICK d : d = [type |-> "JOIN_REQ", from |-> c]
  OBVIOUS
<1>2. d \in Datagram /\ d.from = c /\ net' = net \cup {d}
  BY <1>1, LeaderIsMachine DEF AskToJoin, Datagram
<1>3. TypeOK'
  BY <1>2 DEF AskToJoin, TypeOK, TrafficTypeOK, LeaderTypeOK, trafficVars, leaderVars, queueVars
<1>4. DraftInv'
  BY <1>2 DEF AskToJoin, DraftInv, leaderVars
<1>5. HeadInv'
  BY DEF AskToJoin, HeadInv, Queue, Casting, queueVars, trafficVars, leaderVars
<1> QED BY <1>3, <1>4, <1>5

LEMMA EnterChatType ==
  ASSUME TypeInv, NEW c \in Clients, EnterChat(c), UNCHANGED <<bounds, lost>>
  PROVE  TypeInv'
<1> USE DEF TypeInv
<1>1. PICK d \in net :
        /\ d.type = "JOIN_RES" /\ net' = net \ {d}
        /\ latestSequenceNum' = [latestSequenceNum EXCEPT ![c] = d.seq - 1]
  BY DEF EnterChat
<1>2. d.seq - 1 \in Int
  BY <1>1, DatagramFields
<1>3. TypeOK'
  BY <1>1, <1>2 DEF EnterChat, TypeOK, TrafficTypeOK, LeaderTypeOK, trafficVars, leaderVars, queueVars
<1>4. DraftInv'
  BY <1>1 DEF EnterChat, DraftInv, leaderVars
<1>5. HeadInv'
  BY DEF EnterChat, HeadInv, Queue, Casting, queueVars, trafficVars, leaderVars
<1> QED BY <1>3, <1>4, <1>5

LEMMA TypeClientLineType ==
  ASSUME TypeInv, NEW c \in Clients, TypeClientLine(c), UNCHANGED <<bounds, lost>>
  PROVE  TypeInv'
<1> USE DEF TypeInv
<1>1. lines[c] + 1 \in Nat /\ outgoing_queue[c] \in Seq(Text) /\ c \in Machine
  BY ClientTypes
<1>2. PICK text \in Text : text = Plain(<<c, lines[c] + 1>>)
  BY <1>1, TextTypes
<1>3. PICK queue : /\ queue = Append(outgoing_queue[c], text) \/ queue = outgoing_queue[c]
                   /\ outgoing_queue' = [outgoing_queue EXCEPT ![c] = queue]
  BY <1>2 DEF TypeClientLine, Added
<1>4. queue \in Seq(Text) /\ (outgoing_queue[c] # <<>> => queue # <<>>)
  BY <1>1, <1>3, AppendHead
<1>5. TypeOK'
  BY <1>1, <1>3, <1>4
  DEF TypeClientLine, TypeOK, TrafficTypeOK, LeaderTypeOK, trafficVars, leaderVars, queueVars
<1>6. DraftInv'
  BY DEF TypeClientLine, DraftInv, leaderVars
<1>7. HeadInv'
  BY <1>3, <1>4 DEF TypeClientLine, HeadInv, Queue, Casting, queueVars, trafficVars, leaderVars, TypeOK
<1> QED BY <1>5, <1>6, <1>7

LEMMA SendLineType ==
  ASSUME TypeInv, NEW c \in Clients, SendLine(c), UNCHANGED <<bounds, lost>>
  PROVE  TypeInv'
<1> USE DEF TypeInv
<1>1. /\ c \in Machine /\ outgoing_queue[c] \in Seq(Text) /\ temp_queue[c] \in Seq(SentNode)
      /\ sendSeqNum[c] \in Nat /\ sender[c] \in Sender /\ sender[c].paced \in BOOLEAN
      /\ outgoing_queue[c] # <<>>
  BY ClientTypes DEF SendLine
<1>2. PICK text \in Text : text = Head(outgoing_queue[c])
  BY <1>1, HeadTailProperties
<1>3. PICK node : node = [v |-> 0, sender_seq |-> sendSeqNum[c], text |-> text]
  OBVIOUS
<1>4. PICK queue : /\ queue = Append(temp_queue[c], node) \/ queue = temp_queue[c]
                   /\ temp_queue' = [temp_queue EXCEPT ![c] = queue]
  BY <1>2, <1>3 DEF SendLine, Added
<1>5. queue \in Seq(SentNode)
  <2>1. node \in SentNode
    BY <1>1, <1>3 DEF SentNode
  <2>2. Append(temp_queue[c], node) \in Seq(SentNode)
    BY <1>1, <2>1, AppendProperties
  <2> QED BY <1>1, <1>4, <2>2
<1>6. PICK d : d = [type |-> "MSG_REQ", from |-> c, sender_seq |-> sendSeqNum[c],
                    text |-> Encrypt(text), paced |-> sender[c].paced]
  OBVIOUS
<1>7. d \in Datagram /\ d.from = c
  BY <1>1, <1>6, TextTypes DEF Datagram
<1>8. net' = net \cup {d}
  BY <1>2, <1>6 DEF SendLine
<1>9. sender' \in [Clients -> Sender]
  BY <1>1 DEF SendLine, BeginRequest, TypeOK, TrafficTypeOK, Sender
<1>10. TypeOK'
  <2>1. temp_queue' \in [Clients -> Seq(SentNode)] /\ sendSeqNum' \in [Clients -> Nat]
    BY <1>4, <1>5, <1>1 DEF SendLine, TypeOK
  <2>2. net' \subseteq Datagram
    BY <1>7, <1>8 DEF TypeOK, LeaderTypeOK
  <2> QED BY <2>1, <2>2, <1>9
      DEF SendLine, TypeOK, TrafficTypeOK, LeaderTypeOK, accounts, leaderVars, queueVars
<1>11. DraftInv'
  BY <1>7, <1>8 DEF SendLine, DraftInv, leaderVars
<1>12. HeadInv'
  <2>1. \A b \in Clients : sender'[b].at = "request" => outgoing_queue[b] # <<>>
    BY <1>1 DEF SendLine, BeginRequest, TypeOK, TrafficTypeOK, HeadInv
  <2> QED BY <2>1 DEF SendLine, HeadInv, Queue, Casting, queueVars, accounts, leaderVars
<1> QED BY <1>10, <1>11, <1>12

LEMMA LineReceivedType ==
  ASSUME TypeInv, NEW c \in Clients, LineReceived(c), UNCHANGED <<bounds, lost>>
  PROVE  TypeInv'
<1> USE DEF TypeInv
<1>1. outgoing_queue[c] \in Seq(Text) /\ outgoing_queue[c] # <<>>
  BY ClientTypes DEF LineReceived, HeadInv
<1>2. Tail(outgoing_queue[c]) \in Seq(Text)
  BY <1>1, HeadTailProperties
<1>3. AtTest \in Sender /\ sender' = [sender EXCEPT ![c] = AtTest]
  BY DEF AtTest, Sender, LineReceived, EndRequest
<1>4. net' \subseteq net
  BY DEF LineReceived
<1>5. TypeOK'
  <2>1. outgoing_queue' \in [Clients -> Seq(Text)]
    BY <1>2 DEF LineReceived, TypeOK
  <2>2. sender' \in [Clients -> Sender]
    BY <1>3 DEF TypeOK, TrafficTypeOK
  <2> QED BY <2>1, <2>2, <1>4
      DEF LineReceived, TypeOK, TrafficTypeOK, LeaderTypeOK, accounts, leaderVars, queueVars
<1>6. DraftInv'
  BY <1>4 DEF LineReceived, DraftInv, leaderVars
<1>7. HeadInv'
  <2>1. ASSUME NEW b \in Clients, sender'[b].at = "request" PROVE outgoing_queue'[b] # <<>>
    <3>1. b # c
      BY <2>1, <1>3 DEF AtTest, TypeOK, TrafficTypeOK
    <3> QED BY <2>1, <3>1, <1>3 DEF LineReceived, TypeOK, TrafficTypeOK, HeadInv
  <2> QED BY <2>1 DEF LineReceived, HeadInv, Queue, Casting, queueVars, accounts, leaderVars
<1> QED BY <1>5, <1>6, <1>7

LEMMA DeliverType ==
  ASSUME TypeInv, NEW c \in Clients, Deliver(c), UNCHANGED <<bounds, lost>>
  PROVE  TypeInv'
<1> USE DEF TypeInv
<1>1. PICK d \in net :
        /\ d.type = "CAST" /\ net' = net \ {d}
        /\ \E queue \in Added(client_queue[c], d.msg, Printing(c)) :
             client_queue' = [client_queue EXCEPT ![c] = queue]
  BY DEF Deliver
<1>2. PICK queue : /\ queue = Append(client_queue[c], d.msg) \/ queue = client_queue[c]
                   /\ client_queue' = [client_queue EXCEPT ![c] = queue]
  BY <1>1 DEF Added
<1>3. queue \in Seq(Message)
  <2>1. d.msg \in Message /\ client_queue[c] \in Seq(Message)
    BY <1>1, DatagramFields, ClientTypes
  <2>2. Append(client_queue[c], d.msg) \in Seq(Message)
    BY <2>1, AppendProperties
  <2> QED BY <1>2, <2>1, <2>2
<1>4. TypeOK'
  BY <1>1, <1>2, <1>3 DEF Deliver, TypeOK, TrafficTypeOK, LeaderTypeOK, trafficVars, leaderVars, queueVars
<1>5. DraftInv'
  BY <1>1 DEF Deliver, DraftInv, leaderVars
<1>6. HeadInv'
  BY DEF Deliver, HeadInv, Queue, Casting, queueVars, trafficVars, leaderVars
<1> QED BY <1>4, <1>5, <1>6

(* sortAndPrint: the node it shows, and what it does to the lines the      *)
(* client waits to see again -- it counts for each of them that one more   *)
(* node was shown, and takes at most one off, to be sent again or not.     *)
Shows(c, i) ==
  /\ i \in 1..Len(client_queue[c]) /\ client_queue[c] \in Seq(Message)
  /\ client_queue[c][i] \in Message
  /\ client_queue[c][i].seq = latestSequenceNum[c] + 1
  /\ client_queue' = [client_queue EXCEPT ![c] = RemoveAt(@, i)]
  /\ RemoveAt(client_queue[c], i) \in Seq(Message)
  /\ printed' = [printed EXCEPT ![c] = Append(@, Decrypted(client_queue[c][i]))]
Ages(c, temp, left) ==
  /\ Len(temp) = Len(temp_queue[c])
  /\ \A n \in 1..Len(temp) : temp[n].text = temp_queue[c][n].text
  /\ temp_queue' = [temp_queue EXCEPT ![c] = left]
  /\ \/ left = temp /\ UNCHANGED outgoing_queue
     \/ \E n \in 1..Len(temp) :
          /\ left = RemoveAt(temp, n)
          /\ \/ UNCHANGED outgoing_queue
             \/ outgoing_queue' = [outgoing_queue EXCEPT ![c] = Append(@, temp[n].text)]

LEMMA PrintNextProperties ==
  ASSUME TypeInv, NEW c \in Clients, PrintNext(c)
  PROVE  \E i \in DOMAIN client_queue[c] :
           Shows(c, i) /\ \E temp, left \in Seq(SentNode) : Ages(c, temp, left)
<1>1. PICK i \in DOMAIN client_queue[c] :
        /\ IsNext(c, i)
        /\ client_queue' = [client_queue EXCEPT ![c] = RemoveAt(@, i)]
        /\ LET msg == Decrypted(client_queue[c][i])
               temp == Aged(temp_queue[c])
               stops == StopsAt(c, msg, temp)
               n == First(stops)
           IN  /\ printed' = [printed EXCEPT ![c] = Append(@, msg)]
               /\ temp_queue' = [temp_queue EXCEPT ![c] =
                                    IF stops = {} THEN temp ELSE RemoveAt(temp, n)]
               /\ \/ UNCHANGED outgoing_queue
                  \/ /\ stops # {}
                     /\ \E queue \in Added(outgoing_queue[c], temp[n].text, Sending(c) \/ Typing(c)) :
                          outgoing_queue' = [outgoing_queue EXCEPT ![c] = queue]
  BY DEF PrintNext
<1>2. PICK msg : msg = Decrypted(client_queue[c][i])
  OBVIOUS
<1>3. PICK temp : temp = Aged(temp_queue[c])
  OBVIOUS
<1>4. PICK stops : stops = StopsAt(c, msg, temp)
  OBVIOUS
<1>5. PICK n : n = First(stops)
  OBVIOUS
<1>6. PICK left : left = IF stops = {} THEN temp ELSE RemoveAt(temp, n)
  OBVIOUS
<1>7. /\ printed' = [printed EXCEPT ![c] = Append(@, Decrypted(client_queue[c][i]))]
      /\ temp_queue' = [temp_queue EXCEPT ![c] = left]
      /\ \/ UNCHANGED outgoing_queue
         \/ /\ stops # {}
            /\ \E queue \in Added(outgoing_queue[c], temp[n].text, Sending(c) \/ Typing(c)) :
                 outgoing_queue' = [outgoing_queue EXCEPT ![c] = queue]
  BY <1>1, <1>2, <1>3, <1>4, <1>5, <1>6
<1>8. /\ client_queue[c] \in Seq(Message) /\ i \in 1..Len(client_queue[c])
      /\ client_queue[c][i] \in Message
      /\ RemoveAt(client_queue[c], i) \in Seq(Message)
  BY ClientTypes, LenProperties, ElementOfSeq, RemoveAtType
<1>9. /\ temp \in Seq(SentNode) /\ Len(temp) = Len(temp_queue[c]) /\ DOMAIN temp = 1..Len(temp)
      /\ \A k \in 1..Len(temp) : temp[k].text = temp_queue[c][k].text
  <2>1. temp_queue[c] \in Seq(SentNode)
    BY ClientTypes
  <2>2. PICK len : len = Len(temp_queue[c])
    OBVIOUS
  <2>3. len \in Nat /\ DOMAIN temp_queue[c] = 1..len /\ \A k \in 1..len : temp_queue[c][k] \in SentNode
    BY <2>1, <2>2, LenProperties, ElementOfSeq
  <2>4. temp = [k \in 1..len |-> [temp_queue[c][k] EXCEPT !.v = @ + 1]]
    BY <2>3, <1>3 DEF Aged
  <2>5. \A k \in 1..len : temp[k] \in SentNode /\ temp[k].text = temp_queue[c][k].text
    <3> TAKE k \in 1..len
    <3>1. temp_queue[c][k] \in SentNode /\ temp[k] = [temp_queue[c][k] EXCEPT !.v = @ + 1]
      BY <2>3, <2>4
    <3> QED BY <3>1 DEF SentNode
  <2>6. temp \in [1..len -> SentNode]
    BY <2>4, <2>5
  <2>7. temp \in Seq(SentNode)
    BY <2>3, <2>6, SeqDef
  <2>8. DOMAIN temp = 1..Len(temp) /\ Len(temp) \in Nat
    BY <2>7, LenProperties
  <2>9. Len(temp) = len
    BY <2>3, <2>6, <2>8
  <2> QED BY <2>2, <2>5, <2>7, <2>8, <2>9
<1>10. stops # {} => n \in 1..Len(temp)
  <2> HAVE stops # {}
  <2>1. stops \in SUBSET DOMAIN temp
    BY <1>4 DEF StopsAt
  <2>2. stops \in SUBSET Nat
    BY <2>1, <1>9
  <2> QED BY <2>1, <2>2, <1>5, <1>9, FirstIsMember
<1>11. left \in Seq(SentNode)
  BY <1>6, <1>9, <1>10, RemoveAtType
<1>12. \/ left = temp /\ UNCHANGED outgoing_queue
       \/ \E k \in 1..Len(temp) :
            /\ left = RemoveAt(temp, k)
            /\ \/ UNCHANGED outgoing_queue
               \/ outgoing_queue' = [outgoing_queue EXCEPT ![c] = Append(@, temp[k].text)]
  <2>1. CASE stops = {}
    BY <2>1, <1>6, <1>7
  <2>2. CASE stops # {}
    <3>1. \/ UNCHANGED outgoing_queue
          \/ outgoing_queue' = [outgoing_queue EXCEPT ![c] = Append(@, temp[n].text)]
      <4>1. [outgoing_queue EXCEPT ![c] = outgoing_queue[c]] = outgoing_queue
        BY DEF TypeInv, TypeOK
      <4> QED BY <4>1, <1>7 DEF Added
    <3> QED BY <2>2, <3>1, <1>6, <1>10
  <2> QED BY <2>1, <2>2
<1>13. /\ Len(temp) = Len(temp_queue[c])
       /\ \A k \in 1..Len(temp) : temp[k].text = temp_queue[c][k].text
       /\ temp_queue' = [temp_queue EXCEPT ![c] = left]
  BY <1>7, <1>9
<1>14. client_queue[c][i].seq = latestSequenceNum[c] + 1
  BY <1>1 DEF IsNext
<1>15. Ages(c, temp, left)
  BY <1>12, <1>13 DEF Ages
<1>16. Shows(c, i)
  BY <1>1, <1>7, <1>8, <1>14 DEF Shows
<1> QED BY <1>9, <1>11, <1>15, <1>16

LEMMA PrintNextType ==
  ASSUME TypeInv, NEW c \in Clients, PrintNext(c), UNCHANGED <<bounds, lost>>
  PROVE  TypeInv'
<1> USE DEF TypeInv
<1>0. PICK i \in DOMAIN client_queue[c] :
        Shows(c, i) /\ \E temp, left \in Seq(SentNode) : Ages(c, temp, left)
  BY PrintNextProperties
<1>1. /\ client_queue[c][i] \in Message
      /\ client_queue' = [client_queue EXCEPT ![c] = RemoveAt(@, i)]
      /\ RemoveAt(client_queue[c], i) \in Seq(Message)
      /\ printed' = [printed EXCEPT ![c] = Append(@, Decrypted(client_queue[c][i]))]
  BY <1>0 DEF Shows
<1>2. client_queue' \in [Clients -> Seq(Message)]
  BY <1>1 DEF TypeOK
<1>3. printed' \in [Machine -> Seq(Message)]
  <2>1. printed \in [Machine -> Seq(Message)] /\ Decrypted(client_queue[c][i]) \in Message
    BY <1>1, DecryptedType DEF TypeOK, LeaderTypeOK
  <2>2. Append(printed[c], Decrypted(client_queue[c][i])) \in Seq(Message)
    BY <2>1, ClientTypes, AppendProperties
  <2> QED BY <2>1, <2>2, <1>1
<1>4. temp_queue' \in [Clients -> Seq(SentNode)]
  BY <1>0 DEF Ages, TypeOK
<1>5. /\ outgoing_queue' \in [Clients -> Seq(Text)]
      /\ \A b \in Clients : outgoing_queue[b] # <<>> => outgoing_queue'[b] # <<>>
  <2>1. CASE UNCHANGED outgoing_queue
    BY <2>1 DEF TypeOK
  <2>2. ASSUME NEW temp \in Seq(SentNode), NEW n \in 1..Len(temp),
               outgoing_queue' = [outgoing_queue EXCEPT ![c] = Append(@, temp[n].text)]
        PROVE  /\ outgoing_queue' \in [Clients -> Seq(Text)]
               /\ \A b \in Clients : outgoing_queue[b] # <<>> => outgoing_queue'[b] # <<>>
    <3>1. temp[n] \in SentNode
      BY ElementOfSeq
    <3>2. temp[n].text \in Text /\ outgoing_queue[c] \in Seq(Text)
      BY <3>1, ClientTypes DEF SentNode
    <3>3. Append(outgoing_queue[c], temp[n].text) \in Seq(Text) /\ Append(outgoing_queue[c], temp[n].text) # <<>>
      BY <3>2, AppendHead
    <3> QED BY <3>3, <2>2 DEF TypeOK
  <2> QED BY <2>1, <2>2, <1>0 DEF Ages
<1>6. TypeOK'
  <2>1. TrafficTypeOK'
    BY DEF PrintNext, TypeOK, TrafficTypeOK, trafficVars
  <2>2. LeaderTypeOK'
    BY <1>3 DEF PrintNext, TypeOK, LeaderTypeOK, leaderVars, queueVars
  <2>3. latestSequenceNum' \in [Clients -> Int]
    BY DEF PrintNext, TypeOK
  <2> QED BY <2>1, <2>2, <2>3, <1>2, <1>4, <1>5 DEF PrintNext, TypeOK
<1>7. DraftInv'
  BY DEF PrintNext, DraftInv, leaderVars
<1>8. HeadInv'
  BY <1>5 DEF PrintNext, HeadInv, Queue, Casting, queueVars, trafficVars, leaderVars
<1> QED BY <1>6, <1>7, <1>8

LEMMA PacingStepType ==
  ASSUME TypeInv, NEW c \in Clients, PacingStep(c), UNCHANGED <<bounds, lost>>
  PROVE  TypeInv'
<1> USE DEF TypeInv
<1>1. TrafficTypeOK' /\ UNCHANGED slots /\ (\A b \in Clients : sender'[b].at = "request" => sender[b].at = "request")
  <2>1. CASE CarryOut(c)
    <3>1. PICK d \in control :
            /\ slow_factor' = [slow_factor EXCEPT ![c] = d.slow]
            /\ heard' = [heard EXCEPT ![c] = d.n]
            /\ control' = control \ {d}
      BY <2>1 DEF CarryOut
    <3>2. d \in Control /\ d.slow \in BOOLEAN /\ d.n \in Nat
      BY DEF TypeOK, TrafficTypeOK, Control
    <3> QED BY <2>1, <3>1, <3>2 DEF CarryOut, TypeOK, TrafficTypeOK
  <2>2. CASE BeginWait(c)
    BY <2>2, SlowAssumption DEF BeginWait, TypeOK, TrafficTypeOK, Sender, accounts
  <2>3. CASE EndWait(c)
    BY <2>3 DEF EndWait, TypeOK, TrafficTypeOK, Sender, accounts, AtTest
  <2> QED BY <2>1, <2>2, <2>3 DEF PacingStep
<1>2. TypeOK'
  BY <1>1 DEF PacingStep, TypeOK, LeaderTypeOK, leaderVars, queueVars, clientVars
<1>3. DraftInv'
  BY DEF PacingStep, DraftInv, leaderVars
<1>4. HeadInv'
  BY <1>1 DEF PacingStep, HeadInv, Queue, Casting, queueVars, leaderVars, clientVars
<1> QED BY <1>2, <1>3, <1>4

-----------------------------------------------------------------------------
(* Time passes, datagrams are lost. *)
LEMMA TickProperties ==
  ASSUME TypeInv, NEW H, Tick(H)
  PROVE  /\ slots' \in Seq(Slot) /\ DOMAIN slots' = DOMAIN slots
         /\ \A i \in DOMAIN slots :
              /\ slots'[i].id = slots[i].id /\ slots'[i].times = slots[i].times
              /\ slots'[i].slow = slots[i].slow
              /\ slots'[i].since =
                   IF slots[i].since < bounds.gap THEN slots[i].since + 1 ELSE slots[i].since
         /\ sender' \in [Clients -> Sender]
         /\ \A c \in Clients :
              /\ sender'[c].at = sender[c].at /\ sender'[c].paced = sender[c].paced
              /\ sender'[c].left = IF sender[c].left > 0 THEN sender[c].left - 1 ELSE sender[c].left
              /\ sender'[c].held = IF sender[c].left > 0 /\ c \in H
                                     THEN sender[c].held + 1 ELSE sender[c].held
<1> USE DEF TypeInv
<1>1. PICK len : len = Len(slots)
  OBVIOUS
<1>2. len \in Nat /\ DOMAIN slots = 1..len
  BY <1>1, SlotFields
<1>3. slots' = [i \in 1..len |-> IF slots[i].since < bounds.gap
                                   THEN [slots[i] EXCEPT !.since = @ + 1] ELSE slots[i]]
  BY <1>2 DEF Tick
<1>4. \A i \in 1..len : slots[i] \in Slot
  BY <1>2, SlotFields
<1>5. \A i \in 1..len :
        /\ slots'[i] \in Slot
        /\ slots'[i].id = slots[i].id /\ slots'[i].times = slots[i].times
        /\ slots'[i].slow = slots[i].slow
        /\ slots'[i].since =
             IF slots[i].since < bounds.gap THEN slots[i].since + 1 ELSE slots[i].since
  <2> SUFFICES ASSUME NEW i \in 1..len
               PROVE  /\ slots'[i] \in Slot
                      /\ slots'[i].id = slots[i].id /\ slots'[i].times = slots[i].times
                      /\ slots'[i].slow = slots[i].slow
                      /\ slots'[i].since = IF slots[i].since < bounds.gap
                                             THEN slots[i].since + 1 ELSE slots[i].since
    OBVIOUS
  <2>1. CASE slots[i].since < bounds.gap
    <3>1. PICK e \in Slot : e = slots[i]
      BY <1>4
    <3>2. PICK n : n = e.since + 1
      OBVIOUS
    <3>3. slots'[i] = [e EXCEPT !.since = n]
      BY <1>3, <2>1, <3>1, <3>2
    <3>4. n \in Nat
      BY <3>2 DEF Slot
    <3> QED BY <3>1, <3>2, <3>3, <3>4, <2>1 DEF Slot
  <2>2. CASE ~(slots[i].since < bounds.gap)
    <3>1. slots'[i] = slots[i]
      BY <1>3, <2>2
    <3> QED BY <3>1, <2>2, <1>4
  <2> QED BY <2>1, <2>2
<1>6. slots' \in [1..len -> Slot]
  BY <1>3, <1>5
<1>7. slots' \in Seq(Slot) /\ DOMAIN slots' = DOMAIN slots
  BY <1>2, <1>6, SeqDef
<1>8. sender \in [Clients -> Sender]
  BY DEF TypeOK, TrafficTypeOK
<1>9. sender' = [c \in Clients |->
        IF sender[c].left > 0 THEN Waited(sender[c], c \in H) ELSE sender[c]]
  BY DEF Tick
<1>10. \A c \in Clients :
         /\ sender'[c] \in Sender
         /\ sender'[c].at = sender[c].at /\ sender'[c].paced = sender[c].paced
         /\ sender'[c].left = IF sender[c].left > 0 THEN sender[c].left - 1 ELSE sender[c].left
         /\ sender'[c].held = IF sender[c].left > 0 /\ c \in H
                                THEN sender[c].held + 1 ELSE sender[c].held
  <2> SUFFICES ASSUME NEW c \in Clients
               PROVE  /\ sender'[c] \in Sender
                      /\ sender'[c].at = sender[c].at /\ sender'[c].paced = sender[c].paced
                      /\ sender'[c].left =
                           IF sender[c].left > 0 THEN sender[c].left - 1 ELSE sender[c].left
                      /\ sender'[c].held = IF sender[c].left > 0 /\ c \in H
                                             THEN sender[c].held + 1 ELSE sender[c].held
    OBVIOUS
  <2>1. PICK sent \in Sender : sent = sender[c]
    BY <1>8
  <2>2. sender'[c] = IF sent.left > 0 THEN Waited(sent, c \in H) ELSE sent
    BY <1>9, <2>1
  <2>3. CASE sent.left > 0
    <3>1. PICK left, held \in Nat :
            left = sent.left - 1 /\ held = IF c \in H THEN sent.held + 1 ELSE sent.held
      BY <2>1, <2>3 DEF Sender
    <3>2. sender'[c] = [sent EXCEPT !.left = left, !.held = held]
      BY <2>2, <2>3, <3>1 DEF Waited
    <3> QED BY <2>1, <2>3, <3>1, <3>2 DEF Sender
  <2>4. CASE ~(sent.left > 0)
    BY <2>1, <2>2, <2>4
  <2> QED BY <2>3, <2>4
<1> QED BY <1>2, <1>5, <1>7, <1>9, <1>10

LEMMA SecondType ==
  ASSUME TypeInv, NEW H, Tick(H), UNCHANGED <<bounds, leaderVars, net, printed, clientVars, lost>>
  PROVE  TypeInv'
<1> USE DEF TypeInv
<1>1. /\ slots' \in Seq(Slot) /\ DOMAIN slots' = DOMAIN slots
      /\ \A i \in DOMAIN slots : slots'[i].id = slots[i].id /\ slots'[i].times = slots[i].times
      /\ sender' \in [Clients -> Sender]
      /\ \A c \in Clients : sender'[c].at = sender[c].at
  BY TickProperties
<1>2. TypeOK'
  BY <1>1 DEF Tick, TypeOK, TrafficTypeOK, LeaderTypeOK, leaderVars, queueVars, clientVars
<1>3. DraftInv'
  BY DEF DraftInv, leaderVars
<1>4. HeadInv'
  <2>1. slots' # <<>> /\ slots'[1].id = Leader
    <3>1. 1 \in DOMAIN slots /\ slots[1].id = Leader
      BY SlotFields, EmptySeq DEF HeadInv
    <3>2. slots' # <<>>
      BY <3>1, <1>1, EmptySeq, LenProperties
    <3> QED BY <3>1, <3>2, <1>1
  <2> QED BY <2>1, <1>1 DEF HeadInv, Queue, Casting, queueVars, leaderVars, clientVars
<1> QED BY <1>2, <1>3, <1>4

LEMMA LoseType ==
  ASSUME TypeInv, Lose, UNCHANGED bounds
  PROVE  TypeInv'
<1> USE DEF TypeInv
<1>1. /\ net' \subseteq net /\ control' \subseteq control /\ lost' \in Nat
      /\ UNCHANGED <<slots, pacing, told, handled, strangers>>
  BY DEF Lose, LoseControl, trafficVars, pacing, TypeOK
<1>2. TypeOK'
  BY <1>1 DEF Lose, TypeOK, TrafficTypeOK, LeaderTypeOK, leaderVars, queueVars, clientVars, pacing
<1>3. DraftInv'
  BY <1>1 DEF Lose, DraftInv, leaderVars
<1>4. HeadInv'
  BY <1>1 DEF Lose, HeadInv, Queue, Casting, queueVars, leaderVars, clientVars, pacing
<1> QED BY <1>2, <1>3, <1>4

LEMMA StutterType ==
  ASSUME TypeInv, UNCHANGED vars
  PROVE  TypeInv'
<1> USE DEF TypeInv
<1>1. TypeOK'
  BY DEF vars, TypeOK, TrafficTypeOK, LeaderTypeOK, trafficVars, leaderVars, queueVars, clientVars
<1>2. DraftInv'
  BY DEF vars, DraftInv, leaderVars
<1>3. HeadInv'
  BY DEF vars, HeadInv, Queue, Casting, trafficVars, leaderVars, queueVars, clientVars
<1> QED BY <1>1, <1>2, <1>3

-----------------------------------------------------------------------------
(* The steps of the program, one after the other: what the lemma of every  *)
(* invariant below is split by.                                            *)
LEMMA NextSteps ==
  ASSUME [Next]_vars
  PROVE  \/ UNCHANGED vars
         \/ /\ UNCHANGED <<bounds, clientVars, lost>>
            /\ \/ TypeLine \/ StampJoin \/ EnterJoiner \/ AnswerJoiner \/ StampLine
               \/ DeclareDead \/ RemoveDeparted
               \/ \E t \in Thread : Add(t) \/ Load(t) \/ Count(t)
               \/ Take \/ PrintOwn \/ SkipJoiner \/ SendToMember \/ BroadcastEnd \/ RemoveSent
         \/ /\ UNCHANGED <<bounds, lost>>
            /\ \E c \in Clients :
                 \/ AskToJoin(c) \/ EnterChat(c) \/ TypeClientLine(c) \/ SendLine(c)
                 \/ LineReceived(c) \/ Deliver(c) \/ PrintNext(c) \/ PacingStep(c)
         \/ Second /\ UNCHANGED <<bounds, leaderVars, net, printed, clientVars, lost>>
         \/ Lose /\ UNCHANGED bounds
<1>1. CASE Input /\ UNCHANGED <<bounds, clientVars, lost>>
  BY <1>1 DEF Input, Thread
<1>2. CASE Listen /\ UNCHANGED <<bounds, clientVars, lost>>
  BY <1>2 DEF Listen, Thread
<1>3. CASE SendHb /\ UNCHANGED <<bounds, clientVars, lost>>
  BY <1>3 DEF SendHb, Thread
<1>4. CASE SendQueue /\ UNCHANGED <<bounds, clientVars, lost>>
  BY <1>4 DEF SendQueue
<1>5. CASE \E c \in Clients : ClientStep(c) /\ UNCHANGED <<bounds, lost>>
  BY <1>5 DEF ClientStep
<1> QED BY <1>1, <1>2, <1>3, <1>4, <1>5 DEF Next, LeaderStep

LEMMA TypeInvStep == TypeInv /\ [Next]_vars => TypeInv'
<1> SUFFICES ASSUME TypeInv, [Next]_vars PROVE TypeInv'
  OBVIOUS
<1>1. CASE UNCHANGED vars
  BY <1>1, StutterType
<1>2. CASE /\ UNCHANGED <<bounds, clientVars, lost>>
           /\ \/ TypeLine \/ StampJoin \/ EnterJoiner \/ AnswerJoiner \/ StampLine
              \/ DeclareDead \/ RemoveDeparted
              \/ \E t \in Thread : Add(t) \/ Load(t) \/ Count(t)
              \/ Take \/ PrintOwn \/ SkipJoiner \/ SendToMember \/ BroadcastEnd \/ RemoveSent
  BY <1>2, TypeLineType, StampJoinType, EnterJoinerType, AnswerJoinerType, StampLineType,
     DeclareDeadType, RemoveDepartedType, AddType, LoadType, CountType, TakeType, PrintOwnType,
     SkipJoinerType, SendToMemberType, BroadcastEndType, RemoveSentType
<1>3. CASE /\ UNCHANGED <<bounds, lost>>
           /\ \E c \in Clients :
                \/ AskToJoin(c) \/ EnterChat(c) \/ TypeClientLine(c) \/ SendLine(c)
                \/ LineReceived(c) \/ Deliver(c) \/ PrintNext(c) \/ PacingStep(c)
  BY <1>3, AskToJoinType, EnterChatType, TypeClientLineType, SendLineType, LineReceivedType,
     DeliverType, PrintNextType, PacingStepType
<1>4. CASE Second /\ UNCHANGED <<bounds, leaderVars, net, printed, clientVars, lost>>
  BY <1>4, SecondType DEF Second
<1>5. CASE Lose /\ UNCHANGED bounds
  BY <1>5, LoseType
<1> QED BY <1>1, <1>2, <1>3, <1>4, <1>5, NextSteps

LEMMA TypeInvInit == Init => TypeInv
<1> SUFFICES ASSUME Init PROVE TypeInv
  OBVIOUS
<1>1. NewSlot(Leader) \in Slot /\ Len(NewSlot(Leader).times) = 0
  BY LeaderIsMachine, EmptySeq DEF NewSlot, Slot
<1>2. slots = <<NewSlot(Leader)>>
  BY DEF Init, TrafficInit
<1>3. /\ slots \in Seq(Slot) /\ DOMAIN slots = {1} /\ slots[1] = NewSlot(Leader)
      /\ slots # <<>>
  BY <1>1, <1>2
<1>4. TrafficTypeOK
  <2>1. \A i \in DOMAIN slots : Len(slots[i].times) <= NumTimesTracked
    BY <1>1, <1>3, TrackedAssumption
  <2>2. AtTest \in Sender
    BY DEF AtTest, Sender
  <2> QED BY <2>1, <2>2, <1>3 DEF Init, TrafficInit, TrafficTypeOK
<1>5. LeaderTypeOK
  BY EmptySeq DEF Init, LeaderInit, LeaderTypeOK, Draft, Cast
<1>6. TypeOK
  BY <1>4, <1>5, EmptySeq DEF Init, TypeOK
<1>7. DraftInv
  BY DEF Init, LeaderInit, DraftInv, Thread
<1>8. HeadInv
  BY <1>3, EmptySeq DEF Init, LeaderInit, TrafficInit, HeadInv, Casting, NewSlot, AtTest
<1> QED BY <1>6, <1>7, <1>8 DEF TypeInv

LEMMA TypeInvariant == Spec => []TypeInv
BY TypeInvInit, TypeInvStep, PTL DEF Spec

(* Every handler of the extra-credit chat leaves every variable well-typed *)
(* and at most NumTimesTracked seconds in a slot: what takes the head of a *)
(* queue away finds the queue as it left it, although no lock keeps the    *)
(* other threads off it (sequencer.c:379-392, client.c:519-531).           *)
THEOREM ExtraTypeCorrect == Spec => []TypeOK
BY TypeInvariant, PTL DEF TypeInv

-----------------------------------------------------------------------------
(* Ciphering.  Content is ciphered once from msg_request or the stamp on,  *)
(* through every queue and datagram, until a machine shows it; a client's  *)
(* own lines are kept plain.                                               *)
PlainText == {text \in Text : text.layers = 0}
CipheredText == {text \in Text : text.layers = 1}
PlainMessage == {msg \in Message : msg.text \in PlainText}
CipheredMessage == {msg \in Message : msg.text \in CipheredText}
PlainNode == {node \in SentNode : node.text \in PlainText}

NetCiphered ==
  \A d \in net : /\ d.type = "MSG_REQ" => d.text \in CipheredText
                 /\ d.type = "CAST" => d.msg \in CipheredMessage
LayerInv ==
  /\ printed \in [Machine -> Seq(PlainMessage)]
  /\ NetCiphered
  /\ \A t \in Thread : draft[t] # Idle => draft[t].msg \in CipheredMessage
  /\ important_queue \in Seq(CipheredMessage) /\ sequencer_queue \in Seq(CipheredMessage)
  /\ client_queue \in [Clients -> Seq(CipheredMessage)]
  /\ outgoing_queue \in [Clients -> Seq(PlainText)]
  /\ temp_queue \in [Clients -> Seq(PlainNode)]

LEMMA CipherOnce ==
  /\ \A text \in PlainText : Encrypt(text) \in CipheredText
  /\ \A text \in CipheredText : Decrypt(text) \in PlainText
  /\ \A msg \in CipheredMessage : Decrypted(msg) \in PlainMessage
<1>1. /\ \A text \in PlainText : Encrypt(text) \in CipheredText
      /\ \A text \in CipheredText : Decrypt(text) \in PlainText
  BY TextTypes DEF PlainText, CipheredText
<1>2. \A msg \in CipheredMessage : Decrypted(msg) \in PlainMessage
  BY <1>1, DecryptedType DEF CipheredMessage, PlainMessage
<1> QED BY <1>1, <1>2

(* A thread of the leader stamps a message. *)
LEMMA StampCiphers ==
  ASSUME TypeInv, LayerInv, NEW t \in Thread, NEW step \in {"enter", "add"},
         NEW type \in {"MSG_REQ", "NEW_USER", "LEAVE"}, NEW about \in Machine,
         NEW sender_seq \in Nat, NEW text \in PlainText,
         Hold(t, step, Stamped(type, about, sender_seq, text))
  PROVE  \A u \in Thread : draft'[u] # Idle => draft'[u].msg \in CipheredMessage
<1>1. text \in Text /\ Encrypt(text) \in CipheredText
  BY CipherOnce DEF PlainText
<1>2. PICK msg : msg = Stamped(type, about, sender_seq, text)
  OBVIOUS
<1>3. msg \in Message /\ msg.text = Encrypt(text)
  BY <1>1, <1>2, StampedType DEF TypeInv
<1>4. draft'[t].msg = msg /\ \A u \in Thread \ {t} : draft'[u] = draft[u]
  BY <1>2, <1>3, HoldType DEF TypeInv
<1> QED BY <1>1, <1>3, <1>4 DEF LayerInv, CipheredMessage

(* The leader's steps write nothing of a client's, and the others nothing  *)
(* of the leader's.                                                        *)
LEMMA LayerLeader ==
  ASSUME LayerInv, UNCHANGED clientVars,
         printed' \in [Machine -> Seq(PlainMessage)], NetCiphered',
         \A t \in Thread : draft'[t] # Idle => draft'[t].msg \in CipheredMessage,
         important_queue' \in Seq(CipheredMessage), sequencer_queue' \in Seq(CipheredMessage)
  PROVE  LayerInv'
BY DEF LayerInv, clientVars

LEMMA LayerClient ==
  ASSUME LayerInv, UNCHANGED leaderVars,
         printed' \in [Machine -> Seq(PlainMessage)], NetCiphered',
         client_queue' \in [Clients -> Seq(CipheredMessage)],
         outgoing_queue' \in [Clients -> Seq(PlainText)],
         temp_queue' \in [Clients -> Seq(PlainNode)]
  PROVE  LayerInv'
BY DEF LayerInv, leaderVars, queueVars

LEMMA NetShrinks ==
  ASSUME NetCiphered, net' \subseteq net
  PROVE  NetCiphered'
BY DEF NetCiphered

LEMMA LayerStamps ==
  ASSUME TypeInv, LayerInv, UNCHANGED clientVars,
         \/ TypeLine \/ StampJoin \/ StampLine \/ DeclareDead
  PROVE  LayerInv'
<1>1. CASE TypeLine
  <2>1. typed + 1 \in Nat
    BY DEF TypeInv, TypeOK, LeaderTypeOK
  <2>2. Plain(<<Leader, typed + 1>>) \in PlainText
    BY <2>1, LeaderIsMachine, TextTypes DEF PlainText
  <2>3. \A u \in Thread : draft'[u] # Idle => draft'[u].msg \in CipheredMessage
    BY <1>1, <2>2, LeaderIsMachine, StampCiphers DEF TypeLine, Thread
  <2> QED BY <1>1, <2>3, LayerLeader, NetShrinks DEF TypeLine, LayerInv, queueVars
<1>2. CASE StampJoin
  <2>1. PICK d \in net :
          /\ d.type = "JOIN_REQ" /\ net' = net \ {d}
          /\ Hold("listen", "enter", Stamped("NEW_USER", d.from, 0, Plain(<<d.from, 0>>)))
    BY <1>2 DEF StampJoin
  <2>2. d.from \in Machine /\ Plain(<<d.from, 0>>) \in PlainText
    BY <2>1, DatagramFields, TextTypes DEF TypeInv, PlainText
  <2>3. \A u \in Thread : draft'[u] # Idle => draft'[u].msg \in CipheredMessage
    BY <2>1, <2>2, StampCiphers DEF Thread
  <2> QED BY <1>2, <2>1, <2>3, LayerLeader, NetShrinks DEF StampJoin, LayerInv, queueVars
<1>3. CASE StampLine
  <2>1. PICK d \in net :
          /\ d.type = "MSG_REQ"
          /\ net' = (net \ {d}) \cup {[type |-> "MSG_RES", to |-> d.from]}
          /\ Hold("listen", "add", Stamped("MSG_REQ", d.from, d.sender_seq, Decrypt(d.text)))
    BY <1>3 DEF StampLine
  <2>2. d.from \in Machine /\ d.sender_seq \in Nat /\ Decrypt(d.text) \in PlainText
    BY <2>1, DatagramFields, CipherOnce DEF TypeInv, LayerInv, NetCiphered
  <2>3. \A u \in Thread : draft'[u] # Idle => draft'[u].msg \in CipheredMessage
    BY <2>1, <2>2, StampCiphers DEF Thread
  <2>4. NetCiphered'
    BY <2>1 DEF NetCiphered, LayerInv
  <2> QED BY <1>3, <2>3, <2>4, LayerLeader DEF StampLine, LayerInv, queueVars
<1>4. CASE DeclareDead
  <2>1. PICK m \in Listed : Hold("send_hb", "add", Stamped("LEAVE", Leader, 0, Plain(<<m, 0>>)))
    BY <1>4 DEF DeclareDead
  <2>2. m \in Machine
    BY SlotFields DEF Listed, TypeInv
  <2>3. Plain(<<m, 0>>) \in PlainText
    BY <2>2, TextTypes DEF PlainText
  <2>4. \A u \in Thread : draft'[u] # Idle => draft'[u].msg \in CipheredMessage
    BY <2>1, <2>3, LeaderIsMachine, StampCiphers DEF Thread
  <2> QED BY <1>4, <2>4, LayerLeader, NetShrinks DEF DeclareDead, LayerInv, queueVars
<1> QED BY <1>1, <1>2, <1>3, <1>4

LEMMA LayerThreads ==
  ASSUME TypeInv, LayerInv, UNCHANGED clientVars,
         \/ EnterJoiner \/ AnswerJoiner \/ RemoveDeparted \/ \E t \in Thread : Add(t) \/ Load(t) \/ Count(t)
  PROVE  LayerInv'
<1>1. CASE EnterJoiner
  <2>1. draft["listen"] # Idle /\ draft["listen"].msg \in Message
    BY <1>1, DraftFields DEF EnterJoiner, Thread, TypeInv
  <2>2. /\ draft'["listen"].msg = draft["listen"].msg
        /\ \A u \in Thread \ {"listen"} : draft'[u] = draft[u]
    BY <1>1, <2>1, HoldType DEF EnterJoiner, Thread, TypeInv
  <2>3. \A u \in Thread : draft'[u] # Idle => draft'[u].msg \in CipheredMessage
    BY <2>1, <2>2 DEF LayerInv
  <2> QED BY <1>1, <2>3, LayerLeader, NetShrinks DEF EnterJoiner, LayerInv, queueVars
<1>2. CASE AnswerJoiner
  <2>1. draft'["listen"] = Idle /\ \A u \in Thread \ {"listen"} : draft'[u] = draft[u]
    BY <1>2, ReleaseType DEF AnswerJoiner, Thread, TypeInv
  <2>2. \A u \in Thread : draft'[u] # Idle => draft'[u].msg \in CipheredMessage
    BY <2>1 DEF LayerInv
  <2>3. NetCiphered'
    BY <1>2 DEF AnswerJoiner, NetCiphered, LayerInv
  <2> QED BY <1>2, <2>2, <2>3, LayerLeader DEF AnswerJoiner, LayerInv, queueVars
<1>3. CASE RemoveDeparted
  <2>1. draft'["send_hb"] = Idle /\ \A u \in Thread \ {"send_hb"} : draft'[u] = draft[u]
    BY <1>3, ReleaseType DEF RemoveDeparted, Thread, TypeInv
  <2>2. \A u \in Thread : draft'[u] # Idle => draft'[u].msg \in CipheredMessage
    BY <2>1 DEF LayerInv
  <2> QED BY <1>3, <2>2, LayerLeader, NetShrinks DEF RemoveDeparted, LayerInv, queueVars
<1>4. ASSUME NEW t \in Thread, Add(t) PROVE LayerInv'
  <2>1. PICK msg : msg = draft[t].msg
    OBVIOUS
  <2>2. msg \in CipheredMessage /\ msg \in Message
    BY <1>4, <2>1, DraftFields DEF Add, LayerInv, TypeInv
  <2>3. draft'[t].msg = msg /\ \A u \in Thread \ {t} : draft'[u] = draft[u]
    BY <1>4, <2>1, <2>2, HoldType DEF Add, TypeInv
  <2>4. important_queue' \in Seq(CipheredMessage) /\ sequencer_queue' \in Seq(CipheredMessage)
    <3>1. Put(msg) \/ UNCHANGED <<important_queue, sequencer_queue>>
      BY <1>4, <2>1 DEF Add
    <3>2. CASE UNCHANGED <<important_queue, sequencer_queue>>
      BY <3>2 DEF LayerInv
    <3>3. CASE important_queue' = Append(important_queue, msg) /\ UNCHANGED sequencer_queue
      BY <3>3, <2>2, AppendProperties DEF LayerInv
    <3>4. CASE sequencer_queue' = Append(sequencer_queue, msg) /\ UNCHANGED important_queue
      BY <3>4, <2>2, AppendProperties DEF LayerInv
    <3> QED BY <3>1, <3>2, <3>3, <3>4 DEF Put
  <2>5. \A u \in Thread : draft'[u] # Idle => draft'[u].msg \in CipheredMessage
    BY <2>2, <2>3 DEF LayerInv
  <2> QED BY <1>4, <2>4, <2>5, LayerLeader, NetShrinks DEF Add, LayerInv
<1>5. ASSUME NEW t \in Thread, Load(t) PROVE LayerInv'
  <2>1. /\ draft[t] # Idle /\ \A u \in Thread \ {t} : draft'[u] = draft[u]
        /\ draft'[t].msg = draft[t].msg
    BY <1>5, LoadDraft DEF TypeInv
  <2>2. \A u \in Thread : draft'[u] # Idle => draft'[u].msg \in CipheredMessage
    BY <2>1 DEF LayerInv
  <2> QED BY <1>5, <2>2, LayerLeader, NetShrinks DEF Load, LayerInv, queueVars
<1>6. ASSUME NEW t \in Thread, Count(t) PROVE LayerInv'
  <2>1. /\ draft[t].msg \in Message /\ draft[t] # Idle
        /\ \A u \in Thread \ {t} : draft'[u] = draft[u]
        /\ draft'[t] # Idle => draft'[t].msg = draft[t].msg
    BY <1>6, CountDraft
  <2>2. \A u \in Thread : draft'[u] # Idle => draft'[u].msg \in CipheredMessage
    BY <2>1 DEF LayerInv
  <2> QED BY <1>6, <2>2, LayerLeader, NetShrinks DEF Count, LayerInv
<1> QED BY <1>1, <1>2, <1>3, <1>4, <1>5, <1>6

(* What sequencer_send_queue has in hand is ciphered: it is still the head *)
(* of its queue.                                                           *)
LEMMA CastCiphered ==
  ASSUME TypeInv, LayerInv, Casting
  PROVE  cast.msg \in CipheredMessage
<1>1. CASE Important(cast.msg)
  <2>1. important_queue # <<>> /\ cast.msg = Head(important_queue)
    BY <1>1 DEF TypeInv, HeadInv, Queue
  <2> QED BY <2>1, HeadTailProperties DEF LayerInv
<1>2. CASE ~Important(cast.msg)
  <2>1. sequencer_queue # <<>> /\ cast.msg = Head(sequencer_queue)
    BY <1>2 DEF TypeInv, HeadInv, Queue
  <2> QED BY <2>1, HeadTailProperties DEF LayerInv
<1> QED BY <1>1, <1>2

LEMMA LayerBroadcast ==
  ASSUME TypeInv, LayerInv, UNCHANGED clientVars,
         Take \/ PrintOwn \/ SkipJoiner \/ SendToMember \/ BroadcastEnd \/ RemoveSent
  PROVE  LayerInv'
<1>1. CASE Take \/ SkipJoiner \/ BroadcastEnd
  <2>1. UNCHANGED <<printed, net, draft, important_queue, sequencer_queue>>
    BY <1>1 DEF Take, SkipJoiner, BroadcastEnd, queueVars
  <2> QED BY <2>1, LayerLeader, NetShrinks DEF LayerInv
<1>2. CASE PrintOwn
  <2>1. Casting
    BY <1>2 DEF PrintOwn, AtSlot, Casting
  <2>2. Decrypted(cast.msg) \in PlainMessage
    BY <2>1, CastCiphered, CipherOnce
  <2>3. printed' \in [Machine -> Seq(PlainMessage)]
    <3>1. Append(printed[Leader], Decrypted(cast.msg)) \in Seq(PlainMessage)
      BY <2>2, LeaderIsMachine, AppendProperties DEF LayerInv
    <3> QED BY <3>1, <1>2 DEF PrintOwn, LayerInv
  <2> QED BY <1>2, <2>3, LayerLeader, NetShrinks DEF PrintOwn, LayerInv, queueVars
<1>3. CASE SendToMember
  <2>1. Casting
    BY <1>3 DEF SendToMember, AtSlot, Casting
  <2>2. NetCiphered'
    BY <1>3, <2>1, CastCiphered DEF SendToMember, NetCiphered, LayerInv
  <2> QED BY <1>3, <2>2, LayerLeader DEF SendToMember, LayerInv, queueVars
<1>4. CASE RemoveSent
  <2>1. Casting
    BY <1>4 DEF RemoveSent, Casting
  <2>2. important_queue' \in Seq(CipheredMessage) /\ sequencer_queue' \in Seq(CipheredMessage)
    <3>1. CASE Important(cast.msg)
      <4>1. important_queue' = Tail(important_queue) /\ UNCHANGED sequencer_queue /\ important_queue # <<>>
        BY <1>4, <2>1, <3>1 DEF RemoveSent, Unqueue, TypeInv, HeadInv, Queue
      <4> QED BY <4>1, TailElements DEF LayerInv
    <3>2. CASE ~Important(cast.msg)
      <4>1. sequencer_queue' = Tail(sequencer_queue) /\ UNCHANGED important_queue /\ sequencer_queue # <<>>
        BY <1>4, <2>1, <3>2 DEF RemoveSent, Unqueue, TypeInv, HeadInv, Queue
      <4> QED BY <4>1, TailElements DEF LayerInv
    <3> QED BY <3>1, <3>2
  <2> QED BY <1>4, <2>2, LayerLeader, NetShrinks DEF RemoveSent, LayerInv
<1> QED BY <1>1, <1>2, <1>3, <1>4

LEMMA LayerClients ==
  ASSUME TypeInv, LayerInv, NEW c \in Clients,
         \/ AskToJoin(c) \/ EnterChat(c) \/ TypeClientLine(c) \/ SendLine(c)
         \/ LineReceived(c) \/ Deliver(c) \/ PacingStep(c)
  PROVE  LayerInv'
<1>1. CASE AskToJoin(c)
  <2>1. NetCiphered'
    BY <1>1 DEF AskToJoin, NetCiphered, LayerInv
  <2> QED BY <1>1, <2>1, LayerClient DEF AskToJoin, LayerInv
<1>2. CASE EnterChat(c)
  <2>1. NetCiphered'
    BY <1>2 DEF EnterChat, NetCiphered, LayerInv
  <2> QED BY <1>2, <2>1, LayerClient DEF EnterChat, LayerInv
<1>3. CASE TypeClientLine(c)
  <2>1. lines[c] + 1 \in Nat /\ c \in Machine
    BY ClientTypes
  <2>2. Plain(<<c, lines[c] + 1>>) \in PlainText
    BY <2>1, TextTypes DEF PlainText
  <2>3. Added(outgoing_queue[c], Plain(<<c, lines[c] + 1>>), Sending(c) \/ Printing(c))
          \subseteq Seq(PlainText)
    <3>1. outgoing_queue[c] \in Seq(PlainText)
      BY DEF LayerInv
    <3>2. Append(outgoing_queue[c], Plain(<<c, lines[c] + 1>>)) \in Seq(PlainText)
      BY <2>2, <3>1, AppendProperties
    <3> QED BY <3>1, <3>2 DEF Added
  <2>4. outgoing_queue' \in [Clients -> Seq(PlainText)]
    BY <1>3, <2>3 DEF TypeClientLine, LayerInv
  <2> QED BY <1>3, <2>4, LayerClient, NetShrinks DEF TypeClientLine, LayerInv
<1>4. CASE SendLine(c)
  <2>1. outgoing_queue[c] # <<>> /\ outgoing_queue[c] \in Seq(PlainText) /\ sendSeqNum[c] \in Nat
    BY <1>4, ClientTypes DEF SendLine, LayerInv
  <2>2. PICK text \in PlainText : text = Head(outgoing_queue[c])
    BY <2>1, HeadTailProperties
  <2>3. text \in Text /\ Encrypt(text) \in CipheredText
    BY CipherOnce DEF PlainText
  <2>4. PICK node : node = [v |-> 0, sender_seq |-> sendSeqNum[c], text |-> text]
    OBVIOUS
  <2>5. node \in PlainNode
    BY <2>1, <2>3, <2>4 DEF PlainNode, SentNode
  <2>6. Added(temp_queue[c], node, Printing(c)) \subseteq Seq(PlainNode)
    <3>1. temp_queue[c] \in Seq(PlainNode)
      BY DEF LayerInv
    <3>2. Append(temp_queue[c], node) \in Seq(PlainNode)
      BY <2>5, <3>1, AppendProperties
    <3> QED BY <3>1, <3>2 DEF Added
  <2>7. \E queue \in Added(temp_queue[c], node, Printing(c)) :
          temp_queue' = [temp_queue EXCEPT ![c] = queue]
    BY <1>4, <2>2, <2>4 DEF SendLine
  <2>8. temp_queue' \in [Clients -> Seq(PlainNode)]
    BY <2>6, <2>7 DEF LayerInv
  <2>9. NetCiphered'
    BY <1>4, <2>2, <2>3 DEF SendLine, NetCiphered, LayerInv
  <2> QED BY <1>4, <2>8, <2>9, LayerClient DEF SendLine, LayerInv
<1>5. CASE LineReceived(c)
  <2>1. outgoing_queue[c] # <<>> /\ outgoing_queue[c] \in Seq(PlainText)
    BY <1>5 DEF LineReceived, LayerInv, TypeInv, HeadInv
  <2>2. Tail(outgoing_queue[c]) \in Seq(PlainText)
    BY <2>1, HeadTailProperties
  <2>3. outgoing_queue' \in [Clients -> Seq(PlainText)]
    BY <1>5, <2>2 DEF LineReceived, LayerInv
  <2>4. net' \subseteq net
    BY <1>5 DEF LineReceived
  <2> QED BY <1>5, <2>3, <2>4, LayerClient, NetShrinks DEF LineReceived, LayerInv
<1>6. CASE Deliver(c)
  <2>1. PICK d \in net :
          /\ d.type = "CAST" /\ net' = net \ {d}
          /\ \E queue \in Added(client_queue[c], d.msg, Printing(c)) :
               client_queue' = [client_queue EXCEPT ![c] = queue]
    BY <1>6 DEF Deliver
  <2>2. Added(client_queue[c], d.msg, Printing(c)) \subseteq Seq(CipheredMessage)
    <3>1. d.msg \in CipheredMessage /\ client_queue[c] \in Seq(CipheredMessage)
      BY <2>1 DEF LayerInv, NetCiphered
    <3>2. Append(client_queue[c], d.msg) \in Seq(CipheredMessage)
      BY <3>1, AppendProperties
    <3> QED BY <3>1, <3>2 DEF Added
  <2>3. client_queue' \in [Clients -> Seq(CipheredMessage)] /\ net' \subseteq net
    BY <2>1, <2>2 DEF LayerInv
  <2> QED BY <1>6, <2>3, LayerClient, NetShrinks DEF Deliver, LayerInv
<1>7. CASE PacingStep(c)
  BY <1>7, LayerClient, NetShrinks DEF PacingStep, clientVars, LayerInv
<1> QED BY <1>1, <1>2, <1>3, <1>4, <1>5, <1>6, <1>7

LEMMA LayerPrints ==
  ASSUME TypeInv, LayerInv, NEW c \in Clients, PrintNext(c)
  PROVE  LayerInv'
<1>1. PICK i \in DOMAIN client_queue[c] :
        Shows(c, i) /\ \E temp, left \in Seq(SentNode) : Ages(c, temp, left)
  BY PrintNextProperties
<1>2. c \in Machine /\ client_queue[c] \in Seq(CipheredMessage) /\ i \in 1..Len(client_queue[c])
  BY <1>1, ClientTypes DEF LayerInv, Shows
<1>3. client_queue[c][i] \in CipheredMessage /\ RemoveAt(client_queue[c], i) \in Seq(CipheredMessage)
  BY <1>2, ElementOfSeq, RemoveAtType
<1>4. client_queue' \in [Clients -> Seq(CipheredMessage)]
  BY <1>1, <1>3 DEF Shows, LayerInv
<1>5. Append(printed[c], Decrypted(client_queue[c][i])) \in Seq(PlainMessage)
  BY <1>2, <1>3, CipherOnce, AppendProperties DEF LayerInv
<1>6. printed' \in [Machine -> Seq(PlainMessage)]
  BY <1>1, <1>5 DEF Shows, LayerInv
<1>7. PICK temp, left \in Seq(SentNode) : Ages(c, temp, left)
  BY <1>1
<1>8. temp \in Seq(PlainNode) /\ \A n \in 1..Len(temp) : temp[n].text \in PlainText
  <2>1. temp_queue[c] \in Seq(PlainNode) /\ Len(temp_queue[c]) = Len(temp)
    BY <1>7 DEF Ages, LayerInv
  <2>2. Len(temp) \in Nat /\ temp \in [1..Len(temp) -> SentNode]
    BY LenProperties
  <2>3. \A n \in 1..Len(temp) : temp[n] \in PlainNode /\ temp[n].text \in PlainText
    <3> TAKE n \in 1..Len(temp)
    <3>1. temp_queue[c][n] \in PlainNode
      BY <2>1, ElementOfSeq
    <3>2. temp[n].text = temp_queue[c][n].text /\ temp[n] \in SentNode
      BY <1>7, <2>2 DEF Ages
    <3> QED BY <3>1, <3>2 DEF PlainNode
  <2>4. temp \in [1..Len(temp) -> PlainNode]
    BY <2>2, <2>3
  <2> QED BY <2>2, <2>3, <2>4, SeqDef
<1>9. left \in Seq(PlainNode)
  BY <1>7, <1>8, RemoveAtType DEF Ages
<1>10. temp_queue' \in [Clients -> Seq(PlainNode)]
  BY <1>7, <1>9 DEF Ages, LayerInv
<1>11. outgoing_queue' \in [Clients -> Seq(PlainText)]
  <2>1. CASE UNCHANGED outgoing_queue
    BY <2>1 DEF LayerInv
  <2>2. ASSUME NEW n \in 1..Len(temp),
               outgoing_queue' = [outgoing_queue EXCEPT ![c] = Append(@, temp[n].text)]
        PROVE  outgoing_queue' \in [Clients -> Seq(PlainText)]
    <3>1. Append(outgoing_queue[c], temp[n].text) \in Seq(PlainText)
      BY <1>8, AppendProperties DEF LayerInv
    <3> QED BY <2>2, <3>1 DEF LayerInv
  <2> QED BY <2>1, <2>2, <1>7 DEF Ages
<1>12. UNCHANGED leaderVars /\ NetCiphered'
  BY NetShrinks DEF PrintNext, LayerInv
<1> QED BY <1>4, <1>6, <1>10, <1>11, <1>12, LayerClient

LEMMA LayerStep == TypeInv /\ LayerInv /\ [Next]_vars => LayerInv'
<1> SUFFICES ASSUME TypeInv, LayerInv, [Next]_vars PROVE LayerInv'
  OBVIOUS
<1>1. CASE UNCHANGED vars
  BY <1>1, LayerLeader, NetShrinks DEF vars, leaderVars, queueVars, LayerInv
<1>2. CASE Second /\ UNCHANGED <<bounds, leaderVars, net, printed, clientVars, lost>>
  BY <1>2, LayerLeader, NetShrinks DEF leaderVars, queueVars, LayerInv
<1>3. CASE Lose /\ UNCHANGED bounds
  <2>1. net' \subseteq net
    BY <1>3 DEF Lose
  <2> QED BY <1>3, <2>1, LayerLeader, NetShrinks DEF Lose, leaderVars, queueVars, LayerInv
<1> QED BY <1>1, <1>2, <1>3, NextSteps, LayerStamps, LayerThreads, LayerBroadcast, LayerClients,
           LayerPrints

LEMMA LayerInit == Init => LayerInv
BY EmptySeq DEF Init, LeaderInit, LayerInv, NetCiphered

(* "The encryption is done before any messages are sent from either the    *)
(* client or sequencer and decryption is done before the messages are      *)
(* printed to the screen": the content of a line on its way to the leader  *)
(* and of a broadcast is ciphered exactly once, and on no screen, however  *)
(* often a node is copied, sent again and broadcast, and whichever         *)
(* datagrams are lost (sequencer.c:114-117, 156-159, 219-224;              *)
(* client.c:233-236, 386-388).                                             *)
THEOREM PlainOnlyOnScreensAlways == Spec => []PlainOnlyOnScreens
<1>1. LayerInv => PlainOnlyOnScreens
  <2> SUFFICES ASSUME LayerInv PROVE PlainOnlyOnScreens
    OBVIOUS
  <2>1. ASSUME NEW m \in Machine, NEW k \in DOMAIN printed[m] PROVE printed[m][k].text.layers = 0
    <3>1. printed[m] \in Seq(PlainMessage) /\ k \in 1..Len(printed[m])
      BY LenProperties DEF LayerInv
    <3>2. printed[m][k] \in PlainMessage
      BY <3>1, ElementOfSeq
    <3> QED BY <3>2 DEF PlainMessage, PlainText
  <2>2. ASSUME NEW d \in net
        PROVE  /\ d.type = "MSG_REQ" => d.text.layers = 1
               /\ d.type = "CAST" => d.msg.text.layers = 1
    BY DEF LayerInv, NetCiphered, CipheredMessage, CipheredText
  <2> QED BY <2>1, <2>2 DEF PlainOnlyOnScreens
<1> QED BY <1>1, LayerInit, LayerStep, TypeInvariant, PTL DEF Spec

-----------------------------------------------------------------------------
(* The two queues.  A line overtakes a notice only when the queue for      *)
(* notices was found empty before: then the notice that waits behind it is *)
(* the next to be taken.                                                   *)
PassedInv ==
  /\ passed \in {0, 1}
  /\ passed = 1 => /\ important_queue # <<>> /\ cast.stage # "lines"
                   /\ Casting => ~Important(cast.msg)

LEMMA PassedKept ==
  ASSUME PassedInv, UNCHANGED passed, important_queue # <<>> => important_queue' # <<>>,
         cast'.stage = "lines" => cast.stage = "lines",
         Casting' => Casting /\ cast'.msg = cast.msg
  PROVE  PassedInv'
<1>1. Casting' => Important(cast'.msg) = Important(cast.msg)
  BY DEF Important
<1> QED BY <1>1 DEF PassedInv, Important

LEMMA PassedTakes ==
  ASSUME TypeInv, PassedInv, Take
  PROVE  PassedInv'
<1>1. /\ UNCHANGED important_queue
      /\ important_queue # <<>> => Important(Head(important_queue))
      /\ sequencer_queue # <<>> => ~Important(Head(sequencer_queue))
  <2>1. /\ important_queue \in Seq(Message) /\ sequencer_queue \in Seq(Message)
    BY DEF TypeInv, TypeOK, LeaderTypeOK
  <2>2. /\ important_queue # <<>> => 1 \in DOMAIN important_queue
        /\ sequencer_queue # <<>> => 1 \in DOMAIN sequencer_queue
    BY <2>1, EmptySeq, LenProperties
  <2> QED BY <2>1, <2>2 DEF TypeInv, HeadInv, Take, queueVars
<1>2. CASE TakeNotice
  BY <1>2 DEF TakeNotice, PassedInv
<1>3. CASE NoNotice
  BY <1>3, <1>1 DEF NoNotice, Rest, PassedInv, Casting
<1>4. CASE TakeLine
  <2>1. passed = 0
    BY <1>4 DEF TakeLine, PassedInv
  <2>2. cast' = [stage |-> "next", msg |-> Head(sequencer_queue), i |-> 1]
    BY <1>4 DEF TakeLine, Start
  <2>3. passed' = IF important_queue = <<>> THEN 0 ELSE 1
    BY <1>4, <2>1 DEF TakeLine
  <2> QED BY <1>1, <1>4, <2>2, <2>3 DEF TakeLine, PassedInv, Important
<1>5. CASE NoLine
  BY <1>5, <1>1 DEF NoLine, Rest, PassedInv, Casting
<1> QED BY <1>2, <1>3, <1>4, <1>5 DEF Take

LEMMA PassedStep == TypeInv /\ PassedInv /\ [Next]_vars => PassedInv'
<1> SUFFICES ASSUME TypeInv, PassedInv, [Next]_vars PROVE PassedInv'
  OBVIOUS
<1>1. CASE UNCHANGED <<important_queue, cast, passed>>
  BY <1>1, PassedKept DEF Casting
<1>2. ASSUME NEW t \in Thread, Add(t) PROVE PassedInv'
  <2>1. PICK msg : msg = draft[t].msg
    OBVIOUS
  <2>2. msg \in Message /\ PutOrLost(msg)
    BY <1>2, <2>1, DraftFields DEF Add, TypeInv, PutOrLost
  <2>3. important_queue # <<>> => important_queue' # <<>>
    BY <2>2, PutType
  <2> QED BY <1>2, <2>3, PassedKept DEF Add, Casting
<1>3. CASE PrintOwn \/ SkipJoiner \/ SendToMember
  <2>1. AtSlot /\ ToNextSlot /\ UNCHANGED <<important_queue, passed>>
    BY <1>3 DEF PrintOwn, SkipJoiner, SendToMember, queueVars
  <2>2. Casting /\ cast'.msg = cast.msg /\ cast'.stage = "next"
    BY <2>1, ToNextSlotType DEF TypeInv
  <2> QED BY <2>1, <2>2, PassedKept
<1>4. CASE BroadcastEnd
  <2>1. Casting
    BY <1>4 DEF BroadcastEnd, Casting
  <2>2. cast = [stage |-> cast.stage, msg |-> cast.msg, i |-> cast.i]
    BY <2>1, CastFields DEF TypeInv
  <2>3. cast' = [stage |-> "remove", msg |-> cast.msg, i |-> cast.i]
    BY <1>4, <2>2 DEF BroadcastEnd
  <2> QED BY <1>4, <2>1, <2>3, PassedKept DEF BroadcastEnd, queueVars
<1>5. CASE RemoveSent
  <2>1. Casting /\ ~Casting' /\ cast'.stage = "important" /\ UNCHANGED passed
    BY <1>5 DEF RemoveSent, Casting, Rest
  <2>2. CASE Important(cast.msg)
    BY <2>1, <2>2 DEF PassedInv
  <2>3. CASE ~Important(cast.msg)
    BY <1>5, <2>1, <2>3, PassedKept DEF RemoveSent, Unqueue
  <2> QED BY <2>2, <2>3
<1>6. \/ UNCHANGED <<important_queue, cast, passed>>
      \/ \E t \in Thread : Add(t)
      \/ Take \/ PrintOwn \/ SkipJoiner \/ SendToMember \/ BroadcastEnd \/ RemoveSent
  <2>1. CASE \/ TypeLine \/ StampJoin \/ EnterJoiner \/ AnswerJoiner \/ StampLine
             \/ DeclareDead \/ RemoveDeparted
    BY <2>1 DEF TypeLine, StampJoin, EnterJoiner, AnswerJoiner, StampLine, DeclareDead,
                RemoveDeparted, queueVars
  <2>2. CASE \E t \in Thread : Load(t) \/ Count(t)
    BY <2>2 DEF Load, Count, queueVars
  <2>3. CASE UNCHANGED leaderVars
    BY <2>3 DEF leaderVars, queueVars
  <2>4. ASSUME NEW c \in Clients,
               \/ AskToJoin(c) \/ EnterChat(c) \/ TypeClientLine(c) \/ SendLine(c)
               \/ LineReceived(c) \/ Deliver(c) \/ PrintNext(c) \/ PacingStep(c)
        PROVE  UNCHANGED leaderVars
    BY <2>4 DEF AskToJoin, EnterChat, TypeClientLine, SendLine, LineReceived, Deliver,
                PrintNext, PacingStep
  <2> QED BY <2>1, <2>2, <2>3, <2>4, NextSteps DEF vars, Lose
<1> QED BY <1>1, <1>2, <1>3, <1>4, <1>5, <1>6, PassedTakes

LEMMA PassedInit == Init => PassedInv
BY DEF Init, LeaderInit, PassedInv

(* "High priority messages will all be sent out before low priority        *)
(* messages are sent out": without a lock a notice is overtaken by at most *)
(* one line, the one sequencer_send_queue had already decided to look for  *)
(* when the notice was queued (sequencer.c:381-388).                       *)
THEOREM NoticeOvertakenOnceAlways == Spec => []NoticeOvertakenOnce
<1>1. PassedInv => NoticeOvertakenOnce
  BY DEF PassedInv, NoticeOvertakenOnce
<1> QED BY <1>1, PassedInit, PassedStep, TypeInvariant, PTL DEF Spec

-----------------------------------------------------------------------------
(* A client's screen: nothing is shown before the client is in and knows   *)
(* which number to expect.                                                 *)
ScreenInv ==
  /\ \A c \in Clients : status[c] # "in" => printed[c] = <<>>
  /\ ScreenByNumber

LEMMA ScreenKept ==
  ASSUME ScreenInv, UNCHANGED <<printed, latestSequenceNum>>,
         \A c \in Clients : status'[c] # "in" => status[c] # "in"
  PROVE  ScreenInv'
BY DEF ScreenInv, ScreenByNumber

LEMMA ScreenShows ==
  ASSUME TypeInv, ScreenInv, NEW c \in Clients, PrintNext(c)
  PROVE  ScreenInv'
<1>1. PICK i \in DOMAIN client_queue[c] : Shows(c, i)
  BY PrintNextProperties
<1>2. PICK msg : msg = Decrypted(client_queue[c][i])
  OBVIOUS
<1>3. msg \in Message /\ msg.seq = latestSequenceNum[c] + 1
  BY <1>1, <1>2, DecryptedType DEF Shows
<1>4. printed[c] \in Seq(Message) /\ c \in Machine
  BY ClientTypes
<1>5. PICK len : len = Len(printed[c])
  OBVIOUS
<1>6. PICK latest : latest = latestSequenceNum[c]
  OBVIOUS
<1>7. /\ len \in Nat /\ latest \in Int
      /\ \A k \in 1..len : printed[c][k].seq = latest - len + k
  BY <1>4, <1>5, <1>6, LenProperties DEF ScreenInv, ScreenByNumber, TypeInv, TypeOK
<1>8. /\ DOMAIN Append(printed[c], msg) = 1..(len + 1) /\ Len(Append(printed[c], msg)) = len + 1
      /\ \A k \in 1..len : Append(printed[c], msg)[k] = printed[c][k]
      /\ Append(printed[c], msg)[len + 1] = msg
  BY <1>3, <1>4, <1>5, AppendHead
<1>9. printed' = [printed EXCEPT ![c] = Append(printed[c], msg)]
  BY <1>1, <1>2 DEF Shows
<1>10. printed'[c] = Append(printed[c], msg) /\ \A b \in Clients : b # c => printed'[b] = printed[b]
  BY <1>4, <1>9, LeaderIsMachine DEF TypeInv, TypeOK, LeaderTypeOK
<1>11. /\ latestSequenceNum'[c] = latest + 1
       /\ \A b \in Clients : b # c => latestSequenceNum'[b] = latestSequenceNum[b]
  BY <1>6 DEF PrintNext, TypeInv, TypeOK
<1>12. \A k \in 1..(len + 1) : Append(printed[c], msg)[k].seq = (latest + 1) - (len + 1) + k
  <2> TAKE k \in 1..(len + 1)
  <2>1. CASE k = len + 1
    BY <2>1, <1>3, <1>6, <1>7, <1>8
  <2>2. CASE k # len + 1
    <3>1. k \in 1..len
      BY <2>2, <1>7
    <3>2. Append(printed[c], msg)[k].seq = latest - len + k
      BY <3>1, <1>7, <1>8
    <3> QED BY <3>1, <3>2, <1>7
  <2> QED BY <2>1, <2>2
<1>13. ASSUME NEW b \in Clients, NEW k \in DOMAIN printed'[b]
       PROVE  printed'[b][k].seq = latestSequenceNum'[b] - Len(printed'[b]) + k
  <2>1. CASE b = c
    BY <2>1, <1>8, <1>10, <1>11, <1>12
  <2>2. CASE b # c
    BY <2>2, <1>10, <1>11 DEF ScreenInv, ScreenByNumber
  <2> QED BY <2>1, <2>2
<1>14. \A b \in Clients : status'[b] # "in" => printed'[b] = <<>>
  BY <1>10 DEF PrintNext, ScreenInv
<1> QED BY <1>13, <1>14 DEF ScreenInv, ScreenByNumber

LEMMA ScreenStep == TypeInv /\ ScreenInv /\ [Next]_vars => ScreenInv'
<1> SUFFICES ASSUME TypeInv, ScreenInv, [Next]_vars PROVE ScreenInv'
  OBVIOUS
<1>1. CASE UNCHANGED <<printed, clientVars>>
  BY <1>1, ScreenKept DEF clientVars
<1>2. CASE PrintOwn /\ UNCHANGED clientVars
  <2>1. \A c \in Clients : printed'[c] = printed[c]
    BY <1>2, LeaderAssumption, LeaderIsMachine DEF PrintOwn, TypeInv, TypeOK, LeaderTypeOK
  <2> QED BY <1>2, <2>1 DEF ScreenInv, ScreenByNumber, clientVars
<1>3. ASSUME NEW c \in Clients, AskToJoin(c) PROVE ScreenInv'
  BY <1>3, ScreenKept DEF AskToJoin, TypeInv, TypeOK
<1>4. ASSUME NEW c \in Clients, EnterChat(c) PROVE ScreenInv'
  <2>1. printed[c] = <<>> /\ DOMAIN printed[c] = {}
    BY <1>4, EmptySeq, LenProperties DEF EnterChat, ScreenInv
  <2>2. UNCHANGED printed /\ \A b \in Clients \ {c} : /\ latestSequenceNum'[b] = latestSequenceNum[b]
                                                      /\ status'[b] = status[b]
    BY <1>4 DEF EnterChat, TypeInv, TypeOK
  <2>3. status'[c] = "in"
    BY <1>4 DEF EnterChat, TypeInv, TypeOK
  <2> QED BY <2>1, <2>2, <2>3 DEF ScreenInv, ScreenByNumber
<1>5. ASSUME NEW c \in Clients,
             \/ TypeClientLine(c) \/ SendLine(c) \/ LineReceived(c) \/ Deliver(c) \/ PacingStep(c)
      PROVE  ScreenInv'
  BY <1>5, ScreenKept DEF TypeClientLine, SendLine, LineReceived, Deliver, PacingStep, clientVars
<1>6. CASE /\ UNCHANGED clientVars
           /\ \/ TypeLine \/ StampJoin \/ EnterJoiner \/ AnswerJoiner \/ StampLine
              \/ DeclareDead \/ RemoveDeparted
              \/ \E t \in Thread : Add(t) \/ Load(t) \/ Count(t)
              \/ Take \/ SkipJoiner \/ SendToMember \/ BroadcastEnd \/ RemoveSent
  BY <1>6, <1>1 DEF TypeLine, StampJoin, EnterJoiner, AnswerJoiner, StampLine, DeclareDead,
     RemoveDeparted, Add, Load, Count, Take, SkipJoiner, SendToMember, BroadcastEnd, RemoveSent
<1>7. CASE Second /\ UNCHANGED <<bounds, leaderVars, net, printed, clientVars, lost>>
  BY <1>7, <1>1
<1>8. CASE Lose
  BY <1>8, <1>1 DEF Lose
<1>9. CASE UNCHANGED vars
  BY <1>9, <1>1 DEF vars
<1> QED BY <1>2, <1>3, <1>4, <1>5, <1>6, <1>7, <1>8, <1>9, NextSteps, ScreenShows

LEMMA ScreenInit == Init => ScreenInv
<1> SUFFICES ASSUME Init PROVE ScreenInv
  OBVIOUS
<1>1. \A c \in Clients : printed[c] = <<>> /\ DOMAIN printed[c] = {}
  BY LeaderIsMachine DEF Init, LeaderInit
<1> QED BY <1>1 DEF ScreenInv, ScreenByNumber

(* A client shows its messages by number and without a gap, although the   *)
(* leader broadcasts them out of that order (client.c:376-416).            *)
THEOREM ScreenByNumberAlways == Spec => []ScreenByNumber
<1>1. ScreenInv => ScreenByNumber
  BY DEF ScreenInv
<1> QED BY <1>1, ScreenInit, ScreenStep, TypeInvariant, PTL DEF Spec

-----------------------------------------------------------------------------
(* Who changes the table of members and what the leader counts of them.    *)
Charge ==
  /\ Count("listen") /\ draft["listen"].step = "store"
  /\ draft["listen"] # Idle /\ draft["listen"].msg.type = "MSG_REQ"
  /\ TrafficControl(draft["listen"].msg.about) /\ UNCHANGED pacing

LEMMA TableSteps ==
  ASSUME TypeInv, [Next]_vars
  PROVE  \/ UNCHANGED <<slots, told, handled, strangers>> /\ control' \subseteq control
         \/ EnterJoiner /\ UNCHANGED clientVars
         \/ RemoveDeparted /\ UNCHANGED clientVars
         \/ Charge /\ UNCHANGED clientVars
         \/ Second /\ UNCHANGED <<bounds, leaderVars, net, printed, clientVars, lost>>
<1>1. CASE UNCHANGED trafficVars
  BY <1>1 DEF trafficVars
<1>2. CASE TypeLine \/ StampJoin \/ AnswerJoiner \/ StampLine \/ DeclareDead
  BY <1>2, <1>1 DEF TypeLine, StampJoin, AnswerJoiner, StampLine, DeclareDead
<1>3. CASE Take \/ PrintOwn \/ SkipJoiner \/ SendToMember \/ BroadcastEnd \/ RemoveSent
  BY <1>3, <1>1 DEF Take, PrintOwn, SkipJoiner, SendToMember, BroadcastEnd, RemoveSent
<1>4. ASSUME NEW t \in Thread, Add(t) \/ Load(t) PROVE UNCHANGED trafficVars
  BY <1>4 DEF Add, Load
<1>5. ASSUME NEW t \in Thread, Count(t) PROVE UNCHANGED trafficVars \/ Charge
  <2>1. draft[t] # Idle /\ draft[t].step = "store" /\ draft[t].msg \in Message
    BY <1>5, DraftFields DEF Count, TypeInv
  <2>2. CASE t = "listen" /\ ~Important(draft[t].msg)
    <3>1. TrafficControl(draft[t].msg.about) /\ UNCHANGED pacing
      BY <1>5, <2>2 DEF Count
    <3> QED BY <1>5, <2>1, <2>2, <3>1 DEF Charge, Important
  <2>3. CASE ~(t = "listen" /\ ~Important(draft[t].msg))
    BY <1>5, <2>3 DEF Count
  <2> QED BY <2>2, <2>3
<1>6. ASSUME NEW c \in Clients, AskToJoin(c) \/ EnterChat(c) \/ TypeClientLine(c) \/ Deliver(c) \/ PrintNext(c)
      PROVE  UNCHANGED trafficVars
  BY <1>6 DEF AskToJoin, EnterChat, TypeClientLine, Deliver, PrintNext
<1>7. ASSUME NEW c \in Clients, SendLine(c) \/ LineReceived(c)
      PROVE  UNCHANGED <<slots, told, handled, strangers, control>>
  BY <1>7 DEF SendLine, LineReceived, accounts
<1>8. ASSUME NEW c \in Clients, PacingStep(c)
      PROVE  UNCHANGED <<slots, told, handled, strangers>> /\ control' \subseteq control
  BY <1>8 DEF PacingStep, CarryOut, BeginWait, EndWait, accounts
<1>9. ASSUME Lose
      PROVE  UNCHANGED <<slots, told, handled, strangers>> /\ control' \subseteq control
  BY <1>9 DEF Lose, LoseControl, trafficVars
<1>10. UNCHANGED vars => UNCHANGED trafficVars
  BY DEF vars
<1> QED BY <1>1, <1>2, <1>3, <1>4, <1>5, <1>6, <1>7, <1>8, <1>9, <1>10, NextSteps

(* add_client: the new member comes last, with nothing noted of it yet.    *)
Enters(c) ==
  /\ draft["listen"] # Idle /\ draft["listen"].step = "enter"
  /\ draft["listen"].msg.type = "NEW_USER" /\ draft["listen"].msg.about = c
  /\ \A i \in DOMAIN slots' :
       \/ i \in DOMAIN slots /\ slots'[i] = slots[i]
       \/ c \notin Listed /\ i = Len(slots) + 1 /\ slots'[i] = NewSlot(c)

LEMMA EnterJoinerProperties ==
  ASSUME TypeInv, EnterJoiner
  PROVE  \E c \in Clients : Enters(c)
<1>1. PICK c : c = draft["listen"].msg.about
  OBVIOUS
<1>2. /\ draft["listen"] # Idle /\ draft["listen"].step = "enter"
      /\ draft["listen"].msg.type = "NEW_USER" /\ c \in Clients
  BY <1>1, DraftFields DEF EnterJoiner, TypeInv, DraftInv, Thread
<1>3. slots' = AddClient(c) /\ c \in Machine
  BY <1>1, <1>2, LeaderIsMachine DEF EnterJoiner
<1>4. Len(slots) \in Nat /\ DOMAIN slots = 1..Len(slots)
  BY SlotFields DEF TypeInv
<1>5. CASE c \in Listed
  BY <1>1, <1>2, <1>3, <1>5 DEF AddClient, Enters
<1>6. CASE c \notin Listed
  <2>1. /\ DOMAIN slots' = 1..(Len(slots) + 1) /\ \A i \in DOMAIN slots : slots'[i] = slots[i]
        /\ slots'[Len(slots) + 1] = NewSlot(c)
    BY <1>3, <1>6, AddClientProperties DEF TypeInv
  <2>2. \A i \in DOMAIN slots' : i \in DOMAIN slots \/ i = Len(slots) + 1
    BY <2>1, <1>4
  <2> QED BY <1>1, <1>2, <1>6, <2>1, <2>2 DEF Enters
<1> QED BY <1>5, <1>6

(* remove_client_cl: the slots behind the one removed move up.             *)
LEMMA RemoveDepartedProperties ==
  ASSUME TypeInv, RemoveDeparted
  PROVE  \E k \in Nat :
           \A i \in DOMAIN slots' :
             /\ i \in Nat
             /\ \/ i < k /\ i \in DOMAIN slots /\ slots'[i] = slots[i]
                \/ i >= k /\ i + 1 \in DOMAIN slots /\ slots'[i] = slots[i + 1]
<1>1. PICK m : m = draft["send_hb"].msg.text.line[1]
  OBVIOUS
<1>2. slots' = RemoveClient(m)
  BY <1>1 DEF RemoveDeparted
<1>3. Len(slots) \in Nat /\ DOMAIN slots = 1..Len(slots)
  BY SlotFields DEF TypeInv
<1>4. CASE m \notin Listed
  <2>1. slots' = slots
    BY <1>2, <1>4 DEF RemoveClient
  <2>2. \A i \in DOMAIN slots' : i \in Nat /\ i < Len(slots) + 1
    BY <2>1, <1>3
  <2>3. Len(slots) + 1 \in Nat
    BY <1>3
  <2> QED BY <2>1, <2>2, <2>3
<1>5. CASE m \in Listed
  <2>1. PICK k : k = First(SlotsOf(m))
    OBVIOUS
  <2>2. /\ DOMAIN slots' = 1..(Len(slots) - 1) /\ k \in 1..Len(slots)
        /\ \A i \in DOMAIN slots' : slots'[i] = IF i < k THEN slots[i] ELSE slots[i + 1]
    BY <1>2, <1>5, <2>1, RemoveClientProperties DEF TypeInv
  <2>3. \A i \in DOMAIN slots' : i \in Nat /\ i \in DOMAIN slots /\ i + 1 \in DOMAIN slots
    BY <2>2, <1>3
  <2>4. k \in Nat
    BY <2>2
  <2>5. \A i \in DOMAIN slots' : i < k \/ i >= k
    BY <2>3, <2>4
  <2> QED BY <2>2, <2>3, <2>4, <2>5
<1> QED BY <1>4, <1>5

-----------------------------------------------------------------------------
(* A member has one slot, and its slow_factor fits its times.              *)
OneSlotEach == \A i, j \in DOMAIN slots : slots[i].id = slots[j].id => i = j

LEMMA NewSlotFits ==
  ASSUME NEW c
  PROVE  Fits(NewSlot(c)) /\ NewSlot(c).id = c /\ NewSlot(c).times = <<>> /\ Len(<<>>) = 0
<1>1. <<>> \in Seq(Nat) /\ Len(<<>>) = 0
  BY EmptySeq
<1>2. Sum(<<>>) = 0
  BY <1>1, SumIsNat
<1>3. ~TooFast(<<>>)
  BY <1>1, <1>2 DEF TooFast
<1> QED BY <1>1, <1>3 DEF Fits, NewSlot

LEMMA TableInit == Init => OneSlotEach /\ SlowFitsTimes
<1> SUFFICES ASSUME Init PROVE OneSlotEach /\ SlowFitsTimes
  OBVIOUS
<1>1. slots = <<NewSlot(Leader)>>
  BY DEF Init, TrafficInit
<1>2. DOMAIN slots = {1} /\ slots[1] = NewSlot(Leader)
  BY <1>1
<1>3. Fits(slots[1])
  BY <1>2, NewSlotFits
<1> QED BY <1>2, <1>3 DEF OneSlotEach, SlowFitsTimes, Fits

LEMMA TableStep == TypeInv /\ OneSlotEach /\ SlowFitsTimes /\ [Next]_vars => (OneSlotEach /\ SlowFitsTimes)'
<1> SUFFICES ASSUME TypeInv, OneSlotEach, SlowFitsTimes, [Next]_vars
             PROVE  OneSlotEach' /\ SlowFitsTimes'
  OBVIOUS
<1>1. \A i \in DOMAIN slots : Fits(slots[i])
  BY DEF SlowFitsTimes, Fits
<1>2. (\A i \in DOMAIN slots' : Fits(slots'[i])) => SlowFitsTimes'
  BY DEF SlowFitsTimes, Fits, SlowEnough, TooFast
<1>3. CASE UNCHANGED slots
  BY <1>3, <1>1, <1>2 DEF OneSlotEach
<1>4. CASE EnterJoiner
  <2>1. PICK c \in Clients : Enters(c)
    BY <1>4, EnterJoinerProperties
  <2>2. Fits(NewSlot(c)) /\ NewSlot(c).id = c
    BY NewSlotFits
  <2>3. \A i \in DOMAIN slots : slots[i].id \in Listed
    BY DEF Listed
  <2>4. \A i \in DOMAIN slots' : Fits(slots'[i])
    BY <2>1, <2>2, <1>1 DEF Enters
  <2>5. OneSlotEach'
    BY <2>1, <2>2, <2>3 DEF Enters, OneSlotEach
  <2> QED BY <2>4, <2>5, <1>2
<1>5. CASE RemoveDeparted
  <2>1. PICK k \in Nat :
          \A i \in DOMAIN slots' :
            /\ i \in Nat
            /\ \/ i < k /\ i \in DOMAIN slots /\ slots'[i] = slots[i]
               \/ i >= k /\ i + 1 \in DOMAIN slots /\ slots'[i] = slots[i + 1]
    BY <1>5, RemoveDepartedProperties
  <2>2. \A i \in DOMAIN slots' : Fits(slots'[i])
    BY <2>1, <1>1
  <2>3. ASSUME NEW i \in DOMAIN slots', NEW j \in DOMAIN slots', slots'[i].id = slots'[j].id
        PROVE  i = j
    <3>1. PICK a \in DOMAIN slots :
            slots'[i] = slots[a] /\ ((i < k /\ a = i) \/ (i >= k /\ a = i + 1))
      BY <2>1
    <3>2. PICK b \in DOMAIN slots :
            slots'[j] = slots[b] /\ ((j < k /\ b = j) \/ (j >= k /\ b = j + 1))
      BY <2>1
    <3>3. a = b
      BY <3>1, <3>2, <2>3 DEF OneSlotEach
    <3> QED BY <3>1, <3>2, <3>3, <2>1
  <2> QED BY <2>2, <2>3, <1>2 DEF OneSlotEach
<1>6. CASE Charge
  <2>1. PICK m : m = draft["listen"].msg.about
    OBVIOUS
  <2>2. m \in Machine /\ TrafficControl(m)
    BY <1>6, <2>1, LeaderIsMachine DEF Charge, TypeInv, DraftInv
  <2>3. PICK i \in DOMAIN slots :
          /\ DOMAIN slots' = DOMAIN slots /\ slots'[i].id = slots[i].id /\ Fits(slots'[i])
          /\ \A j \in DOMAIN slots : j # i => slots'[j] = slots[j]
    BY <2>2, TrafficControlProperties
  <2> QED BY <2>3, <1>1, <1>2 DEF OneSlotEach
<1>7. CASE Second
  <2>1. /\ DOMAIN slots' = DOMAIN slots
        /\ \A i \in DOMAIN slots : /\ slots'[i].id = slots[i].id /\ slots'[i].times = slots[i].times
                                   /\ slots'[i].slow = slots[i].slow
    BY <1>7, TickProperties DEF Second
  <2> QED BY <2>1, <1>1, <1>2 DEF OneSlotEach, Fits
<1> QED BY <1>3, <1>4, <1>5, <1>6, <1>7, TableSteps

(* traffic_control: whom the leader has slowed has an average that is not  *)
(* above the threshold, and whom it has not, one that is not below,        *)
(* whichever lines came or left the table between (sequencer.c:289-346).   *)
THEOREM SlowFitsTimesAlways == Spec => []SlowFitsTimes
BY TableInit, TableStep, TypeInvariant, PTL DEF Spec

-----------------------------------------------------------------------------
(* How a client comes in.  It is asked for once, it is noted once, and     *)
(* until the leader has entered it nothing is known of it, at either end:  *)
(* whatever the leader was told of a member before it came is not          *)
(* mistaken for its own.                                                   *)
JoinReq(c) == [type |-> "JOIN_REQ", from |-> c]
Fresh(c) ==
  \/ status[c] = "out"
  \/ JoinReq(c) \in net
  \/ Handling("NEW_USER", c) /\ draft["listen"].step = "enter"

(* The request to join is received once. *)
JoinInv ==
  \A c \in Clients :
    /\ status[c] = "out" => JoinReq(c) \notin net
    /\ Handling("NEW_USER", c) => status[c] # "out" /\ JoinReq(c) \notin net

(* Who is not in sends no lines and was never slowed. *)
QuietInv ==
  \A c \in Clients : status[c] # "in" =>
    /\ sender[c] = AtTest /\ ~slow_factor[c] /\ heard[c] = 0
    /\ ~Handling("MSG_REQ", c)
    /\ \A d \in net : d.type = "MSG_REQ" => d.from # c

FreshInv ==
  \A c \in Clients : Fresh(c) =>
    /\ status[c] # "in" /\ c \notin Listed /\ handled[c] = 0 /\ told[c] = 0
    /\ \A d \in net : d.type = "JOIN_RES" => d.to # c

MemberInv == OneSlotEach /\ JoinInv /\ QuietInv /\ FreshInv

(* A step with which no client comes further into the chat, no line is     *)
(* sent and the listener takes up nothing new.                             *)
Calm ==
  /\ UNCHANGED status
  /\ \A d \in net' : d \in net \/ d.type = "CAST"
  /\ draft'["listen"] # Idle =>
       /\ draft["listen"] # Idle /\ draft'["listen"].msg = draft["listen"].msg
       /\ draft'["listen"].step = "enter" => draft["listen"].step = "enter"

LEMMA CalmSteps ==
  ASSUME TypeInv, [Next]_vars
  PROVE  \/ Calm
         \/ (StampJoin \/ AnswerJoiner \/ StampLine) /\ UNCHANGED clientVars
         \/ \E c \in Clients : AskToJoin(c) \/ EnterChat(c) \/ SendLine(c)
<1> USE DEF Thread
<1>1. CASE UNCHANGED <<status, net, draft>>
  BY <1>1 DEF Calm
<1>2. ASSUME UNCHANGED clientVars,
             TypeLine \/ DeclareDead \/ RemoveDeparted \/ Take \/ PrintOwn \/ SkipJoiner
               \/ BroadcastEnd \/ RemoveSent
      PROVE  Calm
  <2>1. UNCHANGED <<status, net>> /\ draft'["listen"] = draft["listen"]
    BY <1>2 DEF TypeLine, DeclareDead, RemoveDeparted, Take, PrintOwn, SkipJoiner, BroadcastEnd,
                RemoveSent, Hold, Release, clientVars, TypeInv, TypeOK, LeaderTypeOK
  <2> QED BY <2>1 DEF Calm
<1>3. ASSUME UNCHANGED clientVars, EnterJoiner PROVE Calm
  <2>1. draft["listen"] # Idle /\ draft["listen"].msg \in Message /\ draft["listen"].step = "enter"
    BY <1>3, DraftFields DEF EnterJoiner, TypeInv
  <2>2. draft'["listen"].msg = draft["listen"].msg
    BY <1>3, <2>1, HoldType DEF EnterJoiner, TypeInv
  <2> QED BY <1>3, <2>1, <2>2 DEF EnterJoiner, Calm, clientVars
<1>4. ASSUME UNCHANGED clientVars, NEW t \in Thread, Add(t) PROVE Calm
  <2>1. draft[t] # Idle /\ draft[t].msg \in Message
    BY <1>4, DraftFields DEF Add, TypeInv
  <2>2. /\ draft'[t].step = "count" /\ draft'[t].msg = draft[t].msg
        /\ \A u \in Thread \ {t} : draft'[u] = draft[u]
    BY <1>4, <2>1, HoldType DEF Add, TypeInv
  <2> QED BY <1>4, <2>1, <2>2 DEF Add, Calm, clientVars
<1>5. ASSUME UNCHANGED clientVars, NEW t \in Thread, Count(t) PROVE Calm
  <2>1. /\ draft[t] # Idle /\ \A u \in Thread \ {t} : draft'[u] = draft[u]
        /\ draft'[t] # Idle => /\ draft'[t].msg = draft[t].msg
                              /\ draft'[t].step = StepAfter(draft[t].msg)
    BY <1>5, CountDraft
  <2>2. StepAfter(draft[t].msg) # "enter"
    BY DEF StepAfter
  <2> QED BY <1>5, <2>1, <2>2 DEF Count, Calm, clientVars
<1>6. ASSUME UNCHANGED clientVars, SendToMember PROVE Calm
  BY <1>6 DEF SendToMember, Calm, clientVars
<1>7. ASSUME NEW c \in Clients,
             TypeClientLine(c) \/ LineReceived(c) \/ Deliver(c) \/ PrintNext(c) \/ PacingStep(c)
      PROVE  Calm
  BY <1>7 DEF TypeClientLine, LineReceived, Deliver, PrintNext, PacingStep, leaderVars, clientVars, Calm
<1>8. CASE Second /\ UNCHANGED <<bounds, leaderVars, net, printed, clientVars, lost>>
  BY <1>8, <1>1 DEF leaderVars, clientVars
<1>9. Lose => Calm
  BY DEF Lose, leaderVars, clientVars, Calm
<1>10. CASE UNCHANGED vars
  BY <1>10, <1>1 DEF vars, leaderVars, clientVars
<1>11. ASSUME UNCHANGED clientVars, NEW t \in Thread, Load(t) PROVE Calm
  <2>1. /\ draft[t] # Idle /\ \A u \in Thread \ {t} : draft'[u] = draft[u]
        /\ draft'[t].msg = draft[t].msg /\ draft'[t].step = "store"
    BY <1>11, LoadDraft DEF TypeInv
  <2> QED BY <1>11, <2>1 DEF Load, Calm, clientVars
<1> QED BY <1>2, <1>3, <1>4, <1>5, <1>6, <1>7, <1>8, <1>9, <1>10, <1>11, NextSteps

(* What the other steps do. *)
LEMMA StampJoinProperties ==
  ASSUME TypeInv, StampJoin
  PROVE  \E c \in Clients :
           /\ JoinReq(c) \in net /\ net' = net \ {JoinReq(c)}
           /\ draft["listen"] = Idle /\ draft'["listen"] # Idle
           /\ draft'["listen"].step = "enter"
           /\ draft'["listen"].msg.type = "NEW_USER" /\ draft'["listen"].msg.about = c
<1>1. PICK d \in net :
        /\ d.type = "JOIN_REQ" /\ net' = net \ {d}
        /\ Hold("listen", "enter", Stamped("NEW_USER", d.from, 0, Plain(<<d.from, 0>>)))
  BY DEF StampJoin
<1>2. PICK c : c = d.from
  OBVIOUS
<1>3. d = JoinReq(c) /\ c \in Clients /\ c \in Machine
  BY <1>1, <1>2, DatagramFields DEF JoinReq, TypeInv, DraftInv
<1>4. PICK msg : msg = Stamped("NEW_USER", c, 0, Plain(<<c, 0>>))
  OBVIOUS
<1>5. msg \in Message /\ msg.type = "NEW_USER" /\ msg.about = c
  <2>1. Plain(<<c, 0>>) \in Text
    BY <1>3, TextTypes
  <2> QED BY <1>3, <1>4, <2>1, StampedType DEF TypeInv
<1>6. /\ draft'["listen"] # Idle /\ draft'["listen"].step = "enter" /\ draft'["listen"].msg = msg
  BY <1>1, <1>2, <1>4, <1>5, HoldType DEF TypeInv, Thread
<1> QED BY <1>1, <1>3, <1>5, <1>6 DEF StampJoin

LEMMA StampLineProperties ==
  ASSUME TypeInv, StampLine
  PROVE  \E d \in net :
           /\ d.type = "MSG_REQ" /\ d.from \in Clients
           /\ net' = (net \ {d}) \cup {[type |-> "MSG_RES", to |-> d.from]}
           /\ draft["listen"] = Idle /\ draft'["listen"] # Idle
           /\ draft'["listen"].step = "add"
           /\ draft'["listen"].msg.type = "MSG_REQ" /\ draft'["listen"].msg.about = d.from
<1>1. PICK d \in net :
        /\ d.type = "MSG_REQ"
        /\ net' = (net \ {d}) \cup {[type |-> "MSG_RES", to |-> d.from]}
        /\ Hold("listen", "add", Stamped("MSG_REQ", d.from, d.sender_seq, Decrypt(d.text)))
  BY DEF StampLine
<1>2. d.from \in Clients /\ d.from \in Machine /\ d.sender_seq \in Nat /\ d.text \in Text
  BY <1>1, DatagramFields DEF TypeInv, DraftInv
<1>3. PICK msg : msg = Stamped("MSG_REQ", d.from, d.sender_seq, Decrypt(d.text))
  OBVIOUS
<1>4. msg \in Message /\ msg.type = "MSG_REQ" /\ msg.about = d.from
  <2>1. Decrypt(d.text) \in Text
    BY <1>2, TextTypes
  <2> QED BY <1>2, <1>3, <2>1, StampedType DEF TypeInv
<1>5. /\ draft'["listen"] # Idle /\ draft'["listen"].step = "add" /\ draft'["listen"].msg = msg
  BY <1>1, <1>3, <1>4, HoldType DEF TypeInv, Thread
<1> QED BY <1>1, <1>2, <1>4, <1>5 DEF StampLine

LEMMA AnswerJoinerProperties ==
  ASSUME TypeInv, AnswerJoiner
  PROVE  \E c \in Clients, n \in Nat :
           /\ Handling("NEW_USER", c) /\ draft["listen"].step = "reply" /\ draft'["listen"] = Idle
           /\ net' = net \cup {[type |-> "JOIN_RES", to |-> c, seq |-> n]}
<1>1. PICK c : c = draft["listen"].msg.about
  OBVIOUS
<1>2. draft["listen"] # Idle /\ draft["listen"].step = "reply"
  BY DraftFields DEF AnswerJoiner, TypeInv, Thread
<1>3. c \in Clients /\ Handling("NEW_USER", c)
  BY <1>1, <1>2 DEF TypeInv, DraftInv, Handling
<1>4. draft'["listen"] = Idle
  BY ReleaseType DEF AnswerJoiner, TypeInv, Thread
<1>5. net' = net \cup {[type |-> "JOIN_RES", to |-> c, seq |-> currentSequenceNum]}
  BY <1>1 DEF AnswerJoiner
<1>6. currentSequenceNum \in Nat
  BY DEF TypeInv, TypeOK, LeaderTypeOK
<1> QED BY <1>2, <1>3, <1>4, <1>5, <1>6

LEMMA JoinStep == TypeInv /\ JoinInv /\ [Next]_vars => JoinInv'
<1> SUFFICES ASSUME TypeInv, JoinInv, [Next]_vars PROVE JoinInv'
  OBVIOUS
<1>1. CASE Calm
  <2>1. \A c \in Clients : JoinReq(c).type # "CAST"
    BY DEF JoinReq
  <2>2. \A c \in Clients : JoinReq(c) \in net' => JoinReq(c) \in net
    BY <1>1, <2>1 DEF Calm
  <2> QED BY <1>1, <2>2 DEF Calm, JoinInv, Handling
<1>2. CASE StampJoin /\ UNCHANGED clientVars
  <2>1. PICK c \in Clients :
          /\ JoinReq(c) \in net /\ net' = net \ {JoinReq(c)} /\ draft'["listen"].msg.about = c
    BY <1>2, StampJoinProperties
  <2> QED BY <1>2, <2>1 DEF JoinInv, Handling, clientVars
<1>3. CASE AnswerJoiner /\ UNCHANGED clientVars
  <2>1. PICK d : d.type = "JOIN_RES" /\ net' = net \cup {d} /\ draft'["listen"] = Idle
    BY <1>3, AnswerJoinerProperties
  <2>2. \A c \in Clients : JoinReq(c) # d
    BY <2>1 DEF JoinReq
  <2> QED BY <1>3, <2>1, <2>2 DEF JoinInv, Handling, clientVars
<1>4. CASE StampLine /\ UNCHANGED clientVars
  <2>1. PICK d \in net :
          /\ net' = (net \ {d}) \cup {[type |-> "MSG_RES", to |-> d.from]}
          /\ draft'["listen"].msg.type = "MSG_REQ"
    BY <1>4, StampLineProperties
  <2>2. \A c \in Clients : JoinReq(c) # [type |-> "MSG_RES", to |-> d.from]
    BY DEF JoinReq
  <2> QED BY <1>4, <2>1, <2>2 DEF JoinInv, Handling, clientVars
<1>5. ASSUME NEW c \in Clients, AskToJoin(c) PROVE JoinInv'
  <2>1. /\ status[c] = "out" /\ status'[c] = "asking" /\ net' = net \cup {JoinReq(c)}
        /\ UNCHANGED draft /\ \A b \in Clients \ {c} : status'[b] = status[b]
    BY <1>5 DEF AskToJoin, JoinReq, leaderVars, TypeInv, TypeOK
  <2>2. \A b \in Clients \ {c} : JoinReq(b) # JoinReq(c)
    BY DEF JoinReq
  <2> QED BY <2>1, <2>2 DEF JoinInv, Handling
<1>6. ASSUME NEW c \in Clients, EnterChat(c) PROVE JoinInv'
  <2>1. /\ status'[c] = "in" /\ net' \subseteq net /\ status[c] # "out"
        /\ UNCHANGED draft /\ \A b \in Clients \ {c} : status'[b] = status[b]
    BY <1>6 DEF EnterChat, leaderVars, TypeInv, TypeOK
  <2> QED BY <2>1 DEF JoinInv, Handling
<1>7. ASSUME NEW c \in Clients, SendLine(c) PROVE JoinInv'
  <2>1. PICK d : d.type = "MSG_REQ" /\ net' = net \cup {d} /\ UNCHANGED <<draft, status>>
    BY <1>7 DEF SendLine, leaderVars
  <2>2. \A b \in Clients : JoinReq(b) # d
    BY <2>1 DEF JoinReq
  <2> QED BY <2>1, <2>2 DEF JoinInv, Handling
<1> QED BY <1>1, <1>2, <1>3, <1>4, <1>5, <1>6, <1>7, CalmSteps

(* Who changes how a client sends its lines.                               *)
LEMMA PacingSteps ==
  ASSUME [Next]_vars
  PROVE  \/ UNCHANGED pacing
         \/ \E c \in Clients : SendLine(c) \/ LineReceived(c) \/ PacingStep(c)
         \/ Second /\ UNCHANGED <<bounds, leaderVars, net, printed, clientVars, lost>>
<1>1. CASE \/ TypeLine \/ StampJoin \/ EnterJoiner \/ AnswerJoiner \/ StampLine
           \/ DeclareDead \/ RemoveDeparted
           \/ Take \/ PrintOwn \/ SkipJoiner \/ SendToMember \/ BroadcastEnd \/ RemoveSent
  BY <1>1 DEF TypeLine, StampJoin, EnterJoiner, AnswerJoiner, StampLine, DeclareDead,
     RemoveDeparted, Take, PrintOwn, SkipJoiner, SendToMember, BroadcastEnd, RemoveSent,
     trafficVars, pacing
<1>2. ASSUME NEW t \in Thread, Add(t) \/ Load(t) \/ Count(t) PROVE UNCHANGED pacing
  BY <1>2 DEF Add, Load, Count, trafficVars, pacing
<1>3. ASSUME NEW b \in Clients,
             AskToJoin(b) \/ EnterChat(b) \/ TypeClientLine(b) \/ Deliver(b) \/ PrintNext(b)
      PROVE  UNCHANGED pacing
  BY <1>3 DEF AskToJoin, EnterChat, TypeClientLine, Deliver, PrintNext, trafficVars, pacing
<1>4. CASE Lose
  BY <1>4 DEF Lose, LoseControl, trafficVars, pacing
<1>5. CASE UNCHANGED vars
  BY <1>5 DEF vars, trafficVars, pacing
<1> QED BY <1>1, <1>2, <1>3, <1>4, <1>5, NextSteps

(* What a client does about its pace, and the clock, leave who is not in   *)
(* alone.                                                                  *)
LEMMA OutKept ==
  ASSUME TypeInv, [Next]_vars, NEW c \in Clients, status[c] # "in", sender[c] = AtTest
  PROVE  sender'[c] = AtTest /\ slow_factor'[c] = slow_factor[c] /\ heard'[c] = heard[c]
<1>1. CASE UNCHANGED pacing
  BY <1>1 DEF pacing
<1>2. ASSUME NEW b \in Clients,
             SendLine(b) \/ LineReceived(b) \/ PacingStep(b)
      PROVE  sender'[c] = AtTest /\ slow_factor'[c] = slow_factor[c] /\ heard'[c] = heard[c]
  <2>1. b # c
    BY <1>2 DEF SendLine, LineReceived, PacingStep, AtTest
  <2>2. /\ slow_factor \in [Clients -> BOOLEAN] /\ sender \in [Clients -> Sender]
        /\ heard \in [Clients -> Nat]
    BY DEF TypeInv, TypeOK, TrafficTypeOK
  <2>3. CASE SendLine(b)
    BY <2>1, <2>2, <2>3 DEF SendLine, BeginRequest
  <2>4. CASE LineReceived(b)
    BY <2>1, <2>2, <2>4 DEF LineReceived, EndRequest
  <2>5. CASE CarryOut(b)
    BY <2>1, <2>2, <2>5 DEF CarryOut
  <2>6. CASE BeginWait(b) \/ EndWait(b)
    BY <2>1, <2>2, <2>6 DEF BeginWait, EndWait
  <2> QED BY <2>3, <2>4, <2>5, <2>6, <1>2 DEF PacingStep
<1>3. CASE Second
  <2>1. sender[c].left = 0
    BY DEF AtTest
  <2>2. sender'[c] = sender[c] /\ UNCHANGED <<slow_factor, heard>>
    BY <1>3, <2>1 DEF Second, Tick
  <2> QED BY <2>2
<1> QED BY <1>1, <1>2, <1>3, PacingSteps

LEMMA QuietStep == TypeInv /\ QuietInv /\ [Next]_vars => QuietInv'
<1> SUFFICES ASSUME TypeInv, QuietInv, [Next]_vars PROVE QuietInv'
  OBVIOUS
<1>1. ASSUME NEW c \in Clients, status[c] # "in"
      PROVE  sender'[c] = AtTest /\ ~slow_factor'[c] /\ heard'[c] = 0
  <2>1. sender[c] = AtTest /\ ~slow_factor[c] /\ heard[c] = 0
    BY <1>1 DEF QuietInv
  <2> QED BY <1>1, <2>1, OutKept
<1>2. CASE Calm
  BY <1>1, <1>2 DEF Calm, QuietInv, Handling
<1>3. CASE StampJoin /\ UNCHANGED clientVars
  <2>1. net' \subseteq net /\ draft'["listen"].msg.type = "NEW_USER"
    BY <1>3, StampJoinProperties
  <2> QED BY <1>1, <1>3, <2>1 DEF QuietInv, Handling, clientVars
<1>4. CASE AnswerJoiner /\ UNCHANGED clientVars
  <2>1. PICK d : d.type = "JOIN_RES" /\ net' = net \cup {d} /\ draft'["listen"] = Idle
    BY <1>4, AnswerJoinerProperties
  <2> QED BY <1>1, <1>4, <2>1 DEF QuietInv, Handling, clientVars
<1>5. CASE StampLine /\ UNCHANGED clientVars
  <2>1. PICK d \in net :
          /\ d.type = "MSG_REQ" /\ d.from \in Clients
          /\ net' = (net \ {d}) \cup {[type |-> "MSG_RES", to |-> d.from]}
          /\ draft'["listen"].msg.about = d.from
    BY <1>5, StampLineProperties
  <2>2. status[d.from] = "in"
    BY <2>1 DEF QuietInv
  <2>3. \A e \in net' : e.type = "MSG_REQ" => e \in net
    BY <2>1
  <2> QED BY <1>1, <1>5, <2>1, <2>2, <2>3 DEF QuietInv, Handling, clientVars
<1>6. ASSUME NEW c \in Clients, AskToJoin(c) PROVE QuietInv'
  <2>1. /\ status[c] = "out" /\ net' = net \cup {JoinReq(c)}
        /\ UNCHANGED draft /\ \A b \in Clients \ {c} : status'[b] = status[b]
    BY <1>6 DEF AskToJoin, JoinReq, leaderVars, TypeInv, TypeOK
  <2>2. JoinReq(c).type = "JOIN_REQ"
    BY DEF JoinReq
  <2> QED BY <1>1, <2>1, <2>2 DEF QuietInv, Handling
<1>7. ASSUME NEW c \in Clients, EnterChat(c) PROVE QuietInv'
  <2>1. /\ status'[c] = "in" /\ net' \subseteq net
        /\ UNCHANGED draft /\ \A b \in Clients \ {c} : status'[b] = status[b]
    BY <1>7 DEF EnterChat, leaderVars, TypeInv, TypeOK
  <2> QED BY <1>1, <2>1 DEF QuietInv, Handling
<1>8. ASSUME NEW c \in Clients, SendLine(c) PROVE QuietInv'
  <2>1. PICK d : d.from = c /\ net' = net \cup {d} /\ UNCHANGED <<draft, status>> /\ status[c] = "in"
    BY <1>8 DEF SendLine, leaderVars
  <2> QED BY <1>1, <2>1 DEF QuietInv, Handling
<1> QED BY <1>2, <1>3, <1>4, <1>5, <1>6, <1>7, <1>8, CalmSteps

(* Of whom the leader has no slot, and handles no line, it counts nothing. *)
LEMMA UnknownKept ==
  ASSUME TypeInv, [Next]_vars, NEW c \in Clients, c \notin Listed, ~Handling("MSG_REQ", c),
         EnterJoiner /\ UNCHANGED clientVars => ~Handling("NEW_USER", c)
  PROVE  c \notin Listed' /\ handled'[c] = handled[c] /\ told'[c] = told[c]
<1>1. handled \in [Machine -> Nat] /\ told \in [Machine -> Nat] /\ c \in Machine
  BY LeaderIsMachine DEF TypeInv, TypeOK, TrafficTypeOK
<1>2. (\A i \in DOMAIN slots' : slots'[i].id # c) => c \notin Listed'
  BY DEF Listed
<1>3. \A i \in DOMAIN slots : slots[i].id # c
  BY DEF Listed
<1>4. CASE UNCHANGED <<slots, told, handled, strangers>>
  BY <1>4 DEF Listed
<1>5. CASE EnterJoiner /\ UNCHANGED clientVars
  <2>1. PICK b \in Clients : Enters(b)
    BY <1>5, EnterJoinerProperties
  <2>2. b # c
    BY <1>5, <2>1 DEF Enters, Handling
  <2>3. \A i \in DOMAIN slots' : slots'[i].id # c
    BY <2>1, <2>2, <1>3 DEF Enters, NewSlot
  <2> QED BY <1>5, <1>2, <2>3 DEF EnterJoiner
<1>6. CASE RemoveDeparted
  <2>1. PICK k \in Nat :
          \A i \in DOMAIN slots' :
            \/ i < k /\ i \in DOMAIN slots /\ slots'[i] = slots[i]
            \/ i >= k /\ i + 1 \in DOMAIN slots /\ slots'[i] = slots[i + 1]
    BY <1>6, RemoveDepartedProperties
  <2>2. \A i \in DOMAIN slots' : slots'[i].id # c
    BY <2>1, <1>3
  <2> QED BY <1>6, <1>2, <2>2 DEF RemoveDeparted
<1>7. CASE Charge
  <2>1. PICK m : m = draft["listen"].msg.about
    OBVIOUS
  <2>2. m \in Machine /\ TrafficControl(m) /\ m # c
    BY <1>7, <2>1, LeaderIsMachine DEF Charge, TypeInv, DraftInv, Handling
  <2>3. PICK i \in DOMAIN slots :
          /\ DOMAIN slots' = DOMAIN slots /\ slots'[i].id = slots[i].id
          /\ \A j \in DOMAIN slots : j # i => slots'[j] = slots[j]
          /\ IF slots'[i].slow = slots[i].slow
               THEN UNCHANGED <<control, told>>
               ELSE told' = [told EXCEPT ![slots[i].id] = @ + 1]
    BY <2>2, TrafficControlProperties
  <2>4. \A j \in DOMAIN slots' : slots'[j].id # c
    BY <2>3, <1>3
  <2>5. told'[c] = told[c]
    BY <2>3, <1>1, <1>3
  <2>6. handled'[c] = handled[c]
    BY <2>2, <1>1 DEF TrafficControl
  <2> QED BY <1>2, <2>4, <2>5, <2>6
<1>8. CASE Second
  <2>1. /\ DOMAIN slots' = DOMAIN slots /\ \A i \in DOMAIN slots : slots'[i].id = slots[i].id
    BY <1>8, TickProperties DEF Second
  <2>2. \A j \in DOMAIN slots' : slots'[j].id # c
    BY <2>1, <1>3
  <2> QED BY <1>8, <1>2, <2>2 DEF Second, Tick
<1> QED BY <1>4, <1>5, <1>6, <1>7, <1>8, TableSteps

(* Nobody becomes fresh again, and the leader enters whoever was.          *)
LEMMA FreshKept ==
  ASSUME TypeInv, JoinInv, QuietInv, FreshInv, [Next]_vars, NEW c \in Clients, Fresh(c), Fresh(c)'
  PROVE  c \notin Listed' /\ handled'[c] = 0 /\ told'[c] = 0
<1>1. c \notin Listed /\ handled[c] = 0 /\ told[c] = 0 /\ ~Handling("MSG_REQ", c)
  BY DEF FreshInv, QuietInv
<1>2. EnterJoiner /\ UNCHANGED clientVars => ~Handling("NEW_USER", c)
  <2> SUFFICES ASSUME EnterJoiner, UNCHANGED clientVars, Handling("NEW_USER", c) PROVE FALSE
    OBVIOUS
  <2>1. draft["listen"].msg \in Message
    BY DraftFields DEF Handling, TypeInv, Thread
  <2>2. draft'["listen"].step = "add"
    BY <2>1, HoldType DEF EnterJoiner, TypeInv, Thread
  <2>3. UNCHANGED <<net, status>>
    BY DEF EnterJoiner, clientVars
  <2> QED BY <2>2, <2>3 DEF Fresh, JoinInv
<1> QED BY <1>1, <1>2, UnknownKept

LEMMA FreshStep == TypeInv /\ JoinInv /\ QuietInv /\ FreshInv /\ [Next]_vars => FreshInv'
<1> SUFFICES ASSUME TypeInv, JoinInv, QuietInv, FreshInv, [Next]_vars, NEW c \in Clients, Fresh(c)'
             PROVE  /\ Fresh(c) /\ status'[c] # "in"
                    /\ \A d \in net' : d.type = "JOIN_RES" => d.to # c
  BY FreshKept DEF FreshInv
<1>1. CASE Calm
  <2>1. JoinReq(c) \in net' => JoinReq(c) \in net
    BY <1>1 DEF Calm, JoinReq
  <2>2. Fresh(c)
    BY <1>1, <2>1 DEF Calm, Fresh, Handling
  <2> QED BY <1>1, <2>2 DEF Calm, FreshInv
<1>2. CASE StampJoin /\ UNCHANGED clientVars
  <2>1. PICK b \in Clients :
          /\ JoinReq(b) \in net /\ net' = net \ {JoinReq(b)} /\ draft'["listen"].msg.about = b
    BY <1>2, StampJoinProperties
  <2>2. Fresh(c)
    BY <1>2, <2>1 DEF Fresh, Handling, clientVars
  <2> QED BY <1>2, <2>1, <2>2 DEF FreshInv, clientVars
<1>3. CASE AnswerJoiner /\ UNCHANGED clientVars
  <2>1. PICK b \in Clients, n \in Nat :
          /\ Handling("NEW_USER", b) /\ draft'["listen"] = Idle
          /\ net' = net \cup {[type |-> "JOIN_RES", to |-> b, seq |-> n]}
    BY <1>3, AnswerJoinerProperties
  <2>2. JoinReq(c) \in net' => JoinReq(c) \in net
    BY <2>1 DEF JoinReq
  <2>3. Fresh(c) /\ (status[c] = "out" \/ JoinReq(c) \in net)
    BY <1>3, <2>1, <2>2 DEF Fresh, Handling, clientVars
  <2>4. b # c
    BY <2>1, <2>3 DEF JoinInv
  <2> QED BY <1>3, <2>1, <2>3, <2>4 DEF FreshInv, clientVars
<1>4. CASE StampLine /\ UNCHANGED clientVars
  <2>1. PICK d \in net :
          /\ net' = (net \ {d}) \cup {[type |-> "MSG_RES", to |-> d.from]}
          /\ draft'["listen"].msg.type = "MSG_REQ"
    BY <1>4, StampLineProperties
  <2>2. JoinReq(c) \in net' => JoinReq(c) \in net
    BY <2>1 DEF JoinReq
  <2>3. Fresh(c)
    BY <1>4, <2>1, <2>2 DEF Fresh, Handling, clientVars
  <2> QED BY <1>4, <2>1, <2>3 DEF FreshInv, clientVars
<1>5. ASSUME NEW b \in Clients, AskToJoin(b)
      PROVE  /\ Fresh(c) /\ status'[c] # "in"
             /\ \A d \in net' : d.type = "JOIN_RES" => d.to # c
  <2>1. /\ status[b] = "out" /\ status'[b] = "asking" /\ net' = net \cup {JoinReq(b)}
        /\ UNCHANGED draft /\ \A a \in Clients \ {b} : status'[a] = status[a]
    BY <1>5 DEF AskToJoin, JoinReq, leaderVars, TypeInv, TypeOK
  <2>2. JoinReq(b).type = "JOIN_REQ" /\ (b # c => JoinReq(b) # JoinReq(c))
    BY DEF JoinReq
  <2>3. Fresh(c)
    BY <2>1, <2>2 DEF Fresh, Handling
  <2> QED BY <2>1, <2>2, <2>3 DEF FreshInv
<1>6. ASSUME NEW b \in Clients, EnterChat(b)
      PROVE  /\ Fresh(c) /\ status'[c] # "in"
             /\ \A d \in net' : d.type = "JOIN_RES" => d.to # c
  <2>1. PICK d \in net : d.type = "JOIN_RES" /\ d.to = b /\ net' = net \ {d}
    BY <1>6 DEF EnterChat
  <2>2. /\ status'[b] = "in" /\ UNCHANGED draft /\ \A a \in Clients \ {b} : status'[a] = status[a]
    BY <1>6 DEF EnterChat, leaderVars, TypeInv, TypeOK
  <2>3. Fresh(c)
    BY <2>1, <2>2 DEF Fresh, Handling
  <2> QED BY <2>1, <2>2, <2>3 DEF FreshInv
<1>7. ASSUME NEW b \in Clients, SendLine(b)
      PROVE  /\ Fresh(c) /\ status'[c] # "in"
             /\ \A d \in net' : d.type = "JOIN_RES" => d.to # c
  <2>1. PICK d : d.type = "MSG_REQ" /\ net' = net \cup {d} /\ UNCHANGED <<draft, status>>
    BY <1>7 DEF SendLine, leaderVars
  <2>2. JoinReq(c) # d
    BY <2>1 DEF JoinReq
  <2>3. Fresh(c)
    BY <2>1, <2>2 DEF Fresh, Handling
  <2> QED BY <2>1, <2>3 DEF FreshInv
<1> QED BY <1>1, <1>2, <1>3, <1>4, <1>5, <1>6, <1>7, CalmSteps

LEMMA MemberInit == Init => MemberInv
<1> SUFFICES ASSUME Init PROVE MemberInv
  OBVIOUS
<1>1. /\ net = {} /\ \A t \in Thread : draft[t] = Idle
      /\ \A c \in Clients : /\ status[c] = "out" /\ sender[c] = AtTest /\ ~slow_factor[c]
                            /\ heard[c] = 0 /\ handled[c] = 0 /\ told[c] = 0
  BY LeaderIsMachine DEF Init, LeaderInit, TrafficInit
<1>2. Listed = {Leader}
  <2>1. slots = <<NewSlot(Leader)>>
    BY DEF Init, TrafficInit
  <2>2. DOMAIN slots = {1} /\ slots[1] = NewSlot(Leader)
    BY <2>1
  <2> QED BY <2>2 DEF Listed, NewSlot
<1> QED BY <1>1, <1>2, TableInit, LeaderAssumption
    DEF MemberInv, JoinInv, QuietInv, FreshInv, Handling, Thread

LEMMA MemberStep == TypeInv /\ SlowFitsTimes /\ MemberInv /\ [Next]_vars => MemberInv'
BY TableStep, JoinStep, QuietStep, FreshStep DEF MemberInv

(* A member pays for its own lines. *)
Kept(n) == IF n < NumTimesTracked THEN n ELSE NumTimesTracked

LEMMA PaysInit == Init => PaysForOwnLines
<1> SUFFICES ASSUME Init PROVE PaysForOwnLines
  OBVIOUS
<1>1. slots = <<NewSlot(Leader)>>
  BY DEF Init, TrafficInit
<1>2. DOMAIN slots = {1} /\ slots[1].id = Leader /\ Len(slots[1].times) = 0
  BY <1>1, NewSlotFits
<1>3. handled[Leader] = 0
  BY LeaderIsMachine DEF Init, TrafficInit
<1> QED BY <1>2, <1>3, TrackedAssumption DEF PaysForOwnLines

LEMMA PaysStep == TypeInv /\ MemberInv /\ PaysForOwnLines /\ [Next]_vars => PaysForOwnLines'
<1> SUFFICES ASSUME TypeInv, MemberInv, PaysForOwnLines, [Next]_vars, ~strangers'
             PROVE  \A i \in DOMAIN slots' : Len(slots'[i].times) = Kept(handled'[slots'[i].id])
  BY DEF PaysForOwnLines, Kept
<1>1. ~strangers => \A i \in DOMAIN slots : Len(slots[i].times) = Kept(handled[slots[i].id])
  BY DEF PaysForOwnLines, Kept
<1>2. handled \in [Machine -> Nat] /\ NumTimesTracked \in Nat \ {0}
  BY TrackedAssumption DEF TypeInv, TypeOK, TrafficTypeOK
<1>3. CASE UNCHANGED <<slots, told, handled, strangers>>
  BY <1>1, <1>3
<1>4. CASE EnterJoiner
  <2>1. PICK c \in Clients : Enters(c)
    BY <1>4, EnterJoinerProperties
  <2>2. handled[c] = 0
    BY <2>1 DEF Enters, MemberInv, FreshInv, Fresh, Handling
  <2>3. UNCHANGED <<handled, strangers>>
    BY <1>4 DEF EnterJoiner
  <2>4. NewSlot(c).id = c /\ Len(NewSlot(c).times) = Kept(0)
    BY <1>2, NewSlotFits DEF Kept
  <2> QED BY <1>1, <2>1, <2>2, <2>3, <2>4 DEF Enters
<1>5. CASE RemoveDeparted
  <2>1. PICK k \in Nat :
          \A i \in DOMAIN slots' :
            \/ i < k /\ i \in DOMAIN slots /\ slots'[i] = slots[i]
            \/ i >= k /\ i + 1 \in DOMAIN slots /\ slots'[i] = slots[i + 1]
    BY <1>5, RemoveDepartedProperties
  <2> QED BY <1>5, <1>1, <2>1 DEF RemoveDeparted
<1>6. CASE Charge
  <2>1. PICK m : m = draft["listen"].msg.about
    OBVIOUS
  <2>2. m \in Machine /\ TrafficControl(m)
    BY <1>6, <2>1, LeaderIsMachine DEF Charge, TypeInv, DraftInv
  <2>3. PICK i \in DOMAIN slots :
          /\ m \in Listed => slots[i].id = m
          /\ DOMAIN slots' = DOMAIN slots /\ slots'[i].id = slots[i].id
          /\ slots'[i].times = TimesWith(slots[i].times, slots[i].since)
          /\ \A j \in DOMAIN slots : j # i => slots'[j] = slots[j]
    BY <2>2, TrafficControlProperties
  <2>4. ~strangers /\ m \in Listed /\ slots[i].id = m
    BY <2>2, <2>3 DEF TrafficControl
  <2>5. handled'[m] = handled[m] + 1 /\ \A a \in Machine \ {m} : handled'[a] = handled[a]
    BY <2>2, <1>2 DEF TrafficControl
  <2>6. PICK n \in Nat : n = handled[m]
    BY <2>2, <1>2
  <2>7. Len(slots'[i].times) = Kept(n + 1)
    <3>1. PICK times, gap : times = slots[i].times /\ gap = slots[i].since
      OBVIOUS
    <3>2. times \in Seq(Nat) /\ gap \in Nat /\ Len(times) = Kept(n)
      BY <2>3, <2>4, <2>6, <3>1, <1>1, SlotFields DEF TypeInv
    <3>3. Len(times) <= NumTimesTracked
      BY <3>2, <1>2 DEF Kept
    <3>4. Len(TimesWith(times, gap)) =
            IF Len(times) < NumTimesTracked THEN Len(times) + 1 ELSE NumTimesTracked
      BY <3>2, <3>3, TimesWithProperties
    <3>5. Len(TimesWith(times, gap)) = Kept(n + 1)
      BY <3>2, <3>4, <1>2 DEF Kept
    <3> QED BY <2>3, <3>1, <3>5
  <2>8. \A j \in DOMAIN slots : j # i => slots[j].id \in Machine \ {m}
    BY <2>3, <2>4, SlotFields DEF TypeInv, MemberInv, OneSlotEach
  <2> QED BY <1>1, <2>3, <2>4, <2>5, <2>6, <2>7, <2>8
<1>7. CASE Second
  <2>1. /\ DOMAIN slots' = DOMAIN slots
        /\ \A i \in DOMAIN slots : slots'[i].id = slots[i].id /\ slots'[i].times = slots[i].times
    BY <1>7, TickProperties DEF Second
  <2> QED BY <1>7, <1>1, <2>1 DEF Second, Tick
<1> QED BY <1>3, <1>4, <1>5, <1>6, <1>7, TableSteps

LEMMA MemberInvariant == Spec => []MemberInv
BY MemberInit, MemberStep, TableInit, TableStep, TypeInvariant, PTL DEF Spec

(* A member pays for its own lines only: as long as no line came from a    *)
(* machine that had been removed, msg_times holds the gaps of the member's *)
(* own lines, the last NUM_TIMES_TRACKED (sequencer.c:266-286) -- whoever  *)
(* came, left or moved to another slot between.                            *)
THEOREM PaysForOwnLinesAlways == Spec => []PaysForOwnLines
BY PaysInit, PaysStep, MemberInvariant, TypeInvariant, PTL DEF Spec

-----------------------------------------------------------------------------
(* CTRL messages.  None is numbered beyond the last, the last says what    *)
(* the leader has noted, and who has carried out the last goes as noted.   *)
PaceInv ==
  /\ \A c \in Clients : heard[c] <= told[c]
  /\ \A d \in control :
       /\ 1 <= d.n /\ d.n <= told[d.to]
       /\ d.n = told[d.to] => \A i \in DOMAIN slots : slots[i].id = d.to => d.slow = slots[i].slow
  /\ PaceAgreed

LEMMA PaceInit == Init => PaceInv
<1> SUFFICES ASSUME Init PROVE PaceInv
  OBVIOUS
<1>1. slots = <<NewSlot(Leader)>>
  BY DEF Init, TrafficInit
<1>2. DOMAIN slots = {1} /\ slots[1].id \notin Clients
  BY <1>1, LeaderAssumption, NewSlotFits
<1>3. control = {} /\ \A c \in Clients : heard[c] = 0 /\ told[c] = 0
  BY LeaderIsMachine DEF Init, TrafficInit
<1> QED BY <1>2, <1>3 DEF PaceInv, PaceAgreed

(* The numbers and the flags, typed. *)
LEMMA PaceTypes ==
  ASSUME TypeInv
  PROVE  /\ told \in [Machine -> Nat] /\ heard \in [Clients -> Nat]
         /\ slow_factor \in [Clients -> BOOLEAN]
         /\ \A d \in control : d.to \in Machine /\ d.n \in Nat /\ d.slow \in BOOLEAN
BY DEF TypeInv, TypeOK, TrafficTypeOK, Control

(* The slots change, but nobody's slow_factor or CTRL number.              *)
LEMMA PaceKept ==
  ASSUME PaceInv, UNCHANGED <<slow_factor, heard, told>>, control' \subseteq control,
         \A i \in DOMAIN slots' : \E j \in DOMAIN slots :
           slots'[i].id = slots[j].id /\ slots'[i].slow = slots[j].slow
  PROVE  PaceInv'
<1>1. \A d \in control' : \A i \in DOMAIN slots' :
        d.n = told[d.to] /\ slots'[i].id = d.to => d.slow = slots'[i].slow
  BY DEF PaceInv
<1>2. PaceAgreed'
  BY DEF PaceInv, PaceAgreed
<1> QED BY <1>1, <1>2 DEF PaceInv

(* A client carries out a CTRL message.                                    *)
LEMMA PaceCarriesOut ==
  ASSUME TypeInv, PaceInv, NEW c \in Clients, CarryOut(c)
  PROVE  PaceInv'
<1>1. PICK d \in control :
        /\ d.to = c
        /\ slow_factor' = [slow_factor EXCEPT ![c] = d.slow]
        /\ heard' = [heard EXCEPT ![c] = d.n]
        /\ control' = control \ {d}
  BY DEF CarryOut
<1>2. UNCHANGED <<slots, told>>
  BY DEF CarryOut
<1>3. heard'[c] = d.n /\ slow_factor'[c] = d.slow
  BY <1>1, PaceTypes
<1>4. \A b \in Clients \ {c} : heard'[b] = heard[b] /\ slow_factor'[b] = slow_factor[b]
  BY <1>1, PaceTypes
<1>5. \A b \in Clients : heard'[b] <= told'[b]
  BY <1>1, <1>2, <1>3, <1>4 DEF PaceInv
<1>6. PaceAgreed'
  <2> SUFFICES ASSUME NEW i \in DOMAIN slots, NEW b \in Clients, b = slots[i].id, heard'[b] = told[b]
               PROVE  slow_factor'[b] = slots[i].slow
    BY <1>2 DEF PaceAgreed
  <2>1. CASE b = c
    BY <2>1, <1>1, <1>3 DEF PaceInv
  <2>2. CASE b # c
    BY <2>2, <1>4 DEF PaceInv, PaceAgreed
  <2> QED BY <2>1, <2>2
<1> QED BY <1>1, <1>2, <1>5, <1>6 DEF PaceInv

(* A new member is as fast as its leader believes.                         *)
LEMMA PaceEnters ==
  ASSUME TypeInv, MemberInv, PaceInv, EnterJoiner
  PROVE  PaceInv'
<1>1. PICK c \in Clients : Enters(c)
  BY EnterJoinerProperties
<1>2. told[c] = 0 /\ ~slow_factor[c]
  BY <1>1 DEF Enters, MemberInv, FreshInv, QuietInv, Fresh, Handling
<1>3. NewSlot(c).id = c /\ ~NewSlot(c).slow
  BY DEF NewSlot
<1>4. UNCHANGED <<slow_factor, heard, told, control>>
  BY DEF EnterJoiner, pacing
<1>5. \A i \in DOMAIN slots' :
        (i \in DOMAIN slots /\ slots'[i] = slots[i]) \/ slots'[i] = NewSlot(c)
  BY <1>1 DEF Enters
<1>6. \A d \in control : d.n = told[d.to] => d.to # c
  BY <1>2, PaceTypes DEF PaceInv
<1>7. \A d \in control : \A i \in DOMAIN slots' :
        d.n = told[d.to] /\ slots'[i].id = d.to => d.slow = slots'[i].slow
  BY <1>3, <1>5, <1>6 DEF PaceInv
<1>8. ASSUME NEW i \in DOMAIN slots', NEW b \in Clients, b = slots'[i].id, heard[b] = told[b]
      PROVE  slow_factor[b] = slots'[i].slow
  <2>1. CASE i \in DOMAIN slots /\ slots'[i] = slots[i]
    BY <2>1, <1>8 DEF PaceInv, PaceAgreed
  <2>2. CASE slots'[i] = NewSlot(c)
    <3>1. slow_factor[c] \in BOOLEAN
      BY PaceTypes
    <3>2. slow_factor[c] = FALSE
      BY <3>1, <1>2
    <3>3. slots'[i].slow = FALSE /\ b = c
      BY <2>2, <1>3, <1>8 DEF NewSlot
    <3> QED BY <3>2, <3>3
  <2> QED BY <2>1, <2>2, <1>5
<1> QED BY <1>4, <1>7, <1>8 DEF PaceInv, PaceAgreed

(* The leader changes its mind about a member and tells it.                *)
LEMMA PaceCharges ==
  ASSUME TypeInv, MemberInv, PaceInv, Charge
  PROVE  PaceInv'
<1>1. PICK m : m = draft["listen"].msg.about
  OBVIOUS
<1>2. m \in Machine /\ TrafficControl(m)
  BY <1>1, LeaderIsMachine DEF Charge, TypeInv, DraftInv
<1>3. PICK i \in DOMAIN slots :
        /\ DOMAIN slots' = DOMAIN slots /\ slots'[i].id = slots[i].id /\ slots'[i] \in Slot
        /\ \A j \in DOMAIN slots : j # i => slots'[j] = slots[j]
        /\ IF slots'[i].slow = slots[i].slow
             THEN UNCHANGED <<control, told>>
             ELSE /\ told' = [told EXCEPT ![slots[i].id] = @ + 1]
                  /\ control' = control \cup
                       {[to |-> slots[i].id, slow |-> slots'[i].slow, n |-> told[slots[i].id] + 1]}
  BY <1>2, TrafficControlProperties
<1>4. UNCHANGED <<slow_factor, heard>>
  BY DEF Charge, pacing
<1>5. CASE slots'[i].slow = slots[i].slow
  <2>1. UNCHANGED <<control, told>>
    BY <1>3, <1>5
  <2>2. \A j \in DOMAIN slots' : slots'[j].id = slots[j].id /\ slots'[j].slow = slots[j].slow
    BY <1>3, <1>5
  <2> QED BY <1>3, <1>4, <2>1, <2>2, PaceKept
<1>6. CASE slots'[i].slow # slots[i].slow
  <2>1. PICK id \in Machine : id = slots[i].id
    BY SlotFields DEF TypeInv
  <2>2. PICK n \in Nat : n = told[id]
    BY PaceTypes
  <2>3. PICK e : e = [to |-> id, slow |-> slots'[i].slow, n |-> n + 1]
    OBVIOUS
  <2>4. told' = [told EXCEPT ![id] = n + 1] /\ control' = control \cup {e}
    BY <1>3, <1>6, <2>1, <2>2, <2>3
  <2>5. told'[id] = n + 1 /\ \A a \in Machine \ {id} : told'[a] = told[a]
    BY <2>4, PaceTypes
  <2>6. \A j \in DOMAIN slots : j # i => slots[j].id # id
    BY <1>3, <2>1 DEF MemberInv, OneSlotEach
  <2>7. \A c \in Clients : heard'[c] <= told'[c]
    <3> TAKE c \in Clients
    <3>1. heard[c] <= told[c] /\ heard[c] \in Nat /\ c \in Machine
      BY PaceTypes, LeaderIsMachine DEF PaceInv
    <3>2. CASE c = id
      BY <3>1, <3>2, <1>4, <2>2, <2>5
    <3>3. CASE c # id
      BY <3>1, <3>3, <1>4, <2>5
    <3> QED BY <3>2, <3>3
  <2>8. ASSUME NEW d \in control'
        PROVE  /\ 1 <= d.n /\ d.n <= told'[d.to]
               /\ d.n = told'[d.to] =>
                    \A j \in DOMAIN slots' : slots'[j].id = d.to => d.slow = slots'[j].slow
    <3>1. CASE d = e
      BY <3>1, <1>3, <2>1, <2>3, <2>5, <2>6
    <3>2. CASE d # e /\ d.to = id
      <4>1. d \in control /\ 1 <= d.n /\ d.n <= n /\ d.n \in Nat
        BY <3>2, <2>2, <2>4, PaceTypes DEF PaceInv
      <4>2. d.n # n + 1 /\ d.n <= n + 1
        BY <4>1
      <4> QED BY <4>1, <4>2, <3>2, <2>5
    <3>3. CASE d # e /\ d.to # id
      <4>1. d \in control /\ told'[d.to] = told[d.to]
        BY <3>3, <2>4, <2>5, PaceTypes
      <4>2. \A j \in DOMAIN slots' : slots'[j].id = d.to => slots'[j] = slots[j]
        BY <3>3, <1>3, <2>1
      <4> QED BY <4>1, <4>2, <1>3 DEF PaceInv
    <3> QED BY <3>1, <3>2, <3>3
  <2>9. ASSUME NEW j \in DOMAIN slots', NEW c \in Clients, c = slots'[j].id, heard'[c] = told'[c]
        PROVE  slow_factor'[c] = slots'[j].slow
    <3>1. c # id
      <4> SUFFICES ASSUME c = id PROVE FALSE
        OBVIOUS
      <4>1. heard[id] = n + 1 /\ heard[id] <= n
        BY <1>4, <2>2, <2>5, <2>9 DEF PaceInv
      <4> QED BY <4>1
    <3>2. slots'[j] = slots[j] /\ told'[c] = told[c]
      BY <3>1, <1>3, <2>1, <2>5, <2>9, LeaderIsMachine
    <3> QED BY <3>2, <1>3, <1>4, <2>9 DEF PaceInv, PaceAgreed
  <2> QED BY <2>7, <2>8, <2>9 DEF PaceInv, PaceAgreed
<1> QED BY <1>5, <1>6

LEMMA PaceStep == TypeInv /\ MemberInv /\ PaceInv /\ [Next]_vars => PaceInv'
<1> SUFFICES ASSUME TypeInv, MemberInv, PaceInv, [Next]_vars PROVE PaceInv'
  OBVIOUS
<1>1. CASE UNCHANGED <<slots, told, handled, strangers>> /\ control' \subseteq control
  <2>1. CASE UNCHANGED <<slow_factor, heard>>
    BY <1>1, <2>1, PaceKept
  <2>2. CASE UNCHANGED pacing
    BY <2>1, <2>2 DEF pacing
  <2>3. ASSUME NEW c \in Clients, SendLine(c) \/ LineReceived(c) \/ PacingStep(c)
        PROVE  UNCHANGED <<slow_factor, heard>> \/ CarryOut(c)
    BY <2>3 DEF SendLine, LineReceived, PacingStep, BeginWait, EndWait
  <2>4. CASE Second
    BY <2>1, <2>4 DEF Second, Tick
  <2> QED BY <2>1, <2>2, <2>3, <2>4, PacingSteps, PaceCarriesOut
<1>2. CASE EnterJoiner
  BY <1>2, PaceEnters
<1>3. CASE RemoveDeparted
  <2>1. PICK k \in Nat :
          \A i \in DOMAIN slots' :
            \/ i < k /\ i \in DOMAIN slots /\ slots'[i] = slots[i]
            \/ i >= k /\ i + 1 \in DOMAIN slots /\ slots'[i] = slots[i + 1]
    BY <1>3, RemoveDepartedProperties
  <2> QED BY <1>3, <2>1, PaceKept DEF RemoveDeparted, pacing
<1>4. CASE Charge
  BY <1>4, PaceCharges
<1>5. CASE Second
  <2>1. /\ DOMAIN slots' = DOMAIN slots
        /\ \A i \in DOMAIN slots : slots'[i].id = slots[i].id /\ slots'[i].slow = slots[i].slow
    BY <1>5, TickProperties DEF Second
  <2> QED BY <1>5, <2>1, PaceKept DEF Second, Tick
<1> QED BY <1>1, <1>2, <1>3, <1>4, <1>5, TableSteps

(* A client goes at the pace its leader believes it goes at, once it has   *)
(* carried out the last CTRL message last, in whatever order they arrive   *)
(* and whichever are lost (sequencer.c:299-346, client.c:280-283).         *)
THEOREM PaceAgreedAlways == Spec => []PaceAgreed
<1>1. PaceInv => PaceAgreed
  BY DEF PaceInv
<1> QED BY <1>1, PaceInit, PaceStep, MemberInvariant, TypeInvariant, PTL DEF Spec

-----------------------------------------------------------------------------
(* A client and its requests.  It has one on its way, or the answer to     *)
(* one, and waits for it in send_out_input.  Of the wait that follows the  *)
(* answer, what has passed while the listener is still at the line counts  *)
(* as held.                                                                *)
Request(c, d) == d.type = "MSG_REQ" /\ d.from = c
Answer(c, d) == d.type = "MSG_RES" /\ d.to = c
Paced(c) == sender[c].at = "wait" \/ \E d \in net : Request(c, d) /\ d.paced

LineInv ==
  \A c \in Clients :
    /\ \A d \in net : Request(c, d) \/ Answer(c, d) =>
         /\ sender[c].at = "request"
         /\ \A e \in net : Request(c, e) \/ Answer(c, e) => e = d
    /\ \A d \in net : Request(c, d) => d.paced = sender[c].paced
    /\ sender[c].at = "test" => ~sender[c].paced
    /\ sender[c].at # "wait" => sender[c].left = 0
    /\ Handling("MSG_REQ", c) /\ Paced(c) => sender[c].held + sender[c].left >= SlowFactor - 1

(* What is in flight of c's requests, and what the listener does with the  *)
(* last one, can only come to an end.                                      *)
NoneSent(c) ==
  /\ \A d \in net' : d \in net \/ ~(Request(c, d) \/ Answer(c, d))
  /\ (draft'["listen"] # Idle /\ draft'["listen"].msg.type = "MSG_REQ"
        /\ draft'["listen"].msg.about = c) => Handling("MSG_REQ", c)

LEMMA SenderTypes ==
  ASSUME TypeInv
  PROVE  /\ sender \in [Clients -> Sender]
         /\ \A c \in Clients :
              /\ sender[c].at \in {"test", "wait", "request"}
              /\ sender[c].left \in Nat /\ sender[c].paced \in BOOLEAN
              /\ sender[c].held \in Nat
         /\ slow_factor \in [Clients -> BOOLEAN]
         /\ SlowFactor \in Nat \ {0}
BY SlowAssumption DEF TypeInv, TypeOK, TrafficTypeOK, Sender

(* Who does nothing about its requests, or receives an answer to none.     *)
LEMMA LineKept ==
  ASSUME LineInv, NEW c \in Clients, sender'[c] = sender[c], NoneSent(c)
  PROVE  /\ \A d \in net' : Request(c, d) \/ Answer(c, d) =>
              /\ sender'[c].at = "request"
              /\ \A e \in net' : Request(c, e) \/ Answer(c, e) => e = d
         /\ \A d \in net' : Request(c, d) => d.paced = sender'[c].paced
         /\ sender'[c].at = "test" => ~sender'[c].paced
         /\ sender'[c].at # "wait" => sender'[c].left = 0
         /\ Handling("MSG_REQ", c)' /\ Paced(c)' =>
              sender'[c].held + sender'[c].left >= SlowFactor - 1
<1>1. Handling("MSG_REQ", c)' => Handling("MSG_REQ", c)
  BY DEF NoneSent, Handling
<1>2. \A d \in net' : Request(c, d) \/ Answer(c, d) => d \in net
  BY DEF NoneSent
<1>3. Paced(c)' => Paced(c)
  BY <1>2 DEF Paced
<1> QED BY <1>1, <1>2, <1>3 DEF LineInv

(* The steps that are no client's. *)
LEMMA NoneSentSteps ==
  ASSUME TypeInv, [Next]_vars, UNCHANGED pacing
  PROVE  \/ \A c \in Clients : NoneSent(c)
         \/ StampLine
         \/ \E c \in Clients : SendLine(c)
<1> USE DEF Request, Answer
<1>1. CASE Calm
  BY <1>1 DEF Calm, NoneSent, Handling
<1>2. CASE StampJoin
  BY <1>2, StampJoinProperties DEF NoneSent
<1>3. CASE AnswerJoiner
  BY <1>3, AnswerJoinerProperties DEF NoneSent
<1>4. ASSUME NEW b \in Clients, AskToJoin(b) PROVE \A c \in Clients : NoneSent(c)
  BY <1>4 DEF AskToJoin, leaderVars, NoneSent, Handling
<1>5. ASSUME NEW b \in Clients, EnterChat(b) PROVE \A c \in Clients : NoneSent(c)
  BY <1>5 DEF EnterChat, leaderVars, NoneSent, Handling
<1> QED BY <1>1, <1>2, <1>3, <1>4, <1>5, CalmSteps

(* The listener takes a line up and answers it.                            *)
LEMMA LineStamped ==
  ASSUME TypeInv, LineInv, UNCHANGED sender, StampLine
  PROVE  LineInv'
<1>1. PICK d \in net :
        /\ d.type = "MSG_REQ" /\ d.from \in Clients
        /\ net' = (net \ {d}) \cup {[type |-> "MSG_RES", to |-> d.from]}
        /\ draft["listen"] = Idle
        /\ draft'["listen"].msg.about = d.from
  BY StampLineProperties
<1>2. PICK e : e = [type |-> "MSG_RES", to |-> d.from]
  OBVIOUS
<1>3. PICK c \in Clients : c = d.from
  BY <1>1
<1>4. Request(c, d) /\ sender[c].at = "request"
  BY <1>1, <1>3 DEF LineInv, Request
<1>5. \A f \in net' : Request(c, f) \/ Answer(c, f) => f = e
  BY <1>1, <1>2, <1>3, <1>4 DEF LineInv
<1>6. ~Request(c, e) /\ \A b \in Clients \ {c} : ~Request(b, e) /\ ~Answer(b, e)
  BY <1>2, <1>3 DEF Request, Answer
<1>7. \A b \in Clients \ {c} : NoneSent(b)
  BY <1>1, <1>2, <1>3, <1>6 DEF NoneSent
<1>8. \A f \in net' : ~Request(c, f)
  BY <1>5, <1>6
<1>9. ~Paced(c)'
  BY <1>4, <1>8 DEF Paced
<1> QED BY <1>4, <1>5, <1>7, <1>8, <1>9, LineKept DEF LineInv

(* A client asks, or has been answered.                                    *)
LEMMA LineSent ==
  ASSUME TypeInv, LineInv, NEW c \in Clients, SendLine(c)
  PROVE  LineInv'
<1>1. PICK d :
        /\ d.type = "MSG_REQ" /\ d.from = c /\ d.paced = sender[c].paced /\ net' = net \cup {d}
  BY DEF SendLine
<1>2. /\ MaySend(c) /\ UNCHANGED draft
      /\ sender' = [sender EXCEPT ![c].at = "request"]
  BY DEF SendLine, BeginRequest, leaderVars
<1>3. /\ sender[c].at # "request" /\ sender[c].left = 0
      /\ sender[c].at # "wait" => ~sender[c].paced
  BY <1>2, SenderTypes DEF MaySend, LineInv
<1>4. \A e \in net : ~(Request(c, e) \/ Answer(c, e))
  BY <1>3 DEF LineInv
<1>5. /\ sender'[c].at = "request" /\ sender'[c].left = 0 /\ sender'[c].paced = sender[c].paced
      /\ sender'[c].held = sender[c].held
      /\ \A b \in Clients \ {c} : sender'[b] = sender[b]
  BY <1>2, <1>3, SenderTypes DEF Sender
<1>6. \A b \in Clients \ {c} : NoneSent(b)
  BY <1>1, <1>2 DEF NoneSent, Request, Answer, Handling
<1>7. \A e \in net' : Request(c, e) \/ Answer(c, e) => e = d
  BY <1>1, <1>4
<1>8. Handling("MSG_REQ", c)' /\ Paced(c)' => sender'[c].held + sender'[c].left >= SlowFactor - 1
  <2>1. Handling("MSG_REQ", c)' => Handling("MSG_REQ", c)
    BY <1>2 DEF Handling
  <2>2. Paced(c)' => sender[c].at = "wait"
    BY <1>1, <1>3, <1>5, <1>7 DEF Paced
  <2> QED BY <2>1, <2>2, <1>3, <1>5 DEF LineInv, Paced
<1> QED BY <1>1, <1>5, <1>6, <1>7, <1>8, LineKept DEF LineInv

LEMMA LineAnswered ==
  ASSUME TypeInv, LineInv, NEW c \in Clients, LineReceived(c)
  PROVE  LineInv'
<1>1. PICK d \in net : d.type = "MSG_RES" /\ d.to = c /\ net' = net \ {d}
  BY DEF LineReceived
<1>2. UNCHANGED draft /\ sender' = [sender EXCEPT ![c] = AtTest]
  BY DEF LineReceived, EndRequest, leaderVars
<1>3. sender'[c] = AtTest /\ \A b \in Clients \ {c} : sender'[b] = sender[b]
  BY <1>2, SenderTypes
<1>4. \A e \in net' : ~(Request(c, e) \/ Answer(c, e))
  BY <1>1 DEF LineInv, Answer
<1>5. \A b \in Clients \ {c} : NoneSent(b)
  BY <1>1, <1>2 DEF NoneSent, Handling
<1>6. ~Paced(c)'
  BY <1>3, <1>4 DEF Paced, AtTest
<1> QED BY <1>3, <1>4, <1>5, <1>6, LineKept DEF LineInv, AtTest

LEMMA LinePaced ==
  ASSUME TypeInv, LineInv, NEW c \in Clients, PacingStep(c)
  PROVE  LineInv'
<1>1. UNCHANGED <<net, draft>> /\ \A b \in Clients : NoneSent(b)
  BY DEF PacingStep, leaderVars, NoneSent, Handling
<1>2. CASE CarryOut(c)
  <2>1. UNCHANGED sender
    BY <1>2 DEF CarryOut
  <2> QED BY <1>1, <2>1, LineKept DEF LineInv
<1>3. CASE BeginWait(c)
  <2>1. PICK n \in {SlowFactor - 1, SlowFactor} :
          sender' = [sender EXCEPT ![c] = [at |-> "wait", left |-> n, paced |-> TRUE, held |-> 0]]
    BY <1>3 DEF BeginWait
  <2>2. /\ sender'[c].at = "wait" /\ sender'[c].held + sender'[c].left >= SlowFactor - 1
        /\ \A b \in Clients \ {c} : sender'[b] = sender[b]
    BY <2>1, SenderTypes
  <2>3. \A d \in net' : ~(Request(c, d) \/ Answer(c, d))
    BY <1>1, <1>3 DEF BeginWait, LineInv
  <2> QED BY <1>1, <2>2, <2>3, LineKept DEF LineInv
<1>4. CASE EndWait(c)
  <2>1. sender'[c] = AtTest /\ \A b \in Clients \ {c} : sender'[b] = sender[b]
    BY <1>4, SenderTypes DEF EndWait
  <2>2. \A d \in net' : ~(Request(c, d) \/ Answer(c, d))
    BY <1>1, <1>4 DEF EndWait, LineInv
  <2>3. ~Paced(c)'
    BY <2>1, <2>2 DEF Paced, AtTest
  <2> QED BY <1>1, <2>1, <2>2, <2>3, LineKept DEF LineInv, AtTest
<1> QED BY <1>2, <1>3, <1>4 DEF PacingStep

LEMMA LineTicks ==
  ASSUME TypeInv, LineInv, Second, UNCHANGED <<leaderVars, net>>
  PROVE  LineInv'
<1>1. \A c \in Clients : Handling("MSG_REQ", c)' = Handling("MSG_REQ", c)
  BY DEF leaderVars, Handling
<1>2. PICK H : H = {c \in Clients : Handling("MSG_REQ", c)}
  OBVIOUS
<1>3. \A c \in Clients :
        /\ sender'[c].at = sender[c].at /\ sender'[c].paced = sender[c].paced
        /\ sender'[c].left = IF sender[c].left > 0 THEN sender[c].left - 1 ELSE sender[c].left
        /\ sender'[c].held = IF sender[c].left > 0 /\ c \in H
                               THEN sender[c].held + 1 ELSE sender[c].held
  BY <1>2, TickProperties DEF Second
<1>4. \A c \in Clients : sender[c].left = 0 => sender'[c].left = 0
  BY <1>3
<1>5. \A c \in Clients : Paced(c)' => Paced(c)
  BY <1>3 DEF Paced
<1>6. ASSUME NEW c \in Clients, Handling("MSG_REQ", c)
      PROVE  sender'[c].held + sender'[c].left = sender[c].held + sender[c].left
  <2>1. c \in H
    BY <1>2, <1>6
  <2> QED BY <2>1, <1>3, SenderTypes
<1> QED BY <1>1, <1>3, <1>4, <1>5, <1>6 DEF LineInv

LEMMA LineStep == TypeInv /\ LineInv /\ [Next]_vars => LineInv'
<1> SUFFICES ASSUME TypeInv, LineInv, [Next]_vars PROVE LineInv'
  OBVIOUS
<1>1. CASE UNCHANGED pacing
  <2>1. UNCHANGED sender
    BY <1>1 DEF pacing
  <2>2. CASE \A c \in Clients : NoneSent(c)
    BY <2>1, <2>2, LineKept DEF LineInv
  <2> QED BY <1>1, <2>1, <2>2, NoneSentSteps, LineStamped, LineSent
<1>2. CASE Second /\ UNCHANGED <<bounds, leaderVars, net, printed, clientVars, lost>>
  BY <1>2, LineTicks
<1> QED BY <1>1, <1>2, PacingSteps, LineSent, LineAnswered, LinePaced

LEMMA LineInit == Init => LineInv
BY DEF Init, LeaderInit, TrafficInit, LineInv, Handling, Paced, Thread, AtTest

-----------------------------------------------------------------------------
(* The seconds of a wait have passed since the leader took the time of the *)
(* line before, or while it held that line, or are still to come.          *)
Enough(slot, sent) ==
  slot.since + (sent.held + sent.left) >= SlowFactor - 1 \/ slot.since >= bounds.gap

SpacedInv ==
  ~strangers =>
    \A c \in Clients : Paced(c) =>
      \A i \in DOMAIN slots : slots[i].id = c => Enough(slots[i], sender[c])

LEMMA SinceTypes ==
  ASSUME TypeInv
  PROVE  /\ bounds.gap \in Nat /\ \A i \in DOMAIN slots : slots[i].since \in Nat
BY SlotFields, BoundsAssumption DEF TypeInv, TypeOK, TrafficTypeOK

LEMMA SpacedKept ==
  ASSUME SpacedInv, UNCHANGED <<bounds, slots, strangers>>, NEW c \in Clients, ~strangers,
         sender'[c].left = sender[c].left, sender'[c].held = sender[c].held,
         Paced(c)' => Paced(c), Paced(c)'
  PROVE  \A i \in DOMAIN slots' : slots'[i].id = c => Enough(slots[i], sender[c])'
BY DEF SpacedInv, Enough

(* A client goes on, while the table stays as it is.                       *)
LEMMA SpacedSends ==
  ASSUME TypeInv, LineInv, LineInv', SpacedInv, UNCHANGED bounds, NEW c \in Clients,
         SendLine(c) \/ LineReceived(c) \/ PacingStep(c)
  PROVE  SpacedInv'
<1>1. UNCHANGED <<slots, strangers>>
  BY DEF SendLine, LineReceived, PacingStep, accounts, CarryOut, BeginWait, EndWait
<1>2. ASSUME NEW b \in Clients \ {c}
      PROVE  sender'[b] = sender[b] /\ (Paced(b)' => Paced(b))
  <2>1. CASE SendLine(c)
    <3>1. PICK d : d.from = c /\ net' = net \cup {d}
      BY <2>1 DEF SendLine
    <3>2. sender'[b] = sender[b]
      BY <2>1, SenderTypes DEF SendLine, BeginRequest
    <3> QED BY <3>1, <3>2 DEF Paced, Request
  <2>2. CASE LineReceived(c)
    <3>1. net' \subseteq net
      BY <2>2 DEF LineReceived
    <3>2. sender'[b] = sender[b]
      BY <2>2, SenderTypes DEF LineReceived, EndRequest
    <3> QED BY <3>1, <3>2 DEF Paced
  <2>3. CASE PacingStep(c)
    BY <2>3, SenderTypes DEF PacingStep, CarryOut, BeginWait, EndWait, Paced
  <2> QED BY <2>1, <2>2, <2>3
<1>3. ASSUME ~strangers, Paced(c)'
      PROVE  \A i \in DOMAIN slots' : slots'[i].id = c => Enough(slots[i], sender[c])'
  <2>1. CASE SendLine(c)
    <3>1. PICK d : /\ d.type = "MSG_REQ" /\ d.from = c /\ d.paced = sender[c].paced
                   /\ net' = net \cup {d}
      BY <2>1 DEF SendLine
    <3>2. MaySend(c) /\ sender' = [sender EXCEPT ![c].at = "request"]
      BY <2>1 DEF SendLine, BeginRequest
    <3>3. /\ sender'[c].at = "request" /\ sender'[c].left = sender[c].left
          /\ sender'[c].held = sender[c].held
      BY <3>2, SenderTypes DEF Sender
    <3>4. sender[c].at # "request"
      BY <3>2 DEF MaySend
    <3>5. sender[c].paced
      BY <1>3, <3>1, <3>3, <3>4 DEF Paced, LineInv
    <3>6. Paced(c)
      BY <3>2, <3>5 DEF MaySend, Paced, LineInv
    <3> QED BY <1>1, <1>3, <3>3, <3>6, SpacedKept
  <2>2. CASE LineReceived(c)
    <3>1. sender'[c] = AtTest
      BY <2>2, SenderTypes DEF LineReceived, EndRequest
    <3> QED BY <1>3, <3>1 DEF Paced, LineInv, AtTest
  <2>3. CASE BeginWait(c)
    <3>1. PICK n \in {SlowFactor - 1, SlowFactor} :
            sender' = [sender EXCEPT ![c] = [at |-> "wait", left |-> n, paced |-> TRUE, held |-> 0]]
      BY <2>3 DEF BeginWait
    <3>2. sender'[c].held + sender'[c].left = n
      BY <3>1, SenderTypes
    <3> QED BY <1>1, <3>2, SinceTypes, SenderTypes DEF Enough
  <2>4. CASE EndWait(c)
    <3>1. sender'[c] = AtTest
      BY <2>4, SenderTypes DEF EndWait
    <3> QED BY <1>3, <3>1 DEF Paced, LineInv, AtTest
  <2>5. CASE CarryOut(c) /\ PacingStep(c)
    <3>1. UNCHANGED <<sender, net>>
      BY <2>5 DEF CarryOut, PacingStep
    <3> QED BY <1>1, <1>3, <3>1, SpacedKept DEF Paced
  <2> QED BY <2>1, <2>2, <2>3, <2>4, <2>5 DEF PacingStep
<1>4. ASSUME NEW b \in Clients \ {c}, ~strangers, Paced(b)'
      PROVE  \A i \in DOMAIN slots' : slots'[i].id = b => Enough(slots[i], sender[b])'
  BY <1>1, <1>2, <1>4, SpacedKept
<1> QED BY <1>1, <1>3, <1>4 DEF SpacedInv

(* Time passes.                                                            *)
LEMMA SpacedTicks ==
  ASSUME TypeInv, LineInv, SpacedInv, Second, UNCHANGED <<bounds, net>>
  PROVE  SpacedInv'
<1>1. /\ DOMAIN slots' = DOMAIN slots
      /\ \A i \in DOMAIN slots :
           /\ slots'[i].id = slots[i].id
           /\ slots'[i].since =
                IF slots[i].since < bounds.gap THEN slots[i].since + 1 ELSE slots[i].since
      /\ \A c \in Clients : sender'[c].at = sender[c].at
  BY TickProperties DEF Second
<1>2. UNCHANGED strangers
  BY DEF Second, Tick
<1>3. \A c \in Clients : Paced(c)' => Paced(c)
  BY <1>1 DEF Paced
<1>4. ASSUME NEW c \in Clients, NEW i \in DOMAIN slots, Enough(slots[i], sender[c])
      PROVE  Enough(slots[i], sender[c])'
  <2>1. PICK n, k, g \in Nat :
          n = slots[i].since /\ k = sender[c].held + sender[c].left /\ g = bounds.gap
    BY SinceTypes, SenderTypes
  <2>2. PICK n1 : n1 = slots'[i].since
    OBVIOUS
  <2>3. PICK k1 : k1 = sender'[c].held + sender'[c].left
    OBVIOUS
  <2>4. n1 = IF n < g THEN n + 1 ELSE n
    BY <1>1, <2>1, <2>2
  <2>5. k1 \in {k, k - 1}
    <3>1. /\ sender'[c].left = IF sender[c].left > 0 THEN sender[c].left - 1 ELSE sender[c].left
          /\ sender'[c].held \in {sender[c].held, sender[c].held + 1}
          /\ sender[c].left = 0 => sender'[c].held = sender[c].held
      BY TickProperties, SenderTypes DEF Second
    <3> QED BY <3>1, <2>1, <2>3, SenderTypes
  <2>6. n + k >= SlowFactor - 1 \/ n >= g
    BY <1>4, <2>1 DEF Enough
  <2>7. n1 + k1 >= SlowFactor - 1 \/ n1 >= g
    BY <2>1, <2>4, <2>5, <2>6, SenderTypes
  <2>8. bounds'.gap = g
    BY <2>1
  <2> QED BY <2>2, <2>3, <2>7, <2>8 DEF Enough
<1> QED BY <1>1, <1>2, <1>3, <1>4 DEF SpacedInv

(* The table changes while the clients do nothing about their requests:    *)
(* whom the listener charges has what is left of its wait before it, and   *)
(* the rest was held.                                                      *)
LEMMA SpacedTable ==
  ASSUME TypeInv, MemberInv, LineInv, SpacedInv, UNCHANGED <<bounds, sender>>,
         EnterJoiner \/ RemoveDeparted \/ Charge,
         NEW c \in Clients, Paced(c), ~strangers'
  PROVE  \A i \in DOMAIN slots' : slots'[i].id = c => Enough(slots[i], sender[c])'
<1>1. ~strangers
  <2>1. CASE EnterJoiner \/ RemoveDeparted
    BY <2>1 DEF EnterJoiner, RemoveDeparted
  <2>2. CASE Charge
    <3>1. PICK m : m = draft["listen"].msg.about
      OBVIOUS
    <3>2. TrafficControl(m)
      BY <2>2, <3>1 DEF Charge
    <3>3. strangers' = (strangers \/ m \notin Listed)
      BY <3>2 DEF TrafficControl
    <3> QED BY <3>3
  <2> QED BY <2>1, <2>2
<1>2. \A i \in DOMAIN slots : slots[i].id = c => Enough(slots[i], sender[c])
  BY <1>1 DEF SpacedInv
<1>3. ASSUME NEW i \in DOMAIN slots', NEW j \in DOMAIN slots, slots'[i] = slots[j], slots'[i].id = c
      PROVE  Enough(slots[i], sender[c])'
  BY <1>2, <1>3 DEF Enough
<1>4. CASE EnterJoiner
  <2>1. PICK b \in Clients : Enters(b)
    BY <1>4, EnterJoinerProperties
  <2>2. status[b] # "in"
    BY <2>1 DEF Enters, MemberInv, FreshInv, Fresh, Handling
  <2>3. b # c
    BY <2>2 DEF MemberInv, QuietInv, Paced, Request, AtTest
  <2>4. \A i \in DOMAIN slots' : slots'[i].id = c => i \in DOMAIN slots /\ slots'[i] = slots[i]
    BY <2>1, <2>3 DEF Enters, NewSlot
  <2> QED BY <1>3, <2>4
<1>5. CASE RemoveDeparted
  <2>1. PICK k \in Nat :
          \A i \in DOMAIN slots' :
            \/ i < k /\ i \in DOMAIN slots /\ slots'[i] = slots[i]
            \/ i >= k /\ i + 1 \in DOMAIN slots /\ slots'[i] = slots[i + 1]
    BY <1>5, RemoveDepartedProperties
  <2> QED BY <1>3, <2>1
<1>6. CASE Charge
  <2>1. PICK m : m = draft["listen"].msg.about
    OBVIOUS
  <2>2. m \in Clients /\ m \in Machine /\ TrafficControl(m) /\ Handling("MSG_REQ", m)
    BY <1>6, <2>1, LeaderIsMachine DEF Charge, TypeInv, DraftInv, Handling
  <2>3. PICK i \in DOMAIN slots :
          /\ m \in Listed => slots[i].id = m
          /\ DOMAIN slots' = DOMAIN slots /\ slots'[i].id = slots[i].id /\ slots'[i].since = 0
          /\ \A j \in DOMAIN slots : j # i => slots'[j] = slots[j]
    BY <2>2, TrafficControlProperties
  <2>4. slots[i].id = m
    BY <2>2, <2>3 DEF TrafficControl
  <2>5. CASE m = c
    <3>1. sender[c].held + sender[c].left >= SlowFactor - 1
      BY <2>2, <2>5 DEF LineInv
    <3>2. Enough(slots[i], sender[c])'
      BY <2>3, <3>1, SenderTypes DEF Enough
    <3> QED BY <1>3, <2>3, <3>2
  <2>6. CASE m # c
    BY <2>3, <2>4, <2>6, <1>3
  <2> QED BY <2>5, <2>6
<1> QED BY <1>4, <1>5, <1>6

LEMMA SpacedStep ==
  TypeInv /\ MemberInv /\ LineInv /\ LineInv' /\ SpacedInv /\ [Next]_vars => SpacedInv'
<1> SUFFICES ASSUME TypeInv, MemberInv, LineInv, LineInv', SpacedInv, [Next]_vars PROVE SpacedInv'
  OBVIOUS
<1>1. UNCHANGED bounds
  BY DEF Next, vars
<1>2. CASE UNCHANGED pacing /\ ~\E c \in Clients : SendLine(c)
  <2>1. UNCHANGED sender
    BY <1>2 DEF pacing
  <2>2. ASSUME NEW c \in Clients PROVE Paced(c)' => Paced(c)
    <3>1. CASE NoneSent(c)
      BY <2>1, <3>1 DEF NoneSent, Paced
    <3>2. CASE StampLine
      <4>1. PICK d \in net : net' = (net \ {d}) \cup {[type |-> "MSG_RES", to |-> d.from]}
        BY <3>2, StampLineProperties
      <4> QED BY <2>1, <4>1 DEF Paced, Request
    <3> QED BY <1>2, <3>1, <3>2, NoneSentSteps
  <2>3. CASE UNCHANGED <<slots, told, handled, strangers>>
    BY <1>1, <2>1, <2>2, <2>3, SpacedKept DEF SpacedInv
  <2>4. CASE EnterJoiner \/ RemoveDeparted \/ Charge
    BY <1>1, <2>1, <2>2, <2>4, SpacedTable DEF SpacedInv
  <2>5. CASE Second /\ UNCHANGED <<bounds, leaderVars, net, printed, clientVars, lost>>
    BY <2>5, SpacedTicks
  <2> QED BY <2>3, <2>4, <2>5, TableSteps
<1>3. CASE Second /\ UNCHANGED <<bounds, leaderVars, net, printed, clientVars, lost>>
  BY <1>3, SpacedTicks
<1> QED BY <1>1, <1>2, <1>3, PacingSteps, SpacedSends

LEMMA SpacedInit == Init => SpacedInv
BY DEF Init, LeaderInit, TrafficInit, SpacedInv, Paced, AtTest

(* Waiting before each line is enough to be let go: the gap the leader     *)
(* measures before a line that was sent after a wait falls short of the    *)
(* wait only by the seconds of it that the leader spent on the line before *)
(* (from its MSG_RES, which starts the wait, to its taking of the time),   *)
(* and by one, as the clocks are not in phase (client.c:519-531,           *)
(* sequencer.c:168, 284-287).                                              *)
THEOREM WaitedLinesSpacedAlways == Spec => []WaitedLinesSpaced
<1>1. TypeInv /\ LineInv /\ SpacedInv => WaitedLinesSpaced
  <2> SUFFICES ASSUME TypeInv, LineInv, SpacedInv, ~strangers,
                      NEW d \in net, d.type = "MSG_REQ", d.paced, NEW i \in SlotsOf(d.from)
               PROVE  \/ slots[i].since + sender[d.from].held >= SlowFactor - 1
                      \/ slots[i].since >= bounds.gap
    BY DEF WaitedLinesSpaced
  <2>1. PICK c \in Clients : c = d.from
    BY DEF TypeInv, DraftInv
  <2>2. Request(c, d) /\ Paced(c) /\ sender[c].left = 0
    BY <2>1 DEF Request, Paced, LineInv
  <2>3. i \in DOMAIN slots /\ slots[i].id = c
    BY <2>1 DEF SlotsOf
  <2>4. Enough(slots[i], sender[c])
    BY <2>2, <2>3 DEF SpacedInv
  <2> QED BY <2>1, <2>2, <2>3, <2>4, SinceTypes, SenderTypes DEF Enough
<1> QED BY <1>1, LineInit, LineStep, SpacedInit, SpacedStep, MemberInvariant, TypeInvariant,
       PTL DEF Spec

-----------------------------------------------------------------------------
(* The two queues against the leader's screen s: of the kind b, put is     *)
(* what was put into the queue q, the first of it have been taken off and  *)
(* shown, in that order, and q is the rest; of the rest, lead (0 or 1) is  *)
(* shown already.                                                          *)
ShownIn(s, b, k) == {j \in 1..k : Important(s[j]) = b}
InOrder(s, put, b, k) ==
  Important(s[k]) = b =>
    /\ Cardinality(ShownIn(s, b, k)) <= Len(put)
    /\ s[k] = Decrypted(put[Cardinality(ShownIn(s, b, k))])
Tallies(s, put, q, lead, b) ==
  /\ Len(q) <= Len(put)
  /\ \A k \in 1..Len(q) : q[k] = put[Len(put) - Len(q) + k]
  /\ Cardinality(ShownIn(s, b, Len(s))) = Len(put) - Len(q) + lead
  /\ \A k \in 1..Len(s) : InOrder(s, put, b, k)

LEMMA ShownProperties ==
  ASSUME NEW s \in Seq(Message), NEW b \in BOOLEAN, NEW k \in 0..Len(s)
  PROVE  /\ Cardinality(ShownIn(s, b, k)) \in Nat
         /\ k # 0 /\ Important(s[k]) = b => Cardinality(ShownIn(s, b, k)) >= 1
         /\ \A msg : ShownIn(Append(s, msg), b, k) = ShownIn(s, b, k)
<1>1. Len(s) \in Nat /\ k \in Nat
  BY LenProperties
<1>2. IsFiniteSet(ShownIn(s, b, k)) /\ Cardinality(ShownIn(s, b, k)) \in Nat
  <2>1. IsFiniteSet(1..k) /\ ShownIn(s, b, k) \subseteq 1..k
    BY <1>1, FS_Interval DEF ShownIn
  <2> QED BY <2>1, FS_Subset, FS_CardinalityType
<1>3. k # 0 /\ Important(s[k]) = b => Cardinality(ShownIn(s, b, k)) >= 1
  <2> SUFFICES ASSUME k # 0, Important(s[k]) = b PROVE Cardinality(ShownIn(s, b, k)) >= 1
    OBVIOUS
  <2>1. k \in ShownIn(s, b, k)
    BY <1>1 DEF ShownIn
  <2>2. Cardinality(ShownIn(s, b, k)) # 0
    BY <2>1, <1>2, FS_EmptySet
  <2> QED BY <2>2, <1>2
<1>4. ASSUME NEW msg PROVE ShownIn(Append(s, msg), b, k) = ShownIn(s, b, k)
  <2>1. \A j \in 1..k : Append(s, msg)[j] = s[j]
    BY <1>1
  <2> QED BY <2>1 DEF ShownIn
<1> QED BY <1>2, <1>3, <1>4

(* One more message is shown. *)
LEMMA ShownGrows ==
  ASSUME NEW s \in Seq(Message), NEW msg \in Message, NEW b \in BOOLEAN
  PROVE  /\ Append(s, msg) \in Seq(Message) /\ Len(s) \in Nat
         /\ Len(Append(s, msg)) = Len(s) + 1 /\ Append(s, msg)[Len(s) + 1] = msg
         /\ \A k \in 1..Len(s) : Append(s, msg)[k] = s[k]
         /\ Cardinality(ShownIn(Append(s, msg), b, Len(s) + 1)) =
              Cardinality(ShownIn(s, b, Len(s))) + (IF Important(msg) = b THEN 1 ELSE 0)
<1>1. PICK n : n = Len(s)
  OBVIOUS
<1>2. PICK t : t = Append(s, msg)
  OBVIOUS
<1>3. n \in Nat /\ t \in Seq(Message) /\ Len(t) = n + 1 /\ t[n + 1] = msg /\ \A k \in 1..n : t[k] = s[k]
  BY <1>1, <1>2, AppendHead
<1>4. PICK S : S = ShownIn(s, b, n)
  OBVIOUS
<1>5. Cardinality(S) \in Nat /\ IsFiniteSet(S) /\ n + 1 \notin S
  <2>1. IsFiniteSet(1..n) /\ S \subseteq 1..n
    BY <1>3, <1>4, FS_Interval DEF ShownIn
  <2>2. n + 1 \notin 1..n
    BY <1>3
  <2> QED BY <2>1, <2>2, FS_Subset, FS_CardinalityType
<1>6. CASE Important(msg) = b
  <2>1. ShownIn(t, b, n + 1) = S \cup {n + 1}
    <3>1. \A j : j \in 1..(n + 1) <=> (j \in 1..n \/ j = n + 1)
      BY <1>3
    <3> QED BY <3>1, <1>3, <1>4, <1>6 DEF ShownIn
  <2>2. Cardinality(S \cup {n + 1}) = Cardinality(S) + 1
    BY <1>5, FS_AddElement
  <2> QED BY <1>1, <1>2, <1>3, <1>4, <1>5, <1>6, <2>1, <2>2
<1>7. CASE Important(msg) # b
  <2>1. ShownIn(t, b, n + 1) = S
    <3>1. \A j : j \in 1..(n + 1) <=> (j \in 1..n \/ j = n + 1)
      BY <1>3
    <3> QED BY <3>1, <1>3, <1>4, <1>7 DEF ShownIn
  <2> QED BY <1>1, <1>2, <1>3, <1>4, <1>5, <1>7, <2>1
<1> QED BY <1>6, <1>7

(* A message is put into the queue. *)
LEMMA PutTallies ==
  ASSUME NEW s \in Seq(Message), NEW put \in Seq(Message), NEW q \in Seq(Message),
         NEW lead \in {0, 1}, NEW b \in BOOLEAN, Tallies(s, put, q, lead, b), NEW msg \in Message
  PROVE  Tallies(s, Append(put, msg), Append(q, msg), lead, b)
<1>1. PICK put1 : put1 = Append(put, msg)
  OBVIOUS
<1>2. PICK q1 : q1 = Append(q, msg)
  OBVIOUS
<1>3. PICK n, m : n = Len(put) /\ m = Len(q)
  OBVIOUS
<1>4. /\ n \in Nat /\ m \in Nat /\ Len(put1) = n + 1 /\ Len(q1) = m + 1
      /\ \A k \in 1..n : put1[k] = put[k]
      /\ \A k \in 1..m : q1[k] = q[k]
      /\ put1[n + 1] = msg /\ q1[m + 1] = msg
  BY <1>1, <1>2, <1>3, AppendHead
<1>5. /\ m <= n /\ \A k \in 1..m : q[k] = put[n - m + k]
      /\ Cardinality(ShownIn(s, b, Len(s))) = n - m + lead
  BY <1>3 DEF Tallies
<1>6. ASSUME NEW k \in 1..(m + 1) PROVE q1[k] = put1[(n + 1) - (m + 1) + k]
  <2>1. CASE k \in 1..m
    <3>3. n \in Nat /\ m \in Nat /\ m <= n /\ k \in 1..m
      BY <2>1, <1>4, <1>5
    <3>1. n - m + k \in 1..n /\ (n + 1) - (m + 1) + k = n - m + k
      BY <3>3
    <3>2. q1[k] = put[n - m + k]
      BY <2>1, <1>4, <1>5
    <3> QED BY <3>1, <3>2, <1>4
  <2>2. CASE k = m + 1
    <3>1. (n + 1) - (m + 1) + k = n + 1
      BY <2>2, <1>4
    <3> QED BY <3>1, <2>2, <1>4
  <2> QED BY <2>1, <2>2, <1>4
<1>7. ASSUME NEW k \in 1..Len(s), Important(s[k]) = b
      PROVE  /\ Cardinality(ShownIn(s, b, k)) <= n + 1
             /\ s[k] = Decrypted(put1[Cardinality(ShownIn(s, b, k))])
  <2>1. PICK j : j = Cardinality(ShownIn(s, b, k))
    OBVIOUS
  <2>2. j <= n /\ s[k] = Decrypted(put[j])
    BY <1>3, <1>7, <2>1 DEF Tallies, InOrder
  <2>3. k \in 0..Len(s) /\ k # 0
    BY LenProperties
  <2>4. j \in Nat /\ j >= 1
    BY <1>7, <2>1, <2>3, ShownProperties
  <2>5. j \in 1..n /\ j <= n + 1
    BY <1>4, <2>2, <2>4
  <2> QED BY <2>1, <2>2, <2>5, <1>4
<1>8. m + 1 <= n + 1 /\ (n + 1) - (m + 1) + lead = n - m + lead
  BY <1>4, <1>5
<1> QED BY <1>1, <1>2, <1>4, <1>5, <1>6, <1>7, <1>8 DEF Tallies, InOrder

(* The head of the queue is shown. *)
LEMMA ShowTallies ==
  ASSUME NEW s \in Seq(Message), NEW put \in Seq(Message), NEW q \in Seq(Message),
         NEW b \in BOOLEAN, Tallies(s, put, q, 0, b),
         NEW msg \in Message, q # <<>>, msg = Head(q), Important(msg) = b
  PROVE  Tallies(Append(s, Decrypted(msg)), put, q, 1, b)
<1>1. PICK shown : shown = Decrypted(msg)
  OBVIOUS
<1>2. shown \in Message /\ Important(shown) = b
  BY <1>1, DecryptedType DEF Important
<1>3. PICK s1 : s1 = Append(s, shown)
  OBVIOUS
<1>4. PICK l, n, m : l = Len(s) /\ n = Len(put) /\ m = Len(q)
  OBVIOUS
<1>5. l \in Nat /\ n \in Nat /\ m \in Nat \ {0}
  BY <1>4, LenProperties, EmptySeq
<1>6. /\ Len(s1) = l + 1 /\ s1[l + 1] = shown /\ \A k \in 1..l : s1[k] = s[k]
      /\ Cardinality(ShownIn(s1, b, l + 1)) = Cardinality(ShownIn(s, b, l)) + 1
  BY <1>2, <1>3, <1>4, ShownGrows
<1>7. /\ m <= n /\ \A k \in 1..m : q[k] = put[n - m + k]
      /\ Cardinality(ShownIn(s, b, l)) = n - m
  BY <1>4, <1>5 DEF Tallies
<1>8. msg = put[n - m + 1]
  <2>1. 1 \in 1..m /\ msg = q[1]
    BY <1>5
  <2> QED BY <2>1, <1>7
<1>9. ASSUME NEW k \in 1..(l + 1) PROVE InOrder(s1, put, b, k)
  <2>1. CASE k = l + 1
    <3>1. n - m + 1 <= n
      BY <1>5, <1>7
    <3>2. s1[k] = Decrypted(put[n - m + 1])
      BY <2>1, <1>1, <1>6, <1>8
    <3>3. Cardinality(ShownIn(s1, b, k)) = n - m + 1
      BY <2>1, <1>6, <1>7
    <3> QED BY <3>1, <3>2, <3>3, <1>4 DEF InOrder
  <2>2. CASE k # l + 1
    <3>1. k \in 1..l /\ k \in 0..l
      BY <2>2, <1>5
    <3>2. ShownIn(s1, b, k) = ShownIn(s, b, k) /\ s1[k] = s[k]
      BY <3>1, <1>3, <1>4, <1>6, ShownProperties
    <3>3. InOrder(s, put, b, k)
      BY <3>1, <1>4 DEF Tallies
    <3> QED BY <3>2, <3>3 DEF InOrder
  <2> QED BY <2>1, <2>2
<1> QED BY <1>1, <1>3, <1>4, <1>6, <1>7, <1>9 DEF Tallies

(* A message of the other queue is shown. *)
LEMMA OtherTallies ==
  ASSUME NEW s \in Seq(Message), NEW put \in Seq(Message), NEW q \in Seq(Message), NEW lead \in {0, 1},
         NEW b \in BOOLEAN, Tallies(s, put, q, lead, b),
         NEW msg \in Message, Important(msg) # b
  PROVE  Tallies(Append(s, msg), put, q, lead, b)
<1>1. PICK s1 : s1 = Append(s, msg)
  OBVIOUS
<1>2. PICK l : l = Len(s)
  OBVIOUS
<1>3. /\ l \in Nat /\ Len(s1) = l + 1 /\ s1[l + 1] = msg /\ \A k \in 1..l : s1[k] = s[k]
      /\ Cardinality(ShownIn(s1, b, l + 1)) = Cardinality(ShownIn(s, b, l)) + 0
  BY <1>1, <1>2, ShownGrows
<1>4. Cardinality(ShownIn(s, b, l)) \in Nat
  <2>1. l \in 0..Len(s)
    BY <1>2, <1>3
  <2> QED BY <2>1, ShownProperties
<1>5. ASSUME NEW k \in 1..(l + 1) PROVE InOrder(s1, put, b, k)
  <2>1. CASE k = l + 1
    BY <2>1, <1>3 DEF InOrder
  <2>2. CASE k # l + 1
    <3>1. k \in 1..l /\ k \in 0..l
      BY <2>2, <1>3
    <3>2. ShownIn(s1, b, k) = ShownIn(s, b, k) /\ s1[k] = s[k]
      BY <3>1, <1>1, <1>2, <1>3, ShownProperties
    <3>3. InOrder(s, put, b, k)
      BY <3>1, <1>2 DEF Tallies
    <3> QED BY <3>2, <3>3 DEF InOrder
  <2> QED BY <2>1, <2>2
<1> QED BY <1>1, <1>2, <1>3, <1>4, <1>5 DEF Tallies

(* The head that was shown is taken off. *)
LEMMA TailTallies ==
  ASSUME NEW s \in Seq(Message), NEW put \in Seq(Message), NEW q \in Seq(Message),
         NEW b \in BOOLEAN, Tallies(s, put, q, 1, b), q # <<>>
  PROVE  Tallies(s, put, Tail(q), 0, b)
<1>1. PICK q1 : q1 = Tail(q)
  OBVIOUS
<1>2. PICK n, m : n = Len(put) /\ m = Len(q)
  OBVIOUS
<1>3. /\ n \in Nat /\ m \in Nat \ {0} /\ Len(q1) = m - 1
      /\ \A k \in 1..(m - 1) : q1[k] = q[k + 1]
  BY <1>1, <1>2, LenProperties, EmptySeq, HeadTailProperties
<1>4. /\ m <= n /\ \A k \in 1..m : q[k] = put[n - m + k]
      /\ Cardinality(ShownIn(s, b, Len(s))) = n - m + 1
      /\ \A k \in 1..Len(s) : InOrder(s, put, b, k)
  BY <1>2 DEF Tallies
<1>5. ASSUME NEW k \in 1..(m - 1) PROVE q1[k] = put[n - (m - 1) + k]
  <2>1. k + 1 \in 1..m /\ n - m + (k + 1) = n - (m - 1) + k
    BY <1>3
  <2>2. q1[k] = put[n - m + (k + 1)]
    BY <2>1, <1>3, <1>4
  <2> QED BY <2>1, <2>2
<1>6. m - 1 <= n /\ n - (m - 1) + 0 = n - m + 1
  BY <1>3, <1>4
<1> QED BY <1>1, <1>2, <1>3, <1>4, <1>5, <1>6 DEF Tallies

(* Both queues tally: the message that is being broadcast, which is still  *)
(* the head of its queue, is shown as soon as the broadcast has gone past  *)
(* the leader's own slot, the first.                                       *)
Lead(b) == IF Casting /\ Important(cast.msg) = b /\ cast.i > 1 THEN 1 ELSE 0

QueueInv ==
  /\ \A b \in BOOLEAN : Tallies(printed[Leader], added[b], Queue(b), Lead(b), b)
  /\ cast.stage = "remove" => cast.i > 1

LEMMA QueueTypes ==
  ASSUME TypeInv
  PROVE  /\ printed[Leader] \in Seq(Message)
         /\ added \in [BOOLEAN -> Seq(Message)]
         /\ \A b \in BOOLEAN : Queue(b) \in Seq(Message) /\ Lead(b) \in {0, 1}
BY LeaderIsMachine DEF TypeInv, TypeOK, LeaderTypeOK, Queue, Lead

(* What neither broadcasts nor touches a queue. *)
LEMMA QueueKept ==
  ASSUME QueueInv, UNCHANGED <<added, important_queue, sequencer_queue>>,
         printed'[Leader] = printed[Leader],
         cast'.stage = "remove" => cast'.i > 1, \A b \in BOOLEAN : Lead(b)' = Lead(b)
  PROVE  QueueInv'
<1>1. \A b \in BOOLEAN : Queue(b)' = Queue(b)
  BY DEF Queue
<1> QED BY <1>1 DEF QueueInv

LEMMA QueueAdds ==
  ASSUME TypeInv, QueueInv, NEW t \in Thread, Add(t)
  PROVE  QueueInv'
<1>1. PICK msg : msg = draft[t].msg
  OBVIOUS
<1>2. msg \in Message /\ UNCHANGED <<cast, printed>>
  BY <1>1, DraftFields DEF Add, TypeInv
<1>3. \A b \in BOOLEAN : Lead(b)' = Lead(b)
  BY <1>2 DEF Lead, Casting, Important
<1>4. CASE UNCHANGED <<important_queue, sequencer_queue, added>>
  BY <1>2, <1>3, <1>4, QueueKept DEF QueueInv
<1>5. CASE Put(msg) /\ added' = Recorded(msg)
  <2>1. PICK a \in BOOLEAN : a = Important(msg)
    BY <1>2, MessageFields
  <2>2. /\ added'[a] = Append(added[a], msg)
        /\ \A b \in BOOLEAN : b # a => added'[b] = added[b]
    BY <1>5, <2>1, QueueTypes DEF Recorded
  <2>3. /\ Queue(a)' = Append(Queue(a), msg)
        /\ \A b \in BOOLEAN : b # a => Queue(b)' = Queue(b)
    BY <1>5, <2>1 DEF Put, Queue
  <2>4. ASSUME NEW b \in BOOLEAN
        PROVE  Tallies(printed'[Leader], added'[b], Queue(b)', Lead(b)', b)
    <3>1. Tallies(printed[Leader], added[b], Queue(b), Lead(b), b)
      BY DEF QueueInv
    <3>2. CASE b = a
      <4>1. Tallies(printed[Leader], Append(added[b], msg), Append(Queue(b), msg), Lead(b), b)
        <5>1. PICK s, put, q \in Seq(Message), lead \in {0, 1} :
                s = printed[Leader] /\ put = added[b] /\ q = Queue(b) /\ lead = Lead(b)
          BY QueueTypes
        <5>2. Tallies(s, Append(put, msg), Append(q, msg), lead, b)
          BY <5>1, <3>1, <1>2, PutTallies
        <5> QED BY <5>1, <5>2
      <4> QED BY <4>1, <3>2, <1>2, <1>3, <2>2, <2>3
    <3>3. CASE b # a
      BY <3>1, <3>3, <1>2, <1>3, <2>2, <2>3
    <3> QED BY <3>2, <3>3
  <2> QED BY <2>4, <1>2 DEF QueueInv
<1> QED BY <1>1, <1>4, <1>5 DEF Add

(* The broadcast begins: nobody has the message yet. *)
LEMMA QueueTakes ==
  ASSUME TypeInv, QueueInv, Take
  PROVE  QueueInv'
<1>1. UNCHANGED <<added, important_queue, sequencer_queue, printed>>
  BY DEF Take, queueVars
<1>2. \A b \in BOOLEAN : Lead(b) = 0
  BY DEF Take, TakeNotice, NoNotice, TakeLine, NoLine, Lead, Casting
<1>3. CASE cast'.stage \in {"important", "lines"}
  BY <1>1, <1>2, <1>3, QueueKept DEF Lead, Casting
<1>4. CASE cast'.stage = "next" /\ cast'.i = 1
  BY <1>1, <1>2, <1>4, QueueKept DEF Lead
<1> QED BY <1>3, <1>4 DEF Take, TakeNotice, NoNotice, TakeLine, NoLine, Start, Rest

(* The leader's own slot is the first, and no other is the leader's.       *)
LEMMA LeaderFirst ==
  ASSUME TypeInv, MemberInv
  PROVE  1 \in DOMAIN slots /\ \A i \in DOMAIN slots : slots[i].id = Leader <=> i = 1
<1>1. 1 \in DOMAIN slots /\ slots[1].id = Leader
  BY SlotFields, EmptySeq DEF TypeInv, HeadInv
<1> QED BY <1>1 DEF MemberInv, OneSlotEach

LEMMA QueueShows ==
  ASSUME TypeInv, MemberInv, QueueInv, PrintOwn
  PROVE  QueueInv'
<1>1. /\ Casting /\ Casting' /\ cast'.msg = cast.msg /\ cast'.stage = "next"
      /\ cast'.i = cast.i + 1 /\ cast.msg \in Message
  BY ToNextSlotType DEF PrintOwn, TypeInv
<1>2. cast.i = 1
  BY LeaderFirst DEF PrintOwn, AtSlot, SlotId
<1>3. PICK msg \in Message : msg = cast.msg
  BY <1>1
<1>4. PICK shown : shown = Decrypted(msg)
  OBVIOUS
<1>5. PICK a \in BOOLEAN : a = Important(msg)
  BY MessageFields
<1>6. shown \in Message /\ Important(shown) = a
  BY <1>4, <1>5, DecryptedType DEF Important
<1>7. /\ UNCHANGED <<added, important_queue, sequencer_queue>>
      /\ printed'[Leader] = Append(printed[Leader], shown)
  BY <1>3, <1>4, LeaderIsMachine DEF PrintOwn, queueVars, TypeInv, TypeOK, LeaderTypeOK
<1>8. \A b \in BOOLEAN : Lead(b) = 0 /\ Lead(b)' = IF b = a THEN 1 ELSE 0
  BY <1>1, <1>2, <1>3, <1>5 DEF Lead, Important
<1>9. ASSUME NEW b \in BOOLEAN
      PROVE  Tallies(printed'[Leader], added'[b], Queue(b)', Lead(b)', b)
  <2>1. Queue(b)' = Queue(b) /\ added'[b] = added[b]
    BY <1>7 DEF Queue
  <2>2. Tallies(printed[Leader], added[b], Queue(b), 0, b)
    BY <1>8 DEF QueueInv
  <2>3. CASE b = a
    <3>1. Queue(b) # <<>> /\ msg = Head(Queue(b))
      BY <2>3, <1>1, <1>3, <1>5 DEF TypeInv, HeadInv
    <3>2. Tallies(Append(printed[Leader], Decrypted(msg)), added[b], Queue(b), 1, b)
      BY <2>2, <2>3, <3>1, <1>5, QueueTypes, ShowTallies
    <3> QED BY <3>2, <2>1, <2>3, <1>4, <1>7, <1>8
  <2>4. CASE b # a
    <3>1. Tallies(Append(printed[Leader], shown), added[b], Queue(b), 0, b)
      BY <2>2, <2>4, <1>6, QueueTypes, OtherTallies
    <3> QED BY <3>1, <2>1, <2>4, <1>7, <1>8
  <2> QED BY <2>3, <2>4
<1> QED BY <1>1, <1>9 DEF QueueInv

LEMMA QueueSends ==
  ASSUME TypeInv, MemberInv, QueueInv, SkipJoiner \/ SendToMember \/ BroadcastEnd
  PROVE  QueueInv'
<1>1. UNCHANGED <<added, important_queue, sequencer_queue, printed>>
  BY DEF SkipJoiner, SendToMember, BroadcastEnd, queueVars
<1>2. Casting /\ cast.stage = "next" /\ cast.i \in Nat \ {0} /\ cast.i # 1
  <2>1. Casting /\ cast.stage = "next"
    BY DEF SkipJoiner, SendToMember, BroadcastEnd, AtSlot, Casting
  <2>2. cast.i # 1
    BY LeaderFirst DEF SkipJoiner, SendToMember, BroadcastEnd, AtSlot, SlotId
  <2> QED BY <2>1, <2>2, CastFields DEF TypeInv
<1>3. Casting' /\ cast'.msg = cast.msg /\ cast'.i >= cast.i /\ cast'.i \in Nat
  <2>1. CASE SkipJoiner \/ SendToMember
    BY <1>2, <2>1, ToNextSlotType DEF SkipJoiner, SendToMember, TypeInv
  <2>2. CASE BroadcastEnd
    <3>1. cast = [stage |-> cast.stage, msg |-> cast.msg, i |-> cast.i]
      BY <1>2, CastFields DEF TypeInv
    <3>2. cast' = [stage |-> "remove", msg |-> cast.msg, i |-> cast.i]
      BY <2>2, <3>1 DEF BroadcastEnd
    <3> QED BY <1>2, <3>2 DEF Casting
  <2> QED BY <2>1, <2>2
<1>4. cast.i > 1 /\ cast'.i > 1
  BY <1>2, <1>3
<1>5. \A b \in BOOLEAN : Lead(b)' = Lead(b)
  BY <1>2, <1>3, <1>4 DEF Lead, Important
<1> QED BY <1>1, <1>4, <1>5, QueueKept

LEMMA QueueRemoves ==
  ASSUME TypeInv, QueueInv, RemoveSent
  PROVE  QueueInv'
<1>1. Casting /\ cast.msg \in Message /\ cast.i > 1 /\ UNCHANGED <<added, printed>>
  BY CastFields DEF RemoveSent, Casting, TypeInv, QueueInv
<1>2. PICK a \in BOOLEAN : a = Important(cast.msg)
  BY <1>1, MessageFields
<1>3. \A b \in BOOLEAN : Lead(b) = (IF b = a THEN 1 ELSE 0) /\ Lead(b)' = 0
  BY <1>1, <1>2 DEF Lead, RemoveSent, Rest, Casting
<1>4. /\ Queue(a)' = Tail(Queue(a))
      /\ \A b \in BOOLEAN : b # a => Queue(b)' = Queue(b)
  BY <1>2 DEF RemoveSent, Unqueue, Queue
<1>5. ASSUME NEW b \in BOOLEAN
      PROVE  Tallies(printed'[Leader], added'[b], Queue(b)', Lead(b)', b)
  <2>1. Tallies(printed[Leader], added[b], Queue(b), Lead(b), b)
    BY DEF QueueInv
  <2>2. CASE b = a
    <3>1. Queue(b) # <<>>
      BY <2>2, <1>1, <1>2 DEF TypeInv, HeadInv
    <3>2. Tallies(printed[Leader], added[b], Queue(b), 1, b)
      BY <2>1, <2>2, <1>3
    <3>3. Tallies(printed[Leader], added[b], Tail(Queue(b)), 0, b)
      BY <3>1, <3>2, QueueTypes, TailTallies
    <3> QED BY <3>3, <2>2, <1>1, <1>3, <1>4
  <2>3. CASE b # a
    BY <2>1, <2>3, <1>1, <1>3, <1>4
  <2> QED BY <2>2, <2>3
<1>6. cast'.stage # "remove"
  BY DEF RemoveSent, Rest
<1> QED BY <1>5, <1>6 DEF QueueInv

LEMMA QueueStep == TypeInv /\ MemberInv /\ QueueInv /\ [Next]_vars => QueueInv'
<1> SUFFICES ASSUME TypeInv, MemberInv, QueueInv, [Next]_vars PROVE QueueInv'
  OBVIOUS
<1>1. ASSUME UNCHANGED <<added, important_queue, sequencer_queue, cast>>,
             printed'[Leader] = printed[Leader]
      PROVE  QueueInv'
  BY <1>1, QueueKept DEF QueueInv, Lead, Casting, Important
<1>2. CASE TypeLine \/ StampJoin \/ EnterJoiner \/ AnswerJoiner \/ StampLine
             \/ DeclareDead \/ RemoveDeparted
  BY <1>1, <1>2 DEF TypeLine, StampJoin, EnterJoiner, AnswerJoiner, StampLine, DeclareDead,
                    RemoveDeparted, queueVars
<1>3. CASE \E t \in Thread : Load(t) \/ Count(t)
  BY <1>1, <1>3 DEF Load, Count, queueVars
<1>4. ASSUME NEW c \in Clients,
             \/ AskToJoin(c) \/ EnterChat(c) \/ TypeClientLine(c) \/ SendLine(c)
             \/ LineReceived(c) \/ Deliver(c) \/ PrintNext(c) \/ PacingStep(c)
      PROVE  QueueInv'
  <2>1. UNCHANGED <<added, important_queue, sequencer_queue, cast>>
    BY <1>4 DEF AskToJoin, EnterChat, TypeClientLine, SendLine, LineReceived, Deliver,
                PrintNext, PacingStep, leaderVars, queueVars
  <2>2. printed'[Leader] = printed[Leader]
    <3>1. CASE PrintNext(c)
      <4>1. PICK i \in DOMAIN client_queue[c] : Shows(c, i)
        BY <3>1, PrintNextProperties
      <4> QED BY <4>1, LeaderIsMachine, LeaderAssumption DEF Shows, TypeInv, TypeOK, LeaderTypeOK
    <3>2. CASE ~PrintNext(c)
      BY <1>4, <3>2 DEF AskToJoin, EnterChat, TypeClientLine, SendLine, LineReceived, Deliver,
                        PacingStep
    <3> QED BY <3>1, <3>2
  <2> QED BY <1>1, <2>1, <2>2
<1>5. CASE UNCHANGED <<leaderVars, printed>>
  BY <1>1, <1>5 DEF leaderVars, queueVars
<1>6. CASE Lose
  BY <1>5, <1>6 DEF Lose
<1>7. CASE UNCHANGED vars
  BY <1>5, <1>7 DEF vars
<1> QED BY <1>2, <1>3, <1>4, <1>5, <1>6, <1>7, NextSteps, QueueAdds, QueueTakes, QueueShows,
           QueueSends, QueueRemoves

LEMMA QueueInit == Init => QueueInv
<1> SUFFICES ASSUME Init PROVE QueueInv
  OBVIOUS
<1>1. /\ printed[Leader] = <<>> /\ cast.stage = "important"
      /\ \A b \in BOOLEAN : added[b] = <<>> /\ Queue(b) = <<>>
  BY LeaderIsMachine DEF Init, LeaderInit, Queue
<1>2. \A b \in BOOLEAN : Lead(b) = 0
  BY <1>1 DEF Lead, Casting
<1>3. \A b \in BOOLEAN : Tallies(<<>>, <<>>, <<>>, 0, b)
  <2>1. Len(<<>>) = 0 /\ 1..0 = {}
    OBVIOUS
  <2>2. \A b \in BOOLEAN : Cardinality(ShownIn(<<>>, b, 0)) = 0
    BY <2>1, FS_EmptySet DEF ShownIn
  <2> QED BY <2>1, <2>2 DEF Tallies
<1> QED BY <1>1, <1>2, <1>3 DEF QueueInv

(* What the leader shows of each queue is what was put into it, in that    *)
(* order, whatever the other queue and its threads do: the n-th message    *)
(* shown of a kind is the n-th queued, the head removed is the head that   *)
(* was broadcast (sequencer.c:379-390).                                    *)
THEOREM EachQueueInOrderAlways == Spec => []EachQueueInOrder
<1>1. TypeInv /\ QueueInv => EachQueueInOrder
  <2> SUFFICES ASSUME TypeInv, QueueInv, NEW k \in DOMAIN printed[Leader]
               PROVE  LET msg == printed[Leader][k]
                          put == added[Important(msg)]
                          n == Cardinality(ShownOf(Important(msg), k))
                      IN  n <= Len(put) /\ msg = Decrypted(put[n])
    BY DEF EachQueueInOrder
  <2>1. PICK msg : msg = printed[Leader][k]
    OBVIOUS
  <2>2. k \in 1..Len(printed[Leader]) /\ msg \in Message
    BY <2>1, QueueTypes, LenProperties, ElementOfSeq
  <2>3. PICK b \in BOOLEAN : b = Important(msg)
    BY <2>2, MessageFields
  <2>4. InOrder(printed[Leader], added[b], b, k)
    BY <2>2 DEF QueueInv, Tallies
  <2>5. ShownOf(b, k) = ShownIn(printed[Leader], b, k)
    BY DEF ShownOf, ShownIn
  <2> QED BY <2>1, <2>3, <2>4, <2>5 DEF InOrder
<1> QED BY <1>1, QueueInit, QueueStep, MemberInvariant, TypeInvariant, PTL DEF Spec
=============================================================================
