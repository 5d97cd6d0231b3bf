# The Void: a verification project

TLA+ specifications, model-checking runs and machine-checked proofs for the
distributed chat in `src/src` (`dchat.c`, `util.c`, `sequencer.c`, `client.c`)
and of its extended version in `src/extra_credit_src`. Sources are quoted as
`file:line` of `src/src`, in Traffic, Priority and Extra of
`src/extra_credit_src`, unless a path is given.

## 1. The system

A chat has one leader (the *sequencer*) and clients. A client sends what its
user types to the leader; the leader numbers every message and broadcasts it to
all members; every member shows the messages in the order of the numbers. When
the leader dies the clients elect a new one. All communication is UDP.

| component | state | operations | hard behaviour | what makes it correct |
|---|---|---|---|---|
| table of members (`util.c`) | `others`, `chat_size` of each machine | `add_client`, `remove_client_*`, `remove_leader`, `update_clients` | changed by one thread while another walks it | tables agree when nothing is on its way; the dead leader leaves them |
| linked list (`util.c`) | nodes, `head`, `length` | `addElement`, `getElement`, `removeElement` | the remover reads without the lock while others add | the list is the sequence of what was added and not removed; the remover reads only nodes of the list |
| sequencer (`sequencer.c`) | `currentSequenceNum`, `sequencer_queue`, the broadcast under way | the leader's input, `parse_incoming_seq`, `broadcast_message`, `sequencer_send_queue` | three threads read the number outside the lock; the table changes under the broadcast; late and lost acknowledgements | consecutive numbers; every member gets every message |
| heartbeats of the leader (`sequencer.c`) | counters in the table, position of `send_hb` | `send_hb`, `recv_hb` | removal in the middle of a broadcast or of its own loop; false suspicion | who left is gone from every table |
| client (`client.c`) | `client_queue`, `outgoing_queue`, `temp_queue`, `latestSequenceNum`, `sendSeqNum` | join, `user_input`, `send_out_input`, `client_listen`, `sortAndPrint`, `recv_clnt_hb` | reordering, duplicates, loss, a blocking request, resending | screens are stretches of one order; no typed line is forgotten |
| election (`client.c`) | `hold_election`, two locks, `client_trigger` | `check_hb`, `elect_leader`, `client_listen` on ELECTION_REQ and NEWLEADER, transformation | two threads read one socket; locks unlocked by others; crash in the middle of a broadcast | somebody leads, the highest port does, threads resume |
| program start (`dchat.c`), terminal output | – | argument parsing, addresses, formatting | – | not modelled |
| extra credit: cipher | the content of every message in a queue or datagram | the producers, `msg_request`, `parse_incoming_seq`, `broadcast_message`, `sortAndPrint` | one node is sent, kept, shown and sent again | ciphered once on every way, plain on every screen |
| extra credit: priority | `important_queue` beside `sequencer_queue` | `sequencer_send_queue` | four threads, no lock; numbers leave out of order | a notice is overtaken by one line at most; each queue is shown in its order |
| extra credit: traffic control | per member `msg_times`, `last_time`, `slow_factor`; the client's `slow_factor` | `traffic_control`, CTRL_SLOW, CTRL_STOP, the wait of `send_out_input` | CTRL datagrams lost or overtaken; MSG_RES before the time is taken; a sender that is no longer listed | everyone pays for its own lines; leader and client agree about the pace; who waits is let go |

Interaction: clients and leader only exchange datagrams; the threads of one
process share its queues (under `msg_queue_lock`, but read without it), its
table (no lock) and the numbers (written under the lock, read without it).

The hazards this leads to are listed in `PROJECT.json` at the lines where they
bite, each with the properties that watch it or the reason why none does.

## 2. The modules

```
Machines   util.c: tables, messages, screens
 └ Wire    external: UDP
    ├ Sequencer ─ Heartbeat ┐
    ├ Client ───────────────┴ Chat ─ ChatOrder (refines TotalOrder) ─ MCChat
    │                           └─── ChatTypes ─ ChatProofs ┬ OrderProofs (with ChatOrder)
    │                                            (theorems) └ LineProofs
    └ Election ─ MCElection
        └────── ElectionProofs (theorems)
LinkedList ─ LinkedListProofs (theorems)
Traffic ─ Priority ─ Extra ─ MCExtra    extra_credit_src
                      └─── ExtraProofs (theorems)
TotalOrder abstract specification
SeqLemmas  lemmas about sequences, used by the proofs
```

**Machines.** A machine (name, address, port) is one value. A table is a
sequence of entries; `missed` is `send_count - recv_count`, all the code ever
looks at. A line or notice carries whose it is and the how-many-th, instead of
its text. `RemoveClient` takes out the first entry that fits, as the C loops do.

**Wire.** Datagrams in flight are a set, received in any order. `MaxFaults`
bounds how many datagrams are lost and how many receive timeouts expire although
the awaited datagram is still on its way, together. A broadcast datagram carries
the number of its transmission, so duplicates by retransmission are distinct.

**Sequencer.** Each of the three threads that queue messages has a `draft`: the
message with the number it copied (`Stamped`, lines 105, 127, 164, 313),
followed in a later step by `Enqueue`, the four locked lines. A JOIN_REQ takes
four steps: `StampJoin`, `EnterJoiner`, `Enqueue`, `AnswerJoiner`, because the
number in the answer is one more unlocked read. A broadcast goes slot by slot
through the live table; `cast` holds the index, the member it waits for and the
count of timeouts. `order` and `cast.served` are history variables.

**Heartbeat.** `send_hb` slot by slot, with the beat, the count, the notice and
the removal as separate steps; a removal goes on one slot further, past the
member that moved up, as in the code.

**Client.** `PrintNext` is one round of `sortAndPrint` that finds the next
number: it ages `temp_queue`, takes the first entry that is the line shown or is
too old (the scan of the code stops there, `n = temp_queue->length`), prints and
removes. It is one step because the printer is the only remover of both queues
and what others add in between lies behind what it reads (`LinkedList` shows
this). `SendLine` and `LineReceived` are the two ends of the blocking
`msg_request`.

**Chat.** The composition under the first leader, and its properties.

**TotalOrder, ChatOrder.** The promise to the members: one list, and every
screen is a stretch of it. `ChatOrder` maps `order` to the list and
`latestSequenceNum + 1 - Len(printed)` to the place where a client came in. The
mapping holds as long as one thread stamps (no line of the leader's user, nobody
declared dead); with more, `FreshStamps` fails and so does the promise.

**Election.** Machines are their ports here. `at` tells where each thread of
each client is; `TestHold`/`TakeElectionLock` and `ElectTest`/`TakeNoElectionLock`
are the `while (...) pthread_mutex_lock(...)` loops, with a lock as a flag that
any thread may clear. Beats are abstracted to "a running leader lists me"
(`Beaten`). The first leader broadcasts up to `MaxLines` lines, each to at most
`MaxReached` of the clients (it gives up on the others, or ends in the middle of
the broadcast), for as long as it lives, so a client may be any number of lines
behind when it dies. `UnsetMatches` says whether the sequence number that
ELECTION_REQ and ACK leave uninitialised may happen to be the one expected next.
What `elect_leader` does when it wins is five steps, with the client's other
threads in between: the test (`Decide`, line 540), `client_trigger`
(`Claim`, 543-546), the mark in the table (`Mark`, 547-554), NEWLEADER with the
table and the number as they are then (`WriteResult`, 558-560, into
`election_result`), and the sending, with a second read of the number
(`Announce`, 561-579, `NumberToGoOn`). `crossed` is a history variable: has a
listener ever taken over a table between the test and the end of the marking?

**LinkedList.** Nodes are addresses, `next` is memory, every write of the list
that the unlocked reader can see is a step of its own. `queue` is a history
variable: what the list should hold.

**Traffic.** `traffic_control` and the client's side of it. Time is counted in
the seconds of the leader's `time(0)`: `since` is the age of `*last_time`,
`Second` (in Extra) makes everyone a second older and counts down the waits. It
may fall anywhere, into a handler of the leader's listener too, any number of
times. The clients' clocks go at the same rate but not in phase, so a wait of
`SlowFactor` seconds spans that many ticks of the leader's clock or one less
(`BeginWait`). `held` (history) counts the seconds of a wait that passed before
the leader took the time of the line the wait follows. The search for the sender
ends on the last member when it is not listed (`ChargedSlot`), as in the code.
`told` and `handled` are history variables, and so are `heard`, `strangers`, and
the `paced` and `held` of a sender and the `paced` of its datagram.

**Priority.** The leader of `extra_credit_src`. `addElement` and
`currentSequenceNum++` run without a lock, so each thread has a draft that goes
through numbering, adding, counting one step at a time; when two threads are at
the same queue, a node may be lost (`Disturbed`). The increment is a load and a
store (`Load`, `Count`): a thread that is held up between the two sets the
number back to an old value.
Two unlocked writers can also leave a broken list behind and end the process;
the model leaves those outcomes out, so it shows what holds while the process
lives. `layers` is how often 7 was added to the content.

**Extra.** The clients as far as the three features change them, and the
composition. Their queues have no lock either: what one thread adds may be lost
while another is at the same queue (`Added`, with `Typing`, `Sending`,
`Printing`). The clients' tables, answers to beats, acknowledgements and
resending of broadcasts, and elections are the code of `src/src` and left to
Sequencer, Heartbeat, Client and Election: here a broadcast goes on when it
likes and a member is declared dead at any time, which covers every timing of
these. **MCExtra** names the settings that the run covers. A behaviour chooses
its setting at the start (`bounds`), so that one run covers instances which
together would be too large: lines with time, a full window, a departure, and
the pairs of threads that meet in the queues.

## 3. Runs

Deadlock is not checked in any run: inputs are bounded (lines, joins, rounds), so
a chat goes quiet when they are used up. That something goes on is what the
liveness properties say.

| run | instance | shows |
|---|---|---|
| `members` | 2 clients (symmetric), 1 line each, 1 fault (a loss or an early timeout) | NothingMissing, JoinerBeyondOwnNotice, ScreenInOrder, Agreement, ViewsAgree, NoLineForgotten, SendingIsHead, BroadcastReachesAllStaying; refinement of TotalOrder |
| `stampers` | leader's line, 1 client with 1 line that may end, `Patience` 0, 1 round of beats | TypeOK, Numbered, StampNotAhead, LeaderShowsOrder, CastIsHead: all three threads stamp |
| `live` | 2 clients, 1 line each, no fault, fairness | TypedComesBack, EveryMemberShowsAll |
| `tables` | ports 1, 2, 3; leader 1 ends at any time; a line, broadcast to a client or none, or 1 fault | TypeOK, OneLeaderListed, DeadLeaderUnlisted |
| `followed` | ports 1, 2, 3; leader 1 ends; no line, no fault, fairness | FollowedEventually |
| `linked_list` | 4 nodes, 2 adders, the remover | ChainIsQueue, LengthNotAhead, HoldsItsNode, AllocatedInUse |
| `extra` | 2 clients, 7 settings (MCExtra), window of 2 | TypeOK, PlainOnlyOnScreens, NoticeOvertakenOnce, EachQueueInOrder, ScreenByNumber, SlowFitsTimes, PaysForOwnLines, PaceAgreed, WaitedLinesSpaced |
| `stamp_race` | 1 client, 1 line of the leader | FreshStamps is violated |
| `departed` | 2 clients, one ends | DepartedUnlisted is violated |
| `lost_line` | 2 clients, 1 loss, fairness | AddedBackIsShown is violated |
| `two_leaders` | ports 1, 2, 3, no fault | HighestPortLeads is violated |
| `stuck` | ports 1, 2, 3, no fault, fairness | ThreadsResume is violated |

Bounds. Two clients are enough for the broadcast to be between two members, for
a member to join during it, for an acknowledgement to be taken for another's and
for two clients to disagree; one line each makes the answers, the broadcasts and
a resend cross (`ResendAfter` 1 stands for 1000: a resend after two messages
shown). One fault gives a lost or duplicated datagram at any place. `Patience` 0
or 1 stands for 3: a member is declared dead after one or two unanswered beats.
Where a fault makes the promise void the property says so (`lost = 0`), and an
early timeout, which loses nothing, stays covered. Two clients give an election
both a winner and a loser. In `tables` the line brings `PrintFails` about (a
client that is behind shows NEWLEADER and ends), numbers that differ and late
lines; the constraint `OneDisturbance` (in MCElection) allows either that line
or a fault, since both together, or a line to both clients, take TLC too long
(the theorems cover all of them). In `extra`, a window of 2 stands for 10
(setting `Burst` fills it with 3 lines), the wait is the code's 3 seconds, and
seconds beyond `gap` are not counted: 3 is both the wait and more than the
threshold of 1.5. `ResendAfter` 0 stands for 1000: a line is sent again as soon
as one other message is shown first (setting `Lines`), and `requests` bounds how
often a client sends, since a line that was sent twice may be resent forever.
`MaxChatSize` plays no part in the state: the code
never compares it.

What the properties mean:

* *NothingMissing*: while nobody is removed, and no datagram is lost or at most
  three are lost and no timeout is early (four transmissions: one arrives), each
  message a client still waits for is in the leader's queue, in the network or in
  the client's queue, or will still be transmitted. It is what makes the answer to a join, the unlocked reads
  and the live iteration over the table fit together.
* *JoinerBeyondOwnNotice*: a joiner is told a number behind its own notice, which
  is never sent to it.
* *Agreement*, *ScreenInOrder*, *ImplementsTotalOrder*: total order, from the
  members' screens.
* *ViewsAgree*: tables agree once all notices have arrived.
* *NoLineForgotten*, *SendingIsHead*: a typed line is in a queue or on the screen
  at all times; the line removed after the answer is the line that was sent.
* *Numbered*, *StampNotAhead*, *CastIsHead*, *LeaderShowsOrder*: what the locked
  part guarantees although the copies are taken outside it.
* *BroadcastReachesAllStaying*: nobody is passed over while nobody is removed.
  A removal in front of the broadcast's index does move a member past it
  (`sequencer.c:195`, `util.c:148`), which is why the property is about chats
  without departures.
* *OneLeaderListed*: nothing leads to a table with two leaders, except that a
  client's listener takes over a table between the client's test of line 540 and
  its mark of line 552. In that race the code does list two leaders, with three
  clients: after leader 1, client 4 announces [2, 3, 4L]; client 3, past its
  test of `hold_election`, takes it, removes 4 and announces [2, 3L]; client 2
  takes that, removes 3, finds itself the highest of [2], takes [2, 3, 4L] and
  marks itself in it: [2L, 3, 4L]. (`HighestPortLeads`, violated in
  `two_leaders`, is the first half of it.) With two clients the race does not
  occur: in `tables` `crossed` stays FALSE, and the run shows the property
  without the exception.
* *DeadLeaderUnlisted*: a client that follows another leader than the first, or
  leads, has removed the first one from its table, also in the race above. The
  new leader would otherwise broadcast to it and wait for it with every message.
* There is no property about the numbers at an election: a follower takes over
  the new leader's table, not its number (`client.c:305`), and what it expects
  next may be off by as many lines as it or the new leader missed.
* *FollowedEventually*: see its comment in `Election`.
* *PlainOnlyOnScreens*, *ScreenByNumber*, *EachQueueInOrder*,
  *NoticeOvertakenOnce*: the extended chat shows the same screens although its
  messages travel ciphered, through two queues, without a lock. The cipher is
  checked for lines and broadcasts; CTRL messages (`sequencer.c:335`) and the
  answer that redirects a joiner (`client.c:272`) travel plain, as the code has
  it. The leader shows
  its broadcasts as they go out, so its own screen is not in the order of the
  numbers, its members' are: an order across all screens is no property here.
* *SlowFitsTimes*, *PaysForOwnLines*, *PaceAgreed*, *WaitedLinesSpaced*: the
  measurement, the decision, its transport and its effect. WaitedLinesSpaced says
  that the measured gap falls short of the wait by one second at most, plus the
  seconds of the wait that the leader spent between MSG_RES, which starts the
  wait, and its taking of the time (`held`). With a wait of 3 and a leader that
  spends none, 2 are left, above the threshold of 1.5; a leader that is held up
  for a second there may keep a member slowed that does wait. PaceAgreed is about
  clients that carried out the last CTRL message last; without that it is false,
  as nothing repeats or orders these messages. PaysForOwnLines and
  WaitedLinesSpaced are about chats in which no removed machine went on sending
  (`strangers`): its line is charged to the last member of the table.

## 4. Fairness

`Chat!Fairness` is weak fairness of each thread: the leader's input, listener and
broadcast, the enqueueing half of `send_hb`, and each client's join, sender,
listener and printer. The operating system schedules every thread, and none of
these steps can be disabled by another thread once it is possible and then be
possible again without end. Nobody has to type, join or leave, and the network
does not have to lose anything.

`Election!Fairness` has weak fairness of each client's threads; weak fairness of
receiving NEWLEADER by whichever thread reads the socket, because the socket is
a queue and the datagrams before it are consumed; and strong fairness of
`Suspect`, because `check_hb` counts every three seconds, so beats that stay
away are noticed however often it looked before.

## 5. What the code does not keep

The five violated properties are quotations of the documentation that the code
does not keep; `PROJECT.json` gives line and quotation of each.

* Two threads of the leader copy the same number: one message is never shown and
  the clients wait for the next number forever (`stamp_race`).
* The notice of a departure makes clients remove the leader from their tables
  and keep the departed member (`departed`).
* A lost request stops the client's sender for good (`lost_line`).
* A client that receives NEWLEADER in its listener while its election thread is
  already running claims to be the leader too (`two_leaders`).
* A thread suspended by an election may keep the lock the listener waits for
  (`stuck`).

## 6. Theorems

All theorems hold for every number of clients, lines, rounds and faults. They
assume only what the modules assume: the leader is not a client, the bounds are
natural numbers, the clients that may end are clients; for the election also that
ports are natural numbers and the clients finitely many. Each rests on an
inductive invariant, and each proof has one lemma or step per action.

**The leader** (`ChatTypes`, `ChatProofs`).

* `TypeCorrect`, `CastIsHeadAlways`, `NumberedAlways`, `StampNotAheadAlways`:
  `Spec => []P` for `TypeOK`, `CastIsHead`, `Numbered`, `StampNotAhead`
* `BroadcastReachesAllStayingAlways`: `Spec => BroadcastReachesAllStaying`

`TypeOK` alone is not inductive: `BroadcastEnd` takes the tail of
`sequencer_queue`, which is a sequence of nodes only if the queue is not empty.
The same holds of `LineReceived` and `outgoing_queue`. The inductive invariant
`TypeInv` therefore joins `TypeOK` with `CastIsHead` (while a broadcast is under
way `sequencer_queue` is not empty) and `SendingHasHead` (a client whose
`send_out_input` waits for an answer has a line at the head of
`outgoing_queue`). `NumberInv` adds `Numbered` and `StampNotAhead`: the
consecutive numbers need `currentSequenceNum = Len(order)`, and that a queued
stamp is not ahead follows from the draft's stamp not being ahead of the
counter, which only grows. For the broadcast, `VisitInv` says that every slot in
front of the index has been served (`SlotsServed`) and that whoever is removed
has had its notice queued before (`NoticeFirst`): so without a notice nobody was
removed, and the index never jumps.

**The screens** (`ChatProofs`).

* `ScreenInOrderAlways`: `Spec => []ScreenInOrder`
* `LeaderShowsOrderAlways`: `Spec => []LeaderShowsOrder`

`ScreenInv` says that whatever is in the network or in a `client_queue` is a
message of `order`, with its number: retransmissions and late copies add nothing
new. `LeaderInv` says that the first entry of the leader's table is the leader
(`LeaderFirst`), that `send_hb` is never at it with a beat or a removal
(`BeatsMember`), and that what is shown is what has been broadcast
(`ShownSoFar`): a broadcast passes the first slot exactly once.

**The order** (`OrderProofs`).

* `JoinerBeyondOwnNoticeAlways`: `Spec => []JoinerBeyondOwnNotice`
* `AgreementWhileFresh`: `Spec => [](FreshStamps => Agreement)`
* `TotalOrderWhileFresh`: `Spec /\ []FreshStamps => ImplementsTotalOrder`
* `TotalOrderOfOneStamper`: `ListenerAlone /\ Spec => ImplementsTotalOrder`

The number a joiner is told is read after its notice is queued; that it is also
behind every *other* notice about it needs that it joins only once. `JoinInv`
follows its request: at any time it is in one place, a request, the listener's
draft or an answer (`OneToken`), no notice about a client exists before that
(`NoticeBefore`), only the listener makes such notices (`OnlyListener`), and the
number in an answer is behind the notice (`AnswersKnown`). `FreshStamps` is the
only condition under which the chat has the total order it promises: two threads
that copy the same number are the one way to lose it. Where one thread stamps
(`ListenerAlone`: no line of the leader's user, no round of beats) it is no
condition at all, because the copy is the number given out (`StampInv`). The
refinement needs both `ScreenInv` and `JoinInv`: a screen begins behind the
place where its owner came in.

**What arrives** (`OrderProofs`, second part).

* `NothingMissingAlways`: `Spec => []NothingMissing`
* `ViewsAgreeAlways`: `Spec => []ViewsAgree`

Neither property is inductive, and they need each other's invariant: a member
gets a broadcast because it is in the leader's table, and knows the table because
it got the notices. `ReachInv` says of everyone who is in the chat, *or whose
answer is still on its way*, that each message of `order` is on its way to it
(`OnWay`: to be sent, travelling, or about to be sent again) or held (`Held`:
received, or older than the number it was told, and the member it is about known
to it). `Noticed` says that the leader's table is made of the members there is a
notice about, `Calm` that with less than three losses and no early timeout there
is at most one broadcast datagram or acknowledgement under way and each
repetition has cost a loss. That gives the bound: three losses leave one of the
four transmissions, so `broadcast_message` moves on too early only after a fourth
loss or an early timeout.

**The client's lines** (`LineProofs`).

* `SendingIsHeadAlways`: `Spec => []SendingIsHead`
* `NoLineForgottenAlways`: `Spec => []NoLineForgotten`

A client recognises its line by `about` and `sender_seq` alone, so a wrong match
would drop a line that never came back. `SelfInv` says that a client is never
sent the notice of its own joining, whose `sender_seq` is 0, and `ToldInv` that
every line of a client in a request, a draft or the order carries a `sender_seq`
the client has given out, with the text that `temp_queue` holds under it
(`ToldHeld`). With them `KeptInv`, the two properties together, is inductive.

**The list** (`LinkedListProofs`), for every set of nodes and of adding threads.

* `ListTypeCorrect`, `ChainIsQueueAlways`, `LengthNotAheadAlways`,
  `HoldsItsNodeAlways`, `AllocatedInUseAlways`: `Spec => []P` for `TypeOK`,
  `ChainIsQueue`, `LengthNotAhead`, `HoldsItsNode`, `AllocatedInUse`

The inductive invariant `IInv` adds to them that no node is in the list twice
(`Distinct`: otherwise one write of `next` would change the chain in two places)
and what each thread knows at each of its steps: `AdderInv` (the adder that has
the lock is at the place `i` of a list of `length` nodes, its new node is not in
it) and `ScanInv` (the remover's `current` is the node at its place, and the
place is below `length`). That `ScanInv` survives the steps of the adders, which
the remover does not exclude, is the point: they only write behind `length`.

**The election** (`ElectionProofs`).

* `ElectionTypeCorrect`, `OneLeaderListedAlways`, `DeadLeaderUnlistedAlways`:
  `Spec => []P` for `TypeOK`, `OneLeaderListed`, `DeadLeaderUnlisted`

A client that wins marks the entry with its own port in a table that its listener
may have replaced since the old leader was removed from it; that one leader is
left needs more than the table itself. The invariant `TableInv` has three parts.
`Identities`: no table, in memory or in a datagram, lists a port twice, so a
mark marks one entry. `Highest`, unless `crossed`: a leader in a NEWLEADER
datagram's table, in `election_result`, or in the table of a client about to
decide, claim, mark or write NEWLEADER, has the highest port of that table; a
client claims only when its own port is the highest, so whoever is marked there
already is itself. `FirstLeader`, whatever has crossed: a client that still
lists the first leader follows it and has nobody else marked, so its next
`remove_leader` removes the first leader and no other; no NEWLEADER table lists
it, nor does that of a client that is past its `remove_leader`.

**The extended chat** (`ExtraProofs`), for every window, wait, set of bounds and
set of clients, every interleaving of the leader's unlocked threads and every
loss.

* `ExtraTypeCorrect`, `PlainOnlyOnScreensAlways`, `NoticeOvertakenOnceAlways`,
  `EachQueueInOrderAlways`, `ScreenByNumberAlways`, `SlowFitsTimesAlways`,
  `PaysForOwnLinesAlways`, `PaceAgreedAlways`, `WaitedLinesSpacedAlways`:
  `Spec => []P` for `TypeOK` and for the property in each theorem's name

What they rest on:

* `TypeInv` adds to `TypeOK` what each thread may be doing at each of its steps
  (`DraftInv`) and what is still at the head of a queue that somebody will take
  the head from (`HeadInv`): the message under broadcast, the line of a request
  under way. `HeadInv` also keeps notices and lines apart and the leader in the
  first slot. It needs no lock, because each queue has one remover and an
  addition, even one that is lost, leaves the head alone. All proofs below rest
  on it. That a window never grows beyond `NumTimesTracked`, and that the sum
  of a window is a number at all, are lemmas about `Sum` and `TrafficControl`.
* `ScreenInv` adds to `ScreenByNumber` that nothing is shown before the answer
  to the join says which number to expect first.
* `LayerInv` says of every place a text can be, queue, draft, datagram or
  `temp_queue`, how often it is ciphered there.
* `PassedInv`: once a notice has been overtaken it waits at the head of its
  queue and the broadcast thread is not about to look for a line again.
* `QueueInv` relates three sequences for each of the two queues: what was put
  into it, what waits in it and what of it is on the leader's screen
  (`Tallies`). The message under broadcast is in the queue *and* on the screen
  once the broadcast has passed the leader's own slot (`Lead`).
* `MemberInv` is about who is in the table: a member has one slot, a client is
  asked for once (`JoinInv`), a client that is not in sends nothing (`QuietInv`),
  and until the leader enters it no lines are counted and no pace is noted for it
  (`FreshInv`). Without that a line or a CTRL message from before could be
  charged to a newcomer. With it `PaysForOwnLines` is inductive as it stands.
* `PaceInv`: the last CTRL message on its way says what the leader has noted,
  and no other has its number; so it does not matter how many are lost and
  which comes last.
* `LineInv` says that a client has one request, or one answer, under way and
  what its wait can be at while the listener is at its line; with it, `SpacedInv`
  follows the seconds: the age of the last line, what is left of the wait and
  `held` make `SlowFactor - 1` at least. While the listener is still at the line
  before (`Paced`), what is left of the wait and `held` make that much alone:
  each second that falls into the handler moves from the one to the other.

`SeqLemmas` holds what these proofs need to know of `RemoveAt` and of
concatenation.

Every invariant and action property that a run finds to hold is so proved.
Model-checked only is liveness (`TypedComesBack`, `EveryMemberShowsAll`,
`FollowedEventually`), which rests on fairness and is outside of what the prover
handles. Of the refinement, `ImplementsTotalOrder` is proved under
`FreshStamps`, without which it is false (`stamp_race`).

## 7. Not modelled

* Argument parsing, address lookup, sockets' creation, terminal output, the text
  of messages.
* Single memory accesses to the tables: an operation on a table is one step,
  although two threads of the leader may run them at once (`chat_size`).
* Writes beyond the ten slots of a table.
* A chat under an elected leader (what it does with a line of the dead leader
  that is still on its way included), and cancellation of a thread in the middle
  of a locked section. An election starts from a chat whose clients are all in
  and list each other; the clients type nothing.
* The order of the leader's tries within a broadcast and the acknowledgements of
  it, in `Election`: a line reaches some clients, with any delay.
* Of the extra-credit version: that `traffic_control` asks for the time more than
  once (lines 284-287; the model takes one time) and that `send_out_input` tests
  `slow_factor` and the queue in two steps (lines 520 and 524; `MaySend` takes
  them at once, which makes no other behaviour possible).
* Of the extra-credit version: what its unlocked queues do to memory (a broken
  chain, a node freed in use), `traffic_control` at work on an entry that
  `send_hb` frees, `remove_client_cl` and `remove_leader` walking pointers that
  were never set or belong to another process. All are undefined; the process may
  end there.

## 8. Order of the work

1. Machines, Wire, Sequencer, Heartbeat, Client, Chat, ChatOrder with TotalOrder,
   Election, LinkedList; ChatTypes, ChatProofs, LinkedListProofs.
2. Traffic, Priority, Extra; SeqLemmas, ElectionProofs; OrderProofs,
   LineProofs; ExtraProofs.
3. Open: the leader that comes out of an election going on with the chat (numbers
   across two leaders, cancellation inside the lock); table operations split
   where two threads meet.
