------------------------------- MODULE Traffic -------------------------------
(***************************************************************************)
(* extra_credit_src, traffic control: for each member the leader keeps the *)
(* seconds between the last lines it received from it.  When their average *)
(* is below CTRL_THRESH it tells the member to slow down, when it is above *)
(* again to stop doing so.  A member that was told to slow down waits      *)
(* before each line it sends.                                              *)
(*                                                                         *)
(* Time is counted in the seconds of the leader's clock (time(0)).  The    *)
(* clients' clocks go at the same rate, not in phase with it.              *)
(***************************************************************************)
EXTENDS Integers, Sequences, SequencesExt

CONSTANTS
  Leader, Clients,
  NumTimesTracked,   \* 10: NUM_TIMES_TRACKED
  SlowFactor,        \* 3: the seconds a slowed member waits
  Bounds             \* the settings a run covers, see `bounds'

ASSUME LeaderAssumption == Leader \notin Clients
ASSUME TrackedAssumption == NumTimesTracked \in Nat \ {0}
ASSUME SlowAssumption == SlowFactor \in Nat \ {0}
ASSUME BoundsAssumption ==
  Bounds \subseteq [lines : [Clients -> Nat], requests : Nat, typed : Nat, joiners : SUBSET Clients,
                    departures : Nat, faults : Nat, gap : Nat]

Machine == Clients \cup {Leader}

VARIABLES
  bounds,        \* chosen at the start, never changed: how many lines each
                 \* user types (typed: the leader's), how many requests a
                 \* client sends, who joins, how many members are declared
                 \* dead, how many datagrams are lost, and the gap beyond
                 \* which no more seconds are counted
  slots,         \* the leader's this_mach->others[0 .. chat_size-1]
  slow_factor,   \* per client: is it SlowFactor (or 0)?
  sender,        \* per client: where send_out_input is
  control,       \* the CTRL datagrams in flight
  told, heard,   \* history: how many of them the leader has sent to a
                 \* machine; the number of the last a client carried out
  handled,       \* history: how many lines of each member were received
  strangers      \* history: has a machine that is not listed sent a line?

trafficVars ==
  <<slots, slow_factor, sender, control, told, heard, handled, strangers>>
pacing == <<slow_factor, sender, heard>>
accounts == <<slots, control, told, handled, strangers>>

(* `times' is msg_times, `since' the seconds since *last_time.             *)
Slot == [id : Machine, times : Seq(Nat), since : Nat, slow : BOOLEAN]
(* `left' are the seconds until the wait ends; `held' (history) is how     *)
(* many of the wait passed before the leader took the time of the line     *)
(* that the wait follows.                                                  *)
Sender == [at : {"test", "wait", "request"}, left : Nat, paced : BOOLEAN, held : Nat]
AtTest == [at |-> "test", left |-> 0, paced |-> FALSE, held |-> 0]
Control == [to : Machine, slow : BOOLEAN, n : Nat]

Listed == {slots[i].id : i \in DOMAIN slots}
First(I) == CHOOSE i \in I : \A j \in I : i <= j
SlotsOf(m) == {i \in DOMAIN slots : slots[i].id = m}

(* add_client: *last_time is the moment of the entry.                      *)
NewSlot(m) == [id |-> m, times |-> <<>>, since |-> 0, slow |-> FALSE]
AddClient(m) == IF m \in Listed THEN slots ELSE Append(slots, NewSlot(m))

(* remove_client_cl, which frees what the slot points to.                  *)
RemoveClient(m) == IF m \in Listed THEN RemoveAt(slots, First(SlotsOf(m))) ELSE slots

-----------------------------------------------------------------------------
Sum(times) == FoldLeft(LAMBDA a, b : a + b, 0, times)

(* The average against CTRL_THRESH, 1.5.                                   *)
TooFast(times) == 2 * Sum(times) < 3 * Len(times)
SlowEnough(times) == 2 * Sum(times) > 3 * Len(times)

(* The search leaves `this' at the last slot when nobody fits.             *)
Mut_ChargedSlot(m) == Len(slots)
ChargedSlot(m) == IF m \in Listed THEN First(SlotsOf(m)) ELSE Len(slots)

Mut_TimesWith(times, gap) ==
  Append(IF Len(times) > NumTimesTracked THEN Tail(times) ELSE times, gap)
TimesWith(times, gap) ==
  Append(IF Len(times) >= NumTimesTracked THEN Tail(times) ELSE times, gap)

Mut_Charged(slot) ==
  [slot EXCEPT !.times = TimesWith(slot.times, slot.since), !.since = 0,
               !.slow = IF @ THEN ~SlowEnough(slot.times) ELSE TooFast(slot.times)]
Charged(slot) ==
  LET times == TimesWith(slot.times, slot.since)
  IN  [slot EXCEPT !.times = times, !.since = 0,
                   !.slow = IF @ THEN ~SlowEnough(times) ELSE TooFast(times)]

(* traffic_control(m): the slot is charged with the line, and its member   *)
(* told when that changes its slow_factor -- once, without acknowledgement.*)
TrafficControl(m) ==
  LET i == ChargedSlot(m)
      id == slots[i].id
      slot == Charged(slots[i])
  IN  /\ slots' = [slots EXCEPT ![i] = slot]
      /\ IF slot.slow = slots[i].slow
           THEN UNCHANGED <<control, told>>
           ELSE /\ told' = [told EXCEPT ![id] = @ + 1]
                /\ control' = control \cup {[to |-> id, slow |-> slot.slow, n |-> told[id] + 1]}
      /\ handled' = [handled EXCEPT ![m] = @ + 1]
      /\ strangers' = (strangers \/ m \notin Listed)

(* parse_incoming_cl on CTRL_SLOW and CTRL_STOP, in whatever order they    *)
(* arrive.                                                                 *)
Mut_CarryOut(c) ==
  /\ \E d \in control :
       /\ d.to = c
       /\ slow_factor' = [slow_factor EXCEPT ![c] = TRUE]
       /\ heard' = [heard EXCEPT ![c] = d.n]
       /\ control' = control \ {d}
  /\ UNCHANGED <<slots, sender, told, handled, strangers>>
CarryOut(c) ==
  /\ \E d \in control :
       /\ d.to = c
       /\ slow_factor' = [slow_factor EXCEPT ![c] = d.slow]
       /\ heard' = [heard EXCEPT ![c] = d.n]
       /\ control' = control \ {d}
  /\ UNCHANGED <<slots, sender, told, handled, strangers>>

LoseControl ==
  /\ \E d \in control : control' = control \ {d}
  /\ UNCHANGED <<slots, pacing, told, handled, strangers>>

-----------------------------------------------------------------------------
(* send_out_input: with slow_factor set it waits before it looks into its  *)
(* queue, whether or not there is a line in it.  waitFor ends when the     *)
(* client's clock has advanced SlowFactor times; the leader's advances as  *)
(* often meanwhile, or once less.                                          *)
BeginWait(c) ==
  /\ sender[c].at = "test" /\ slow_factor[c]
  /\ \E n \in {SlowFactor - 1, SlowFactor} :
       sender' = [sender EXCEPT ![c] = [at |-> "wait", left |-> n, paced |-> TRUE, held |-> 0]]
  /\ UNCHANGED <<slow_factor, heard, accounts>>

EndWait(c) ==
  /\ sender[c].at = "wait" /\ sender[c].left = 0
  /\ sender' = [sender EXCEPT ![c] = AtTest]
  /\ UNCHANGED <<slow_factor, heard, accounts>>

Mut_MaySend(c) ==
  \/ sender[c].at = "test" /\ ~slow_factor[c]
  \/ sender[c].at = "wait"
MaySend(c) ==
  \/ sender[c].at = "test" /\ ~slow_factor[c]
  \/ sender[c].at = "wait" /\ sender[c].left = 0

BeginRequest(c) == sender' = [sender EXCEPT ![c].at = "request"]
EndRequest(c) == sender' = [sender EXCEPT ![c] = AtTest]

(* The leader's clock advances while it is at a line of the clients in H.  *)
Waited(sent, holding) ==
  [sent EXCEPT !.left = @ - 1, !.held = IF holding THEN @ + 1 ELSE @]
Tick(H) ==
  /\ \/ \E i \in DOMAIN slots : slots[i].since < bounds.gap
     \/ \E c \in Clients : sender[c].left > 0
  /\ slots' = [i \in DOMAIN slots |->
                 IF slots[i].since < bounds.gap
                   THEN [slots[i] EXCEPT !.since = @ + 1] ELSE slots[i]]
  /\ sender' = [c \in Clients |->
                  IF sender[c].left > 0 THEN Waited(sender[c], c \in H) ELSE sender[c]]
  /\ UNCHANGED <<slow_factor, control, told, heard, handled, strangers>>

TrafficTypeOK ==
  /\ bounds \in Bounds
  /\ slots \in Seq(Slot)
  /\ \A i \in DOMAIN slots : Len(slots[i].times) <= NumTimesTracked
  /\ slow_factor \in [Clients -> BOOLEAN]
  /\ sender \in [Clients -> Sender]
  /\ control \subseteq Control
  /\ told \in [Machine -> Nat]
  /\ heard \in [Clients -> Nat]
  /\ handled \in [Machine -> Nat]
  /\ strangers \in BOOLEAN

TrafficInit ==
  /\ bounds \in Bounds
  /\ slots = <<NewSlot(Leader)>>
  /\ slow_factor = [c \in Clients |-> FALSE]
  /\ sender = [c \in Clients |-> AtTest]
  /\ control = {}
  /\ told = [m \in Machine |-> 0]
  /\ heard = [c \in Clients |-> 0]
  /\ handled = [m \in Machine |-> 0]
  /\ strangers = FALSE
=============================================================================
