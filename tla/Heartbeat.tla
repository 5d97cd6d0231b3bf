----------------------------- MODULE Heartbeat ------------------------------
(***************************************************************************)
(* sequencer.c, send_hb and recv_hb: the leader's heartbeats.  Every three *)
(* seconds send_hb goes through the table, sends a beat to each member and *)
(* counts it; a member that has left more than `Patience' beats unanswered *)
(* is announced as departed and leaves the table.  recv_hb clears the      *)
(* count of whoever answers.                                               *)
(***************************************************************************)
EXTENDS Sequencer

CONSTANTS
  Patience,   \* 3 in send_hb
  MaxRounds   \* bound: how many rounds of heartbeats are sent

ASSUME HeartbeatAssumption == Patience \in Nat /\ MaxRounds \in Nat

VARIABLE hb   \* send_hb: round, slot and step within the slot

HbSteps == {"rest", "beat", "count", "remove"}
HbType == [round : Nat, i : Nat \ {0}, step : HbSteps]

HbSlot == others[Leader][hb.i]
HbAt(step) == hb.step = step /\ hb.i \in DOMAIN others[Leader]
Mut_HbNext == [hb EXCEPT !.i = @ - 1, !.step = "beat"]
HbNext == [hb EXCEPT !.i = @ + 1, !.step = "beat"]

(* waitFor(3) between two passes through the table. *)
StartRound ==
  /\ hb.step = "rest"
  /\ hb.round < MaxRounds
  /\ hb' = [round |-> hb.round + 1, i |-> 1, step |-> "beat"]
  /\ UNCHANGED <<sequencerVars, wireVars, machineVars>>

EndRound ==
  /\ hb.step = "beat" /\ hb.i \notin DOMAIN others[Leader]
  /\ hb' = [hb EXCEPT !.step = "rest"]
  /\ UNCHANGED <<sequencerVars, wireVars, machineVars>>

SkipLeader ==
  /\ HbAt("beat") /\ HbSlot.isLeader
  /\ hb' = HbNext
  /\ UNCHANGED <<sequencerVars, wireVars, machineVars>>

SendBeat ==
  /\ HbAt("beat") /\ ~HbSlot.isLeader
  /\ Transmit({}, {[type |-> "BEAT", to |-> HbSlot.id, round |-> hb.round]})
  /\ hb' = [hb EXCEPT !.step = "count"]
  /\ UNCHANGED <<sequencerVars, gone, lost, early, machineVars>>

(* send_count++ and the test; the notice of a departure is about the       *)
(* leader itself (header.about = *this_mach), the departed member's name   *)
(* is only in its text.                                                    *)
CountBeat ==
  /\ HbAt("count")
  /\ others' = [others EXCEPT ![Leader][hb.i].missed = @ + 1]
  /\ IF HbSlot.missed + 1 > Patience
       THEN /\ Hold("send_hb", "enqueue", Stamped("LEAVE", Leader, 0, <<HbSlot.id, 0>>))
            /\ hb' = [hb EXCEPT !.step = "remove"]
       ELSE /\ hb' = HbNext
            /\ UNCHANGED draft
  /\ UNCHANGED <<currentSequenceNum, sequencer_queue, typed, cast, order,
                 printed, wireVars>>

(* The notice is queued (Enqueue); the member leaves the table and the     *)
(* loop goes on one slot further, past the member that moved up.           *)
RemoveDeparted ==
  /\ HbAt("remove") /\ draft["send_hb"] = Idle
  /\ others' = [others EXCEPT ![Leader] = RemoveClient(@, HbSlot.id, HbSlot.isLeader)]
  /\ hb' = HbNext
  /\ UNCHANGED <<sequencerVars, wireVars, printed>>

(* recv_hb: the first slot with the sender's address. *)
ReceiveBeatAck ==
  /\ \E d \in Addressed("BEAT_ACK", Leader) :
       /\ Transmit({d}, {})
       /\ LET slots == {i \in DOMAIN others[Leader] : others[Leader][i].id = d.from}
          IN  others' = IF slots = {} THEN others
                        ELSE [others EXCEPT ![Leader][Min(slots)].missed = 0]
  /\ UNCHANGED <<sequencerVars, hb, gone, lost, early, printed>>

SendHb ==
  \/ StartRound \/ EndRound \/ SkipLeader \/ SendBeat \/ CountBeat \/ RemoveDeparted
  \/ Enqueue("send_hb") /\ UNCHANGED hb

HeartbeatTypeOK == hb \in HbType

HeartbeatInit == hb = [round |-> 0, i |-> 1, step |-> "rest"]
=============================================================================
