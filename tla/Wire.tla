-------------------------------- MODULE Wire --------------------------------
(***************************************************************************)
(* The UDP sockets the program sends through: a set of datagrams in        *)
(* flight, received in any order.  External: nothing under src/ implements *)
(* it, every module below sends and receives through it.                   *)
(*                                                                         *)
(* Two datagrams with the same contents are told apart where the program   *)
(* could tell how many arrived: a broadcast datagram carries the number of *)
(* its transmission (`try'), an acknowledgement the transmission it        *)
(* answers and, for the socket the broadcast opened, the broadcast's queue *)
(* number `v', a heartbeat the round it was sent in.                       *)
(***************************************************************************)
EXTENDS Machines

CONSTANT
  MaxFaults   \* bound: how many datagrams the network may lose and how many
              \* receive timeouts may expire while the datagram they wait for
              \* is still on its way, together

ASSUME WireAssumption == MaxFaults \in Nat

Datagram ==
  [type : {"JOIN_REQ"}, from : Machine, to : Machine]
    \cup [type : {"JOIN_RES"}, to : Machine, isLeader : BOOLEAN,
          host : Machine, seq : Nat, table : Seq(Entry)]
    \cup [type : {"MSG_REQ"}, from : Machine, to : Machine, msg : Message]
    \cup [type : {"MSG_RES"}, to : Machine]
    \cup [type : {"CAST"}, to : Machine, v : Nat, try : 0..3, msg : Message]
    \cup [type : {"ACK"}, from : Machine, to : Machine, v : Nat, try : 0..3]
    \cup [type : {"BEAT"}, to : Machine, round : Nat]
    \cup [type : {"BEAT_ACK"}, from : Machine, to : Machine, round : Nat]
    \cup [type : {"ELECTION_REQ"}, from : Machine, to : Machine]
    \cup [type : {"NEWLEADER"}, from : Machine, to : Machine, seq : Nat,
          table : Seq(Entry)]

VARIABLES
  net,     \* datagrams in flight
  gone,    \* machines whose process has ended: their sockets are closed
  lost,    \* how many datagrams the network has lost
  early    \* how many timeouts expired too early

wireVars == <<net, gone, lost, early>>

Addressed(type, m) == {d \in net : d.type = type /\ d.to = m}

(* What is sent to a closed socket disappears. *)
Transmit(received, sent) ==
  net' = (net \ received) \cup {d \in sent : d.to \notin gone}

(* A receive timeout expires: nothing it waits for is coming any more, or  *)
(* something is and the timeout is early.                                  *)
TimeoutExpires(coming) ==
  \/ ~coming /\ early' = early
  \/ coming /\ lost + early < MaxFaults /\ early' = early + 1

(* The process of m ends, and with it its sockets.                         *)
CloseSockets(m) ==
  /\ gone' = gone \cup {m}
  /\ net' = {d \in net : d.to # m}

Lose ==
  /\ lost + early < MaxFaults
  /\ lost' = lost + 1
  /\ \E d \in net : net' = net \ {d}
  /\ UNCHANGED <<gone, early, machineVars>>

WireTypeOK ==
  /\ net \subseteq Datagram
  /\ gone \subseteq Machine
  /\ lost \in Nat
  /\ early \in Nat

WireInit ==
  /\ net = {}
  /\ gone = {}
  /\ lost = 0
  /\ early = 0
=============================================================================
