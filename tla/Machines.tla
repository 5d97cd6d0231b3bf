------------------------------ MODULE Machines ------------------------------
(***************************************************************************)
(* util.c and util.h: what every machine of a chat keeps (`this_mach`),    *)
(* the operations on its table of members (`others`, `chat_size`), the     *)
(* messages the leader numbers, and what a machine shows on its screen.    *)
(*                                                                         *)
(* A machine (name, ip address, port) is one value: two processes never    *)
(* have the same ip address and port.  The two heartbeat counters of a     *)
(* table slot are only ever compared and equated, so a slot keeps their    *)
(* difference, `missed' = send_count - recv_count.                         *)
(***************************************************************************)
EXTENDS Naturals, Sequences, SequencesExt

CONSTANTS
  Leader,       \* the machine that started the chat (isLeader = TRUE)
  Clients,      \* the machines that may join it
  MaxChatSize   \* 10: the slots of `others'

ASSUME LeaderAssumption == Leader \notin Clients
ASSUME SizeAssumption == MaxChatSize \in Nat

Machine == Clients \cup {Leader}

(* A line or a notice.  `text' is whose line (notice) it is and the how-   *)
(* many-th of his lines; a notice has number 0.  The leader leaves         *)
(* sender_seq uninitialised in the messages it makes up itself; a client   *)
(* compares it only in messages about itself, which have it set, so 0      *)
(* stands for the uninitialised values.                                    *)
Message ==
  [type : {"MSG_REQ", "NEW_USER", "LEAVE"}, about : Machine, seq : Nat,
   sender_seq : Nat, text : Machine \X Nat]

Entry == [id : Machine, isLeader : BOOLEAN, missed : Nat]

VARIABLES
  others,    \* this_mach->others[0 .. chat_size-1] of each machine
  printed    \* the messages each machine has shown, in order

machineVars == <<others, printed>>

IsLeader(m) == m = Leader

NewEntry(m) == [id |-> m, isLeader |-> IsLeader(m), missed |-> 0]

(* add_client: a member already in the table is not added again.  Nothing  *)
(* compares chat_size with MAX_CHAT_SIZE; what a write past the array does *)
(* is not modelled, the table just grows.                                  *)
AddClient(table, m) ==
  IF \E i \in DOMAIN table : table[i].id = m /\ table[i].isLeader = IsLeader(m)
    THEN table
    ELSE Append(table, NewEntry(m))

(* The scans of the program stop at the first index that fits. *)
First(I) == IF I = {} THEN 0 ELSE Min(I)
RemoveFirstOf(seq, I) == IF I = {} THEN seq ELSE RemoveAt(seq, Min(I))

(* remove_client_mach, remove_client_cl: the first matching slot goes and  *)
(* the later ones move up.                                                 *)
RemoveClient(table, m, isLeader) ==
  RemoveFirstOf(table, {i \in DOMAIN table : table[i].id = m /\ table[i].isLeader = isLeader})

(* update_clients: the whole array is copied, counters included.           *)
UpdateClients(table, source) == source

Listed(m) == {others[m][i].id : i \in DOMAIN others[m]}

(* print_message, for the three types that may be printed.                 *)
PrintMessage(m, msg) == printed' = [printed EXCEPT ![m] = Append(@, msg)]

MachinesTypeOK ==
  /\ others \in [Machine -> Seq(Entry)]
  /\ printed \in [Machine -> Seq(Message)]

(* set_machine_info leaves chat_size 0; sequencer_start adds the leader    *)
(* itself to its table.                                                    *)
MachinesInit ==
  /\ others = [m \in Machine |-> IF IsLeader(m) THEN <<NewEntry(m)>> ELSE <<>>]
  /\ printed = [m \in Machine |-> <<>>]
=============================================================================
