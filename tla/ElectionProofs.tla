--------------------------- MODULE ElectionProofs ---------------------------
(***************************************************************************)
(* The tables of members through an election, for any set of clients, any  *)
(* number of lost datagrams and early timeouts, and any interleaving of    *)
(* the threads, of two or more clients that claim to lead included.        *)
(***************************************************************************)
EXTENDS Election, SeqLemmas, FiniteSetTheorems

UniqueIds(table) == \A i, j \in DOMAIN table : table[i].id = table[j].id => i = j
OneLeader(table) ==
  \A i, j \in DOMAIN table : table[i].isLeader /\ table[j].isLeader => i = j

(* The table elect_leader decides by, and the one NEWLEADER carries.       *)
LeaderHighest(table) ==
  \A i, j \in DOMAIN table : table[i].isLeader => table[j].id <= table[i].id

(* What a table says of the first leader: it leads alone, or is not in it. *)
FirstLeads(table) == \A i \in DOMAIN table : table[i].isLeader <=> table[i].id = Leader
FirstIsOut(table) == \A i \in DOMAIN table : table[i].id # Leader

Claiming == {"claim", "mark"}
Deciding == {"decide", "write"} \cup Claiming

Identities ==
  /\ \A m \in Machine : UniqueIds(others[m])
  /\ \A d \in net : d.type = "NEWLEADER" => UniqueIds(d.table)
  /\ \A c \in Clients : UniqueIds(election_result[c].table)

(* OneLeaderListed alone is not inductive: a client that claims to lead    *)
(* marks its own entry.  It is the highest port of that table, as long as  *)
(* it is the table of its test, and so is whoever is marked there already. *)
Highest ==
  /\ \A m \in Machine : OneLeader(others[m])
  /\ \A d \in net : d.type = "NEWLEADER" => LeaderHighest(d.table)
  /\ \A c \in Clients : at[c].elect \in Deciding => LeaderHighest(others[c])
  /\ \A c \in Clients : at[c].elect \in Claiming => IsNextLeader(others[c], c)
  /\ \A c \in Clients : LeaderHighest(election_result[c].table)

(* Nor is DeadLeaderUnlisted: elect_leader removes one entry, the first    *)
(* that is marked, and that is the first leader's only if nobody else is   *)
(* marked before him.                                                      *)
FirstLeader ==
  /\ \A c \in Clients :
       FirstIsOut(others[c]) \/ (host[c] = Leader /\ FirstLeads(others[c]))
  /\ \A c \in Clients : at[c].elect \in Deciding => FirstIsOut(others[c])
  /\ \A d \in net : d.type = "NEWLEADER" => FirstIsOut(d.table)
  /\ \A c \in Clients : FirstIsOut(election_result[c].table)

TableInv == Identities /\ (crossed \/ Highest) /\ FirstLeader

Inv == TypeOK /\ TableInv

-----------------------------------------------------------------------------
(* Where a thread may be. *)
PlacesOf(t) ==
  CASE t = "listen" -> {"test", "lock", "go", "unlock", "end"}
    [] t \in {"beat", "check"} -> {"test", "lock", "go", "end"}
    [] t = "elect" -> {"test", "lock", "run", "decide", "claim", "mark", "write", "announce",
                       "ask", "recv", "unlock", "end"}

LEMMA MoveType ==
  ASSUME TypeOK, NEW c \in Clients, NEW t \in Waiter \cup {"elect"}, NEW place \in PlacesOf(t),
         Move(c, t, place)
  PROVE  /\ at' \in [Clients -> Place]
         /\ \A k \in Clients : at'[k].elect = IF k = c /\ t = "elect" THEN place ELSE at[k].elect
<1> DEFINE moved == [at[c] EXCEPT ![t] = place]
<1>1. at \in [Clients -> Place] /\ at[c] \in Place
  BY DEF TypeOK
<1>2. at' = [at EXCEPT ![c] = moved]
  BY DEF Move
<1>3. moved \in Place /\ moved.elect = IF t = "elect" THEN place ELSE at[c].elect
  <2>1. CASE t = "listen"
    BY <2>1, <1>1 DEF PlacesOf, Place
  <2>2. CASE t = "beat"
    BY <2>2, <1>1 DEF PlacesOf, Place
  <2>3. CASE t = "check"
    BY <2>3, <1>1 DEF PlacesOf, Place
  <2>4. CASE t = "elect"
    BY <2>4, <1>1 DEF PlacesOf, Place
  <2> QED BY <2>1, <2>2, <2>3, <2>4 DEF Waiter
<1> HIDE DEF moved
<1> QED BY <1>1, <1>2, <1>3

LEMMA TransmitType ==
  ASSUME TypeOK, NEW R, NEW D \in SUBSET Datagram, Transmit(R, D)
  PROVE  net' \subseteq Datagram
BY DEF Transmit, TypeOK, WireTypeOK

LEMMA DatagramFields ==
  ASSUME TypeOK, NEW d \in net
  PROVE  /\ d.type \in {"ACK", "ELECTION_REQ", "NEWLEADER"} => d.from \in Machine
         /\ d.type = "NEWLEADER" => d.seq \in Nat /\ d.table \in Seq(Entry)
BY DEF TypeOK, WireTypeOK, Datagram

(* To receive a datagram and answer it announces nothing. *)
LEMMA Acknowledged ==
  ASSUME TypeOK, NEW c \in Clients, NEW d \in net,
         d.type \in {"ACK", "ELECTION_REQ", "NEWLEADER"}, Transmit({d}, {Ack(c, d.from)})
  PROVE  net' \subseteq Datagram /\ \A e \in net' : e.type = "NEWLEADER" => e \in net
<1>1. Ack(c, d.from) \in Datagram
  BY DatagramFields DEF Ack, Datagram, Machine
<1>2. {Ack(c, d.from)} \in SUBSET Datagram /\ Ack(c, d.from).type = "ACK"
  BY <1>1 DEF Ack
<1>3. net' \subseteq Datagram
  BY <1>2, TransmitType
<1> QED BY <1>2, <1>3 DEF Transmit

(* A step that touches no table, announces nothing and does not bring a    *)
(* client nearer to its decision.                                          *)
LEMMA TablesAlone ==
  ASSUME TableInv, UNCHANGED <<others, election_result, host, crossed>>,
         \A d \in net' : d.type = "NEWLEADER" => d \in net,
         \A c \in Clients : at'[c].elect \in Deciding => at'[c].elect = at[c].elect
  PROVE  TableInv'
<1>1. Identities'
  BY DEF TableInv, Identities
<1>2. crossed' \/ Highest'
  BY DEF TableInv, Highest, Deciding, Claiming
<1>3. FirstLeader'
  BY DEF TableInv, FirstLeader, Deciding
<1> QED BY <1>1, <1>2, <1>3 DEF TableInv

-----------------------------------------------------------------------------
(* The threads that wait for the election to end. *)
LEMMA TestHoldStep ==
  ASSUME Inv, NEW c \in Clients, NEW t \in Waiter, TestHold(c, t)
  PROVE  Inv'
<1> USE DEF Inv
<1>1. (IF hold_election[c] THEN "lock" ELSE "go") \in PlacesOf(t)
  BY DEF PlacesOf, Waiter
<1>2. /\ at' \in [Clients -> Place]
      /\ \A k \in Clients : at'[k].elect = at[k].elect
  BY <1>1, MoveType DEF TestHold, Waiter
<1>3. election_lock' \in [Clients -> BOOLEAN]
  BY DEF TestHold, Set, TypeOK
<1>4. TypeOK'
  BY <1>2, <1>3 DEF TestHold, TypeOK, MachinesTypeOK, WireTypeOK, numbers, machineVars, wireVars
<1>5. TableInv'
  BY <1>2, TablesAlone DEF numbers, TestHold, machineVars, wireVars
<1> QED BY <1>4, <1>5

LEMMA TakeElectionLockStep ==
  ASSUME Inv, NEW c \in Clients, NEW t \in Waiter, TakeElectionLock(c, t)
  PROVE  Inv'
<1> USE DEF Inv
<1>1. (IF hold_election[c] THEN "lock" ELSE "go") \in PlacesOf(t)
  BY DEF PlacesOf, Waiter
<1>2. /\ at' \in [Clients -> Place]
      /\ \A k \in Clients : at'[k].elect = at[k].elect
  BY <1>1, MoveType DEF TakeElectionLock, Waiter
<1>3. election_lock' \in [Clients -> BOOLEAN]
  BY DEF TakeElectionLock, Set, TypeOK
<1>4. TypeOK'
  BY <1>2, <1>3
     DEF TakeElectionLock, TypeOK, MachinesTypeOK, WireTypeOK, numbers, machineVars, wireVars
<1>5. TableInv'
  BY <1>2, TablesAlone DEF numbers, TakeElectionLock, machineVars, wireVars
<1> QED BY <1>4, <1>5

LEMMA UnlockStep ==
  ASSUME Inv, NEW c \in Clients, NEW t \in {"listen", "elect"}, Unlock(c, t)
  PROVE  Inv'
<1> USE DEF Inv
<1>1. PICK through \in SUBSET {w \in Waiter : at[c][w] = "lock"} :
        at' = Set(at, c, [p \in DOMAIN at[c] |->
                            IF p = t THEN "test"
                            ELSE IF p \in through /\ ~hold_election[c] THEN "go"
                            ELSE at[c][p]])
  BY DEF Unlock
<1> DEFINE moved == [p \in DOMAIN at[c] |->
                       IF p = t THEN "test"
                       ELSE IF p \in through /\ ~hold_election[c] THEN "go"
                       ELSE at[c][p]]
<1>2. at \in [Clients -> Place] /\ at[c] \in Place
  BY DEF TypeOK
<1>3. through \subseteq Waiter
  OBVIOUS
<1>4. moved \in Place /\ (moved.elect \in Deciding => moved.elect = at[c].elect)
  BY <1>2, <1>3 DEF Place, Waiter, Deciding, Claiming
<1> HIDE DEF moved
<1>5. /\ at' \in [Clients -> Place]
      /\ \A k \in Clients : at'[k].elect \in Deciding => at'[k].elect = at[k].elect
  BY <1>1, <1>2, <1>4 DEF Set, moved
<1>6. election_lock' \in [Clients -> BOOLEAN]
  BY DEF Unlock, Set, TypeOK
<1>7. TypeOK'
  BY <1>5, <1>6
     DEF Unlock, TypeOK, MachinesTypeOK, WireTypeOK, numbers, machineVars, wireVars
<1>8. TableInv'
  BY <1>5, TablesAlone DEF numbers, Unlock, machineVars, wireVars
<1> QED BY <1>7, <1>8

-----------------------------------------------------------------------------
(* client_listen. *)
LEMMA ListenLineStep ==
  ASSUME Inv, NEW c \in Clients, ListenLine(c)
  PROVE  Inv'
<1> USE DEF Inv
<1>1. PICK d \in Addressed("CAST", c) :
        /\ Transmit({d}, {})
        /\ client_queue' = Set(client_queue, c,
                               client_queue[c] \cup {Node("MSG_REQ", d.msg.seq)})
  BY DEF ListenLine
<1>2. d.msg.seq \in Nat
  BY DEF Addressed, TypeOK, WireTypeOK, Datagram, Message
<1>3. net' \subseteq net /\ net' \subseteq Datagram
  BY <1>1 DEF Transmit, TypeOK, WireTypeOK
<1>4. "test" \in PlacesOf("listen")
  BY DEF PlacesOf
<1>5. /\ at' \in [Clients -> Place]
      /\ \A k \in Clients : at'[k].elect = at[k].elect
  BY <1>4, MoveType DEF ListenLine, Waiter
<1>6. Node("MSG_REQ", d.msg.seq) \in [type : {"MSG_REQ", "NEWLEADER"}, v : Nat]
  BY <1>2 DEF Node
<1>7. client_queue' \in [Clients -> SUBSET [type : {"MSG_REQ", "NEWLEADER"}, v : Nat]]
  BY <1>1, <1>6 DEF Set, TypeOK
<1>8. TypeOK'
  BY <1>3, <1>5, <1>7
     DEF ListenLine, TypeOK, MachinesTypeOK, WireTypeOK, signals, machineVars, wireCounts
<1>9. TableInv'
  BY <1>3, <1>5, TablesAlone DEF ListenLine, machineVars
<1> QED BY <1>8, <1>9

LEMMA ListenAckStep ==
  ASSUME Inv, NEW c \in Clients, ListenAck(c)
  PROVE  Inv'
<1> USE DEF Inv
<1>1. PICK d \in Addressed("ACK", c) : Transmit({d}, {Ack(c, d.from)})
  BY DEF ListenAck
<1>3. net' \subseteq Datagram /\ \A e \in net' : e.type = "NEWLEADER" => e \in net
  BY <1>1, Acknowledged DEF Addressed
<1>4. "test" \in PlacesOf("listen")
  BY DEF PlacesOf
<1>5. /\ at' \in [Clients -> Place]
      /\ \A k \in Clients : at'[k].elect = at[k].elect
  BY <1>4, MoveType DEF ListenAck, Waiter
<1>6. unset' \in [Clients -> BOOLEAN]
  BY ElectionAssumption DEF ListenAck, QueueUnset, Set, TypeOK
<1>7. TypeOK'
  BY <1>3, <1>5, <1>6
     DEF ListenAck, TypeOK, MachinesTypeOK, WireTypeOK, signals, machineVars, wireCounts
<1>8. TableInv'
  BY <1>3, <1>5, TablesAlone DEF numbers, ListenAck, machineVars
<1> QED BY <1>7, <1>8

LEMMA ListenElectionStep ==
  ASSUME Inv, NEW c \in Clients, ListenElection(c)
  PROVE  Inv'
<1> USE DEF Inv
<1>1. PICK d \in Addressed("ELECTION_REQ", c) : Transmit({d}, {Ack(c, d.from)})
  BY DEF ListenElection
<1>3. net' \subseteq Datagram /\ \A e \in net' : e.type = "NEWLEADER" => e \in net
  BY <1>1, Acknowledged DEF Addressed
<1>4. "test" \in PlacesOf("listen")
  BY DEF PlacesOf
<1>5. /\ at' \in [Clients -> Place]
      /\ \A k \in Clients : at'[k].elect = at[k].elect
  BY <1>4, MoveType DEF ListenElection, Waiter
<1>6. /\ unset' \in [Clients -> BOOLEAN]
      /\ hold_election' \in [Clients -> BOOLEAN]
      /\ no_election_lock' \in [Clients -> BOOLEAN]
  BY ElectionAssumption DEF ListenElection, QueueUnset, Set, TypeOK
<1>7. TypeOK'
  BY <1>3, <1>5, <1>6
     DEF ListenElection, TypeOK, MachinesTypeOK, WireTypeOK, machineVars, wireCounts
<1>8. TableInv'
  BY <1>3, <1>5, TablesAlone DEF numbers, ListenElection, machineVars
<1> QED BY <1>7, <1>8

(* Ports differ, so one entry has the highest. *)
LEMMA HighestIsOne ==
  ASSUME NEW table \in Seq(Entry), UniqueIds(table), LeaderHighest(table)
  PROVE  OneLeader(table)
<1> SUFFICES ASSUME NEW i \in DOMAIN table, NEW j \in DOMAIN table,
                    table[i].isLeader, table[j].isLeader
             PROVE  table[i].id = table[j].id
  BY DEF UniqueIds, OneLeader
<1>1. table[i] \in Entry /\ table[j] \in Entry
  OBVIOUS
<1>2. table[i].id \in Nat /\ table[j].id \in Nat
  BY <1>1, PortAssumption DEF Entry
<1> QED BY <1>2 DEF LeaderHighest

(* The table of one client changes, and nothing is announced. *)
LEMMA TableChanged ==
  ASSUME Inv, NEW c \in Clients, NEW table \in Seq(Entry),
         UniqueIds(table), FirstIsOut(table),
         crossed' \/ (~crossed /\ LeaderHighest(table)),
         crossed' \/ at'[c].elect \notin Claiming,
         others' = [others EXCEPT ![c] = table], UNCHANGED election_result,
         \A e \in net' : e.type = "NEWLEADER" => e \in net,
         \A k \in Clients \ {c} : at'[k].elect = at[k].elect /\ host'[k] = host[k]
  PROVE  others' \in [Machine -> Seq(Entry)] /\ TableInv'
<1>1. others' \in [Machine -> Seq(Entry)]
  BY DEF Inv, TypeOK, MachinesTypeOK
<1>2. others'[c] = table /\ \A m \in Machine \ {c} : others'[m] = others[m]
  BY DEF Inv, TypeOK, MachinesTypeOK, Machine
<1>3. Identities'
  BY <1>2 DEF Inv, TableInv, Identities
<1>4. FirstLeader'
  BY <1>2 DEF Inv, TableInv, FirstLeader, Machine
<1>5. ASSUME ~crossed' PROVE Highest'
  <2>1. LeaderHighest(table) /\ Highest /\ at'[c].elect \notin Claiming
    BY <1>5 DEF Inv, TableInv
  <2>2. OneLeader(table)
    BY <2>1, HighestIsOne
  <2>3. \A m \in Machine : OneLeader(others'[m])
    BY <1>2, <2>1, <2>2 DEF Highest
  <2>4. \A k \in Clients : at'[k].elect \in Deciding => LeaderHighest(others'[k])
    BY <1>2, <2>1 DEF Highest, Machine
  <2>5. \A k \in Clients : at'[k].elect \in Claiming => IsNextLeader(others'[k], k)
    BY <1>2, <2>1 DEF Highest, Machine
  <2> QED BY <2>1, <2>3, <2>4, <2>5 DEF Highest
<1> QED BY <1>1, <1>3, <1>4, <1>5 DEF TableInv

LEMMA ListenNewLeaderStep ==
  ASSUME Inv, NEW c \in Clients, ListenNewLeader(c)
  PROVE  Inv'
<1> USE DEF Inv
<1>1. PICK d \in Addressed("NEWLEADER", c) :
        /\ Transmit({d}, {Ack(c, d.from)})
        /\ client_queue' = Set(client_queue, c, client_queue[c] \cup {Node("NEWLEADER", d.seq)})
        /\ others' = Set(others, c, UpdateClients(RemoveLeader(others[c]), d.table))
        /\ host' = Set(host, c, d.from)
  BY DEF ListenNewLeader
<1>2. d \in net /\ d.type = "NEWLEADER" /\ d.from \in Machine /\ d.seq \in Nat
  BY DatagramFields DEF Addressed
<1>3. net' \subseteq Datagram /\ \A e \in net' : e.type = "NEWLEADER" => e \in net
  BY <1>1, <1>2, Acknowledged
<1>4. "unlock" \in PlacesOf("listen")
  BY DEF PlacesOf
<1>5. /\ at' \in [Clients -> Place]
      /\ \A k \in Clients : at'[k].elect = at[k].elect
  BY <1>4, MoveType DEF ListenNewLeader, Waiter
<1>6. others' = [others EXCEPT ![c] = d.table]
  BY <1>1 DEF Set, UpdateClients
<1>7. others' \in [Machine -> Seq(Entry)] /\ TableInv'
  <2>1. /\ d.table \in Seq(Entry) /\ UniqueIds(d.table) /\ FirstIsOut(d.table)
        /\ crossed \/ LeaderHighest(d.table)
    BY <1>2, DatagramFields DEF TableInv, Identities, Highest, FirstLeader
  <2>2. crossed' <=> crossed \/ at[c].elect \in Claiming
    BY DEF ListenNewLeader, Claiming, TypeOK
  <2>3. \A k \in Clients \ {c} : host'[k] = host[k]
    BY <1>1 DEF Set, TypeOK
  <2> QED BY <2>1, <2>2, <2>3, <1>3, <1>5, <1>6, TableChanged DEF ListenNewLeader
<1>8. Node("NEWLEADER", d.seq) \in [type : {"MSG_REQ", "NEWLEADER"}, v : Nat]
  BY <1>2 DEF Node
<1>9. /\ host' \in [Clients -> Machine] /\ crossed' \in BOOLEAN
      /\ hold_election' \in [Clients -> BOOLEAN]
      /\ client_queue' \in [Clients -> SUBSET [type : {"MSG_REQ", "NEWLEADER"}, v : Nat]]
  BY <1>1, <1>2, <1>8 DEF ListenNewLeader, Set, TypeOK
<1>10. TypeOK'
  BY <1>3, <1>5, <1>7, <1>9 DEF ListenNewLeader, TypeOK, MachinesTypeOK, WireTypeOK, wireCounts
<1> QED BY <1>7, <1>10

LEMMA ListenStep ==
  ASSUME Inv, NEW c \in Clients, Listen(c)
  PROVE  Inv'
BY ListenLineStep, ListenAckStep, ListenElectionStep, ListenNewLeaderStep, UnlockStep, TestHoldStep,
   TakeElectionLockStep DEF Listen, Waiter

-----------------------------------------------------------------------------
(* recv_clnt_hb and check_hb. *)
LEMMA ReceiveBeatStep ==
  ASSUME Inv, NEW c \in Clients, ReceiveBeat(c)
  PROVE  Inv'
<1> USE DEF Inv
<1>1. CASE /\ Move(c, "beat", "test")
           /\ UNCHANGED <<host, numbers, signals, crossed, machineVars, wireVars>>
  <2>1. "test" \in PlacesOf("beat")
    BY DEF PlacesOf
  <2>2. /\ at' \in [Clients -> Place]
        /\ \A k \in Clients : at'[k].elect = at[k].elect
    BY <1>1, <2>1, MoveType DEF Waiter
  <2>3. TypeOK'
    BY <1>1, <2>2
       DEF TypeOK, MachinesTypeOK, WireTypeOK, numbers, signals, machineVars, wireVars
  <2>4. TableInv'
    BY <1>1, <2>2, TablesAlone DEF numbers, machineVars, wireVars
  <2> QED BY <2>3, <2>4
<1>2. CASE TestHold(c, "beat") \/ TakeElectionLock(c, "beat")
  BY <1>2, TestHoldStep, TakeElectionLockStep DEF Waiter
<1> QED BY <1>1, <1>2 DEF ReceiveBeat

LEMMA CheckStep ==
  ASSUME Inv, NEW c \in Clients, Check(c)
  PROVE  Inv'
<1> USE DEF Inv
<1>0. "test" \in PlacesOf("check")
  BY DEF PlacesOf
<1>1. CASE Suspect(c)
  <2>1. /\ at' \in [Clients -> Place]
        /\ \A k \in Clients : at'[k].elect = at[k].elect
    BY <1>0, <1>1, MoveType DEF Suspect, Waiter
  <2>2. /\ hold_election' \in [Clients -> BOOLEAN]
        /\ no_election_lock' \in [Clients -> BOOLEAN]
    BY <1>1 DEF Suspect, WakeElection, Set, TypeOK
  <2>3. early' \in Nat
    BY <1>1 DEF Suspect, TimeoutExpires, TypeOK, WireTypeOK
  <2>4. TypeOK'
    BY <1>1, <2>1, <2>2, <2>3
       DEF Suspect, TypeOK, MachinesTypeOK, WireTypeOK, numbers, machineVars
  <2>5. TableInv'
    BY <1>1, <2>1, TablesAlone DEF numbers, Suspect, machineVars
  <2> QED BY <2>4, <2>5
<1>2. CASE CheckAgain(c)
  <2>1. /\ at' \in [Clients -> Place]
        /\ \A k \in Clients : at'[k].elect = at[k].elect
    BY <1>0, <1>2, MoveType DEF CheckAgain, Waiter
  <2>2. TypeOK'
    BY <1>2, <2>1
       DEF CheckAgain, TypeOK, MachinesTypeOK, WireTypeOK, numbers, signals, machineVars, wireVars
  <2>3. TableInv'
    BY <1>2, <2>1, TablesAlone DEF numbers, CheckAgain, machineVars, wireVars
  <2> QED BY <2>2, <2>3
<1>3. CASE TestHold(c, "check") \/ TakeElectionLock(c, "check")
  BY <1>3, TestHoldStep, TakeElectionLockStep DEF Waiter
<1> QED BY <1>1, <1>2, <1>3 DEF Check

-----------------------------------------------------------------------------
(* What elect_leader does to a table. *)
LEMMA RemoveLeaderProperties ==
  ASSUME NEW table \in Seq(Entry), UniqueIds(table)
  PROVE  /\ RemoveLeader(table) \in Seq(Entry)
         /\ UniqueIds(RemoveLeader(table))
         /\ OneLeader(table) =>
              \A i \in DOMAIN RemoveLeader(table) : ~RemoveLeader(table)[i].isLeader
         /\ FirstIsOut(table) \/ FirstLeads(table) => FirstIsOut(RemoveLeader(table))
<1> DEFINE leaders == {i \in DOMAIN table : table[i].isLeader}
           n == Min(leaders)
           rest == RemoveAt(table, n)
<1>1. CASE leaders = {}
  <2>1. RemoveLeader(table) = table
    BY <1>1 DEF RemoveLeader, RemoveFirstOf
  <2>2. \A i \in DOMAIN table : ~table[i].isLeader
    BY <1>1
  <2> QED BY <2>1, <2>2 DEF FirstIsOut, FirstLeads
<1>2. CASE leaders # {}
  <2>1. n \in leaders
    <3>1. leaders \in SUBSET Nat
      <4>1. DOMAIN table = 1..Len(table)
        OBVIOUS
      <4> QED BY <4>1
    <3> HIDE DEF leaders
    <3> QED BY <1>2, <3>1, MinIsMember
  <2>2. n \in 1..Len(table) /\ table[n].isLeader
    BY <2>1
  <2>3. RemoveLeader(table) = rest
    BY <1>2 DEF RemoveLeader, RemoveFirstOf
  <2> HIDE DEF n, leaders
  <2>4. /\ rest \in Seq(Entry)
        /\ Len(rest) = Len(table) - 1
        /\ \A k \in 1..(Len(table) - 1) : rest[k] = IF k < n THEN table[k] ELSE table[k + 1]
    BY <2>2, RemoveAtProperties
  <2> HIDE DEF rest
  <2>5. DOMAIN rest = 1..(Len(table) - 1) /\ DOMAIN table = 1..Len(table) /\ Len(table) \in Nat
    BY <2>4
  <2>6. UniqueIds(rest)
    <3> SUFFICES ASSUME NEW i \in DOMAIN rest, NEW j \in DOMAIN rest, rest[i].id = rest[j].id
                 PROVE  i = j
      BY DEF UniqueIds
    <3> DEFINE Old(k) == IF k < n THEN k ELSE k + 1
    <3>1. /\ Old(i) \in DOMAIN table /\ rest[i] = table[Old(i)]
          /\ Old(j) \in DOMAIN table /\ rest[j] = table[Old(j)]
      BY <2>2, <2>4, <2>5
    <3>2. Old(i) = Old(j)
      BY <3>1 DEF UniqueIds
    <3> QED BY <3>2, <2>2, <2>5
  <2>7. \A i \in DOMAIN rest : \E old \in DOMAIN table : old # n /\ rest[i] = table[old]
    <3> TAKE i \in DOMAIN rest
    <3> DEFINE old == IF i < n THEN i ELSE i + 1
    <3>1. old \in DOMAIN table /\ old # n /\ rest[i] = table[old]
      BY <2>2, <2>4, <2>5
    <3> HIDE DEF old
    <3> QED BY <3>1
  <2>8. ASSUME OneLeader(table), NEW i \in DOMAIN rest PROVE ~rest[i].isLeader
    BY <2>2, <2>5, <2>7, <2>8 DEF OneLeader
  <2>9. ASSUME FirstIsOut(table) PROVE FirstIsOut(rest)
    BY <2>7, <2>9 DEF FirstIsOut
  <2>10. ASSUME FirstLeads(table) PROVE FirstIsOut(rest)
    <3>1. table[n].id = Leader
      BY <2>2, <2>5, <2>10 DEF FirstLeads
    <3>2. \A old \in DOMAIN table : old # n => table[old].id # Leader
      BY <3>1, <2>2, <2>5 DEF UniqueIds
    <3> QED BY <3>2, <2>7 DEF FirstIsOut
  <2> QED BY <2>3, <2>4, <2>6, <2>8, <2>9, <2>10
<1> QED BY <1>1, <1>2

LEMMA MarkLeaderProperties ==
  ASSUME NEW table \in Seq(Entry), NEW m \in Machine, UniqueIds(table), FirstIsOut(table)
  PROVE  /\ MarkLeader(table, m) \in Seq(Entry)
         /\ UniqueIds(MarkLeader(table, m))
         /\ FirstIsOut(MarkLeader(table, m))
         /\ LeaderHighest(table) /\ IsNextLeader(table, m) => LeaderHighest(MarkLeader(table, m))
<1> DEFINE marked == MarkLeader(table, m)
<1>1. \A i \in DOMAIN table : table[i] \in Entry
  OBVIOUS
<1>2. /\ DOMAIN marked = DOMAIN table
      /\ \A i \in DOMAIN table :
           /\ marked[i] \in Entry /\ marked[i].id = table[i].id
           /\ marked[i].isLeader => table[i].isLeader \/ table[i].id = m
  BY <1>1 DEF MarkLeader, Entry
<1>3. marked \in Seq(Entry)
  <2>1. DOMAIN table = 1..Len(table) /\ Len(table) \in Nat
    OBVIOUS
  <2>2. marked \in [1..Len(table) -> Entry]
    BY <1>2, <2>1 DEF MarkLeader
  <2> HIDE DEF marked
  <2> QED BY <2>1, <2>2, SeqDef
<1> HIDE DEF marked
<1>4. UniqueIds(marked)
  BY <1>2 DEF UniqueIds
<1>5. FirstIsOut(marked)
  BY <1>2 DEF FirstIsOut
<1>6. LeaderHighest(table) /\ IsNextLeader(table, m) => LeaderHighest(marked)
  BY <1>2 DEF LeaderHighest, IsNextLeader
<1> QED BY <1>3, <1>4, <1>5, <1>6 DEF marked

-----------------------------------------------------------------------------
(* elect_leader, outside its decision. *)
LEMMA ElectTestStep ==
  ASSUME Inv, NEW c \in Clients, ElectTest(c)
  PROVE  Inv'
<1> USE DEF Inv
<1> DEFINE place == IF client_trigger[c] # 0 THEN "end" ELSE IF hold_election[c] THEN "run" ELSE "lock"
<1>1. place \in PlacesOf("elect") /\ place \notin Deciding
  BY DEF PlacesOf, Deciding, Claiming
<1> HIDE DEF place
<1>2. Move(c, "elect", place)
  BY DEF ElectTest, place
<1>3. /\ at' \in [Clients -> Place]
      /\ \A k \in Clients : at'[k].elect = IF k = c THEN place ELSE at[k].elect
  BY <1>1, <1>2, MoveType
<1>4. no_election_lock' \in [Clients -> BOOLEAN]
  BY DEF ElectTest, Set, TypeOK
<1>5. TypeOK'
  BY <1>3, <1>4 DEF ElectTest, TypeOK, MachinesTypeOK, WireTypeOK, numbers, machineVars, wireVars
<1>6. TableInv'
  BY <1>1, <1>3, TablesAlone DEF numbers, ElectTest, machineVars, wireVars
<1> QED BY <1>5, <1>6

LEMMA TakeNoElectionLockStep ==
  ASSUME Inv, NEW c \in Clients, TakeNoElectionLock(c)
  PROVE  Inv'
<1> USE DEF Inv
<1> DEFINE place == IF hold_election[c] THEN "run" ELSE "lock"
<1>1. place \in PlacesOf("elect") /\ place \notin Deciding
  BY DEF PlacesOf, Deciding, Claiming
<1> HIDE DEF place
<1>2. Move(c, "elect", place)
  BY DEF TakeNoElectionLock, place
<1>3. /\ at' \in [Clients -> Place]
      /\ \A k \in Clients : at'[k].elect = IF k = c THEN place ELSE at[k].elect
  BY <1>1, <1>2, MoveType
<1>4. no_election_lock' \in [Clients -> BOOLEAN]
  BY DEF TakeNoElectionLock, Set, TypeOK
<1>5. TypeOK'
  BY <1>3, <1>4
     DEF TakeNoElectionLock, TypeOK, MachinesTypeOK, WireTypeOK, numbers, machineVars, wireVars
<1>6. TableInv'
  BY <1>1, <1>3, TablesAlone DEF numbers, TakeNoElectionLock, machineVars, wireVars
<1> QED BY <1>5, <1>6

LEMMA ListedAreMachines ==
  ASSUME TypeOK, NEW c \in Clients
  PROVE  Listed(c) \subseteq Machine
<1>1. others[c] \in Seq(Entry)
  BY DEF TypeOK, MachinesTypeOK, Machine
<1>2. \A i \in DOMAIN others[c] : others[c][i] \in Entry
  BY <1>1
<1> QED BY <1>2 DEF Listed, Entry

LEMMA AskHigherStep ==
  ASSUME Inv, NEW c \in Clients, AskHigher(c)
  PROVE  Inv'
<1> USE DEF Inv
<1> DEFINE asked == {[type |-> "ELECTION_REQ", from |-> c, to |-> m] :
                       m \in {k \in Listed(c) : k > c}}
<1>1. asked \in SUBSET Datagram /\ \A e \in asked : e.type = "ELECTION_REQ"
  BY ListedAreMachines DEF Datagram, Machine
<1> HIDE DEF asked
<1>2. Transmit({}, asked)
  BY DEF AskHigher, asked
<1>3. net' \subseteq Datagram
  BY <1>1, <1>2, TransmitType
<1>4. \A e \in net' : e.type = "NEWLEADER" => e \in net
  BY <1>1, <1>2 DEF Transmit
<1>5. "recv" \in PlacesOf("elect")
  BY DEF PlacesOf
<1>6. /\ at' \in [Clients -> Place]
      /\ \A k \in Clients : at'[k].elect = IF k = c THEN "recv" ELSE at[k].elect
  BY <1>5, MoveType DEF AskHigher
<1>7. TypeOK'
  BY <1>3, <1>6
     DEF AskHigher, TypeOK, MachinesTypeOK, WireTypeOK, numbers, signals, machineVars, wireCounts
<1>8. TableInv'
  BY <1>4, <1>6, TablesAlone DEF numbers, AskHigher, Deciding, Claiming, machineVars
<1> QED BY <1>7, <1>8

(* A datagram is received, or lost, and nothing else happens. *)
LEMMA DatagramGoes ==
  ASSUME Inv, NEW d, net' \subseteq net \ {d}, UNCHANGED <<host, numbers, signals, at, crossed, machineVars>>,
         UNCHANGED gone, lost' \in Nat, early' \in Nat
  PROVE  Inv'
<1> USE DEF Inv
<1>1. TypeOK'
  BY DEF TypeOK, MachinesTypeOK, WireTypeOK, numbers, signals, machineVars
<1>2. TableInv'
  BY TablesAlone DEF numbers, machineVars
<1> QED BY <1>1, <1>2

LEMMA ElectDiscardsStep ==
  ASSUME Inv, NEW c \in Clients, ElectDiscards(c) \/ Ignore(c)
  PROVE  Inv'
<1>1. PICK d \in net : Transmit({d}, {})
  BY DEF ElectDiscards, Ignore
<1>2. net' \subseteq net \ {d}
  BY <1>1 DEF Transmit
<1>3. UNCHANGED <<host, numbers, signals, at, crossed, machineVars>> /\ UNCHANGED wireCounts
  BY DEF ElectDiscards, Ignore
<1> QED BY <1>2, <1>3, DatagramGoes DEF wireCounts, Inv, TypeOK, WireTypeOK

LEMMA ElectNewLeaderStep ==
  ASSUME Inv, NEW c \in Clients, ElectNewLeader(c)
  PROVE  Inv'
<1> USE DEF Inv
<1>1. PICK d \in Addressed("NEWLEADER", c) :
        /\ Transmit({d}, {})
        /\ others' = Set(others, c, UpdateClients(others[c], d.table))
        /\ host' = Set(host, c, d.from)
        /\ latestSequenceNum' = Set(latestSequenceNum, c, d.seq)
  BY DEF ElectNewLeader
<1>2. /\ d \in net /\ d.type = "NEWLEADER" /\ d.from \in Machine /\ d.seq \in Nat
      /\ d.table \in Seq(Entry)
  BY DatagramFields DEF Addressed
<1>3. net' \subseteq net /\ net' \subseteq Datagram
  BY <1>1 DEF Transmit, TypeOK, WireTypeOK
<1>4. "unlock" \in PlacesOf("elect")
  BY DEF PlacesOf
<1>5. /\ at' \in [Clients -> Place]
      /\ \A k \in Clients : at'[k].elect = IF k = c THEN "unlock" ELSE at[k].elect
  BY <1>4, MoveType DEF ElectNewLeader
<1>6. others' = [others EXCEPT ![c] = d.table]
  BY <1>1 DEF Set, UpdateClients
<1>7. others' \in [Machine -> Seq(Entry)] /\ TableInv'
  <2>1. UniqueIds(d.table) /\ FirstIsOut(d.table) /\ (crossed \/ LeaderHighest(d.table))
    BY <1>2 DEF TableInv, Identities, Highest, FirstLeader
  <2>2. \A k \in Clients \ {c} : host'[k] = host[k]
    BY <1>1 DEF Set, TypeOK
  <2> QED BY <2>1, <2>2, <1>2, <1>3, <1>5, <1>6, TableChanged DEF ElectNewLeader, Claiming
<1>8. /\ host' \in [Clients -> Machine]
      /\ hold_election' \in [Clients -> BOOLEAN]
      /\ latestSequenceNum' \in [Clients -> Nat]
  BY <1>1, <1>2 DEF ElectNewLeader, Set, TypeOK
<1>9. TypeOK'
  BY <1>3, <1>5, <1>7, <1>8 DEF ElectNewLeader, TypeOK, MachinesTypeOK, WireTypeOK, wireCounts
<1> QED BY <1>7, <1>9

-----------------------------------------------------------------------------
(* The decision. *)
LEMMA DropLeaderStep ==
  ASSUME Inv, NEW c \in Clients, DropLeader(c)
  PROVE  Inv'
<1> USE DEF Inv
<1> DEFINE table == RemoveLeader(others[c])
<1>1. /\ others[c] \in Seq(Entry) /\ UniqueIds(others[c])
      /\ crossed \/ OneLeader(others[c])
      /\ FirstIsOut(others[c]) \/ FirstLeads(others[c])
  BY DEF TypeOK, MachinesTypeOK, Machine, TableInv, Identities, Highest, FirstLeader
<1>2. /\ table \in Seq(Entry) /\ UniqueIds(table) /\ FirstIsOut(table)
      /\ crossed \/ \A i \in DOMAIN table : ~table[i].isLeader
  BY <1>1, RemoveLeaderProperties
<1> HIDE DEF table
<1>3. crossed \/ LeaderHighest(table)
  BY <1>2 DEF LeaderHighest
<1>4. "decide" \in PlacesOf("elect")
  BY DEF PlacesOf
<1>5. /\ at' \in [Clients -> Place]
      /\ \A k \in Clients : at'[k].elect = IF k = c THEN "decide" ELSE at[k].elect
  BY <1>4, MoveType DEF DropLeader
<1>6. others' = [others EXCEPT ![c] = table]
  BY DEF DropLeader, Set, table
<1>7. others' \in [Machine -> Seq(Entry)] /\ TableInv'
  BY <1>2, <1>3, <1>5, <1>6, TableChanged DEF DropLeader, Claiming, numbers, wireVars
<1>8. TypeOK'
  BY <1>5, <1>7
     DEF DropLeader, TypeOK, MachinesTypeOK, WireTypeOK, numbers, signals, wireVars
<1> QED BY <1>7, <1>8

LEMMA DecideStep ==
  ASSUME Inv, NEW c \in Clients, Decide(c)
  PROVE  Inv'
<1> USE DEF Inv
<1> DEFINE place == IF IsNextLeader(others[c], c) THEN "claim" ELSE "ask"
<1>1. /\ place \in PlacesOf("elect") /\ place \in {"claim", "ask"}
      /\ place = "claim" => IsNextLeader(others[c], c)
  BY DEF PlacesOf
<1> HIDE DEF place
<1>2. at[c].elect = "decide" /\ Move(c, "elect", place)
  BY DEF Decide, place
<1>3. /\ at' \in [Clients -> Place]
      /\ \A k \in Clients : at'[k].elect = IF k = c THEN place ELSE at[k].elect
  BY <1>1, <1>2, MoveType
<1>4. TypeOK'
  BY <1>3
     DEF Decide, TypeOK, MachinesTypeOK, WireTypeOK, numbers, signals, machineVars, wireVars
<1>5. UNCHANGED <<others, election_result, host, crossed, net>>
  BY DEF Decide, numbers, machineVars, wireVars
<1>6. Identities'
  BY <1>5 DEF TableInv, Identities
<1>7. crossed' \/ Highest'
  BY <1>1, <1>2, <1>3, <1>5 DEF TableInv, Highest, Deciding, Claiming
<1>8. FirstLeader'
  BY <1>1, <1>2, <1>3, <1>5 DEF TableInv, FirstLeader, Deciding
<1> QED BY <1>4, <1>6, <1>7, <1>8 DEF TableInv

LEMMA ClaimStep ==
  ASSUME Inv, NEW c \in Clients, Claim(c)
  PROVE  Inv'
<1> USE DEF Inv
<1>1. "mark" \in PlacesOf("elect")
  BY DEF PlacesOf
<1>2. /\ at' \in [Clients -> Place]
      /\ \A k \in Clients : at'[k].elect = IF k = c THEN "mark" ELSE at[k].elect
  BY <1>1, MoveType DEF Claim
<1>3. /\ host' \in [Clients -> Machine] /\ client_trigger' \in [Clients -> {0, 2}]
      /\ \A k \in Clients : host'[k] = IF k = c THEN c ELSE host[k]
  BY DEF Claim, Set, Elected, Machine, TypeOK
<1>4. TypeOK'
  BY <1>2, <1>3 DEF Claim, TypeOK, MachinesTypeOK, WireTypeOK, numbers, machineVars, wireVars
<1>5. at[c].elect = "claim" /\ UNCHANGED <<others, election_result, crossed, net>>
  BY DEF Claim, numbers, machineVars, wireVars
<1>6. Identities'
  BY <1>5 DEF TableInv, Identities
<1>7. crossed' \/ Highest'
  BY <1>2, <1>5 DEF TableInv, Highest, Deciding, Claiming
<1>8. FirstLeader'
  BY <1>2, <1>3, <1>5 DEF TableInv, FirstLeader, Deciding, Claiming
<1> QED BY <1>4, <1>6, <1>7, <1>8 DEF TableInv

LEMMA MarkStep ==
  ASSUME Inv, NEW c \in Clients, Mark(c)
  PROVE  Inv'
<1> USE DEF Inv
<1> DEFINE table == MarkLeader(others[c], c)
<1>1. /\ others[c] \in Seq(Entry) /\ UniqueIds(others[c]) /\ FirstIsOut(others[c])
      /\ crossed \/ (LeaderHighest(others[c]) /\ IsNextLeader(others[c], c))
  BY DEF TypeOK, MachinesTypeOK, Machine, TableInv, Identities, Highest, FirstLeader, Mark,
         Deciding, Claiming
<1>2. /\ table \in Seq(Entry) /\ UniqueIds(table) /\ FirstIsOut(table)
      /\ crossed \/ LeaderHighest(table)
  BY <1>1, MarkLeaderProperties DEF Machine
<1> HIDE DEF table
<1>3. "write" \in PlacesOf("elect")
  BY DEF PlacesOf
<1>4. /\ at' \in [Clients -> Place]
      /\ \A k \in Clients : at'[k].elect = IF k = c THEN "write" ELSE at[k].elect
  BY <1>3, MoveType DEF Mark
<1>5. others' = [others EXCEPT ![c] = table]
  BY DEF Mark, Set, table
<1>6. others' \in [Machine -> Seq(Entry)] /\ TableInv'
  BY <1>2, <1>4, <1>5, TableChanged DEF Mark, Claiming, numbers, wireVars
<1>7. TypeOK'
  BY <1>4, <1>6 DEF Mark, TypeOK, MachinesTypeOK, WireTypeOK, numbers, signals, wireVars
<1> QED BY <1>6, <1>7

LEMMA WriteResultStep ==
  ASSUME Inv, NEW c \in Clients, WriteResult(c)
  PROVE  Inv'
<1> USE DEF Inv
<1> DEFINE result == [seq |-> latestSequenceNum[c], table |-> others[c]]
<1>1. /\ others[c] \in Seq(Entry) /\ UniqueIds(others[c]) /\ FirstIsOut(others[c])
      /\ crossed \/ LeaderHighest(others[c])
  BY DEF TypeOK, MachinesTypeOK, Machine, TableInv, Identities, Highest, FirstLeader, WriteResult,
         Deciding
<1>2. result \in [seq : Nat, table : Seq(Entry)] /\ result.table = others[c]
  BY <1>1 DEF TypeOK
<1>3. election_result' = [election_result EXCEPT ![c] = result]
  BY DEF WriteResult, Set
<1> HIDE DEF result
<1>4. /\ election_result' \in [Clients -> [seq : Nat, table : Seq(Entry)]]
      /\ election_result'[c].table = others[c]
      /\ \A k \in Clients \ {c} : election_result'[k] = election_result[k]
  BY <1>2, <1>3 DEF TypeOK
<1>5. "announce" \in PlacesOf("elect")
  BY DEF PlacesOf
<1>6. /\ at' \in [Clients -> Place]
      /\ \A k \in Clients : at'[k].elect = IF k = c THEN "announce" ELSE at[k].elect
  BY <1>5, MoveType DEF WriteResult
<1>7. TypeOK'
  BY <1>4, <1>6
     DEF WriteResult, TypeOK, MachinesTypeOK, WireTypeOK, signals, machineVars, wireVars
<1>8. UNCHANGED <<others, host, crossed, net>>
  BY DEF WriteResult, machineVars, wireVars
<1>9. Identities'
  BY <1>1, <1>4, <1>8 DEF TableInv, Identities
<1>10. crossed' \/ Highest'
  BY <1>1, <1>4, <1>6, <1>8 DEF TableInv, Highest, Deciding, Claiming
<1>11. FirstLeader'
  BY <1>1, <1>4, <1>6, <1>8 DEF TableInv, FirstLeader, Deciding, Claiming
<1> QED BY <1>7, <1>9, <1>10, <1>11 DEF TableInv

LEMMA AnnounceStep ==
  ASSUME Inv, NEW c \in Clients, Announce(c)
  PROVE  Inv'
<1> USE DEF Inv
<1> DEFINE result == election_result[c]
           announced == {[type |-> "NEWLEADER", from |-> c, to |-> m,
                          seq |-> result.seq, table |-> result.table] :
                            m \in Listed(c) \ {c}}
<1>1. result \in [seq : Nat, table : Seq(Entry)]
  BY DEF TypeOK
<1>2. /\ UniqueIds(result.table) /\ FirstIsOut(result.table)
      /\ crossed \/ LeaderHighest(result.table)
  BY DEF TableInv, Identities, Highest, FirstLeader
<1>3. Transmit({}, announced)
  BY DEF Announce
<1> HIDE DEF result
<1>4. announced \in SUBSET Datagram
  BY <1>1, ListedAreMachines DEF Datagram, Machine
<1>5. \A e \in announced : e.table = result.table
  OBVIOUS
<1> HIDE DEF announced
<1>6. net' \subseteq Datagram
  BY <1>3, <1>4, TransmitType
<1>7. "test" \in PlacesOf("elect")
  BY DEF PlacesOf
<1>8. /\ at' \in [Clients -> Place]
      /\ \A k \in Clients : at'[k].elect = IF k = c THEN "test" ELSE at[k].elect
  BY <1>7, MoveType DEF Announce
<1>9. currentSequenceNum' \in [Clients -> Nat]
  BY DEF Announce, NumberToGoOn, Set, TypeOK
<1>10. NoResult \in [seq : Nat, table : Seq(Entry)] /\ DOMAIN NoResult.table = {}
  BY DEF NoResult
<1>11. /\ election_result' \in [Clients -> [seq : Nat, table : Seq(Entry)]]
       /\ \A k \in Clients : election_result'[k] = IF k = c THEN NoResult ELSE election_result[k]
  BY <1>10 DEF Announce, Set, TypeOK
<1>12. TypeOK'
  BY <1>6, <1>8, <1>9, <1>11
     DEF Announce, TypeOK, MachinesTypeOK, WireTypeOK, signals, machineVars, wireCounts
<1>13. \A e \in net' : e.type = "NEWLEADER" => e \in net \/ e.table = result.table
  BY <1>3, <1>5 DEF Transmit
<1>14. /\ UniqueIds(NoResult.table) /\ LeaderHighest(NoResult.table)
       /\ FirstIsOut(NoResult.table)
  BY <1>10 DEF UniqueIds, LeaderHighest, FirstIsOut
<1>15. UNCHANGED <<others, host, crossed>>
  BY DEF Announce, machineVars
<1>16. Identities'
  BY <1>2, <1>11, <1>13, <1>14, <1>15 DEF TableInv, Identities
<1>17. crossed' \/ Highest'
  BY <1>2, <1>8, <1>11, <1>13, <1>14, <1>15 DEF TableInv, Highest, Deciding, Claiming
<1>18. FirstLeader'
  BY <1>2, <1>8, <1>11, <1>13, <1>14, <1>15 DEF TableInv, FirstLeader, Deciding, Claiming
<1> QED BY <1>12, <1>16, <1>17, <1>18 DEF TableInv

LEMMA ElectStep ==
  ASSUME Inv, NEW c \in Clients, Elect(c)
  PROVE  Inv'
BY ElectTestStep, TakeNoElectionLockStep, DropLeaderStep, DecideStep, ClaimStep, MarkStep,
   WriteResultStep, AnnounceStep, AskHigherStep, ElectDiscardsStep, ElectNewLeaderStep, UnlockStep DEF Elect

-----------------------------------------------------------------------------
(* main, the printer, and the world outside. *)
LEMMA TransformStep ==
  ASSUME Inv, NEW c \in Clients, Transform(c)
  PROVE  Inv'
<1> USE DEF Inv
<1> DEFINE place == [listen |-> "end", beat |-> "end", check |-> "end",
                     elect |-> at[c].elect, main |-> "sequencer"]
<1>1. place \in Place /\ place.elect = at[c].elect
  BY DEF Place, TypeOK
<1> HIDE DEF place
<1>2. at' = [at EXCEPT ![c] = place]
  BY DEF Transform, Set, place
<1>3. /\ at' \in [Clients -> Place]
      /\ \A k \in Clients : at'[k].elect = at[k].elect
  BY <1>1, <1>2 DEF TypeOK
<1>4. client_trigger' \in [Clients -> {0, 2}]
  BY DEF Transform, Set, TypeOK
<1>5. TypeOK'
  BY <1>3, <1>4 DEF Transform, TypeOK, MachinesTypeOK, WireTypeOK, numbers, machineVars, wireVars
<1>6. TableInv'
  BY <1>3, TablesAlone DEF numbers, Transform, machineVars, wireVars
<1> QED BY <1>5, <1>6

LEMMA ProcessEnds ==
  ASSUME Inv, NEW m \in Machine, CloseSockets(m), UNCHANGED <<host, numbers, signals, at, crossed>>,
         UNCHANGED <<lost, early, machineVars>>
  PROVE  Inv'
<1> USE DEF Inv
<1>1. TypeOK'
  BY DEF CloseSockets, TypeOK, MachinesTypeOK, WireTypeOK, numbers, signals, machineVars
<1>2. TableInv'
  BY TablesAlone DEF numbers, CloseSockets, machineVars
<1> QED BY <1>1, <1>2

LEMMA ShowNextStep ==
  ASSUME Inv, NEW c \in Clients, ShowNext(c)
  PROVE  Inv'
<1> USE DEF Inv
<1>1. CASE PrintNext(c)
  <2> DEFINE n == latestSequenceNum[c] + 1
  <2>1. n \in Nat /\ Line(n) \in Message
    BY DEF TypeOK, Line, Message, Machine
  <2>2. printed' \in [Machine -> Seq(Message)]
    <3>1. printed[c] \in Seq(Message)
      BY DEF TypeOK, MachinesTypeOK, Machine
    <3>2. Append(printed[c], Line(n)) \in Seq(Message)
      BY <2>1, <3>1, AppendProperties
    <3>3. printed' = [printed EXCEPT ![c] = Append(printed[c], Line(n))]
      BY <1>1 DEF PrintNext, PrintMessage
    <3> QED BY <3>2, <3>3 DEF TypeOK, MachinesTypeOK
  <2>3. /\ latestSequenceNum' \in [Clients -> Nat]
        /\ client_queue' \in [Clients -> SUBSET [type : {"MSG_REQ", "NEWLEADER"}, v : Nat]]
    BY <1>1, <2>1 DEF PrintNext, Set, TypeOK
  <2>4. TypeOK'
    BY <1>1, <2>2, <2>3 DEF PrintNext, TypeOK, MachinesTypeOK, WireTypeOK, signals, wireVars
  <2>5. TableInv'
    BY <1>1, TablesAlone DEF numbers, PrintNext, wireVars
  <2> QED BY <2>4, <2>5
<1>2. CASE PrintFails(c)
  BY <1>2, ProcessEnds DEF PrintFails, Machine
<1> QED BY <1>1, <1>2 DEF ShowNext

LEMMA LoseStep ==
  ASSUME Inv, Lose, UNCHANGED <<host, numbers, signals, at, crossed>>
  PROVE  Inv'
<1>1. PICK d \in net : net' = net \ {d}
  BY DEF Lose
<1>2. lost' \in Nat /\ early' \in Nat
  BY DEF Lose, Inv, TypeOK, WireTypeOK
<1> QED BY <1>1, <1>2, DatagramGoes DEF Lose

LEMMA FirstLeaderCastsStep ==
  ASSUME Inv, FirstLeaderCasts
  PROVE  Inv'
<1> USE DEF Inv
<1>1. PICK n : /\ n = Cardinality(Clients) + Len(printed[Leader])
               /\ \E reached \in SUBSET Clients :
                    Transmit({}, {[type |-> "CAST", to |-> c, v |-> n, try |-> 0,
                                   msg |-> Line(n)] : c \in reached})
               /\ PrintMessage(Leader, Line(n))
  BY DEF FirstLeaderCasts
<1>2. printed[Leader] \in Seq(Message)
  BY DEF TypeOK, MachinesTypeOK, Machine
<1>3. n \in Nat
  <2>1. Len(printed[Leader]) \in Nat /\ Cardinality(Clients) \in Nat
    BY <1>2, PortAssumption, FS_CardinalityType
  <2> QED BY <1>1, <2>1
<1>4. Line(n) \in Message
  BY <1>3 DEF Line, Message, Machine
<1>5. PICK reached \in SUBSET Clients :
        Transmit({}, {[type |-> "CAST", to |-> c, v |-> n, try |-> 0, msg |-> Line(n)] :
                        c \in reached})
  BY <1>1
<1> DEFINE casts == {[type |-> "CAST", to |-> c, v |-> n, try |-> 0, msg |-> Line(n)] :
                       c \in reached}
<1>6. casts \in SUBSET Datagram /\ \A e \in casts : e.type = "CAST"
  BY <1>3, <1>4 DEF Datagram, Machine
<1>7. Transmit({}, casts)
  BY <1>5
<1> HIDE DEF casts
<1>8. net' \subseteq Datagram /\ \A e \in net' : e.type = "NEWLEADER" => e \in net
  BY <1>6, <1>7, TransmitType DEF Transmit
<1>9. printed' \in [Machine -> Seq(Message)]
  <2>1. Append(printed[Leader], Line(n)) \in Seq(Message)
    BY <1>2, <1>4, AppendProperties
  <2>2. printed' = [printed EXCEPT ![Leader] = Append(printed[Leader], Line(n))]
    BY <1>1 DEF PrintMessage
  <2> QED BY <2>1, <2>2 DEF TypeOK, MachinesTypeOK
<1>10. TypeOK'
  BY <1>8, <1>9
     DEF FirstLeaderCasts, TypeOK, MachinesTypeOK, WireTypeOK, numbers, signals, wireCounts
<1>11. TableInv'
  BY <1>8, TablesAlone DEF FirstLeaderCasts, numbers
<1> QED BY <1>10, <1>11

LEMMA InvStep == Inv /\ [Next]_vars => Inv'
<1> SUFFICES ASSUME Inv, [Next]_vars PROVE Inv'
  OBVIOUS
<1>1. CASE FirstLeaderEnds
  BY <1>1, ProcessEnds DEF FirstLeaderEnds, Machine
<1>2. CASE Lose /\ UNCHANGED <<host, numbers, signals, at, crossed>>
  BY <1>2, LoseStep
<1>3. ASSUME NEW c \in Clients, Threads(c) PROVE Inv'
  BY <1>3, ListenStep, ReceiveBeatStep, CheckStep, ElectStep, TransformStep, ElectDiscardsStep,
     ShowNextStep DEF Threads
<1>4. CASE UNCHANGED vars
  <2>1. TypeOK'
    BY <1>4 DEF vars, Inv, TypeOK, MachinesTypeOK, WireTypeOK, numbers, signals, machineVars, wireVars
  <2>2. TableInv'
    BY <1>4, TablesAlone DEF vars, Inv, machineVars, wireVars, numbers
  <2> QED BY <2>1, <2>2 DEF Inv
<1>5. CASE FirstLeaderCasts
  BY <1>5, FirstLeaderCastsStep
<1> QED BY <1>1, <1>2, <1>3, <1>4, <1>5 DEF Next

-----------------------------------------------------------------------------
(* A set of clients can be listed, each of them once. *)
LEMMA SetToSeqProperties ==
  /\ Cardinality(Clients) \in Nat
  /\ SetToSeq(Clients) \in [1..Cardinality(Clients) -> Clients]
  /\ \A i, j \in 1..Cardinality(Clients) : SetToSeq(Clients)[i] = SetToSeq(Clients)[j] => i = j
<1>1. Cardinality(Clients) \in Nat /\ ExistsBijection(1..Cardinality(Clients), Clients)
  BY PortAssumption, FS_CardinalityType
<1>2. \E f \in [1..Cardinality(Clients) -> Clients] : IsInjective(f)
  BY <1>1 DEF ExistsBijection, Bijection, Injection, IsInjective
<1>3. /\ SetToSeq(Clients) \in [1..Cardinality(Clients) -> Clients]
      /\ IsInjective(SetToSeq(Clients))
  BY <1>2 DEF SetToSeq
<1> QED BY <1>1, <1>3 DEF IsInjective

LEMMA InitialTableProperties ==
  InitialTable \in Seq(Entry) /\ UniqueIds(InitialTable) /\ FirstLeads(InitialTable)
<1> DEFINE joined == SetToSeq(Clients)
           size == Cardinality(Clients)
<1>1. /\ size \in Nat /\ joined \in [1..size -> Clients]
      /\ \A i, j \in 1..size : joined[i] = joined[j] => i = j
  BY SetToSeqProperties
<1>2. Len(joined) = size
  BY <1>1
<1>3. InitialTable = [i \in 1..(size + 1) |-> NewEntry(IF i = 1 THEN Leader ELSE joined[i - 1])]
  BY <1>2 DEF InitialTable
<1> HIDE DEF joined, size
<1>4. \A i \in 2..(size + 1) : i - 1 \in 1..size /\ joined[i - 1] \in Clients /\ joined[i - 1] # Leader
  BY <1>1, LeaderAssumption
<1>5. /\ DOMAIN InitialTable = 1..(size + 1)
      /\ InitialTable[1] = NewEntry(Leader)
      /\ \A i \in 2..(size + 1) : InitialTable[i] = NewEntry(joined[i - 1])
  BY <1>1, <1>3
<1>6. \A m \in Machine : NewEntry(m) \in Entry /\ NewEntry(m).id = m /\ (NewEntry(m).isLeader <=> m = Leader)
  BY DEF NewEntry, Entry, IsLeader
<1>7. InitialTable \in Seq(Entry)
  <2>1. \A i \in 1..(size + 1) : NewEntry(IF i = 1 THEN Leader ELSE joined[i - 1]) \in Entry
    BY <1>1, <1>4, <1>6 DEF Machine
  <2>2. InitialTable \in [1..(size + 1) -> Entry]
    BY <1>3, <2>1
  <2> QED BY <1>1, <2>2, SeqDef
<1>8. /\ InitialTable[1].id = Leader
      /\ \A i \in 2..(size + 1) :
           InitialTable[i].id = joined[i - 1] /\ ~InitialTable[i].isLeader
  BY <1>4, <1>5, <1>6 DEF Machine
<1>9. \A i \in 1..(size + 1) : i = 1 \/ i \in 2..(size + 1)
  BY <1>1
<1>10. UniqueIds(InitialTable)
  <2> SUFFICES ASSUME NEW i \in 1..(size + 1), NEW j \in 1..(size + 1),
                      InitialTable[i].id = InitialTable[j].id
               PROVE  i = j
    BY <1>5 DEF UniqueIds
  <2>1. CASE i = 1 \/ j = 1
    BY <2>1, <1>4, <1>8, <1>9
  <2>2. CASE i \in 2..(size + 1) /\ j \in 2..(size + 1)
    <3>1. i - 1 = j - 1
      BY <2>2, <1>1, <1>4, <1>8
    <3> QED BY <3>1, <1>1
  <2> QED BY <2>1, <2>2, <1>9
<1>11. FirstLeads(InitialTable)
  <2>1. InitialTable[1].isLeader
    BY <1>5, <1>6 DEF Machine
  <2> QED BY <2>1, <1>4, <1>5, <1>8, <1>9 DEF FirstLeads
<1> QED BY <1>7, <1>10, <1>11

LEMMA InvInit == Init => Inv
<1> SUFFICES ASSUME Init PROVE Inv
  OBVIOUS
<1>1. Cardinality(Clients) \in Nat /\ (Clients # {} => Cardinality(Clients) - 1 \in Nat)
  BY PortAssumption, FS_CardinalityType, FS_EmptySet
<1>2. MachinesTypeOK
  BY InitialTableProperties DEF Init, MachinesTypeOK
<1>3. WireTypeOK
  BY DEF Init, WireInit, WireTypeOK
<1>4. /\ host \in [Clients -> Machine]
      /\ latestSequenceNum \in [Clients -> Nat]
      /\ currentSequenceNum \in [Clients -> Nat]
      /\ election_result \in [Clients -> [seq : Nat, table : Seq(Entry)]]
      /\ unset \in [Clients -> BOOLEAN]
      /\ client_trigger \in [Clients -> {0, 2}]
      /\ hold_election \in [Clients -> BOOLEAN]
      /\ election_lock \in [Clients -> BOOLEAN]
      /\ no_election_lock \in [Clients -> BOOLEAN]
  BY <1>1 DEF Init, Machine, NoResult
<1>5. client_queue \in [Clients -> SUBSET [type : {"MSG_REQ", "NEWLEADER"}, v : Nat]]
  BY DEF Init
<1>6. /\ at \in [Clients -> Place] /\ \A c \in Clients : at[c].elect = "lock"
      /\ crossed \in BOOLEAN
  BY DEF Init, Place
<1>7. TableInv
  <2>1. /\ UniqueIds(NoResult.table) /\ LeaderHighest(NoResult.table)
        /\ FirstIsOut(NoResult.table)
    BY DEF NoResult, UniqueIds, LeaderHighest, FirstIsOut
  <2>2. OneLeader(InitialTable)
    BY InitialTableProperties DEF UniqueIds, FirstLeads, OneLeader
  <2>3. /\ \A m \in Machine : others[m] = InitialTable
        /\ \A c \in Clients : host[c] = Leader /\ election_result[c] = NoResult
        /\ net = {}
    BY DEF Init, WireInit, Machine
  <2>4. Identities
    BY <2>1, <2>3, InitialTableProperties DEF Identities
  <2>5. Highest
    BY <1>6, <2>1, <2>2, <2>3 DEF Highest, Deciding, Claiming
  <2>6. FirstLeader
    BY <1>6, <2>1, <2>3, InitialTableProperties DEF FirstLeader, Deciding, Claiming, Machine
  <2> QED BY <2>4, <2>5, <2>6 DEF TableInv
<1> QED BY <1>2, <1>3, <1>4, <1>5, <1>6, <1>7 DEF Inv, TypeOK

LEMMA InvInvariant == Spec => []Inv
BY InvInit, InvStep, PTL DEF Spec

(* Every variable of the election keeps its type: no scan of a table ends  *)
(* outside it, and what is announced is a table (client.c:531-637).        *)
THEOREM ElectionTypeCorrect == Spec => []TypeOK
BY InvInvariant, PTL DEF Inv

(* No machine ever lists two leaders (client.c:304-305, 538-554, 622),     *)
(* whatever is lost, whoever suspects a leader that is alive, and however  *)
(* many clients claim to lead at the same time, unless one of them takes   *)
(* over a table between its test and its mark.                             *)
THEOREM OneLeaderListedAlways == Spec => []OneLeaderListed
<1>1. Inv => OneLeaderListed
  BY DEF Inv, TableInv, Highest, OneLeader, OneLeaderListed
<1> QED BY <1>1, InvInvariant, PTL

(* Whoever follows another leader than the first, or leads, no longer      *)
(* lists the first (client.c:304-307, 538-554, 622-624), tables taken over *)
(* in the middle of a claim included.                                      *)
THEOREM DeadLeaderUnlistedAlways == Spec => []DeadLeaderUnlisted
<1>1. Inv => DeadLeaderUnlisted
  BY DEF Inv, TableInv, FirstLeader, FirstIsOut, DeadLeaderUnlisted, Listed
<1> QED BY <1>1, InvInvariant, PTL
=============================================================================
