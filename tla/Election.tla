------------------------------ MODULE Election ------------------------------
(***************************************************************************)
(* client.c, the election of a new leader: the threads of each client that *)
(* take part in it and the two locks they wait on.  It starts in a chat of *)
(* the first leader and some clients who all list each other; the leader   *)
(* broadcasts lines until its process ends at some point, perhaps in the   *)
(* middle of a broadcast.                                                  *)
(*                                                                         *)
(* Only the port of a machine matters here (all run at one address), so a  *)
(* machine is its port number.  A lock is a flag: any thread may unlock    *)
(* it, unlocking it twice is the same as once, and one of the threads that *)
(* wait for it gets it.                                                    *)
(***************************************************************************)
EXTENDS Wire, Integers

CONSTANTS
  MaxLines,      \* bound: how many lines the first leader broadcasts
  MaxReached,    \* bound: how many clients get the same line
  UnsetMatches   \* can a sequence number that was never set happen to be the
                 \* one expected next?

ASSUME PortAssumption == Machine \subseteq Nat /\ IsFiniteSet(Clients)
ASSUME ElectionAssumption == {MaxLines, MaxReached} \subseteq Nat /\ UnsetMatches \in BOOLEAN

(* Every variable but the last is a function of the client. *)
VARIABLES
  host,               \* host_port
  latestSequenceNum,
  currentSequenceNum,
  client_queue,       \* its nodes, as a set
  election_result,    \* NEWLEADER as it is being written: number and table
  unset,              \* does it hold a node whose number was never set and
                      \* happens to be the one expected?
  client_trigger,     \* 0, or 2: become the leader
  hold_election,
  election_lock,      \* is it locked?
  no_election_lock,   \* likewise
  at,                 \* where each thread is
  crossed             \* history, one for all: has a client ever taken over a
                      \* table between its test that it is the next leader
                      \* and its marking itself in the table?

numbers == <<latestSequenceNum, currentSequenceNum, client_queue, election_result, unset>>
signals == <<client_trigger, hold_election, election_lock, no_election_lock>>
wireCounts == <<gone, lost, early>>
vars == <<machineVars, wireVars, host, numbers, signals, at, crossed>>

Waiter == {"listen", "beat", "check"}
Place ==
  [listen : {"test", "lock", "go", "unlock", "end"},
   beat : {"test", "lock", "go", "end"},
   check : {"test", "lock", "go", "end"},
   elect : {"test", "lock", "run", "decide", "claim", "mark", "write", "announce", "ask",
            "recv", "unlock", "end"},
   main : {"spin", "sequencer"}]

Move(c, t, place) == at' = [at EXCEPT ![c][t] = place]
Set(f, c, value) == [f EXCEPT ![c] = value]

Running(c) == c \notin gone
Sequencers == ({Leader} \cup {c \in Clients : at[c].main = "sequencer"}) \ gone

(* The first leader's lines: their number and their text. *)
Line(n) == [type |-> "MSG_REQ", about |-> Leader, seq |-> n, sender_seq |-> 0,
            text |-> <<Leader, n>>]
Node(type, n) == [type |-> type, v |-> n]
NoResult == [seq |-> 0, table |-> <<>>]

-----------------------------------------------------------------------------
(* The operations of the election on a table. *)
Mut_RemoveLeader(table) == table
RemoveLeader(table) == RemoveFirstOf(table, {i \in DOMAIN table : table[i].isLeader})

(* find_next_leader finds the highest port in the table, and it is m's.    *)
(* (Of an empty table the unused first slot is read, which holds nobody's  *)
(* port.)                                                                  *)
Mut_IsNextLeader(table, m) == \E i \in DOMAIN table : table[i].id = m
IsNextLeader(table, m) ==
  /\ \E i \in DOMAIN table : table[i].id = m
  /\ \A i \in DOMAIN table : table[i].id <= m

MarkLeader(table, m) ==
  [i \in DOMAIN table |-> IF table[i].id = m THEN [table[i] EXCEPT !.isLeader = TRUE]
                          ELSE table[i]]

-----------------------------------------------------------------------------
(* while (hold_election) lock(election_lock): the head of the loops of     *)
(* client_listen, recv_clnt_hb and check_hb.  A thread that gets the lock  *)
(* while the election is on asks for it a second time, and so waits with   *)
(* the lock held.  With client_trigger set the thread ends: it stays where *)
(* it is.                                                                  *)
TestHold(c, t) ==
  /\ at[c][t] = "test" /\ client_trigger[c] = 0
  /\ Move(c, t, IF hold_election[c] THEN "lock" ELSE "go")
  /\ election_lock' = Set(election_lock, c, hold_election[c] \/ election_lock[c])
  /\ UNCHANGED <<host, numbers, client_trigger, hold_election, no_election_lock, crossed,
                 machineVars, wireVars>>

TakeElectionLock(c, t) ==
  /\ at[c][t] = "lock" /\ ~election_lock[c]
  /\ election_lock' = Set(election_lock, c, TRUE)
  /\ Move(c, t, IF hold_election[c] THEN "lock" ELSE "go")
  /\ UNCHANGED <<host, numbers, client_trigger, hold_election, no_election_lock, crossed,
                 machineVars, wireVars>>

(* The four unlocks that follow NEWLEADER: each of them but the last may   *)
(* let one of the waiting threads through before the next; the last leaves *)
(* the lock free, so that one more can take it, and keep it.               *)
Unlock(c, t) ==
  /\ at[c][t] = "unlock"
  /\ \E through \in SUBSET {w \in Waiter : at[c][w] = "lock"} :
       at' = Set(at, c, [p \in DOMAIN at[c] |->
                           IF p = t THEN "test"
                           ELSE IF p \in through /\ ~hold_election[c] THEN "go"
                           ELSE at[c][p]])
  /\ election_lock' = Set(election_lock, c, FALSE)
  /\ UNCHANGED <<host, numbers, client_trigger, hold_election, no_election_lock, crossed,
                 machineVars, wireVars>>

-----------------------------------------------------------------------------
(* client_listen, parse_incoming_cl: whatever arrives is queued and        *)
(* acknowledged to where it came from, acknowledgements included.          *)
QueueUnset(c) == \E match \in {FALSE, UnsetMatches} : unset' = Set(unset, c, unset[c] \/ match)
Ack(c, m) == [type |-> "ACK", from |-> c, to |-> m, v |-> 0, try |-> 0]

(* A line of the first leader.  (Its acknowledgement goes to the socket of *)
(* the broadcast, which ends its resends: it is left out with them.)       *)
ListenLine(c) ==
  /\ at[c].listen = "go"
  /\ \E d \in Addressed("CAST", c) :
       /\ Transmit({d}, {})
       /\ client_queue' = Set(client_queue, c,
                              client_queue[c] \cup {Node("MSG_REQ", d.msg.seq)})
  /\ Move(c, "listen", "test")
  /\ UNCHANGED <<host, latestSequenceNum, currentSequenceNum, election_result, unset,
                 signals, crossed, machineVars, wireCounts>>

ListenAck(c) ==
  /\ at[c].listen = "go"
  /\ \E d \in Addressed("ACK", c) : Transmit({d}, {Ack(c, d.from)})
  /\ QueueUnset(c)
  /\ Move(c, "listen", "test")
  /\ UNCHANGED <<host, latestSequenceNum, currentSequenceNum, client_queue,
                 election_result, signals, crossed, machineVars, wireCounts>>

ListenElection(c) ==
  /\ at[c].listen = "go"
  /\ \E d \in Addressed("ELECTION_REQ", c) : Transmit({d}, {Ack(c, d.from)})
  /\ QueueUnset(c)
  /\ hold_election' = Set(hold_election, c, TRUE)
  /\ no_election_lock' = Set(no_election_lock, c, FALSE)
  /\ Move(c, "listen", "test")
  /\ UNCHANGED <<host, latestSequenceNum, currentSequenceNum, client_queue,
                 election_result, client_trigger, election_lock, crossed, machineVars,
                 wireCounts>>

ListenNewLeader(c) ==
  /\ at[c].listen = "go"
  /\ \E d \in Addressed("NEWLEADER", c) :
       /\ Transmit({d}, {Ack(c, d.from)})
       /\ client_queue' = Set(client_queue, c, client_queue[c] \cup {Node("NEWLEADER", d.seq)})
       /\ others' = Set(others, c, UpdateClients(RemoveLeader(others[c]), d.table))
       /\ host' = Set(host, c, d.from)
  /\ crossed' = (crossed \/ at[c].elect \in {"claim", "mark"})
  /\ hold_election' = Set(hold_election, c, FALSE)
  /\ Move(c, "listen", "unlock")
  /\ UNCHANGED <<latestSequenceNum, currentSequenceNum, election_result, unset,
                 client_trigger, election_lock, no_election_lock, printed, wireCounts>>

Listen(c) ==
  \/ ListenLine(c) \/ ListenAck(c) \/ ListenElection(c) \/ ListenNewLeader(c)
  \/ Unlock(c, "listen") \/ TestHold(c, "listen") \/ TakeElectionLock(c, "listen")

-----------------------------------------------------------------------------
(* recv_clnt_hb and check_hb.  A beat reaches c when a leader that runs    *)
(* lists it; check_hb finds more than three beats missing when none is     *)
(* counted any more (early: four of them are late or lost).                *)
Beaten(c) == \E m \in Sequencers : c \in Listed(m)

ReceiveBeat(c) ==
  \/ /\ at[c].beat = "go" /\ Beaten(c)
     /\ Move(c, "beat", "test")
     /\ UNCHANGED <<host, numbers, signals, crossed, machineVars, wireVars>>
  \/ TestHold(c, "beat") \/ TakeElectionLock(c, "beat")

Mut_WakeElection(c) == UNCHANGED no_election_lock
WakeElection(c) == no_election_lock' = Set(no_election_lock, c, FALSE)

Suspect(c) ==
  /\ at[c].check = "go"
  /\ TimeoutExpires(Beaten(c) /\ at[c].beat # "lock")
  /\ hold_election' = Set(hold_election, c, TRUE)
  /\ WakeElection(c)
  /\ Move(c, "check", "test")
  /\ UNCHANGED <<host, numbers, client_trigger, election_lock, crossed, machineVars, net,
                 gone, lost>>

CheckAgain(c) ==
  /\ at[c].check = "go"
  /\ Move(c, "check", "test")
  /\ UNCHANGED <<host, numbers, signals, crossed, machineVars, wireVars>>

Check(c) ==
  Suspect(c) \/ CheckAgain(c) \/ TestHold(c, "check") \/ TakeElectionLock(c, "check")

-----------------------------------------------------------------------------
(* elect_leader, while (!hold_election) lock(no_election_lock): likewise.  *)
ElectTest(c) ==
  /\ at[c].elect = "test"
  /\ Move(c, "elect", IF client_trigger[c] # 0 THEN "end"
                      ELSE IF hold_election[c] THEN "run" ELSE "lock")
  /\ no_election_lock' =
       Set(no_election_lock, c,
           no_election_lock[c] \/ (client_trigger[c] = 0 /\ ~hold_election[c]))
  /\ UNCHANGED <<host, numbers, client_trigger, hold_election, election_lock, crossed,
                 machineVars, wireVars>>

TakeNoElectionLock(c) ==
  /\ at[c].elect = "lock" /\ ~no_election_lock[c]
  /\ no_election_lock' = Set(no_election_lock, c, TRUE)
  /\ Move(c, "elect", IF hold_election[c] THEN "run" ELSE "lock")
  /\ UNCHANGED <<host, numbers, client_trigger, hold_election, election_lock, crossed,
                 machineVars, wireVars>>

DropLeader(c) ==
  /\ at[c].elect = "run"
  /\ others' = Set(others, c, RemoveLeader(others[c]))
  /\ Move(c, "elect", "decide")
  /\ UNCHANGED <<host, numbers, signals, crossed, printed, wireVars>>

(* The value of client_trigger that makes client_loop return to become the *)
(* leader (1 makes it return to end the program).                          *)
Mut_Elected == 1
Elected == 2

(* The test, the claim and the mark in the table: client_listen runs all   *)
(* the while, and may take over another table between any two of them.     *)
(* (One that comes in the middle of the marking loop is as good as one     *)
(* before or after it.)                                                    *)
Decide(c) ==
  /\ at[c].elect = "decide"
  /\ Move(c, "elect", IF IsNextLeader(others[c], c) THEN "claim" ELSE "ask")
  /\ UNCHANGED <<host, numbers, signals, crossed, machineVars, wireVars>>

(* client_trigger is set before the table is marked, before the number to  *)
(* go on with and before the announcement.                                 *)
Claim(c) ==
  /\ at[c].elect = "claim"
  /\ host' = Set(host, c, c)
  /\ client_trigger' = Set(client_trigger, c, Elected)
  /\ Move(c, "elect", "mark")
  /\ UNCHANGED <<numbers, hold_election, election_lock, no_election_lock, crossed,
                 machineVars, wireVars>>

Mark(c) ==
  /\ at[c].elect = "mark"
  /\ others' = Set(others, c, MarkLeader(others[c], c))
  /\ Move(c, "elect", "write")
  /\ UNCHANGED <<host, numbers, signals, crossed, printed, wireVars>>

(* NEWLEADER carries the table and the number as they are now.  The number *)
(* to go on with is a second read; until main cancels the other threads,   *)
(* sortAndPrint may show a line and client_listen take over a table in     *)
(* between.                                                                *)
WriteResult(c) ==
  /\ at[c].elect = "write"
  /\ election_result' = Set(election_result, c, [seq |-> latestSequenceNum[c],
                                                 table |-> others[c]])
  /\ Move(c, "elect", "announce")
  /\ UNCHANGED <<host, latestSequenceNum, currentSequenceNum, client_queue, unset,
                 signals, crossed, machineVars, wireVars>>

NumberToGoOn(c) == latestSequenceNum[c] + 1

Announce(c) ==
  /\ at[c].elect = "announce"
  /\ currentSequenceNum' = Set(currentSequenceNum, c, NumberToGoOn(c))
  /\ Transmit({}, {[type |-> "NEWLEADER", from |-> c, to |-> m, seq |-> election_result[c].seq,
                    table |-> election_result[c].table] : m \in Listed(c) \ {c}})
  /\ election_result' = Set(election_result, c, NoResult)
  /\ Move(c, "elect", "test")
  /\ UNCHANGED <<host, latestSequenceNum, client_queue, unset, signals, crossed,
                 machineVars, wireCounts>>

(* Not the highest: ask those above for an election, and wait. *)
AskHigher(c) ==
  /\ at[c].elect = "ask"
  /\ Transmit({}, {[type |-> "ELECTION_REQ", from |-> c, to |-> m] :
                     m \in {k \in Listed(c) : k > c}})
  /\ Move(c, "elect", "recv")
  /\ UNCHANGED <<host, numbers, signals, crossed, machineVars, wireCounts>>

(* The socket is the one client_listen reads: all but NEWLEADER is lost.   *)
ElectDiscards(c) ==
  /\ at[c].elect = "recv"
  /\ \E d \in net : d.to = c /\ d.type # "NEWLEADER" /\ Transmit({d}, {})
  /\ UNCHANGED <<host, numbers, signals, at, crossed, machineVars, wireCounts>>

ElectNewLeader(c) ==
  /\ at[c].elect = "recv"
  /\ \E d \in Addressed("NEWLEADER", c) :
       /\ Transmit({d}, {})
       /\ others' = Set(others, c, UpdateClients(others[c], d.table))
       /\ host' = Set(host, c, d.from)
       /\ latestSequenceNum' = Set(latestSequenceNum, c, d.seq)
  /\ hold_election' = Set(hold_election, c, FALSE)
  /\ Move(c, "elect", "unlock")
  /\ UNCHANGED <<currentSequenceNum, client_queue, election_result, unset, client_trigger,
                 election_lock, no_election_lock, crossed, printed, wireCounts>>

Elect(c) ==
  \/ ElectTest(c) \/ TakeNoElectionLock(c) \/ DropLeader(c) \/ Decide(c)
  \/ Claim(c) \/ Mark(c) \/ WriteResult(c) \/ Announce(c)
  \/ AskHigher(c) \/ ElectDiscards(c) \/ ElectNewLeader(c) \/ Unlock(c, "elect")

(* client_loop, client_start, main: the other threads are cancelled,       *)
(* client_trigger is 0 again when the sequencer starts.                    *)
Transform(c) ==
  /\ at[c].main = "spin" /\ client_trigger[c] = Elected
  /\ client_trigger' = Set(client_trigger, c, 0)
  /\ at' = Set(at, c, [listen |-> "end", beat |-> "end", check |-> "end",
                       elect |-> at[c].elect, main |-> "sequencer"])
  /\ UNCHANGED <<host, numbers, hold_election, election_lock, no_election_lock, crossed,
                 machineVars, wireVars>>

(* sequencer_listen takes no notice of the messages of an election.  (What *)
(* it would do with a late line of the dead leader is not modelled.)       *)
Ignore(c) ==
  /\ at[c].main = "sequencer"
  /\ \E d \in net : d.to = c /\ d.type # "CAST" /\ Transmit({d}, {})
  /\ UNCHANGED <<host, numbers, signals, at, crossed, machineVars, wireCounts>>

-----------------------------------------------------------------------------
(* sortAndPrint on the lines, until it is cancelled; print_message ends    *)
(* the process on a message of another type.                               *)
PrintNext(c) ==
  /\ at[c].main = "spin"
  /\ LET n == latestSequenceNum[c] + 1
     IN  /\ Node("MSG_REQ", n) \in client_queue[c]
         /\ client_queue' = Set(client_queue, c, client_queue[c] \ {Node("MSG_REQ", n)})
         /\ PrintMessage(c, Line(n))
         /\ latestSequenceNum' = Set(latestSequenceNum, c, n)
  /\ UNCHANGED <<host, currentSequenceNum, election_result, unset, signals, at, crossed,
                 others, wireVars>>

PrintFails(c) ==
  /\ at[c].main = "spin"
  /\ \/ Node("NEWLEADER", latestSequenceNum[c] + 1) \in client_queue[c]
     \/ unset[c]
  /\ CloseSockets(c)
  /\ UNCHANGED <<host, numbers, signals, at, crossed, lost, early, machineVars>>

ShowNext(c) == PrintNext(c) \/ PrintFails(c)

-----------------------------------------------------------------------------
FirstLeaderEnds ==
  /\ Leader \notin gone
  /\ CloseSockets(Leader)
  /\ UNCHANGED <<host, numbers, signals, at, crossed, lost, early, machineVars>>

(* The leader broadcasts its next line and shows it itself.  It gives up   *)
(* on a client after the fourth try, or ends in the middle: some of the    *)
(* clients get the line, others never.                                     *)
FirstLeaderCasts ==
  /\ Leader \notin gone /\ Len(printed[Leader]) < MaxLines
  /\ LET n == Cardinality(Clients) + Len(printed[Leader])
     IN  /\ \E reached \in {S \in SUBSET Clients : Cardinality(S) <= MaxReached} :
              Transmit({}, {[type |-> "CAST", to |-> c, v |-> n, try |-> 0, msg |-> Line(n)] :
                              c \in reached})
         /\ PrintMessage(Leader, Line(n))
  /\ UNCHANGED <<host, numbers, signals, at, crossed, others, wireCounts>>

(* The clients have joined and have shown the notices of it, the messages  *)
(* with the first numbers; the order of a table plays no part here.        *)
InitialTable ==
  LET joined == SetToSeq(Clients)
  IN  [i \in 1..(Len(joined) + 1) |-> NewEntry(IF i = 1 THEN Leader ELSE joined[i - 1])]

Init ==
  /\ others = [m \in Machine |-> InitialTable]
  /\ client_queue = [c \in Clients |-> {}]
  /\ printed = [m \in Machine |-> <<>>]
  /\ WireInit
  /\ host = [c \in Clients |-> Leader]
  /\ latestSequenceNum = [c \in Clients |-> Cardinality(Clients) - 1]
  /\ currentSequenceNum = [c \in Clients |-> 0]
  /\ election_result = [c \in Clients |-> NoResult]
  /\ unset = [c \in Clients |-> FALSE]
  /\ client_trigger = [c \in Clients |-> 0]
  /\ hold_election = [c \in Clients |-> FALSE]
  /\ election_lock = [c \in Clients |-> FALSE]
  /\ no_election_lock = [c \in Clients |-> TRUE]
  /\ at = [c \in Clients |-> [listen |-> "go", beat |-> "go", check |-> "go",
                              elect |-> "lock", main |-> "spin"]]
  /\ crossed = FALSE

Threads(c) ==
  \/ Listen(c) \/ ReceiveBeat(c) \/ Check(c) \/ Elect(c) \/ Transform(c) \/ Ignore(c)
  \/ ShowNext(c)

Next ==
  \/ FirstLeaderCasts \/ FirstLeaderEnds
  \/ Lose /\ UNCHANGED <<host, numbers, signals, at, crossed>>
  \/ \E c \in Clients : Running(c) /\ Threads(c)

Spec == Init /\ [][Next]_vars

(* Every thread runs when it can.  A socket is read in the order of        *)
(* arrival, so NEWLEADER is received if anybody reads it; beats that stay  *)
(* away add up however often check_hb looks.                               *)
Fairness ==
  \A c \in Clients :
    /\ WF_vars(Running(c) /\ Listen(c))
    /\ WF_vars(Running(c) /\ (ListenNewLeader(c) \/ ElectNewLeader(c)))
    /\ WF_vars(Running(c) /\ Check(c))
    /\ SF_vars(Running(c) /\ Suspect(c))
    /\ WF_vars(Running(c) /\ Elect(c))
    /\ WF_vars(Running(c) /\ Transform(c))

FairSpec == Spec /\ Fairness

-----------------------------------------------------------------------------
TypeOK ==
  /\ MachinesTypeOK /\ WireTypeOK
  /\ host \in [Clients -> Machine]
  /\ latestSequenceNum \in [Clients -> Nat]
  /\ currentSequenceNum \in [Clients -> Nat]
  /\ client_queue \in [Clients -> SUBSET [type : {"MSG_REQ", "NEWLEADER"}, v : Nat]]
  /\ election_result \in [Clients -> [seq : Nat, table : Seq(Entry)]]
  /\ unset \in [Clients -> BOOLEAN]
  /\ client_trigger \in [Clients -> {0, 2}]
  /\ hold_election \in [Clients -> BOOLEAN]
  /\ election_lock \in [Clients -> BOOLEAN]
  /\ no_election_lock \in [Clients -> BOOLEAN]
  /\ at \in [Clients -> Place]
  /\ crossed \in BOOLEAN

(* No machine lists two leaders (broadcast_message would print every       *)
(* message twice at the second, client.c:304-305, 538-554, 622), whoever   *)
(* suspects a leader that is alive and however many claim to lead, unless  *)
(* a client takes over a table between its test (540) and its mark (552):  *)
(* it then marks itself beside the leader of that table.                   *)
OneLeaderListed ==
  crossed \/ \A m \in Machine : \A i, j \in DOMAIN others[m] :
               others[m][i].isLeader /\ others[m][j].isLeader => i = j

(* A client that follows another leader than the first, or leads, has the  *)
(* first one no longer in its table (client.c:304-307, 538-554, 622-624),  *)
(* whichever of its threads took over the table, and when: as a leader it  *)
(* would broadcast to it, and wait for it, with every message.             *)
DeadLeaderUnlisted ==
  \A c \in Clients : host[c] # Leader => Leader \notin Listed(c)

(* When the leader's process ends, every client whose process goes on      *)
(* comes to follow a client that has claimed to be the leader (client.c:   *)
(* 531-637, 302-317), itself perhaps.                                      *)
FollowedEventually ==
  Leader \in gone ~> \A c \in Clients : c \in gone \/ host[c] # Leader

(* "Election thread first determines if it's the next leader by comparing  *)
(* its port number with highest port number in the group" (README.md): no  *)
(* client becomes leader while one with a higher port runs.                *)
HighestPortLeads ==
  \A c, k \in Clients : at[c].main = "sequencer" /\ k > c => k \in gone

(* "When other clients receive NEWLEADER messages, they [...] update       *)
(* leader information and resume all threads after all actions"            *)
(* (README.md): client_listen does not stay suspended after the election.  *)
ThreadsResume ==
  \A c \in Clients :
    at[c].listen = "lock" /\ ~hold_election[c]
      ~> at[c].listen # "lock" \/ hold_election[c] \/ c \in gone
=============================================================================
