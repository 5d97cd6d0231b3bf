----------------------------- MODULE LinkedList -----------------------------
(***************************************************************************)
(* util.c, linkedList: the list behind every queue of the program.  Its    *)
(* writers hold msg_queue_lock, its one remover reads it without:          *)
(* sortAndPrint scans client_queue and temp_queue, send_out_input and      *)
(* sequencer_send_queue hold on to the head while others add.  Modelled    *)
(* node by node, one write of the list's memory at a time (the program is  *)
(* compiled without optimisation), so that what the remover reads in       *)
(* between is what it may read.                                            *)
(***************************************************************************)
EXTENDS Integers, Sequences, FiniteSets, SequencesExt

CONSTANTS
  Node,    \* the addresses malloc may return
  NULL,
  Adders   \* the threads that call addElement

ASSUME NodeAssumption == NULL \notin Node
ASSUME AddersAssumption == "remover" \notin Adders /\ "free" \notin Adders

VARIABLES
  head, length,
  next,        \* each node's next; a freed node keeps the old one
  allocated,   \* the nodes between malloc and free
  lock,        \* who holds msg_queue_lock
  adding,      \* per adder: where addElement is, the node it adds, `current'
  scan,        \* the remover: where it is, i and n, and the node it is at
  queue        \* history: the nodes the list should hold

vars == <<head, length, next, allocated, lock, adding, scan, queue>>

Remover == "remover"
Free == "free"
Ref == Node \cup {NULL}

NotAdding == [step |-> "idle"]
Adding == {NotAdding} \cup
  [step : {"walk", "link", "count"}, node : Node, current : Ref, i : Nat]

(* `seen' is the node the remover reads while it decides. *)
Scan == [step : {"test", "get", "seen", "prev"}, i : Nat, n : Nat, current : Ref, seen : Ref]
StartOver == [step |-> "test", i |-> 0, n |-> 0, current |-> NULL, seen |-> NULL]

Follow(r) == IF r = NULL THEN NULL ELSE next[r]

-----------------------------------------------------------------------------
(* addElement: malloc, ... *)
BeginAdd(a) ==
  /\ adding[a] = NotAdding /\ lock = Free
  /\ lock' = a
  /\ \E r \in Node \ allocated :
       /\ allocated' = allocated \cup {r}
       /\ next' = [next EXCEPT ![r] = NULL]
       /\ adding' = [adding EXCEPT ![a] =
                       [step |-> IF length = 0 THEN "link" ELSE "walk",
                        node |-> r, current |-> head, i |-> 0]]
  /\ UNCHANGED <<head, length, scan, queue>>

(* ... walk to the last node, ... *)
Mut_AtLast(i) == i >= length
AtLast(i) == i >= length - 1

WalkToLast(a) ==
  /\ adding[a].step = "walk"
  /\ adding' = IF AtLast(adding[a].i)
                 THEN [adding EXCEPT ![a].step = "link"]
                 ELSE [adding EXCEPT ![a].current = Follow(@), ![a].i = @ + 1]
  /\ UNCHANGED <<head, length, next, allocated, lock, scan, queue>>

(* ... link the new node, or make it the head, ... *)
Link(a) ==
  /\ adding[a].step = "link"
  /\ LET r == adding[a].node
     IN  /\ IF length = 0
              THEN head' = r /\ UNCHANGED next
              ELSE next' = [next EXCEPT ![adding[a].current] = r] /\ UNCHANGED head
         /\ queue' = Append(queue, r)
  /\ adding' = [adding EXCEPT ![a].step = "count"]
  /\ UNCHANGED <<length, allocated, lock, scan>>

(* ... length++, and the caller's unlock. *)
CountAdded(a) ==
  /\ adding[a].step = "count"
  /\ length' = length + 1
  /\ lock' = Free
  /\ adding' = [adding EXCEPT ![a] = NotAdding]
  /\ UNCHANGED <<head, next, allocated, scan, queue>>

Add(a) == BeginAdd(a) \/ WalkToLast(a) \/ Link(a) \/ CountAdded(a)

-----------------------------------------------------------------------------
Scanning(next_scan) ==
  scan' = next_scan /\ UNCHANGED <<head, length, next, allocated, adding, queue>>

(* The remover's loop, for (i = 0; i < length; i++), without the lock. *)
Mut_InList == scan.i <= length
InList == scan.i < length

TestIndex ==
  /\ scan.step = "test"
  /\ Scanning(IF InList THEN [scan EXCEPT !.step = "get", !.n = 0, !.current = head]
              ELSE StartOver)
  /\ UNCHANGED lock

(* getElement(l, i): from the head i times to the next.  length has not    *)
(* become less since the loop's test, so getElement's own test is passed.  *)
GetElement ==
  /\ scan.step = "get"
  /\ Scanning(IF scan.n < scan.i
                THEN [scan EXCEPT !.n = @ + 1, !.current = Follow(@)]
                ELSE [scan EXCEPT !.step = "seen", !.seen = scan.current])
  /\ UNCHANGED lock

(* The node is not the one looked for: i++. *)
PassBy ==
  /\ scan.step = "seen"
  /\ Scanning([scan EXCEPT !.step = "test", !.i = @ + 1])
  /\ UNCHANGED lock

(* It is: print_message or broadcast_message reads it, then the lock is    *)
(* taken for removeElement(l, i), which refuses an i that is not in the    *)
(* list (HoldsItsNode rules it out) and walks there once more, ...         *)
BeginRemove ==
  /\ scan.step = "seen" /\ lock = Free /\ scan.i < length
  /\ lock' = Remover
  /\ Scanning([scan EXCEPT !.step = "prev", !.n = 0, !.current = head])

WalkToPrevious ==
  /\ scan.step = "prev" /\ scan.n + 1 < scan.i
  /\ Scanning([scan EXCEPT !.n = @ + 1, !.current = Follow(@)])
  /\ UNCHANGED lock

(* ... to take out the node at place i.  The list is not read by others    *)
(* from here to the unlock.                                                *)
Removal == IF scan.i = 0 THEN head ELSE Follow(scan.current)
Mut_AfterRemoval == Removal
IsLast == IF scan.i = 0 THEN length = 1 ELSE scan.n = length - 1
AfterRemoval == IF IsLast THEN NULL ELSE Follow(Removal)
Mut_Fewer == length - 2
Mut_SameLength == length
Fewer == length - 1

Unlink ==
  /\ scan.step = "prev" /\ scan.n + 1 >= scan.i
  /\ IF scan.i = 0
       THEN head' = AfterRemoval /\ UNCHANGED next
       ELSE next' = [next EXCEPT ![scan.current] = AfterRemoval] /\ UNCHANGED head
  /\ allocated' = allocated \ {Removal}
  /\ length' = Fewer
  /\ queue' = RemoveAt(queue, scan.i + 1)
  /\ lock' = Free
  /\ scan' = StartOver
  /\ UNCHANGED adding

-----------------------------------------------------------------------------
Init ==
  /\ head = NULL /\ length = 0
  /\ next = [r \in Node |-> NULL]
  /\ allocated = {}
  /\ lock = Free
  /\ adding = [a \in Adders |-> NotAdding]
  /\ scan = StartOver
  /\ queue = <<>>

Next ==
  \/ \E a \in Adders : Add(a)
  \/ TestIndex \/ GetElement \/ PassBy \/ BeginRemove \/ WalkToPrevious \/ Unlink

Spec == Init /\ [][Next]_vars

-----------------------------------------------------------------------------
TypeOK ==
  /\ head \in Ref /\ length \in Nat
  /\ next \in [Node -> Ref]
  /\ allocated \subseteq Node
  /\ lock \in Adders \cup {Remover, Free}
  /\ adding \in [Adders -> Adding]
  /\ scan \in Scan
  /\ queue \in Seq(Node)

(* At every moment, between the writes of addElement too, the chain from   *)
(* the head is just what was added and not removed, in the order of        *)
(* addition (util.c:203-264): no node is lost or comes twice.              *)
ChainIsQueue ==
  /\ head = (IF queue = <<>> THEN NULL ELSE queue[1])
  /\ \A k \in DOMAIN queue :
       next[queue[k]] = (IF k = Len(queue) THEN NULL ELSE queue[k + 1])

(* An unlocked reader never walks beyond the nodes that are linked: length *)
(* follows the link and never leads it (util.c:225-226).                   *)
LengthNotAhead ==
  /\ length <= Len(queue)
  /\ lock = Free => length = Len(queue)

(* What the remover looks at without the lock is a node of the list, the   *)
(* i-th (client.c:365-366, 376; sequencer.c:263-264): it prints no freed   *)
(* memory, and removeElement(l, i) later takes out the very node that was  *)
(* printed, whatever was added meanwhile.                                  *)
HoldsItsNode ==
  /\ scan.step = "get" => scan.n < Len(queue) /\ scan.current = queue[scan.n + 1]
  /\ scan.step \in {"seen", "prev"} =>
       scan.i < length /\ scan.seen = queue[scan.i + 1]
  /\ scan.step = "prev" /\ scan.n + 1 >= scan.i => Removal = scan.seen

Unlinked == {a \in Adders : adding[a].step \in {"walk", "link"}}

(* Nothing is leaked, nothing is freed that is still in use (util.c:208,   *)
(* 246, 261).                                                              *)
AllocatedInUse ==
  allocated = Range(queue) \cup {adding[a].node : a \in Unlinked}
=============================================================================
