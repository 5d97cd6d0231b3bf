-------------------------- MODULE LinkedListProofs --------------------------
(***************************************************************************)
(* The list of util.c for any number of adding threads and of nodes: what  *)
(* it holds, and what the remover reads of it without the lock.            *)
(***************************************************************************)
EXTENDS LinkedList, SeqLemmas

Distinct == \A j, k \in DOMAIN queue : queue[j] = queue[k] => j = k

Fresh(r) == \A k \in DOMAIN queue : queue[k] # r

(* The list as it is between two writes, and who may be writing. *)
ListInv ==
  /\ ChainIsQueue
  /\ Distinct
  /\ length <= Len(queue)
  /\ lock \in {Free, Remover} => length = Len(queue)

(* What addElement knows at each of its places. *)
AdderInv ==
  \A a \in Adders :
    /\ adding[a] # NotAdding <=> lock = a
    /\ adding[a].step = "walk" =>
         /\ length = Len(queue) /\ adding[a].i < length
         /\ adding[a].current = queue[adding[a].i + 1]
    /\ adding[a].step = "link" =>
         /\ length = Len(queue)
         /\ length # 0 => adding[a].current = queue[length]
    /\ adding[a].step \in {"walk", "link"} =>
         Fresh(adding[a].node) /\ next[adding[a].node] = NULL
    /\ adding[a].step = "count" => Len(queue) = length + 1

(* What the remover knows: all of it survives the other threads' writes.   *)
ScanInv ==
  /\ scan.step = "prev" <=> lock = Remover
  /\ scan.step \in {"get", "seen", "prev"} => scan.i < length
  /\ scan.step \in {"get", "prev"} => scan.current = queue[scan.n + 1]
  /\ scan.step = "get" => scan.n <= scan.i
  /\ scan.step = "prev" => scan.n = 0 \/ scan.n < scan.i
  /\ scan.step \in {"seen", "prev"} => scan.seen = queue[scan.i + 1]

IInv == TypeOK /\ ListInv /\ AdderInv /\ ScanInv /\ AllocatedInUse

-----------------------------------------------------------------------------
(* What the remover relies on follows from the invariant.                  *)
LEMMA RemovalIsSeen ==
  ASSUME IInv, scan.step = "prev", scan.n + 1 >= scan.i
  PROVE  /\ scan.i + 1 \in 1..Len(queue)
         /\ Removal = queue[scan.i + 1] /\ Removal = scan.seen
         /\ scan.i # 0 => scan.n = scan.i - 1 /\ scan.current = queue[scan.i]
<1> USE DEF IInv, TypeOK
<1>1. scan.i \in Nat /\ scan.n \in Nat /\ length \in Nat /\ Len(queue) \in Nat
  BY DEF Scan
<1>2. scan.i < Len(queue) /\ scan.seen = queue[scan.i + 1] /\ scan.current = queue[scan.n + 1]
  BY <1>1 DEF ListInv, ScanInv
<1>3. scan.i # 0 => scan.n = scan.i - 1
  BY <1>1 DEF ScanInv
<1>4. CASE scan.i = 0
  BY <1>1, <1>2, <1>4 DEF Removal, ListInv, ChainIsQueue
<1>5. CASE scan.i # 0
  <2>1. scan.current = queue[scan.i] /\ scan.i \in DOMAIN queue /\ scan.i # Len(queue)
    BY <1>1, <1>2, <1>3, <1>5
  <2>2. queue[scan.i] \in Node
    BY <2>1
  <2>3. Removal = next[queue[scan.i]]
    BY <1>5, <2>1, <2>2, NodeAssumption DEF Removal, Follow
  <2> QED BY <1>1, <1>2, <1>3, <2>1, <2>3 DEF ListInv, ChainIsQueue
<1> QED BY <1>4, <1>5

LEMMA InvImplies == IInv => ChainIsQueue /\ LengthNotAhead /\ HoldsItsNode
<1> SUFFICES ASSUME IInv PROVE ChainIsQueue /\ LengthNotAhead /\ HoldsItsNode
  OBVIOUS
<1>1. scan.i \in Nat /\ scan.n \in Nat /\ length \in Nat /\ Len(queue) \in Nat
  BY DEF IInv, TypeOK, Scan
<1>2. ChainIsQueue /\ LengthNotAhead
  BY <1>1 DEF IInv, ListInv, LengthNotAhead
<1>3. HoldsItsNode
  BY <1>1, RemovalIsSeen DEF IInv, ListInv, ScanInv, HoldsItsNode
<1> QED BY <1>2, <1>3

-----------------------------------------------------------------------------
LEMMA InitInv == Init => IInv
<1> SUFFICES ASSUME Init PROVE IInv
  OBVIOUS
<1> USE DEF Init
<1>1. TypeOK
  BY DEF TypeOK, Adding, Scan, StartOver, NotAdding, Ref
<1>2. ListInv
  BY DEF ListInv, ChainIsQueue, Distinct
<1>3. AdderInv
  BY AddersAssumption DEF AdderInv, NotAdding, Free
<1>4. ScanInv
  BY DEF ScanInv, StartOver, Free, Remover
<1>5. AllocatedInUse
  BY DEF AllocatedInUse, Unlinked, NotAdding, Range
<1> QED BY <1>1, <1>2, <1>3, <1>4, <1>5 DEF IInv

(* While an adder is at work it has the lock: no other is at work. *)
LEMMA OneAdder ==
  ASSUME AdderInv, NEW a \in Adders, adding[a].step # "idle"
  PROVE  /\ lock = a
         /\ \A b \in Adders \ {a} : adding[b] = NotAdding
BY DEF AdderInv, NotAdding

LEMMA BeginAddStep ==
  ASSUME IInv, NEW a \in Adders, BeginAdd(a)
  PROVE  IInv'
<1> USE DEF IInv
<1>1. PICK r \in Node \ allocated :
        /\ allocated' = allocated \cup {r}
        /\ next' = [next EXCEPT ![r] = NULL]
        /\ adding' = [adding EXCEPT ![a] =
                        [step |-> IF length = 0 THEN "link" ELSE "walk",
                         node |-> r, current |-> head, i |-> 0]]
  BY DEF BeginAdd
<1>2. /\ adding[a] = NotAdding /\ lock = Free /\ lock' = a
      /\ UNCHANGED <<head, length, scan, queue>>
  BY DEF BeginAdd
<1>3. /\ a # Free /\ a # Remover
      /\ \A b \in Adders : adding[b] = NotAdding
  BY <1>2, AddersAssumption DEF AdderInv, Free, Remover
<1>4. Fresh(r)
  BY DEF Fresh, AllocatedInUse, Range
<1>5. length = Len(queue) /\ length \in Nat /\ queue \in Seq(Node)
  BY <1>2 DEF ListInv, TypeOK
<1>6. TypeOK'
  <2>1. adding'[a] \in Adding
    BY <1>1, <1>5 DEF TypeOK, Adding
  <2>2. adding' \in [Adders -> Adding]
    BY <2>1, <1>1 DEF TypeOK
  <2> QED BY <2>2, <1>1, <1>2 DEF TypeOK, Ref
<1>7. \A k \in DOMAIN queue : next'[queue[k]] = next[queue[k]]
  BY <1>1, <1>4, <1>5 DEF TypeOK, Fresh
<1>8. ListInv'
  BY <1>2, <1>3, <1>5, <1>7 DEF ListInv, ChainIsQueue, Distinct
<1>9. AdderInv'
  <2> SUFFICES ASSUME NEW b \in Adders
      PROVE  AdderInv!(b)'
    BY DEF AdderInv
  <2>1. CASE b # a
    BY <2>1, <1>1, <1>2, <1>3 DEF TypeOK, NotAdding
  <2>2. CASE b = a
    <3>1. adding'[a] = [step |-> IF length = 0 THEN "link" ELSE "walk",
                        node |-> r, current |-> head, i |-> 0]
      BY <1>1 DEF TypeOK
    <3>2. adding'[a] # NotAdding /\ next'[r] = NULL /\ Fresh(r)'
      BY <3>1, <1>1, <1>2, <1>4 DEF TypeOK, NotAdding, Fresh
    <3>3. length # 0 => head = queue[1]
      BY <1>5 DEF ListInv, ChainIsQueue
    <3> QED BY <2>2, <3>1, <3>2, <3>3, <1>2, <1>5
  <2> QED BY <2>1, <2>2
<1>10. ScanInv'
  BY <1>2, <1>3 DEF ScanInv, Free, Remover
<1>11. AllocatedInUse'
  <2>1. Unlinked = {}
    BY <1>3 DEF Unlinked, NotAdding
  <2>2. Unlinked' = {a} /\ adding'[a].node = r
    BY <1>1, <1>3 DEF Unlinked, NotAdding, TypeOK
  <2> QED BY <2>1, <2>2, <1>1, <1>2 DEF AllocatedInUse
<1> QED BY <1>6, <1>8, <1>9, <1>10, <1>11

LEMMA WalkToLastStep ==
  ASSUME IInv, NEW a \in Adders, WalkToLast(a)
  PROVE  IInv'
<1> USE DEF IInv
<1>1. /\ adding[a].step = "walk"
      /\ UNCHANGED <<head, length, next, allocated, lock, scan, queue>>
  BY DEF WalkToLast
<1>2. lock = a /\ \A b \in Adders \ {a} : adding[b] = NotAdding
  BY <1>1, OneAdder
<1>3. /\ adding[a] \in [step : {"walk", "link", "count"}, node : Node, current : Ref, i : Nat]
      /\ queue \in Seq(Node) /\ length \in Nat
  BY <1>1 DEF TypeOK, Adding, NotAdding
<1>4. /\ length = Len(queue) /\ adding[a].i < length
      /\ adding[a].current = queue[adding[a].i + 1]
      /\ Fresh(adding[a].node) /\ next[adding[a].node] = NULL
  BY <1>1 DEF AdderInv
<1>5. /\ adding'[a].node = adding[a].node
      /\ adding'[a] \in [step : {"walk", "link"}, node : Node, current : Ref, i : Nat]
      /\ adding'[a].step = "walk" => adding'[a].i < length
                                     /\ adding'[a].current = queue[adding'[a].i + 1]
      /\ adding'[a].step = "link" => adding'[a].current = queue[length]
  <2>1. CASE AtLast(adding[a].i)
    <3>1. adding'[a] = [adding[a] EXCEPT !.step = "link"]
      BY <2>1 DEF WalkToLast, TypeOK
    <3>2. adding[a].i + 1 = length
      BY <2>1, <1>3, <1>4 DEF AtLast
    <3> QED BY <3>1, <3>2, <1>3, <1>4
  <2>2. CASE ~AtLast(adding[a].i)
    <3>1. adding'[a] = [adding[a] EXCEPT !.current = Follow(@), !.i = @ + 1]
      BY <2>2 DEF WalkToLast, TypeOK
    <3>2. /\ adding[a].i + 1 \in DOMAIN queue /\ adding[a].i + 1 # Len(queue)
          /\ adding[a].i + 1 < length
      BY <2>2, <1>3, <1>4 DEF AtLast
    <3>3. Follow(adding[a].current) = queue[adding[a].i + 2] /\ Follow(adding[a].current) \in Ref
      BY <3>2, <1>3, <1>4, NodeAssumption DEF Follow, ListInv, ChainIsQueue, TypeOK
    <3>4. adding[a].i + 1 \in Nat /\ (adding[a].i + 1) + 1 = adding[a].i + 2
      BY <1>3
    <3>5. /\ adding'[a].node = adding[a].node /\ adding'[a].step = "walk"
          /\ adding'[a].i = adding[a].i + 1
          /\ adding'[a].current = Follow(adding[a].current)
          /\ adding'[a] \in [step : {"walk", "link"}, node : Node, current : Ref, i : Nat]
      BY <3>1, <3>3, <3>4, <1>1, <1>3
    <3> QED BY <3>2, <3>3, <3>4, <3>5
  <2> QED BY <2>1, <2>2
<1>6. adding' = [adding EXCEPT ![a] = adding'[a]]
  BY DEF WalkToLast, TypeOK
<1>7. TypeOK'
  BY <1>1, <1>5, <1>6 DEF TypeOK, Adding
<1>8. ListInv' /\ ScanInv'
  BY <1>1 DEF ListInv, ChainIsQueue, Distinct, ScanInv
<1>9. AdderInv'
  <2> SUFFICES ASSUME NEW b \in Adders
      PROVE  AdderInv!(b)'
    BY DEF AdderInv
  <2>1. CASE b # a
    BY <2>1, <1>1, <1>2, <1>6 DEF TypeOK, NotAdding
  <2>2. CASE b = a
    BY <2>2, <1>1, <1>2, <1>4, <1>5 DEF NotAdding, Fresh
  <2> QED BY <2>1, <2>2
<1>10. AllocatedInUse'
  <2>1. Unlinked = {a} /\ Unlinked' = {a}
    BY <1>1, <1>2, <1>5, <1>6 DEF Unlinked, NotAdding, TypeOK
  <2> QED BY <2>1, <1>1, <1>5 DEF AllocatedInUse
<1> QED BY <1>7, <1>8, <1>9, <1>10

LEMMA LinkStep ==
  ASSUME IInv, NEW a \in Adders, Link(a)
  PROVE  IInv'
<1> USE DEF IInv
<1> DEFINE r == adding[a].node
<1>1. /\ adding[a].step = "link"
      /\ queue' = Append(queue, r)
      /\ adding' = [adding EXCEPT ![a].step = "count"]
      /\ UNCHANGED <<length, allocated, lock, scan>>
  BY DEF Link
<1>2. /\ lock = a /\ a # Free /\ a # Remover
      /\ \A b \in Adders \ {a} : adding[b] = NotAdding
  BY <1>1, OneAdder, AddersAssumption DEF Free, Remover
<1>3. /\ adding[a] \in [step : {"walk", "link", "count"}, node : Node, current : Ref, i : Nat]
      /\ queue \in Seq(Node) /\ length \in Nat
  BY <1>1 DEF TypeOK, Adding, NotAdding
<1>4. /\ length = Len(queue) /\ (length # 0 => adding[a].current = queue[length])
      /\ \A k \in 1..Len(queue) : queue[k] # r
      /\ next[r] = NULL
  BY <1>1, <1>3 DEF AdderInv, Fresh
<1>5. /\ queue' \in Seq(Node) /\ Len(queue') = length + 1
      /\ \A k \in 1..length : queue'[k] = queue[k]
      /\ queue'[length + 1] = r
  BY <1>1, <1>3, <1>4, AppendProperties
<1>6. adding'[a] = [adding[a] EXCEPT !.step = "count"]
  BY <1>1 DEF TypeOK
<1>7. TypeOK' /\ ChainIsQueue' /\ Distinct'
  <2>1. CASE length = 0
    <3>1. head' = r /\ next' = next
      BY <2>1 DEF Link
    <3>2. TypeOK'
      <4>1. adding'[a] \in Adding
        BY <1>3, <1>6 DEF Adding
      <4>2. adding' \in [Adders -> Adding]
        BY <4>1, <1>1, <1>6 DEF TypeOK
      <4> QED BY <4>2, <3>1, <1>1, <1>3, <1>5 DEF TypeOK, Ref
    <3>3. ChainIsQueue' /\ Distinct'
      <4>1. DOMAIN queue' = {1} /\ Len(queue') = 1 /\ queue'[1] = r /\ queue' # <<>>
        <5>1. Len(queue') = 1 /\ queue'[1] = r
          BY <1>5, <2>1
        <5>2. DOMAIN queue' = 1..1
          BY <1>5, <5>1, LenProperties
        <5> QED BY <5>1, <5>2, EmptySeq
      <4> QED BY <4>1, <3>1, <1>4 DEF ChainIsQueue, Distinct
    <3> QED BY <3>2, <3>3
  <2>2. CASE length # 0
    <3>1. head' = head /\ next' = [next EXCEPT ![queue[length]] = r]
      BY <1>4, <2>2 DEF Link
    <3>2. length \in DOMAIN queue /\ queue[length] \in Node
      BY <1>3, <1>4, <2>2
    <3>3. TypeOK'
      <4>1. adding'[a] \in Adding
        BY <1>3, <1>6 DEF Adding
      <4>2. adding' \in [Adders -> Adding]
        BY <4>1, <1>1, <1>6 DEF TypeOK
      <4> QED BY <4>2, <3>1, <3>2, <1>1, <1>3, <1>5 DEF TypeOK, Ref
    <3>4. next'[r] = NULL /\ next'[queue[length]] = r
      BY <3>1, <3>2, <1>3, <1>4 DEF TypeOK
    <3>5. \A k \in 1..(length - 1) :
            next'[queue[k]] = next[queue[k]] /\ next[queue[k]] = queue[k + 1]
      <4> SUFFICES ASSUME NEW k \in 1..(length - 1)
          PROVE  next'[queue[k]] = next[queue[k]] /\ next[queue[k]] = queue[k + 1]
        OBVIOUS
      <4>1. k \in DOMAIN queue /\ k # length /\ queue[k] \in Node
        BY <1>3, <1>4
      <4>2. queue[k] # queue[length]
        BY <4>1, <3>2 DEF ListInv, Distinct
      <4> QED BY <4>1, <4>2, <3>1, <1>4 DEF TypeOK, ListInv, ChainIsQueue
    <3>6. head' = queue'[1] /\ queue' # <<>>
      BY <3>1, <3>2, <1>3, <1>4, <1>5, <2>2 DEF ListInv, ChainIsQueue
    <3>7. ASSUME NEW k \in DOMAIN queue'
          PROVE  next'[queue'[k]] = IF k = Len(queue') THEN NULL ELSE queue'[k + 1]
      <4>1. k \in 1..(length + 1)
        BY <1>5
      <4>2. CASE k = length + 1
        BY <4>2, <3>4, <1>5
      <4>3. CASE k = length
        BY <4>3, <3>2, <3>4, <1>3, <1>5, <2>2
      <4>4. CASE k \in 1..(length - 1)
        <5>1. k \in 1..length /\ k + 1 \in 1..length /\ k # length + 1
          BY <4>4, <1>3
        <5> QED BY <4>4, <5>1, <3>5, <1>5
      <4> QED BY <4>1, <4>2, <4>3, <4>4, <1>3
    <3>8. ChainIsQueue'
      BY <3>6, <3>7 DEF ChainIsQueue
    <3>9. Distinct'
      <4>1. DOMAIN queue' = 1..(length + 1) /\ DOMAIN queue = 1..length
        BY <1>3, <1>4, <1>5
      <4> QED BY <4>1, <1>3, <1>4, <1>5 DEF ListInv, Distinct
    <3> QED BY <3>3, <3>8, <3>9
  <2> QED BY <2>1, <2>2
<1>8. ListInv'
  BY <1>7, <1>1, <1>2, <1>3, <1>5 DEF ListInv
<1>9. AdderInv'
  <2> SUFFICES ASSUME NEW b \in Adders
      PROVE  AdderInv!(b)'
    BY DEF AdderInv
  <2>1. CASE b # a
    BY <2>1, <1>1, <1>2 DEF TypeOK, NotAdding
  <2>2. CASE b = a
    BY <2>2, <1>1, <1>2, <1>3, <1>5, <1>6 DEF NotAdding
  <2> QED BY <2>1, <2>2
<1>10. ScanInv'
  <2>1. scan.i \in Nat /\ scan.n \in Nat
    BY DEF TypeOK, Scan
  <2> QED BY <2>1, <1>1, <1>2, <1>3, <1>5 DEF ScanInv
<1>11. AllocatedInUse'
  <2>1. Unlinked = {a} /\ Unlinked' = {}
    BY <1>1, <1>2, <1>3, <1>6 DEF Unlinked, NotAdding, TypeOK
  <2>2. Range(queue') = Range(queue) \cup {r}
    <3>1. DOMAIN queue' = 1..(length + 1) /\ DOMAIN queue = 1..length
      BY <1>3, <1>4, <1>5
    <3> QED BY <3>1, <1>3, <1>5 DEF Range
  <2> QED BY <2>1, <2>2, <1>1 DEF AllocatedInUse
<1> QED BY <1>7, <1>8, <1>9, <1>10, <1>11

LEMMA CountAddedStep ==
  ASSUME IInv, NEW a \in Adders, CountAdded(a)
  PROVE  IInv'
<1> USE DEF IInv
<1>1. /\ adding[a].step = "count"
      /\ length' = length + 1 /\ lock' = Free
      /\ adding' = [adding EXCEPT ![a] = NotAdding]
      /\ UNCHANGED <<head, next, allocated, scan, queue>>
  BY DEF CountAdded
<1>2. /\ lock = a /\ a # Free /\ a # Remover
      /\ \A b \in Adders \ {a} : adding[b] = NotAdding
  BY <1>1, OneAdder, AddersAssumption DEF Free, Remover
<1>3. /\ length \in Nat /\ Len(queue) = length + 1
      /\ scan.i \in Nat
  BY <1>1 DEF TypeOK, AdderInv, Scan
<1>4. \A b \in Adders : adding'[b] = NotAdding
  BY <1>1, <1>2 DEF TypeOK
<1>5. TypeOK'
  BY <1>1, <1>3 DEF TypeOK, Adding
<1>6. ListInv'
  BY <1>1, <1>3 DEF ListInv, ChainIsQueue, Distinct
<1>7. AdderInv'
  BY <1>1, <1>4, AddersAssumption DEF AdderInv, NotAdding, Free
<1>8. ScanInv'
  BY <1>1, <1>2, <1>3 DEF ScanInv, Free, Remover
<1>9. AllocatedInUse'
  <2>1. Unlinked = {} /\ Unlinked' = {}
    BY <1>1, <1>2, <1>4 DEF Unlinked, NotAdding
  <2> QED BY <2>1, <1>1 DEF AllocatedInUse
<1> QED BY <1>5, <1>6, <1>7, <1>8, <1>9

-----------------------------------------------------------------------------
(* The remover's reads change nothing but what it knows. *)
LEMMA ReaderKeeps ==
  ASSUME IInv, UNCHANGED <<head, length, next, allocated, adding, queue>>,
         scan' \in Scan, ScanInv',
         \/ lock' = lock
         \/ lock = Free /\ lock' = Remover
  PROVE  IInv'
<1> USE DEF IInv
<1>1. TypeOK'
  BY DEF TypeOK
<1>2. ListInv'
  BY DEF ListInv, ChainIsQueue, Distinct
<1>3. AdderInv'
  BY AddersAssumption DEF AdderInv, Fresh, Free, Remover
<1>4. AllocatedInUse'
  BY DEF AllocatedInUse, Unlinked
<1> QED BY <1>1, <1>2, <1>3, <1>4

LEMMA ReadStep ==
  ASSUME IInv, TestIndex \/ GetElement \/ PassBy \/ BeginRemove \/ WalkToPrevious
  PROVE  IInv'
<1> USE DEF IInv
<1>1. /\ scan \in Scan /\ scan.i \in Nat /\ scan.n \in Nat /\ length \in Nat
      /\ head \in Ref /\ queue \in Seq(Node) /\ length <= Len(queue) /\ Len(queue) \in Nat
  BY DEF TypeOK, Scan, ListInv
<1>2. length # 0 => head = queue[1]
  BY <1>1 DEF ListInv, ChainIsQueue
<1>3. \A k \in DOMAIN queue : k # Len(queue) =>
        queue[k] # NULL /\ next[queue[k]] = queue[k + 1] /\ queue[k + 1] \in Node
  BY <1>1, NodeAssumption DEF ListInv, ChainIsQueue
<1>4. CASE TestIndex
  <2>1. UNCHANGED <<head, length, next, allocated, adding, queue, lock>> /\ lock # Remover
    BY <1>4 DEF TestIndex, Scanning, ScanInv
  <2>2. scan' \in Scan /\ ScanInv'
    <3>1. CASE InList
      <4>1. scan' = [scan EXCEPT !.step = "get", !.n = 0, !.current = head]
        BY <3>1, <1>4 DEF TestIndex, Scanning
      <4>2. /\ scan'.step = "get" /\ scan'.i = scan.i /\ scan'.n = 0 /\ scan'.current = head
            /\ scan' \in Scan
        BY <4>1, <1>1 DEF Scan
      <4> QED BY <4>2, <3>1, <2>1, <1>1, <1>2 DEF ScanInv, InList
    <3>2. CASE ~InList
      BY <3>2, <2>1, <1>4 DEF TestIndex, Scanning, StartOver, ScanInv, Scan, Ref
    <3> QED BY <3>1, <3>2
  <2> QED BY <2>1, <2>2, ReaderKeeps
<1>5. CASE GetElement
  <2>1. UNCHANGED <<head, length, next, allocated, adding, queue, lock>> /\ lock # Remover
    BY <1>5 DEF GetElement, Scanning, ScanInv
  <2>2. /\ scan.step = "get" /\ scan.i < length /\ scan.n <= scan.i
        /\ scan.current = queue[scan.n + 1]
    BY <1>5 DEF GetElement, ScanInv
  <2>3. scan' \in Scan /\ ScanInv'
    <3>1. CASE scan.n < scan.i
      <4>1. scan' = [scan EXCEPT !.n = @ + 1, !.current = Follow(@)]
        BY <3>1, <1>5 DEF GetElement, Scanning
      <4>2. scan.n + 1 \in DOMAIN queue /\ scan.n + 1 # Len(queue)
        BY <3>1, <2>2, <1>1
      <4>3. Follow(scan.current) = queue[(scan.n + 1) + 1] /\ Follow(scan.current) \in Ref
        BY <4>2, <2>2, <1>3 DEF Follow, Ref
      <4>4. /\ scan'.step = "get" /\ scan'.n = scan.n + 1 /\ scan'.i = scan.i
            /\ scan'.current = Follow(scan.current) /\ scan' \in Scan
        <5> DEFINE f == Follow(scan.current)
                   m == scan.n + 1
        <5>1. scan' = [scan EXCEPT !.n = m, !.current = f] /\ f \in Ref /\ m \in Nat
          BY <4>1, <4>3, <1>1
        <5> HIDE DEF f, m
        <5>2. /\ scan'.step = "get" /\ scan'.n = m /\ scan'.i = scan.i
              /\ scan'.current = f /\ scan' \in Scan
          BY <5>1, <2>2, <1>1 DEF Scan
        <5> QED BY <5>2 DEF f, m
      <4> QED BY <4>3, <4>4, <3>1, <2>1, <2>2, <1>1 DEF ScanInv
    <3>2. CASE ~(scan.n < scan.i)
      <4>1. scan' = [scan EXCEPT !.step = "seen", !.seen = scan.current]
        BY <3>2, <1>5 DEF GetElement, Scanning
      <4>2. /\ scan'.step = "seen" /\ scan'.i = scan.i /\ scan'.seen = scan.current
            /\ scan' \in Scan
        BY <4>1, <1>1 DEF Scan
      <4>3. scan.n = scan.i
        BY <3>2, <2>2, <1>1
      <4> QED BY <4>2, <4>3, <2>1, <2>2 DEF ScanInv
    <3> QED BY <3>1, <3>2
  <2> QED BY <2>1, <2>3, ReaderKeeps
<1>6. CASE PassBy
  <2>1. /\ UNCHANGED <<head, length, next, allocated, adding, queue, lock>> /\ lock # Remover
        /\ scan' = [scan EXCEPT !.step = "test", !.i = @ + 1]
    BY <1>6 DEF PassBy, Scanning, ScanInv
  <2>2. scan' \in Scan /\ ScanInv'
    <3> DEFINE m == scan.i + 1
    <3>0. scan' = [scan EXCEPT !.step = "test", !.i = m] /\ m \in Nat
      BY <2>1, <1>1
    <3> HIDE DEF m
    <3>1. scan'.step = "test" /\ scan' \in Scan
      BY <3>0, <1>1 DEF Scan
    <3> QED BY <3>1, <2>1 DEF ScanInv
  <2> QED BY <2>1, <2>2, ReaderKeeps
<1>7. CASE BeginRemove
  <2>1. /\ UNCHANGED <<head, length, next, allocated, adding, queue>>
        /\ lock = Free /\ lock' = Remover /\ scan.step = "seen" /\ scan.i < length
        /\ scan' = [scan EXCEPT !.step = "prev", !.n = 0, !.current = head]
    BY <1>7 DEF BeginRemove, Scanning
  <2>2. scan' \in Scan /\ ScanInv'
    <3>1. /\ scan'.step = "prev" /\ scan'.i = scan.i /\ scan'.n = 0 /\ scan'.current = head
          /\ scan'.seen = scan.seen /\ scan' \in Scan
      BY <2>1, <1>1 DEF Scan
    <3> QED BY <3>1, <2>1, <1>1, <1>2 DEF ScanInv
  <2> QED BY <2>1, <2>2, ReaderKeeps
<1>8. CASE WalkToPrevious
  <2>1. /\ UNCHANGED <<head, length, next, allocated, adding, queue, lock>>
        /\ scan.step = "prev" /\ scan.n + 1 < scan.i
        /\ scan' = [scan EXCEPT !.n = @ + 1, !.current = Follow(@)]
    BY <1>8 DEF WalkToPrevious, Scanning
  <2>2. scan.i < length /\ scan.current = queue[scan.n + 1]
    BY <2>1 DEF ScanInv
  <2>3. scan.n + 1 \in DOMAIN queue /\ scan.n + 1 # Len(queue)
    BY <2>1, <2>2, <1>1
  <2>4. Follow(scan.current) = queue[(scan.n + 1) + 1] /\ Follow(scan.current) \in Ref
    BY <2>3, <2>2, <1>3 DEF Follow, Ref
  <2>5. /\ scan'.step = "prev" /\ scan'.n = scan.n + 1 /\ scan'.i = scan.i
        /\ scan'.seen = scan.seen
        /\ scan'.current = Follow(scan.current) /\ scan' \in Scan
    <3> DEFINE f == Follow(scan.current)
               m == scan.n + 1
    <3>1. scan' = [scan EXCEPT !.n = m, !.current = f] /\ f \in Ref /\ m \in Nat
      BY <2>1, <2>4, <1>1
    <3> HIDE DEF f, m
    <3>2. /\ scan'.step = "prev" /\ scan'.n = m /\ scan'.i = scan.i
          /\ scan'.seen = scan.seen
          /\ scan'.current = f /\ scan' \in Scan
      BY <3>1, <2>1, <1>1 DEF Scan
    <3> QED BY <3>2 DEF f, m
  <2>6. ScanInv'
    BY <2>1, <2>2, <2>4, <2>5, <1>1 DEF ScanInv
  <2> QED BY <2>1, <2>5, <2>6, ReaderKeeps
<1> QED BY <1>4, <1>5, <1>6, <1>7, <1>8

LEMMA UnlinkStep ==
  ASSUME IInv, Unlink
  PROVE  IInv'
<1> USE DEF IInv
<1> DEFINE p == scan.i + 1
           n == Len(queue)
<1>1. /\ scan.step = "prev" /\ scan.n + 1 >= scan.i
      /\ allocated' = allocated \ {Removal}
      /\ length' = length - 1
      /\ queue' = RemoveAt(queue, p)
      /\ lock' = Free /\ scan' = StartOver /\ adding' = adding
  BY DEF Unlink, Fewer
<1>2. /\ lock = Remover /\ length = n /\ n \in Nat /\ queue \in Seq(Node)
      /\ p \in 1..n /\ scan.i \in Nat
      /\ Removal = queue[p]
      /\ scan.i # 0 => scan.current = queue[scan.i]
  BY <1>1, RemovalIsSeen DEF ScanInv, ListInv, TypeOK, Scan
<1>3. \A a \in Adders : adding[a] = NotAdding
  BY <1>2, AddersAssumption DEF AdderInv, Remover
<1>4. /\ queue' \in Seq(Node) /\ Len(queue') = n - 1
      /\ \A k \in 1..(n - 1) : queue'[k] = IF k < p THEN queue[k] ELSE queue[k + 1]
  BY <1>1, <1>2, RemoveAtProperties
<1> HIDE DEF p, n
<1>5. /\ DOMAIN queue = 1..n /\ DOMAIN queue' = 1..(n - 1)
      /\ \A k \in 1..n : queue[k] \in Node
      /\ n = Len(queue) /\ p = scan.i + 1 /\ p - 1 = scan.i
  BY <1>2, <1>4 DEF p, n
<1>6. /\ \A k \in 1..n : next[queue[k]] = IF k = n THEN NULL ELSE queue[k + 1]
      /\ head = queue[1]
      /\ \A j, k \in 1..n : queue[j] = queue[k] => j = k
  <2>1. queue # <<>>
    BY <1>2 DEF p, n
  <2>2. ChainIsQueue /\ Distinct
    BY DEF ListInv
  <2> QED BY <2>1, <2>2, <1>5 DEF ChainIsQueue, Distinct
<1>7. AfterRemoval = IF p = n THEN NULL ELSE queue[p + 1]
  <2>1. Follow(Removal) = next[queue[p]]
    BY <1>2, <1>5, NodeAssumption DEF Follow
  <2>2. IsLast => p = n
    BY <1>1, <1>2, <1>5 DEF IsLast, ScanInv, TypeOK, Scan
  <2>3. scan.i = 0 => (IsLast <=> p = n)
    BY <1>2, <1>5 DEF IsLast
  <2> QED BY <2>1, <2>2, <2>3, <1>2, <1>6 DEF AfterRemoval
<1>8. AfterRemoval \in Ref
  BY <1>7, <1>2, <1>5 DEF Ref
<1>9. /\ head' \in Ref /\ next' \in [Node -> Ref]
      /\ head' = IF p = 1 THEN AfterRemoval ELSE queue[1]
      /\ \A k \in 1..n : next'[queue[k]] = IF k = p - 1 THEN AfterRemoval ELSE next[queue[k]]
  <2>1. CASE scan.i = 0
    <3>1. head' = AfterRemoval /\ next' = next
      BY <2>1 DEF Unlink
    <3>2. p = 1 /\ \A k \in 1..n : k # p - 1
      BY <2>1, <1>2, <1>5
    <3> QED BY <3>1, <3>2, <1>8 DEF TypeOK
  <2>2. CASE scan.i # 0
    <3>1. head' = head /\ next' = [next EXCEPT ![queue[scan.i]] = AfterRemoval]
      BY <2>2, <1>2 DEF Unlink
    <3>2. scan.i \in 1..n
      BY <2>2, <1>2, <1>5
    <3>3. p # 1 /\ \A k \in 1..n : k = p - 1 <=> queue[k] = queue[scan.i]
      BY <2>2, <3>2, <1>2, <1>5, <1>6
    <3> QED BY <3>1, <3>2, <3>3, <1>2, <1>5, <1>6, <1>8 DEF TypeOK, Ref
  <2> QED BY <2>1, <2>2
<1>10. TypeOK'
  BY <1>1, <1>2, <1>4, <1>9 DEF TypeOK, StartOver, Scan, Ref
<1>11. ChainIsQueue'
  <2>1. head' = IF queue' = <<>> THEN NULL ELSE queue'[1]
    <3>1. CASE n = 1
      BY <3>1, <1>2, <1>4, <1>7, <1>9
    <3>2. CASE n # 1
      <4>1. 1 \in 1..(n - 1) /\ queue' # <<>>
        BY <3>2, <1>2, <1>4
      <4>2. queue'[1] = IF 1 < p THEN queue[1] ELSE queue[2]
        BY <4>1, <1>4
      <4> QED BY <3>2, <4>1, <4>2, <1>2, <1>7, <1>9
    <3> QED BY <3>1, <3>2
  <2>2. ASSUME NEW k \in 1..(n - 1)
        PROVE  next'[queue'[k]] = IF k = n - 1 THEN NULL ELSE queue'[k + 1]
    <3>1. CASE k < p - 1
      <4>1. k \in 1..n /\ k + 1 \in 1..(n - 1) /\ k # n /\ k # n - 1 /\ k + 1 < p /\ k < p
            /\ k # p - 1
        BY <3>1, <1>2
      <4> QED BY <4>1, <1>4, <1>6, <1>9
    <3>2. CASE k = p - 1
      <4>1. k \in 1..n /\ k < p /\ queue'[k] = queue[k]
        BY <3>2, <1>2, <1>4
      <4>2. next'[queue[k]] = AfterRemoval
        BY <4>1, <3>2, <1>9
      <4>3. k # n - 1 => queue'[k + 1] = queue[p + 1]
        BY <3>2, <1>2, <1>4
      <4> QED BY <3>2, <4>1, <4>2, <4>3, <1>2, <1>7
    <3>3. CASE k > p - 1
      <4>1. /\ k + 1 \in 1..n /\ ~(k < p) /\ k + 1 # p - 1
            /\ k # n - 1 => k + 1 \in 1..(n - 1) /\ ~(k + 1 < p)
        BY <3>3, <1>2
      <4>2. queue'[k] = queue[k + 1] /\ (k # n - 1 => queue'[k + 1] = queue[(k + 1) + 1])
        BY <4>1, <1>4
      <4>3. next'[queue[k + 1]] = IF k + 1 = n THEN NULL ELSE queue[(k + 1) + 1]
        BY <4>1, <1>6, <1>9
      <4> QED BY <4>2, <4>3, <1>2
    <3> QED BY <3>1, <3>2, <3>3, <1>2
  <2> QED BY <2>1, <2>2, <1>4, <1>5 DEF ChainIsQueue
<1>12. Distinct'
  <2> SUFFICES ASSUME NEW j \in 1..(n - 1), NEW k \in 1..(n - 1), queue'[j] = queue'[k]
      PROVE  j = k
    BY <1>5 DEF Distinct
  <2> DEFINE was(l) == IF l < p THEN l ELSE l + 1
  <2>1. queue'[j] = queue[was(j)] /\ queue'[k] = queue[was(k)]
    BY <1>4
  <2>2. was(j) \in 1..n /\ was(k) \in 1..n
    BY <1>2
  <2>3. was(j) = was(k)
    BY <2>1, <2>2, <1>6
  <2> QED BY <2>3, <1>2
<1>13. ListInv'
  BY <1>1, <1>2, <1>4, <1>11, <1>12 DEF ListInv
<1>14. AdderInv'
  BY <1>1, <1>3, AddersAssumption DEF AdderInv, NotAdding, Free
<1>15. ScanInv'
  BY <1>1 DEF ScanInv, StartOver, Free, Remover
<1>16. AllocatedInUse'
  <2>1. Unlinked = {} /\ Unlinked' = {}
    BY <1>1, <1>3 DEF Unlinked, NotAdding
  <2>2. Range(queue') = Range(queue) \ {queue[p]}
    <3>1. ASSUME NEW x \in Range(queue')
          PROVE  x \in Range(queue) \ {queue[p]}
      <4>1. PICK k \in 1..(n - 1) : x = queue'[k]
        BY <1>5 DEF Range
      <4>2. \E l \in 1..n : x = queue[l] /\ l # p
        <5>1. CASE k < p
          BY <5>1, <4>1, <1>2, <1>4
        <5>2. CASE ~(k < p)
          <6>1. k + 1 \in 1..n /\ k + 1 # p /\ x = queue[k + 1]
            BY <5>2, <4>1, <1>2, <1>4
          <6> QED BY <6>1
        <5> QED BY <5>1, <5>2
      <4> QED BY <4>2, <1>2, <1>5, <1>6 DEF Range
    <3>2. ASSUME NEW x \in Range(queue) \ {queue[p]}
          PROVE  x \in Range(queue')
      <4>1. PICK l \in 1..n : x = queue[l] /\ l # p
        BY <1>5 DEF Range
      <4>2. \E k \in 1..(n - 1) : x = queue'[k]
        <5>1. CASE l < p
          <6>1. l \in 1..(n - 1) /\ queue'[l] = queue[l]
            BY <5>1, <1>2, <1>4
          <6> QED BY <6>1, <4>1
        <5>2. CASE ~(l < p)
          <6>1. l - 1 \in 1..(n - 1) /\ ~(l - 1 < p) /\ (l - 1) + 1 = l
            BY <5>2, <4>1, <1>2
          <6>2. queue'[l - 1] = queue[l]
            BY <6>1, <1>4
          <6> QED BY <6>1, <6>2, <4>1
        <5> QED BY <5>1, <5>2
      <4> QED BY <4>2, <1>5 DEF Range
    <3> QED BY <3>1, <3>2
  <2> QED BY <2>1, <2>2, <1>1, <1>2 DEF AllocatedInUse
<1> QED BY <1>10, <1>13, <1>14, <1>15, <1>16

-----------------------------------------------------------------------------
LEMMA InvInvariant == Spec => []IInv
<1>1. IInv /\ [Next]_vars => IInv'
  <2> SUFFICES ASSUME IInv, [Next]_vars PROVE IInv'
    OBVIOUS
  <2>1. CASE UNCHANGED vars
    BY <2>1 DEF vars, IInv, TypeOK, ListInv, ChainIsQueue, Distinct, AdderInv, Fresh,
                ScanInv, AllocatedInUse, Unlinked
  <2>2. ASSUME NEW a \in Adders, Add(a) PROVE IInv'
    BY <2>2, BeginAddStep, WalkToLastStep, LinkStep, CountAddedStep DEF Add
  <2>3. CASE TestIndex \/ GetElement \/ PassBy \/ BeginRemove \/ WalkToPrevious
    BY <2>3, ReadStep
  <2>4. CASE Unlink
    BY <2>4, UnlinkStep
  <2> QED BY <2>1, <2>2, <2>3, <2>4 DEF Next
<1> QED BY <1>1, InitInv, PTL DEF Spec

(* However many threads add and wherever the remover is, the chain from    *)
(* the head is what was added and not removed, in order (util.c:203-264).  *)
THEOREM ChainIsQueueAlways == Spec => []ChainIsQueue
BY InvInvariant, InvImplies, PTL

(* length follows the link of a node and never leads it (util.c:213-226).  *)
THEOREM LengthNotAheadAlways == Spec => []LengthNotAhead
BY InvInvariant, InvImplies, PTL

(* The node the remover reads without the lock is in the list until the    *)
(* remover itself takes it out, and that is the node it takes out          *)
(* (client.c:365-403, util.c:230-264).                                     *)
THEOREM HoldsItsNodeAlways == Spec => []HoldsItsNode
BY InvInvariant, InvImplies, PTL

(* Each node is freed once, and none that is still used (util.c:246, 261). *)
THEOREM AllocatedInUseAlways == Spec => []AllocatedInUse
BY InvInvariant, PTL DEF IInv

(* The links, the length and what each thread remembers between two        *)
(* accesses keep their types, for any number of nodes and threads.         *)
THEOREM ListTypeCorrect == Spec => []TypeOK
BY InvInvariant, PTL DEF IInv
=============================================================================
