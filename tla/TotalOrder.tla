----------------------------- MODULE TotalOrder -----------------------------
(***************************************************************************)
(* What the chat promises ("fully ordered multicast protocol", README.md): *)
(* there is one list of messages, and every member's screen is a stretch   *)
(* of that list, starting where the member came in.                        *)
(***************************************************************************)
EXTENDS Integers, Sequences

CONSTANTS
  Member,
  Founder    \* the member the chat starts with

VARIABLES
  log,       \* the messages in the order given to them
  present,   \* the members that have come in
  start,     \* how many messages had been ordered for nobody else's eyes:
             \* a member's screen starts with the message after them
  screen     \* what each member has shown

absVars == <<log, present, start, screen>>

Init ==
  /\ log = <<>>
  /\ present = {Founder}
  /\ start = [m \in Member |-> 0]
  /\ screen = [m \in Member |-> <<>>]

(* One more message takes its place; those before it keep theirs. *)
Publish ==
  /\ Len(log') = Len(log) + 1
  /\ SubSeq(log', 1, Len(log)) = log
  /\ UNCHANGED <<present, start, screen>>

(* A member comes in at some place of the list. *)
Enter(m) ==
  /\ m \notin present
  /\ present' = present \cup {m}
  /\ \E k \in 0..Len(log) : start' = [start EXCEPT ![m] = k]
  /\ UNCHANGED <<log, screen>>

(* A member shows the next message. *)
Show(m) ==
  /\ m \in present
  /\ LET next == start[m] + Len(screen[m]) + 1
     IN  /\ next <= Len(log)
         /\ screen' = [screen EXCEPT ![m] = Append(@, log[next])]
  /\ UNCHANGED <<log, present, start>>

Next == Publish \/ \E m \in Member : Enter(m) \/ Show(m)

Spec == Init /\ [][Next]_absVars
=============================================================================
