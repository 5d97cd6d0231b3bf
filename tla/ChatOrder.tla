------------------------------ MODULE ChatOrder -----------------------------
(***************************************************************************)
(* The chat implements TotalOrder as long as only one thread of the leader *)
(* stamps messages, that is, while the leader's user does not type and no  *)
(* member is declared dead.                                                *)
(***************************************************************************)
EXTENDS Chat

present == {Leader} \cup {c \in Clients : status[c] = "in"}

(* latestSequenceNum + 1 - (what the client has shown since) is the number *)
(* the leader's answer to the join told it to expect.                      *)
start ==
  [m \in Machine |->
     IF m = Leader \/ status[m] # "in" THEN 0
     ELSE latestSequenceNum[m] + 1 - Len(printed[m])]

Abstract ==
  INSTANCE TotalOrder WITH
    Member <- Machine, Founder <- Leader,
    log <- [i \in DOMAIN order |-> order[i].m],
    present <- present, start <- start, screen <- printed

(* Every step of the chat is a step of the total order or leaves it alone: *)
(* no member, the leader included, ever shows anything but the next        *)
(* message of the one list -- whatever is lost, repeated or overtaken      *)
(* (sequencer.c:175-273, client.c:255-411).                                *)
ImplementsTotalOrder == Abstract!Spec
=============================================================================
