------------------------------ MODULE MCExtra --------------------------------
(* The settings of the extra-credit chat that TLC checks, in one run.      *)
EXTENDS Extra

CONSTANTS c1, c2

Setting(ofC1, sent, ofLeader, whoJoins, deaths, losses, longest) ==
  [lines |-> [c \in Clients |-> IF c = c1 THEN ofC1 ELSE 0], requests |-> sent, typed |-> ofLeader,
   joiners |-> whoJoins, departures |-> deaths, faults |-> losses, gap |-> longest]

(* One client that goes on sending while time passes, ...                 *)
Pace == Setting(2, 2, 0, {c1}, 0, 1, 3)

(* ... and so many lines that the oldest of their times is dropped, and a  *)
(* client that was slowed waits while the leader is still at its line.     *)
Burst == Setting(3, 3, 0, {c1}, 0, 0, 1)

(* A member that is declared dead and goes on sending.                     *)
Departed == Setting(1, 1, 0, {c1}, 1, 0, 0)

(* A line of the leader's user among two notices of joining, ...           *)
Joiners == Setting(0, 0, 1, {c1, c2}, 0, 0, 0)

(* ... among a notice of joining and one of leaving, ...                   *)
Notices == Setting(0, 0, 1, {c1}, 1, 0, 0)

(* ... and, with a line of a client that it sends twice because the        *)
(* leader's was shown first, after a notice of joining.                    *)
Lines == Setting(1, 2, 1, {c1}, 0, 0, 0)

(* A line of one of two members.                                           *)
Members == Setting(1, 1, 0, {c1, c2}, 0, 0, 0)

MCBounds == {Pace, Burst, Departed, Joiners, Notices, Lines, Members}
=============================================================================
