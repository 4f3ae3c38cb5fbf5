----------------------------- MODULE MCMailDriver -----------------------------
(***************************************************************************)
(* Small instances of MailDriver with two schedules.  A unit of time stands*)
(* for some seconds; a Duration of 0 makes one pass.                       *)
(***************************************************************************)
EXTENDS MailDriver

CONSTANTS hub, node

At0 == <<0, 0>>
Utc == <<0, 0>>
Zone == <<0, 1>>
Staggered == <<0, 1>>
BriefAndLong == <<0, 2>>
Brief == <<0, 0>>
Every2 == <<2, 2>>
EveryOther == <<2, 1>>
ToHub == [c \in Copies |-> hub]
ToBoth == [c \in Copies |-> IF c = 1 THEN hub ELSE node]
FirstSelects == <<Copies, {}>>
Each == <<{1}, Copies>>
PollHub == <<(<<hub>>), (<<>>)>>
=============================================================================
