--------------------------- MODULE MailDriverProofs ---------------------------
(***************************************************************************)
(* The schedule of the outbound driver, for any schedules, spool and clock.*)
(*                                                                         *)
(* What the Scheduler knows (beginning, until) and what the driver does    *)
(* (open, still) are two accounts of the same activations, written at      *)
(* different times: poll writes both, finished only one, and the clock     *)
(* moves under each of them.  The inductive invariant says how far they    *)
(* may differ.                                                             *)
(***************************************************************************)
EXTENDS MailDriver, FiniteSetTheorems, WellFoundedInduction, TLAPS

(* A slot that is taken has an activation with that very end, and an activation
   that is not over has its schedule's slot. *)
Slots ==
    \A s \in Schedules :
        /\ Occupied(s) => \E a \in Running : a.schedule = s /\ a.end = until[s]
        /\ \A a \in Running : a.schedule = s /\ now < a.end => until[s] = a.end

(* A stopped driver runs nothing; one that runs has beginnings and slots after
   the epoch. *)
Stopped == phase = "Down" => open = <<>> /\ still = <<>>
AfterEpoch ==
    /\ phase # "Down" => \A s \in Schedules : beginning[s] >= 0
    /\ \A s \in Schedules : until[s] >= NoTime
    /\ nextAttempt >= NoTime

(* The beat, with the number of periods instead of the remainder. *)
Expected(s) == \E n \in Nat : beginning[s] = first[s] + n * Period(s)
OnBeat(a) ==
    /\ \E n \in Int : a.beginning = first[a.schedule] + n * Period(a.schedule)
    /\ a.end = a.beginning + Duration[a.schedule]
    /\ a.beginning < beginning[a.schedule]
Beats ==
    /\ phase # "Down" => \A s \in Schedules : Expected(s)
    /\ \A a \in Running : OnBeat(a)

(* What is claimed belongs to a connection, and there is one only while it is made. *)
Claims ==
    /\ ClaimedIsInGroup
    /\ phase \notin {"Exchanging", "Delivering"} => group = {}

IInv ==
    /\ TypeOK
    /\ Stopped
    /\ AfterEpoch
    /\ Beats
    /\ Slots
    /\ NoOversleep
    /\ Claims

(* The type invariant in parts. *)
Phases == {"Down", "Clock", "Round", "Polling", "Exchanging", "Passing", "Delivering", "Asleep"}
Underway == {"Polling", "Exchanging", "Passing", "Delivering"}
ClockTypes ==
    /\ now \in Nat
    /\ first \in [Schedules -> Int]
    /\ beginning \in [Schedules -> Int]
    /\ until \in [Schedules -> Int]
RoundTypes ==
    /\ open \in Seq(Activation)
    /\ still \in Seq(Activation)
    /\ phase \in Phases
    /\ phase \in Underway => open # <<>>
PassTypes ==
    /\ nextAttempt \in Int
    /\ asOf \in Nat \cup {NoTime}
    /\ polls \in Seq(Hops)
    /\ group \subseteq Copies
    /\ wakeAt \in Nat \cup {NoTime}
SpoolTypes == spool \in [Copies -> Copy]

Elems(list) == {list[i] : i \in DOMAIN list}

(* A step that moves neither the clock nor the schedules, and does not fall
   asleep. *)
Quiet ==
    /\ UNCHANGED <<now, first, beginning, until, open, still>>
    /\ phase' = "Down" <=> phase = "Down"
    /\ phase' = "Asleep" => phase = "Asleep" /\ wakeAt' = wakeAt
-----------------------------------------------------------------------------
(***************************************************************************)
(* Lemmas: arithmetic and sequences                                        *)
(***************************************************************************)
LEMMA Constants ==
    /\ N \in Nat \ {0} /\ Schedules = 1 .. N
    /\ \A s \in Schedules :
          /\ Start[s] \in Int /\ Duration[s] \in Nat /\ Offset[s] \in Int
          /\ Period(s) \in Nat \ {0}
          /\ Selected[s] \subseteq Copies
          /\ Polls[s] \in Seq(Hops)
    /\ Day \in Nat \ {0} /\ IdleTick \in Nat \ {0} /\ ActiveTick \in Nat \ {0}
    /\ Collected \subseteq Copies /\ PeerTimes \subseteq Nat
<1>1. N \in Nat \ {0} /\ Schedules = 1 .. N
  BY Zenon, DriverAssumption DEF Schedules
<1>2. Day \in Nat \ {0} /\ IdleTick \in Nat \ {0} /\ ActiveTick \in Nat \ {0}
  BY Zenon, DriverAssumption
<1>3. Collected \subseteq Copies /\ PeerTimes \subseteq Nat
  BY Zenon, DriverAssumption
<1>4. ASSUME NEW s \in Schedules
      PROVE  Start[s] \in Int /\ Duration[s] \in Nat /\ Offset[s] \in Int
  BY DriverAssumption
<1>5. ASSUME NEW s \in Schedules PROVE Period(s) \in Nat \ {0}
  BY DriverAssumption DEF Period
<1>6. ASSUME NEW s \in Schedules PROVE Selected[s] \subseteq Copies /\ Polls[s] \in Seq(Hops)
  BY Zenon, DriverAssumption
<1> QED
  BY Zenon, <1>1, <1>2, <1>3, <1>4, <1>5, <1>6

(* MostRecent: the last beginning that is not after now. *)
LEMMA LastMultiple ==
    ASSUME NEW a \in Nat, NEW p \in Nat \ {0}
    PROVE  a \div p \in Nat /\ (a \div p) * p <= a /\ a < (a \div p) * p + p
<1>1. a \div p \in Nat
  OBVIOUS
<1>2. (a \div p) * p <= a /\ a < (a \div p) * p + p
  OBVIOUS
<1> QED
  BY Zenon, <1>1, <1>2

LEMMA NoRemainder == ASSUME NEW n \in Int, NEW p \in Nat \ {0} PROVE n * p \in Int /\ (n * p) % p = 0
  OBVIOUS

LEMMA SumOfMultiples ==
    ASSUME NEW n \in Int, NEW k \in Int, NEW p \in Int
    PROVE  n * p + k * p = (n + k) * p /\ n * p + p = (n + 1) * p
  OBVIOUS

LEMMA ElemsJoined ==
    ASSUME NEW p \in Seq(Activation), NEW q \in Seq(Activation)
    PROVE  p \o q \in Seq(Activation) /\ Elems(p \o q) = Elems(p) \cup Elems(q)
<1>1. /\ p \o q \in Seq(Activation) /\ DOMAIN (p \o q) = 1 .. Len(p) + Len(q)
      /\ DOMAIN p = 1 .. Len(p) /\ DOMAIN q = 1 .. Len(q) /\ Len(p) \in Nat /\ Len(q) \in Nat
  OBVIOUS
<1>2. ASSUME NEW i \in 1 .. Len(p) PROVE i \in DOMAIN (p \o q) /\ (p \o q)[i] = p[i]
  BY <1>1
<1>3. ASSUME NEW i \in 1 .. Len(q) PROVE Len(p) + i \in DOMAIN (p \o q) /\ (p \o q)[Len(p) + i] = q[i]
  BY <1>1
<1>4. ASSUME NEW i \in DOMAIN (p \o q)
      PROVE  \/ i \in 1 .. Len(p) /\ (p \o q)[i] = p[i]
             \/ i - Len(p) \in 1 .. Len(q) /\ (p \o q)[i] = q[i - Len(p)]
  BY <1>1
<1>5. ASSUME NEW x \in Elems(p \o q) PROVE x \in Elems(p) \cup Elems(q)
  BY Zenon, <1>1, <1>4, <1>5 DEF Elems
<1>6. ASSUME NEW x \in Elems(p) PROVE x \in Elems(p \o q)
  BY Zenon, <1>1, <1>2, <1>6 DEF Elems
<1>7. ASSUME NEW x \in Elems(q) PROVE x \in Elems(p \o q)
  BY Zenon, <1>1, <1>3, <1>7 DEF Elems
<1> QED
  BY Zenon, <1>1, <1>5, <1>6, <1>7

LEMMA ElemsOfTail ==
    ASSUME NEW p \in Seq(Activation), p # <<>>
    PROVE  /\ Head(p) \in Activation /\ Tail(p) \in Seq(Activation)
           /\ Elems(p) = {Head(p)} \cup Elems(Tail(p))
<1>1. /\ Tail(p) \in Seq(Activation) /\ Len(p) \in Nat /\ Len(p) >= 1 /\ Head(p) = p[1]
      /\ DOMAIN p = 1 .. Len(p) /\ DOMAIN Tail(p) = 1 .. Len(p) - 1 /\ p[1] \in Activation
  OBVIOUS
<1>2. ASSUME NEW i \in 1 .. Len(p) - 1 PROVE i + 1 \in DOMAIN p /\ Tail(p)[i] = p[i + 1]
  BY <1>1
<1>3. ASSUME NEW i \in DOMAIN p
      PROVE  i = 1 \/ (i - 1 \in DOMAIN Tail(p) /\ Tail(p)[i - 1] = p[i])
  BY <1>1
<1>4. ASSUME NEW x \in Elems(p) PROVE x \in {Head(p)} \cup Elems(Tail(p))
  BY ZenonT(40), <1>1, <1>3, <1>4 DEF Elems
<1>5. ASSUME NEW x \in Elems(Tail(p)) PROVE x \in Elems(p)
  BY <1>1, <1>2, <1>5 DEF Elems
<1>6. Head(p) \in Elems(p)
  BY <1>1 DEF Elems
<1> QED
  BY Zenon, <1>1, <1>4, <1>5, <1>6

LEMMA ElemsOfAppend ==
    ASSUME NEW p \in Seq(Activation), NEW a \in Activation
    PROVE  Append(p, a) \in Seq(Activation) /\ Elems(Append(p, a)) = Elems(p) \cup {a}
<1>1. /\ Append(p, a) \in Seq(Activation) /\ DOMAIN Append(p, a) = 1 .. Len(p) + 1
      /\ DOMAIN p = 1 .. Len(p) /\ Len(p) \in Nat
  OBVIOUS
<1>2. \A i \in 1 .. Len(p) : Append(p, a)[i] = p[i]
  BY <1>1
<1>3. Append(p, a)[Len(p) + 1] = a
  BY <1>1
<1> QED
  BY <1>1, <1>2, <1>3 DEF Elems

LEMMA NothingRuns == Elems(<<>>) = {}
  BY DEF Elems

LEMMA Typing ==
    /\ TypeOK <=> ClockTypes /\ RoundTypes /\ PassTypes /\ SpoolTypes
    /\ TypeOK' <=> ClockTypes' /\ RoundTypes' /\ PassTypes' /\ SpoolTypes'
  BY Zenon DEF TypeOK, ClockTypes, RoundTypes, PassTypes, SpoolTypes, Phases, Underway

LEMMA RunningIs == Running = Elems(open) \cup Elems(still) /\ Running' = Elems(open') \cup Elems(still')
  BY Zenon DEF Running, Elems

(* The schedules that are due come in some order, each of them once or more. *)
LEMMA InOrder ==
    ASSUME NEW due \in SUBSET Schedules, NEW order \in Orders(due)
    PROVE  /\ \E n \in Nat : DOMAIN order = 1 .. n
           /\ \A i \in DOMAIN order : order[i] \in due
           /\ \A s \in due : \E i \in DOMAIN order : order[i] = s
<1>1. IsFiniteSet(Schedules)
  BY Constants, FS_Interval
<1>2. Cardinality(due) \in Nat
  BY Zenon, <1>1, FS_Subset, FS_CardinalityType
<1>3. order \in [1 .. Cardinality(due) -> due]
  BY Zenon DEF Orders
<1>4. \A s \in due : \E i \in DOMAIN order : order[i] = s
  BY Zenon DEF Orders
<1> QED
  BY Zenon, <1>2, <1>3, <1>4

(* Scheduler::poll takes the last beginning that is not after now, a whole number
   of periods after the one it expected. *)
LEMMA MostRecentIs ==
    ASSUME ClockTypes, NEW s \in Schedules, Due(s)
    PROVE  /\ MostRecent(s) \in Int
           /\ \E n \in Nat : MostRecent(s) = beginning[s] + n * Period(s)
           /\ beginning[s] <= MostRecent(s)
           /\ MostRecent(s) <= now /\ now < MostRecent(s) + Period(s)
<1> DEFINE late == now - beginning[s]
           n == late \div Period(s)
<1>1. late \in Nat /\ Period(s) \in Nat \ {0} /\ beginning[s] \in Int /\ now \in Nat
  BY Constants, SMTT(60) DEF ClockTypes, Due
<1>2. n \in Nat /\ n * Period(s) <= late /\ late < n * Period(s) + Period(s)
  BY Zenon, <1>1, LastMultiple
<1>3. MostRecent(s) = beginning[s] + n * Period(s)
  BY Zenon DEF MostRecent
<1>4. n * Period(s) \in Nat
  BY <1>1, <1>2
<1>5. late = now - beginning[s]
  BY Zenon
<1> HIDE DEF n, late
<1>6. beginning[s] <= MostRecent(s) /\ MostRecent(s) \in Int
  BY <1>1, <1>3, <1>4
<1>7. MostRecent(s) <= now /\ now < MostRecent(s) + Period(s)
  BY <1>1, <1>2, <1>3, <1>4, <1>5
<1> QED
  BY Zenon, <1>2, <1>3, <1>6, <1>7

LEMMA BegunIs ==
    ASSUME ClockTypes, NEW s \in Schedules, Due(s)
    PROVE  /\ Begun(s) \in Activation /\ Begun(s).schedule = s
           /\ Begun(s).beginning = MostRecent(s)
           /\ Begun(s).end = MostRecent(s) + Duration[s]
<1>1. MostRecent(s) \in Int /\ Duration[s] \in Nat
  BY Zenon, MostRecentIs, Constants
<1> QED
  BY <1>1 DEF Begun, Activation

(* What the Scheduler begins is what the driver then runs. *)
LEMMA PollRuns ==
    ASSUME ClockTypes, RoundTypes, PollClock
    PROVE  /\ open' \in Seq(Activation)
           /\ Running' = Running \cup {Begun(s) : s \in {t \in Schedules : Due(t)}}
<1> DEFINE due == {t \in Schedules : Due(t)}
<1>1. PICK begun \in Orders(due) : open' = open \o [i \in DOMAIN begun |-> Begun(begun[i])]
  BY Zenon DEF PollClock
<1>2. PICK n \in Nat : DOMAIN begun = 1 .. n
  BY Zenon, InOrder
<1>3. /\ \A i \in DOMAIN begun : begun[i] \in due
      /\ \A s \in due : \E i \in DOMAIN begun : begun[i] = s
  BY Zenon, InOrder
<1> DEFINE new == [i \in DOMAIN begun |-> Begun(begun[i])]
<1>4. \A i \in DOMAIN begun : Begun(begun[i]) \in Activation
  BY Zenon, <1>3, BegunIs
<1>5. new \in Seq(Activation)
  BY <1>2, <1>4
<1>6. Elems(new) = {Begun(s) : s \in due}
  BY Zenon, <1>3 DEF Elems
<1>7. open' = open \o new
  BY Zenon, <1>1
<1> HIDE DEF new
<1>8. open' \in Seq(Activation) /\ Elems(open') = Elems(open) \cup Elems(new)
  BY Zenon, <1>5, <1>7, ElemsJoined DEF RoundTypes
<1>9. still' = still
  BY Zenon DEF PollClock
<1> QED
  BY Zenon, <1>6, <1>8, <1>9, RunningIs
-----------------------------------------------------------------------------
(***************************************************************************)
(* The steps of the driver keep the types                                  *)
(***************************************************************************)
LEMMA GroupOfEligible ==
    ASSUME ClockTypes, RoundTypes, SpoolTypes, open # <<>>, NEW copies, copies \subseteq Eligible
    PROVE  Group(copies) \subseteq Eligible /\ Group(copies) \subseteq Copies
<1>1. Head(open) \in Activation
  BY Zenon, ElemsOfTail DEF RoundTypes
<1>2. This \in Schedules
  BY Zenon, <1>1 DEF This, Activation
<1>3. Eligible \subseteq Copies
  BY Zenon, <1>2, Constants DEF Eligible
<1>4. Group(copies) \subseteq copies
  BY Zenon DEF Group
<1> QED
  BY Zenon, <1>3, <1>4

LEMMA CopyTypes ==
    /\ \A state \in {"Absent", "Claimed", "Held", "Settled"} : Being(state) \in Copy
    /\ \A t \in Nat \cup {NoTime} : Waiting(t) \in Copy /\ Waiting(t).state = "Waiting"
    /\ Being("Settled").state = "Settled" /\ Being("Held").state = "Held"
    /\ Being("Claimed").state = "Claimed" /\ Being("Absent").state = "Absent"
  BY Zenon DEF Being, Waiting, Copy, NoTime

LEMMA OutcomeTypes ==
    ASSUME PassTypes, AfterEpoch, NEW copy \in Outcomes
    PROVE  copy \in Copy /\ copy.state \in {"Settled", "Waiting"}
<1>1. nextAttempt \in Nat \cup {NoTime}
  BY DEF PassTypes, AfterEpoch, NoTime
<1>2. PeerTimes \cup {nextAttempt} \subseteq Nat \cup {NoTime}
  BY Zenon, <1>1, Constants
<1> QED
  BY Zenon, <1>2, CopyTypes DEF Outcomes, Deferrals

LEMMA PollClockTypes ==
    ASSUME TypeOK, PollClock PROVE TypeOK'
<1>1. ClockTypes /\ RoundTypes /\ PassTypes /\ SpoolTypes
  BY Zenon, Typing
<1>2. ASSUME NEW s \in Schedules
      PROVE  /\ (IF Due(s) THEN MostRecent(s) + Period(s) ELSE beginning[s]) \in Int
             /\ (IF Due(s) THEN Slot(s) ELSE IF Occupied(s) THEN until[s] ELSE NoTime) \in Int
  <2>1. beginning[s] \in Int /\ until[s] \in Int /\ NoTime \in Int
    BY <1>1 DEF ClockTypes, NoTime
  <2>2. CASE Due(s)
    <3>1. MostRecent(s) \in Int /\ Begun(s).end \in Int /\ Period(s) \in Int
      BY SMTT(60), <1>1, <2>2, MostRecentIs, BegunIs, Constants DEF Activation
    <3> QED
      BY SMTT(60), <2>1, <2>2, <3>1 DEF Slot
  <2>3. CASE ~ Due(s)
    BY Zenon, <2>1, <2>3
  <2> QED
    BY Zenon, <2>2, <2>3
<1>3. ClockTypes'
  BY Zenon, <1>1, <1>2 DEF PollClock, ClockTypes
<1>4. RoundTypes'
  BY Zenon, <1>1, PollRuns DEF PollClock, RoundTypes, Phases, Underway
<1>5. PassTypes' /\ SpoolTypes'
  BY Zenon, <1>1 DEF PollClock, PassTypes, SpoolTypes, activation
<1> QED
  BY Zenon, <1>3, <1>4, <1>5, Typing

LEMMA BeginTypes ==
    ASSUME TypeOK, BeginActivation PROVE TypeOK'
<1>1. ClockTypes /\ RoundTypes /\ PassTypes /\ SpoolTypes
  BY Zenon, Typing
<1>2. Head(open) \in Activation /\ open # <<>>
  BY Zenon, <1>1, ElemsOfTail DEF BeginActivation, RoundTypes
<1>3. Head(open).schedule \in Schedules
  BY Zenon, <1>2 DEF Activation
<1>4. beginning[Head(open).schedule] \in Int /\ Polls[Head(open).schedule] \in Seq(Hops)
  BY Zenon, <1>1, <1>3, Constants DEF ClockTypes
<1>5. PassTypes'
  BY <1>1, <1>4 DEF BeginActivation, PassTypes, ClockTypes
<1>6. ClockTypes' /\ RoundTypes' /\ SpoolTypes'
  BY Zenon, <1>1, <1>2 DEF BeginActivation, ClockTypes, RoundTypes, SpoolTypes, Phases, Underway, clock
<1> QED
  BY Zenon, <1>5, <1>6, Typing

(* Claims: the group is of copies that waited, and they are in hand now. *)
LEMMA ClaimTypes ==
    ASSUME TypeOK, open # <<>>, NEW copies, copies \subseteq Eligible, Claim(Group(copies))
    PROVE  /\ SpoolTypes' /\ group' \subseteq Copies
           /\ \A c \in Copies : spool'[c].state = "Claimed" <=> c \in group' \/ spool[c].state = "Claimed"
<1>1. ClockTypes /\ RoundTypes /\ PassTypes /\ SpoolTypes
  BY Zenon, Typing
<1>2. group' \subseteq Copies /\ group' = Group(copies)
  BY Zenon, <1>1, GroupOfEligible DEF Claim
<1>3. spool' = [c \in Copies |-> IF c \in group' THEN Being("Claimed") ELSE spool[c]]
  BY Zenon, <1>2 DEF Claim
<1> QED
  BY Zenon, <1>1, <1>2, <1>3, CopyTypes DEF SpoolTypes

LEMMA PollPeerTypes ==
    ASSUME TypeOK, PollPeer PROVE TypeOK'
<1>1. ClockTypes /\ RoundTypes /\ PassTypes /\ SpoolTypes
  BY Zenon, Typing
<1>2. open # <<>>
  BY Zenon, <1>1 DEF PollPeer, RoundTypes, Underway
<1>3. SpoolTypes' /\ group' \subseteq Copies
  <2> DEFINE copies == {c \in Eligible : HopOf[c] = Head(polls)}
  <2>1. copies \subseteq Eligible /\ Claim(Group(copies))
    BY Zenon DEF PollPeer
  <2> QED
    BY Zenon, <1>2, <2>1, ClaimTypes
<1>4. Tail(polls) \in Seq(Hops)
  BY <1>1 DEF PassTypes, PollPeer
<1>5. ClockTypes' /\ RoundTypes' /\ PassTypes'
  BY Zenon, <1>1, <1>2, <1>3, <1>4 DEF PollPeer, ClockTypes, RoundTypes, PassTypes, Phases, Underway, clock
<1> QED
  BY Zenon, <1>3, <1>5, Typing

LEMMA ClaimGroupTypes ==
    ASSUME TypeOK, NEW oldest \in Copies, ClaimGroup(oldest) PROVE TypeOK'
<1>1. ClockTypes /\ RoundTypes /\ PassTypes /\ SpoolTypes
  BY Zenon, Typing
<1>2. open # <<>>
  BY Zenon, <1>1 DEF ClaimGroup, RoundTypes, Underway
<1>3. SpoolTypes' /\ group' \subseteq Copies
  <2> DEFINE copies == {c \in Eligible : HopOf[c] = HopOf[oldest]}
  <2>1. copies \subseteq Eligible /\ Claim(Group(copies))
    BY Zenon DEF ClaimGroup
  <2> QED
    BY Zenon, <1>2, <2>1, ClaimTypes
<1>4. ClockTypes' /\ RoundTypes' /\ PassTypes'
  BY Zenon, <1>1, <1>2, <1>3 DEF ClaimGroup, ClockTypes, RoundTypes, PassTypes, Phases, Underway, clock
<1> QED
  BY Zenon, <1>3, <1>4, Typing

LEMMA FinishTypes ==
    ASSUME TypeOK, AfterEpoch, NEW outcome \in [group -> Outcomes], FinishGroup(outcome)
    PROVE  /\ TypeOK'
           /\ \A c \in Copies : spool'[c].state = "Claimed" <=> c \notin group /\ spool[c].state = "Claimed"
<1>1. ClockTypes /\ RoundTypes /\ PassTypes /\ SpoolTypes
  BY Zenon, Typing
<1>2. \A c \in group : outcome[c] \in Copy /\ outcome[c].state # "Claimed"
  BY Zenon, <1>1, OutcomeTypes
<1>3. spool' = [c \in Copies |-> IF c \in group THEN outcome[c] ELSE spool[c]]
  BY Zenon DEF FinishGroup
<1>4. SpoolTypes'
  BY Zenon, <1>1, <1>2, <1>3 DEF SpoolTypes
<1>5. \A c \in Copies : spool'[c].state = "Claimed" <=> c \notin group /\ spool[c].state = "Claimed"
  BY Zenon, <1>2, <1>3
<1>6. ClockTypes' /\ RoundTypes' /\ PassTypes'
  BY Zenon, <1>1 DEF FinishGroup, ClockTypes, RoundTypes, PassTypes, Phases, Underway, clock
<1> QED
  BY Zenon, <1>4, <1>5, <1>6, Typing

LEMMA EndPassTypes ==
    ASSUME TypeOK, EndPass PROVE TypeOK'
<1>1. ClockTypes /\ RoundTypes /\ PassTypes /\ SpoolTypes
  BY Zenon, Typing
<1>2. open # <<>>
  BY Zenon, <1>1 DEF EndPass, RoundTypes, Underway
<1> DEFINE a == Head(open)
           b == [a EXCEPT !.poll = FALSE]
<1>3. a \in Activation /\ open' \in Seq(Activation)
  BY Zenon, <1>1, <1>2, ElemsOfTail DEF RoundTypes, EndPass
<1>4. b \in Activation /\ a.schedule \in Schedules
  BY Zenon, <1>3 DEF Activation
<1>5. still' = Append(still, b) \/ still' = still
  BY Zenon DEF EndPass
<1>6. until' = Finished(a) \/ until' = until
  BY Zenon DEF EndPass
<1> HIDE DEF a, b
<1>7. still' \in Seq(Activation)
  BY Zenon, <1>1, <1>4, <1>5, ElemsOfAppend DEF RoundTypes
<1>8. until' \in [Schedules -> Int]
  BY SMTT(60), <1>1, <1>4, <1>6 DEF Finished, ClockTypes, NoTime
<1>9. ClockTypes' /\ RoundTypes' /\ PassTypes' /\ SpoolTypes'
  BY SMTT(60), <1>1, <1>3, <1>7, <1>8
     DEF EndPass, ClockTypes, RoundTypes, PassTypes, SpoolTypes, Phases, Underway, NoTime
<1> QED
  BY Zenon, <1>9, Typing

(* next_wakeup finds the first of the wakeups. *)
LEMMA FirstWakeup ==
    ASSUME TypeOK, AfterEpoch, phase # "Down"
    PROVE  /\ \A s \in Schedules : Wakeup(s) \in Nat
           /\ SleepFor \in Nat
           /\ \A s \in Schedules : now + SleepFor <= Most(Wakeup(s), now + 1)
           /\ still # <<>> => SleepFor <= ActiveTick
<1>1. ClockTypes
  BY Zenon, Typing
<1>2. ASSUME NEW s \in Schedules PROVE Wakeup(s) \in Nat
  BY <1>1 DEF ClockTypes, AfterEpoch, Wakeup, Least, NoTime
<1> DEFINE W == {Wakeup(s) : s \in Schedules}
           next == CHOOSE t \in W : \A s \in Schedules : t <= Wakeup(s)
           ceiling == IF still = <<>> THEN IdleTick ELSE ActiveTick
<1>3. W # {} /\ W \subseteq Nat
  <2>1. 1 \in Schedules
    BY Constants
  <2> QED
    BY Zenon, <1>2, <2>1
<1>4. \E t \in W : \A u \in W : ~ (<<u, t>> \in OpToRel(<, Nat))
  BY Zenon, <1>3, NatLessThanWellFounded, WFMin
<1>5. \E t \in W : \A s \in Schedules : t <= Wakeup(s)
  <2>1. PICK t \in W : \A u \in W : ~ (<<u, t>> \in OpToRel(<, Nat))
    BY Zenon, <1>4
  <2>2. ASSUME NEW s \in Schedules PROVE t <= Wakeup(s)
    <3>1. Wakeup(s) \in W /\ Wakeup(s) \in Nat /\ t \in Nat
      BY Zenon, <1>2, <1>3
    <3> HIDE DEF W
    <3>2. ~ (<<Wakeup(s), t>> \in OpToRel(<, Nat))
      BY Zenon, <2>1, <3>1
    <3> QED
      BY <3>1, <3>2 DEF OpToRel
  <2> QED
    BY Zenon, <2>2
<1>6. next \in W /\ \A s \in Schedules : next <= Wakeup(s)
  BY Zenon, <1>5
<1>7. SleepFor = Most(Least(Minus(next, now), ceiling), 1)
  BY Zenon DEF SleepFor
<1>8. ceiling \in Nat /\ ceiling >= 1
  BY Constants
<1>9. still # <<>> => ceiling = ActiveTick
  BY Zenon
<1> HIDE DEF W, next, ceiling
<1>10. now \in Nat /\ next \in Nat
  BY Zenon, <1>1, <1>3, <1>6 DEF ClockTypes
<1>11. SleepFor \in Nat /\ SleepFor <= ceiling
  BY SMTT(60), <1>7, <1>8, <1>10 DEF Most, Least, Minus
<1>12. now + SleepFor <= Most(next, now + 1)
  BY SMTT(60), <1>7, <1>8, <1>10 DEF Most, Least, Minus
<1>13. ASSUME NEW s \in Schedules PROVE now + SleepFor <= Most(Wakeup(s), now + 1)
  BY SMTT(60), <1>2, <1>6, <1>8, <1>10, <1>11, <1>12 DEF Most
<1> QED
  BY Zenon, <1>2, <1>9, <1>11, <1>13

LEMMA SleepTypes ==
    ASSUME TypeOK, AfterEpoch, Sleep PROVE TypeOK'
<1>1. ClockTypes /\ RoundTypes /\ PassTypes /\ SpoolTypes
  BY Zenon, Typing
<1>2. wakeAt' \in Nat
  BY <1>1, FirstWakeup DEF Sleep, ClockTypes
<1>3. ClockTypes' /\ RoundTypes' /\ PassTypes' /\ SpoolTypes'
  BY Zenon, <1>1, <1>2
     DEF Sleep, ClockTypes, RoundTypes, PassTypes, SpoolTypes, Phases, Underway, clock, activation
<1> QED
  BY Zenon, <1>3, Typing

LEMMA StartTypes ==
    ASSUME TypeOK, StartOutbound
    PROVE  /\ TypeOK'
           /\ \A c \in Copies : spool'[c].state # "Claimed"
<1>1. ClockTypes /\ RoundTypes /\ PassTypes /\ SpoolTypes
  BY Zenon, Typing
<1>2. ASSUME NEW s \in Schedules PROVE FirstBeginning(s) \in Int
  <2>1. now \in Int /\ Offset[s] \in Int /\ Start[s] \in Int /\ Day \in Nat \ {0}
    BY SMTT(60), <1>1, Constants DEF ClockTypes
  <2> DEFINE remainder == (now + Offset[s]) % Day
  <2>2. remainder \in Int
    <3>1. now + Offset[s] \in Int
      BY <2>1
    <3>2. ASSUME NEW x \in Int, NEW d \in Nat \ {0} PROVE x % d \in Int
      OBVIOUS
    <3> QED
      BY Zenon, <2>1, <3>1, <3>2
  <2>3. FirstBeginning(s) = (now + Offset[s]) - remainder + Start[s] - Offset[s]
    BY Zenon DEF FirstBeginning
  <2> HIDE DEF remainder
  <2> QED
    BY SMTT(60), <2>1, <2>2, <2>3
<1>3. \A c \in Copies : Recovered(spool[c]) \in Copy /\ Recovered(spool[c]).state # "Claimed"
  BY Zenon, <1>1, CopyTypes DEF Recovered, SpoolTypes, ClockTypes
<1>4. spool' = [c \in Copies |-> Recovered(spool[c])]
  BY Zenon DEF StartOutbound
<1>5. ClockTypes' /\ RoundTypes' /\ PassTypes'
  BY <1>1, <1>2
     DEF StartOutbound, ClockTypes, RoundTypes, PassTypes, Phases, Underway, activation, NoTime
<1>6. SpoolTypes' /\ \A c \in Copies : spool'[c].state # "Claimed"
  BY Zenon, <1>3, <1>4 DEF SpoolTypes
<1> QED
  BY ZenonT(40), <1>5, <1>6, Typing

LEMMA OtherTypes ==
    ASSUME TypeOK, BeginPass \/ Wake \/ Kill \/ Tick \/ UNCHANGED vars PROVE TypeOK'
<1>1. ClockTypes /\ RoundTypes /\ PassTypes /\ SpoolTypes
  BY Zenon, Typing
<1>2. CASE BeginPass
  BY Zenon, <1>1, <1>2, Typing
     DEF BeginPass, ClockTypes, RoundTypes, PassTypes, SpoolTypes, Phases, Underway, clock
<1>3. CASE Wake
  BY Zenon, <1>1, <1>3, Typing
     DEF Wake, ClockTypes, RoundTypes, PassTypes, SpoolTypes, Phases, Underway, clock, activation
<1>4. CASE Kill
  BY SMTT(60), <1>1, <1>4, Typing
     DEF Kill, ClockTypes, RoundTypes, PassTypes, SpoolTypes, Phases, Underway, NoTime
<1>5. CASE Tick
  BY <1>1, <1>5, Typing
     DEF Tick, ClockTypes, RoundTypes, PassTypes, SpoolTypes, clock, activation
<1>6. CASE UNCHANGED vars
  BY Zenon, <1>1, <1>6, Typing
     DEF vars, ClockTypes, RoundTypes, PassTypes, SpoolTypes, clock, activation
<1> QED
  BY Zenon, <1>2, <1>3, <1>4, <1>5, <1>6

(* A relay, an IPC client or a poll connection at the spool. *)
SpoolStep(c) ==
    Commit(c) \/ Collect(c) \/ \E copy \in {Being("Settled"), Waiting(now)} : Return(c, copy)

LEMMA SpoolStepTypes ==
    ASSUME TypeOK, NEW c \in Copies, SpoolStep(c)
    PROVE  /\ TypeOK'
           /\ UNCHANGED <<now, clock, open, still, phase, activation, wakeAt>>
           /\ \A d \in Copies : spool'[d].state = "Claimed" <=> spool[d].state = "Claimed"
<1>1. ClockTypes /\ RoundTypes /\ PassTypes /\ SpoolTypes
  BY Zenon, Typing
<1>2. UNCHANGED <<now, clock, open, still, phase, activation, wakeAt>>
  BY Zenon DEF SpoolStep, Commit, Collect, Return
<1>3. PICK copy \in Copy : /\ spool' = [spool EXCEPT ![c] = copy]
                           /\ copy.state # "Claimed" /\ spool[c].state # "Claimed"
  BY Zenon, <1>1, CopyTypes DEF SpoolStep, Commit, Collect, Return, ClockTypes
<1>4. SpoolTypes' /\ \A d \in Copies : spool'[d].state = "Claimed" <=> spool[d].state = "Claimed"
  BY Zenon, <1>1, <1>3 DEF SpoolTypes
<1>5. ClockTypes' /\ RoundTypes' /\ PassTypes'
  BY Zenon, <1>1, <1>2 DEF ClockTypes, RoundTypes, PassTypes, clock, activation
<1> QED
  BY Zenon, <1>2, <1>4, <1>5, Typing

(***************************************************************************)
(* The steps of Next, grouped by what they do to the schedules.            *)
(***************************************************************************)
LEMMA Steps ==
    ASSUME [Next]_vars
    PROVE  \/ PollClock \/ EndPass \/ Sleep \/ StartOutbound \/ Kill \/ Tick
           \/ BeginActivation \/ PollPeer \/ BeginPass \/ Exchange \/ Wake
           \/ \E c \in Copies : ClaimGroup(c) \/ SpoolStep(c)
           \/ UNCHANGED vars
  BY Zenon, Constants DEF Next, Drive, SpoolStep

LEMMA TypesKept ==
    ASSUME TypeOK, AfterEpoch, [Next]_vars PROVE TypeOK'
<1>1. ASSUME Exchange PROVE TypeOK'
  BY Zenon, <1>1, FinishTypes DEF Exchange
<1>2. ASSUME NEW c \in Copies, ClaimGroup(c) \/ SpoolStep(c) PROVE TypeOK'
  BY Zenon, <1>2, ClaimGroupTypes, SpoolStepTypes
<1> QED
  BY Zenon, <1>1, <1>2, Steps, PollClockTypes, EndPassTypes, SleepTypes, StartTypes, OtherTypes,
     BeginTypes, PollPeerTypes

LEMMA QuietSteps ==
    ASSUME TypeOK,
           \/ BeginActivation \/ PollPeer \/ BeginPass \/ Exchange \/ Wake
           \/ \E c \in Copies : ClaimGroup(c) \/ SpoolStep(c)
           \/ UNCHANGED vars
    PROVE  Quiet
<1>1. CASE BeginActivation \/ PollPeer \/ BeginPass \/ Wake
  BY Zenon, <1>1 DEF BeginActivation, PollPeer, BeginPass, Wake, Quiet, clock
<1>2. CASE Exchange
  BY Zenon, <1>2 DEF Exchange, FinishGroup, Quiet, clock
<1>3. ASSUME NEW c \in Copies, ClaimGroup(c) PROVE Quiet
  BY Zenon, <1>3 DEF ClaimGroup, Quiet, clock
<1>4. ASSUME NEW c \in Copies, SpoolStep(c) PROVE Quiet
  BY Zenon, <1>4, SpoolStepTypes DEF Quiet, clock
<1>5. CASE UNCHANGED vars
  BY Zenon, <1>5 DEF vars, Quiet, clock
<1> QED
  BY Zenon, <1>1, <1>2, <1>3, <1>4, <1>5
-----------------------------------------------------------------------------
(***************************************************************************)
(* The beat                                                                *)
(***************************************************************************)
LEMMA StoppedKept ==
    ASSUME TypeOK, Stopped, [Next]_vars PROVE Stopped'
<1>1. CASE Quiet
  BY Zenon, <1>1 DEF Quiet, Stopped
<1>2. CASE PollClock \/ EndPass \/ Sleep \/ StartOutbound
  BY Zenon, <1>2 DEF PollClock, EndPass, Sleep, StartOutbound, Stopped
<1>3. CASE Kill \/ Tick
  BY Zenon, <1>3 DEF Kill, Tick, Stopped
<1> QED
  BY Zenon, <1>1, <1>2, <1>3, Steps, QuietSteps

LEMMA EpochKept ==
    ASSUME TypeOK, AfterEpoch, [Next]_vars PROVE AfterEpoch'
<1>1. ClockTypes /\ RoundTypes /\ PassTypes
  BY Zenon, Typing
<1>2. CASE PollClock
  <2>1. ASSUME NEW s \in Schedules
        PROVE  beginning'[s] >= 0 /\ until'[s] >= NoTime
    <3>1. /\ beginning'[s] = IF Due(s) THEN MostRecent(s) + Period(s) ELSE beginning[s]
          /\ until'[s] = IF Due(s) THEN Slot(s) ELSE IF Occupied(s) THEN until[s] ELSE NoTime
      BY Zenon, <1>2 DEF PollClock
    <3>2. /\ beginning[s] >= 0 /\ until[s] >= NoTime /\ NoTime >= NoTime
          /\ beginning[s] \in Int /\ until[s] \in Int /\ now \in Nat
      BY SMTT(60), <1>1, <1>2 DEF PollClock, AfterEpoch, ClockTypes, NoTime
    <3>3. CASE Due(s)
      <4>1. MostRecent(s) \in Int /\ MostRecent(s) >= beginning[s] /\ Period(s) \in Nat
        BY Zenon, <1>1, <3>3, MostRecentIs, Constants
      <4>2. Slot(s) >= NoTime
        BY <1>1, <3>2, <3>3, BegunIs DEF Slot, NoTime, Activation
      <4> QED
        BY <3>1, <3>2, <3>3, <4>1, <4>2
    <3>4. CASE ~ Due(s)
      BY Zenon, <3>1, <3>2, <3>4
    <3> QED
      BY Zenon, <3>3, <3>4
  <2> QED
    BY Zenon, <1>2, <2>1 DEF PollClock, AfterEpoch, activation
<1>3. CASE BeginActivation
  <2>1. Head(open) \in Activation
    BY Zenon, <1>1, <1>3, ElemsOfTail DEF BeginActivation, RoundTypes
  <2>2. Head(open).schedule \in Schedules
    BY Zenon, <2>1 DEF Activation
  <2>3. beginning[Head(open).schedule] >= NoTime
    BY SMTT(60), <1>1, <1>3, <2>2 DEF BeginActivation, AfterEpoch, ClockTypes, NoTime
  <2> QED
    BY Zenon, <1>3, <2>3 DEF BeginActivation, AfterEpoch, clock
<1>4. CASE EndPass
  <2>1. open # <<>>
    BY Zenon, <1>1, <1>4 DEF EndPass, RoundTypes, Underway
  <2>2. Head(open) \in Activation
    BY Zenon, <1>1, <2>1, ElemsOfTail DEF RoundTypes
  <2>3. Head(open).schedule \in Schedules
    BY Zenon, <2>2 DEF Activation
  <2>4. until' = Finished(Head(open)) \/ until' = until
    BY Zenon, <1>4 DEF EndPass
  <2>5. \A s \in Schedules : until'[s] >= NoTime
    BY <1>1, <2>3, <2>4 DEF Finished, AfterEpoch, ClockTypes, NoTime
  <2> QED
    BY <1>4, <2>5 DEF EndPass, AfterEpoch, NoTime
<1>5. CASE StartOutbound
  BY <1>5 DEF StartOutbound, AfterEpoch, NoTime, activation
<1>6. CASE Kill
  BY <1>6 DEF Kill, AfterEpoch, NoTime
<1>7. CASE Sleep \/ Tick
  BY Zenon, <1>7 DEF Sleep, Tick, AfterEpoch, clock, activation
<1>8. CASE Quiet /\ nextAttempt' = nextAttempt
  BY Zenon, <1>8 DEF Quiet, AfterEpoch
<1>9. ASSUME PollPeer \/ BeginPass \/ Exchange \/ Wake \/ UNCHANGED vars
      PROVE  nextAttempt' = nextAttempt
  BY Zenon, <1>9 DEF PollPeer, BeginPass, Exchange, FinishGroup, Wake, vars, activation
<1>10. ASSUME NEW c \in Copies, ClaimGroup(c) \/ SpoolStep(c) PROVE nextAttempt' = nextAttempt
  BY Zenon, <1>10, SpoolStepTypes DEF ClaimGroup, activation
<1> QED
  BY Zenon, <1>2, <1>3, <1>4, <1>5, <1>6, <1>7, <1>8, <1>9, <1>10, Steps, QuietSteps

(* The pass of an activation is over: it runs on, without its polls, or is gone. *)
LEMMA EndPassRuns ==
    ASSUME TypeOK, EndPass
    PROVE  /\ \A a \in Running' : \E b \in Running :
                 a.schedule = b.schedule /\ a.beginning = b.beginning /\ a.end = b.end
           /\ \A b \in Running :
                 \/ \E a \in Running' : a.schedule = b.schedule /\ a.end = b.end
                 \/ b = Head(open) /\ now >= b.end
           /\ Head(open) \in Activation /\ Head(open) \in Running
<1>1. ClockTypes /\ RoundTypes
  BY Zenon, Typing
<1>2. open # <<>>
  BY Zenon, <1>1 DEF EndPass, RoundTypes, Underway
<1> DEFINE h == Head(open)
           k == [h EXCEPT !.poll = FALSE]
<1>3. h \in Activation /\ Elems(open) = {h} \cup Elems(open')
  BY Zenon, <1>1, <1>2, ElemsOfTail DEF RoundTypes, EndPass
<1>4. k \in Activation /\ k.schedule = h.schedule /\ k.beginning = h.beginning /\ k.end = h.end
  BY Zenon, <1>3 DEF Activation
<1>5. now \in Nat /\ h.end \in Int
  BY Zenon, <1>1, <1>3 DEF ClockTypes, Activation
<1>6. \/ now < h.end /\ still' = Append(still, k)
      \/ now >= h.end /\ still' = still
  BY <1>5 DEF EndPass
<1> HIDE DEF h, k
<1>7. \/ now < h.end /\ Elems(still') = Elems(still) \cup {k}
      \/ now >= h.end /\ Elems(still') = Elems(still)
  BY Zenon, <1>1, <1>4, <1>6, ElemsOfAppend DEF RoundTypes
<1>8. ASSUME NEW a \in Running'
      PROVE  \E b \in Running : a.schedule = b.schedule /\ a.beginning = b.beginning /\ a.end = b.end
  <2>1. a = k \/ a \in Running
    BY Zenon, <1>3, <1>7, <1>8, RunningIs
  <2>2. h \in Running
    BY Zenon, <1>3, RunningIs
  <2> QED
    BY Zenon, <1>4, <2>1, <2>2
<1>9. ASSUME NEW b \in Running
      PROVE  \/ \E a \in Running' : a.schedule = b.schedule /\ a.end = b.end
             \/ b = h /\ now >= b.end
  <2>1. b \in Running' \/ b = h
    BY Zenon, <1>3, <1>7, <1>9, RunningIs
  <2>2. k \in Running' \/ now >= h.end
    BY Zenon, <1>7, RunningIs
  <2> QED
    BY Zenon, <1>4, <2>1, <2>2
<1>10. h \in Running
  BY Zenon, <1>3, RunningIs
<1> QED
  BY Zenon, <1>3, <1>8, <1>9, <1>10 DEF h

LEMMA RunningTypes ==
    ASSUME RoundTypes, NEW a \in Running
    PROVE  a \in Activation /\ a.schedule \in Schedules /\ a.beginning \in Int /\ a.end \in Int
<1>1. a \in Activation
  BY DEF Running, RoundTypes
<1> QED
  BY Zenon, <1>1 DEF Activation

LEMMA BeatsKept ==
    ASSUME TypeOK, Stopped, AfterEpoch, Beats, [Next]_vars PROVE Beats'
<1>1. ClockTypes /\ RoundTypes
  BY Zenon, Typing
<1>2. CASE Quiet
  BY Zenon, <1>2, RunningIs DEF Quiet, Beats, Expected, OnBeat
<1>3. CASE Tick
  BY Zenon, <1>3, RunningIs DEF Tick, Beats, Expected, OnBeat, clock
<1>4. CASE Sleep
  <2>1. Running' = Running
    BY Zenon, <1>4, RunningIs, NothingRuns DEF Sleep
  <2> QED
    BY Zenon, <1>4, <2>1 DEF Sleep, Beats, Expected, OnBeat, clock
<1>5. CASE Kill
  BY Zenon, <1>5, RunningIs, NothingRuns DEF Kill, Beats
<1>6. CASE StartOutbound
  <2>1. Running' = {}
    BY Zenon, <1>6, RunningIs, NothingRuns DEF StartOutbound, Stopped
  <2>2. ASSUME NEW s \in Schedules PROVE Expected(s)'
    <3>1. beginning'[s] = first'[s] /\ first'[s] \in Int /\ Period(s) \in Int
      <4>1. first' \in [Schedules -> Int]
        BY Zenon, <1>6, StartTypes, Typing DEF ClockTypes
      <4> QED
        BY <1>6, <4>1, Constants DEF StartOutbound
    <3>2. beginning'[s] = first'[s] + 0 * Period(s)
      BY <3>1
    <3> QED
      BY Zenon, <3>2 DEF Expected, Period
  <2> QED
    BY Zenon, <2>1, <2>2 DEF Beats
<1>7. CASE EndPass
  <2>1. first' = first /\ beginning' = beginning /\ phase # "Down"
    BY Zenon, <1>7 DEF EndPass
  <2>2. ASSUME NEW a \in Running' PROVE OnBeat(a)'
    BY Zenon, <1>7, <2>1, EndPassRuns DEF Beats, OnBeat
  <2> QED
    BY Zenon, <2>1, <2>2 DEF Beats, Expected
<1>8. CASE PollClock
  <2>1. first' = first /\ phase # "Down"
    BY Zenon, <1>8 DEF PollClock
  <2>2. ASSUME NEW s \in Schedules
        PROVE  /\ Expected(s)'
               /\ beginning'[s] \in Int /\ beginning'[s] >= beginning[s]
               /\ Due(s) => beginning'[s] = MostRecent(s) + Period(s)
    <3>1. beginning'[s] = IF Due(s) THEN MostRecent(s) + Period(s) ELSE beginning[s]
      BY Zenon, <1>8 DEF PollClock
    <3>2. PICK n \in Nat : beginning[s] = first[s] + n * Period(s)
      BY Zenon, <2>1 DEF Beats, Expected
    <3>3. beginning[s] \in Int /\ first[s] \in Int /\ Period(s) \in Nat
      BY Zenon, <1>1, Constants DEF ClockTypes
    <3>4. CASE Due(s)
      <4>1. PICK k \in Nat : MostRecent(s) = beginning[s] + k * Period(s)
        BY Zenon, <1>1, <3>4, MostRecentIs
      <4>2. MostRecent(s) \in Int /\ beginning[s] <= MostRecent(s)
        BY Zenon, <1>1, <3>4, MostRecentIs
      <4>3. /\ k * Period(s) \in Int /\ n * Period(s) \in Int
            /\ n * Period(s) + k * Period(s) = (n + k) * Period(s)
            /\ (n + k) * Period(s) + Period(s) = (n + k + 1) * Period(s)
            /\ n + k + 1 \in Nat
        BY <3>3, SumOfMultiples
      <4>4. beginning'[s] = first'[s] + (n + k + 1) * Period(s)
        BY SMTT(60), <2>1, <3>1, <3>2, <3>3, <3>4, <4>1, <4>3
      <4> QED
        BY SMTT(60), <3>1, <3>3, <3>4, <4>2, <4>3, <4>4 DEF Expected
    <3>5. CASE ~ Due(s)
      BY SMTT(60), <2>1, <3>1, <3>2, <3>3, <3>5 DEF Expected
    <3> QED
      BY Zenon, <3>4, <3>5
  <2>3. ASSUME NEW a \in Running PROVE OnBeat(a)'
    <3>1. a.schedule \in Schedules /\ a.beginning \in Int
      BY Zenon, <1>1, RunningTypes
    <3>2. beginning[a.schedule] \in Int
      BY Zenon, <1>1, <3>1 DEF ClockTypes
    <3>3. OnBeat(a)
      BY Zenon DEF Beats
    <3> QED
      BY <2>1, <2>2, <3>1, <3>2, <3>3 DEF OnBeat
  <2>4. ASSUME NEW s \in Schedules, Due(s), NEW b, b = Begun(s) PROVE OnBeat(b)'
    <3>1. b.schedule = s /\ b.beginning = MostRecent(s) /\ b.end = MostRecent(s) + Duration[s]
      BY Zenon, <1>1, <2>4, BegunIs
    <3>3. MostRecent(s) \in Int /\ Period(s) \in Nat \ {0}
      BY Zenon, <1>1, <2>4, MostRecentIs, Constants
    <3>4. MostRecent(s) < beginning'[s]
      BY <2>2, <2>4, <3>3
    <3>5. \E n \in Int : MostRecent(s) = first'[s] + n * Period(s)
      <4>1. PICK n \in Nat : beginning'[s] = first'[s] + n * Period(s)
        BY Zenon, <2>2 DEF Expected
      <4>2. first'[s] \in Int /\ beginning'[s] = MostRecent(s) + Period(s)
        BY Zenon, <1>1, <2>1, <2>2, <2>4 DEF ClockTypes
      <4>3. /\ n - 1 \in Int /\ n * Period(s) \in Int /\ (n - 1) * Period(s) \in Int
            /\ (n - 1) * Period(s) + Period(s) = n * Period(s)
        <5>1. n - 1 \in Int /\ (n - 1) + 1 = n
          OBVIOUS
        <5>2. (n - 1) * Period(s) + Period(s) = ((n - 1) + 1) * Period(s)
          BY <3>3, <5>1, SumOfMultiples
        <5> QED
          BY <3>3, <5>1, <5>2
      <4>4. MostRecent(s) = first'[s] + (n - 1) * Period(s)
        <5>1. PICK p \in Int, q \in Int : p = (n - 1) * Period(s) /\ q = n * Period(s)
          BY Zenon, <4>3
        <5>2. p + Period(s) = q /\ MostRecent(s) + Period(s) = first'[s] + q
          BY Zenon, <4>1, <4>2, <4>3, <5>1
        <5>3. MostRecent(s) = first'[s] + p
          BY <3>3, <4>2, <5>2
        <5> QED
          BY Zenon, <5>1, <5>3
      <4> QED
        BY Zenon, <4>3, <4>4
    <3> QED
      BY Zenon, <3>1, <3>4, <3>5 DEF OnBeat
  <2>5. \A a \in Running' : OnBeat(a)'
    BY Zenon, <1>1, <1>8, <2>3, <2>4, PollRuns
  <2> QED
    BY Zenon, <2>2, <2>5 DEF Beats
<1> QED
  BY Zenon, <1>2, <1>3, <1>4, <1>5, <1>6, <1>7, <1>8, Steps, QuietSteps
-----------------------------------------------------------------------------
(***************************************************************************)
(* The slots, the sleep and the claims                                     *)
(***************************************************************************)
LEMMA SlotsKept ==
    ASSUME TypeOK, Stopped, AfterEpoch, Slots, [Next]_vars PROVE Slots'
<1>1. ClockTypes /\ RoundTypes
  BY Zenon, Typing
<1>2. now \in Nat /\ \A s \in Schedules : until[s] \in Int
  BY Zenon, <1>1 DEF ClockTypes
<1>3. CASE Quiet
  BY Zenon, <1>3, RunningIs DEF Quiet, Slots, Occupied
<1>4. CASE Tick
  <2>1. Running' = Running /\ until' = until /\ now' = now + 1
    BY Zenon, <1>4, RunningIs DEF Tick, clock
  <2>2. ASSUME NEW s \in Schedules, Occupied(s)'
        PROVE  \E a \in Running' : a.schedule = s /\ a.end = until'[s]
    BY <1>2, <2>1, <2>2 DEF Slots, Occupied
  <2>3. ASSUME NEW s \in Schedules, NEW a \in Running', a.schedule = s, now' < a.end
        PROVE  until'[s] = a.end
    BY SMTT(60), <1>1, <1>2, <2>1, <2>3, RunningTypes DEF Slots
  <2> QED
    BY Zenon, <2>2, <2>3 DEF Slots
<1>5. CASE Sleep
  <2>1. Running' = Running
    BY Zenon, <1>5, RunningIs, NothingRuns DEF Sleep
  <2> QED
    BY Zenon, <1>5, <2>1 DEF Sleep, Slots, Occupied, clock
<1>6. CASE Kill \/ StartOutbound
  <2>1. Running' = {}
    BY Zenon, <1>6, RunningIs, NothingRuns DEF Kill, StartOutbound, Stopped
  <2>2. \A s \in Schedules : until'[s] = NoTime
    BY Zenon, <1>6 DEF Kill, StartOutbound
  <2> QED
    BY Zenon, <2>1, <2>2 DEF Slots, Occupied
<1>7. CASE EndPass
  <2> DEFINE h == Head(open)
  <2>1. /\ \A a \in Running' : \E b \in Running : a.schedule = b.schedule /\ a.end = b.end
        /\ \A b \in Running :
              \/ \E a \in Running' : a.schedule = b.schedule /\ a.end = b.end
              \/ b = h /\ now >= b.end
        /\ h \in Activation
    BY Zenon, <1>7, EndPassRuns
  <2>2. now' = now /\ (until' = until \/ until' = Finished(h))
    BY Zenon, <1>7 DEF EndPass
  <2> HIDE DEF h
  <2>3. h.schedule \in Schedules
    BY Zenon, <2>1 DEF Activation
  <2>4. ASSUME NEW s \in Schedules
        PROVE  until'[s] = until[s] \/ (until'[s] = NoTime /\ until[s] # NoTime /\ now >= until[s])
    BY Zenon, <1>1, <2>2, <2>3 DEF Finished, ClockTypes
  <2>5. ASSUME NEW s \in Schedules, Occupied(s)'
        PROVE  \E a \in Running' : a.schedule = s /\ a.end = until'[s]
    <3>1. Occupied(s) /\ until'[s] = until[s]
      BY Zenon, <2>2, <2>4, <2>5 DEF Occupied
    <3>2. PICK b \in Running : b.schedule = s /\ b.end = until[s]
      BY Zenon, <3>1 DEF Slots
    <3>3. ~ (now >= b.end)
      BY <1>2, <3>1, <3>2 DEF Occupied
    <3> QED
      BY Zenon, <2>1, <3>1, <3>2, <3>3
  <2>6. ASSUME NEW s \in Schedules, NEW a \in Running', a.schedule = s, now' < a.end
        PROVE  until'[s] = a.end
    <3>1. PICK b \in Running : a.schedule = b.schedule /\ a.end = b.end
      BY Zenon, <2>1, <2>6
    <3>2. until[s] = a.end
      BY Zenon, <2>2, <2>6, <3>1 DEF Slots
    <3> QED
      BY SMTT(60), <1>2, <2>2, <2>4, <2>6, <3>2
  <2> QED
    BY Zenon, <2>5, <2>6 DEF Slots
<1>8. CASE PollClock
  <2>1. now' = now /\ Running' = Running \cup {Begun(s) : s \in {t \in Schedules : Due(t)}}
    BY Zenon, <1>1, <1>8, PollRuns DEF PollClock
  <2>2. ASSUME NEW s \in Schedules
        PROVE  until'[s] = IF Due(s) THEN Slot(s) ELSE IF Occupied(s) THEN until[s] ELSE NoTime
    BY Zenon, <1>8 DEF PollClock
  <2>3. ASSUME NEW s \in Schedules, Occupied(s)'
        PROVE  \E a \in Running' : a.schedule = s /\ a.end = until'[s]
    <3>1. CASE Due(s)
      <4>1. until'[s] = Begun(s).end
        BY Zenon, <2>2, <2>3, <3>1 DEF Slot, Occupied
      <4>2. Begun(s) \in Running' /\ Begun(s).schedule = s
        BY Zenon, <1>1, <2>1, <3>1, BegunIs
      <4> QED
        BY Zenon, <4>1, <4>2
    <3>2. CASE ~ Due(s)
      <4>1. Occupied(s) /\ until'[s] = until[s]
        BY Zenon, <2>2, <2>3, <3>2 DEF Occupied
      <4> QED
        BY Zenon, <2>1, <4>1 DEF Slots
    <3> QED
      BY Zenon, <3>1, <3>2
  <2>4. ASSUME NEW s \in Schedules, NEW a \in Running', a.schedule = s, now' < a.end
        PROVE  until'[s] = a.end
    <3>1. CASE a \in Running
      <4>1. until[s] = a.end /\ a.end \in Int
        BY Zenon, <1>1, <2>1, <2>4, <3>1, RunningTypes DEF Slots
      <4>2. Occupied(s)
        BY SMTT(60), <1>2, <2>1, <2>4, <4>1 DEF Occupied, NoTime
      <4>3. ~ Due(s)
        BY Zenon, <4>2 DEF Due
      <4> QED
        BY Zenon, <2>2, <4>1, <4>2, <4>3
    <3>2. CASE a \notin Running
      <4>1. PICK t \in Schedules : Due(t) /\ a = Begun(t)
        BY Zenon, <2>1, <2>4, <3>2
      <4>2. t = s
        BY Zenon, <1>1, <2>4, <4>1, BegunIs
      <4>3. Begun(s).end > now
        BY Zenon, <1>1, <1>2, <2>1, <2>4, <4>1, <4>2, BegunIs DEF Activation
      <4> QED
        BY Zenon, <2>2, <4>1, <4>2, <4>3 DEF Slot
    <3> QED
      BY Zenon, <3>1, <3>2
  <2> QED
    BY Zenon, <2>3, <2>4 DEF Slots
<1> QED
  BY Zenon, <1>3, <1>4, <1>5, <1>6, <1>7, <1>8, Steps, QuietSteps

LEMMA SleepKept ==
    ASSUME TypeOK, AfterEpoch, NoOversleep, [Next]_vars PROVE NoOversleep'
<1>1. ClockTypes /\ RoundTypes /\ PassTypes
  BY Zenon, Typing
<1>2. CASE Quiet
  BY Zenon, <1>2 DEF Quiet, NoOversleep, Wakeup
<1>3. CASE Tick
  <2>1. CASE phase = "Asleep"
    <3>1. now \in Nat /\ now' = now + 1 /\ wakeAt' = wakeAt /\ wakeAt \in Int /\ open' = open
      BY <1>1, <1>3 DEF Tick, ClockTypes, PassTypes, NoTime
    <3>2. ASSUME NEW s \in Schedules PROVE wakeAt' <= Most(Wakeup(s), now + 1)'
      <4>1. Wakeup(s)' = Wakeup(s) /\ Wakeup(s) \in Nat
        BY Zenon, <1>3, <2>1, FirstWakeup DEF Tick, Wakeup, clock
      <4>2. wakeAt <= Most(Wakeup(s), now + 1)
        BY Zenon, <2>1 DEF NoOversleep
      <4> QED
        BY <3>1, <4>1, <4>2 DEF Most
    <3>3. open' # <<>> => wakeAt' <= now' + ActiveTick
      BY SMTT(60), <2>1, <3>1, Constants DEF NoOversleep
    <3> QED
      BY Zenon, <3>2, <3>3 DEF NoOversleep
  <2>2. CASE phase # "Asleep"
    BY Zenon, <1>3, <2>2 DEF Tick, NoOversleep
  <2> QED
    BY Zenon, <2>1, <2>2
<1>4. CASE Sleep
  <2>1. now' = now /\ wakeAt' = now + SleepFor /\ open' = still /\ phase # "Down"
    BY Zenon, <1>4 DEF Sleep
  <2>2. ASSUME NEW s \in Schedules PROVE wakeAt' <= Most(Wakeup(s), now + 1)'
    <3>1. Wakeup(s)' = Wakeup(s)
      BY Zenon, <1>4 DEF Sleep, Wakeup, clock
    <3>2. now + SleepFor <= Most(Wakeup(s), now + 1)
      BY Zenon, <2>1, FirstWakeup
    <3> QED
      BY Zenon, <2>1, <3>1, <3>2 DEF Most
  <2>3. open' # <<>> => wakeAt' <= now' + ActiveTick
    BY <1>1, <2>1, FirstWakeup, Constants DEF ClockTypes
  <2> QED
    BY Zenon, <2>2, <2>3 DEF NoOversleep
<1>5. CASE PollClock \/ EndPass \/ StartOutbound \/ Kill
  BY Zenon, <1>5 DEF PollClock, EndPass, StartOutbound, Kill, NoOversleep
<1> QED
  BY Zenon, <1>2, <1>3, <1>4, <1>5, Steps, QuietSteps

LEMMA ClaimsKept ==
    ASSUME TypeOK, AfterEpoch, Claims, [Next]_vars PROVE Claims'
<1>1. ClockTypes /\ RoundTypes /\ PassTypes /\ SpoolTypes
  BY Zenon, Typing
<1>2. ASSUME group' = group, \A c \in Copies : spool'[c].state = "Claimed" <=> spool[c].state = "Claimed",
             phase' # "Down" => phase # "Down",
             phase' \notin {"Exchanging", "Delivering"} => phase \notin {"Exchanging", "Delivering"}
      PROVE  Claims'
  BY Zenon, <1>2 DEF Claims, ClaimedIsInGroup
<1>3. ASSUME NEW copies, copies \subseteq Eligible, Claim(Group(copies)), open # <<>>,
             phase \in {"Polling", "Passing"}, phase' \in {"Exchanging", "Delivering"}
      PROVE  Claims'
  <2>1. group = {} /\ \A c \in Copies : spool[c].state # "Claimed"
    BY Zenon, <1>3 DEF Claims, ClaimedIsInGroup
  <2>2. /\ group' \subseteq Copies
        /\ \A c \in Copies : spool'[c].state = "Claimed" <=> c \in group' \/ spool[c].state = "Claimed"
    BY Zenon, <1>3, ClaimTypes
  <2> QED
    BY Zenon, <1>3, <2>1, <2>2 DEF Claims, ClaimedIsInGroup
<1>4. CASE PollPeer
  <2>1. open # <<>>
    BY Zenon, <1>1, <1>4 DEF PollPeer, RoundTypes, Underway
  <2> QED
    BY Zenon, <1>3, <1>4, <2>1 DEF PollPeer
<1>5. ASSUME NEW c \in Copies, ClaimGroup(c) PROVE Claims'
  <2>1. open # <<>>
    BY Zenon, <1>1, <1>5 DEF ClaimGroup, RoundTypes, Underway
  <2> QED
    BY Zenon, <1>3, <1>5, <2>1 DEF ClaimGroup
<1>6. CASE Exchange
  <2>1. PICK outcome \in [group -> Outcomes] : FinishGroup(outcome)
    BY Zenon, <1>6 DEF Exchange
  <2>2. \A c \in Copies : spool'[c].state = "Claimed" <=> c \notin group /\ spool[c].state = "Claimed"
    BY Zenon, <2>1, FinishTypes
  <2>3. group' = {} /\ phase # "Down" /\ phase' # "Down"
    BY Zenon, <2>1 DEF FinishGroup
  <2> QED
    BY Zenon, <2>2, <2>3 DEF Claims, ClaimedIsInGroup
<1>7. CASE StartOutbound
  <2>1. group' = group /\ phase = "Down" /\ \A c \in Copies : spool'[c].state # "Claimed"
    BY Zenon, <1>7, StartTypes DEF StartOutbound, activation
  <2> QED
    BY Zenon, <2>1 DEF Claims, ClaimedIsInGroup
<1>8. CASE Kill
  BY Zenon, <1>8 DEF Kill, Claims, ClaimedIsInGroup
<1>9. CASE PollClock \/ EndPass \/ Sleep
  BY Zenon, <1>2, <1>9 DEF PollClock, EndPass, Sleep, activation
<1>10. CASE Tick \/ BeginActivation \/ BeginPass \/ Wake
  BY Zenon, <1>2, <1>10 DEF Tick, BeginActivation, BeginPass, Wake, activation
<1>11. ASSUME NEW c \in Copies, SpoolStep(c) PROVE Claims'
  BY Zenon, <1>2, <1>11, SpoolStepTypes DEF activation
<1>12. CASE UNCHANGED vars
  BY Zenon, <1>2, <1>12 DEF vars, activation
<1> QED
  BY Zenon, <1>4, <1>5, <1>6, <1>7, <1>8, <1>9, <1>10, <1>11, <1>12, Steps
-----------------------------------------------------------------------------
(***************************************************************************)
(* The theorems                                                            *)
(***************************************************************************)
LEMMA Initially == Init => IInv
<1> SUFFICES ASSUME Init PROVE IInv
  BY Zenon
<1>1. Running = {}
  BY Zenon, RunningIs, NothingRuns DEF Init
<1>2. ClockTypes /\ RoundTypes /\ PassTypes
  BY Constants DEF Init, ClockTypes, RoundTypes, PassTypes, Phases, Underway, NoTime
<1>3. SpoolTypes
  BY Zenon, CopyTypes DEF Init, SpoolTypes
<1>4. TypeOK
  BY Zenon, <1>2, <1>3, Typing
<1>5. Stopped /\ AfterEpoch /\ NoOversleep
  BY DEF Init, Stopped, AfterEpoch, NoOversleep, NoTime
<1>6. Beats /\ Slots
  BY Zenon, <1>1 DEF Init, Beats, Slots, Occupied
<1>7. Claims
  BY Zenon DEF Init, Claims, ClaimedIsInGroup
<1> QED
  BY Zenon, <1>4, <1>5, <1>6, <1>7 DEF IInv

LEMMA NextKeeps == IInv /\ [Next]_vars => IInv'
<1> SUFFICES ASSUME IInv, [Next]_vars PROVE IInv'
  BY Zenon
<1>1. TypeOK' /\ Stopped' /\ AfterEpoch'
  BY Zenon, TypesKept, StoppedKept, EpochKept DEF IInv
<1>2. Beats' /\ Slots'
  BY Zenon, BeatsKept, SlotsKept DEF IInv
<1>3. NoOversleep' /\ Claims'
  BY Zenon, SleepKept, ClaimsKept DEF IInv
<1> QED
  BY Zenon, <1>1, <1>2, <1>3 DEF IInv

(* The two accounts of the activations, the Scheduler's and the driver's, stay in
   step whatever the clock does between two steps of the loop. *)
THEOREM Invariance == Spec => []IInv
  BY Initially, NextKeeps, PTL DEF Spec

(***************************************************************************)
(* However late Scheduler::poll is called, the activations keep to the     *)
(* nominal beginnings of their schedule.                                   *)
(***************************************************************************)
THEOREM BeatIsKept == Spec => []KeepsTheBeat
<1>1. IInv => KeepsTheBeat
  <2> SUFFICES ASSUME IInv PROVE KeepsTheBeat
    BY Zenon
  <2>1. ClockTypes /\ RoundTypes /\ Beats
    BY Zenon, Typing DEF IInv
  <2>2. ASSUME phase # "Down", NEW s \in Schedules
        PROVE  beginning[s] >= first[s] /\ (beginning[s] - first[s]) % Period(s) = 0
    <3>1. PICK n \in Nat : beginning[s] = first[s] + n * Period(s)
      BY Zenon, <2>1, <2>2 DEF Beats, Expected
    <3>2. first[s] \in Int /\ Period(s) \in Nat \ {0}
      BY Zenon, <2>1, Constants DEF ClockTypes
    <3>3. n * Period(s) \in Nat /\ (n * Period(s)) % Period(s) = 0
      <4>1. n \in Int
        OBVIOUS
      <4>2. (n * Period(s)) % Period(s) = 0
        BY Zenon, <3>2, <4>1, NoRemainder
      <4>3. n * Period(s) \in Nat
        BY <3>2
      <4> QED
        BY Zenon, <4>2, <4>3
    <3>4. beginning[s] - first[s] = n * Period(s) /\ beginning[s] >= first[s]
      BY <3>1, <3>2, <3>3
    <3> QED
      BY Zenon, <3>3, <3>4
  <2>3. ASSUME NEW a \in Running
        PROVE  (a.beginning - first[a.schedule]) % Period(a.schedule) = 0
    <3>1. PICK n \in Int : a.beginning = first[a.schedule] + n * Period(a.schedule)
      BY Zenon, <2>1 DEF Beats, OnBeat
    <3>2. first[a.schedule] \in Int /\ Period(a.schedule) \in Nat \ {0}
      BY Zenon, <2>1, RunningTypes, Constants DEF ClockTypes
    <3>3. n * Period(a.schedule) \in Int /\ (n * Period(a.schedule)) % Period(a.schedule) = 0
      BY Zenon, <3>2, NoRemainder
    <3>4. a.beginning - first[a.schedule] = n * Period(a.schedule)
      BY <3>1, <3>2, <3>3
    <3> QED
      BY Zenon, <3>3, <3>4
  <2>4. \A a \in Running : a.end = a.beginning + Duration[a.schedule] /\ a.beginning < beginning[a.schedule]
    BY Zenon, <2>1 DEF Beats, OnBeat
  <2> QED
    BY Zenon, <2>2, <2>3, <2>4 DEF KeepsTheBeat
<1> QED
  BY <1>1, Invariance, PTL

(***************************************************************************)
(* When Scheduler::poll begins an activation, the beginning it then expects*)
(* is the first one still to come: missed beginnings are coalesced.        *)
(***************************************************************************)
THEOREM MissedAreCoalesced == Spec => Coalesced
<1>1. ASSUME IInv, [Next]_vars, phase = "Clock", phase' = "Round", NEW s \in Schedules,
             beginning'[s] # beginning[s]
      PROVE  beginning'[s] - Period(s) <= now /\ now < beginning'[s]
  <2>1. ClockTypes /\ RoundTypes
    BY Zenon, <1>1, Typing DEF IInv
  <2>2. ~ Quiet
    BY Zenon, <1>1 DEF Quiet
  <2>3. PollClock
    BY Zenon, <1>1, <2>2, Steps, QuietSteps DEF IInv, EndPass, Sleep, StartOutbound, Kill, Tick
  <2>4. beginning'[s] = IF Due(s) THEN MostRecent(s) + Period(s) ELSE beginning[s]
    BY Zenon, <2>3 DEF PollClock
  <2>5. Due(s) /\ beginning'[s] = MostRecent(s) + Period(s)
    BY Zenon, <1>1, <2>4
  <2>6. MostRecent(s) \in Int /\ MostRecent(s) <= now /\ now < MostRecent(s) + Period(s)
    BY Zenon, <2>1, <2>5, MostRecentIs
  <2>7. Period(s) \in Int
    BY Constants
  <2> QED
    BY <2>5, <2>6, <2>7
<1>2. IInv /\ [Next]_vars =>
        [phase = "Clock" /\ phase' = "Round" =>
           \A s \in Schedules :
               beginning'[s] # beginning[s] =>
                   beginning'[s] - Period(s) <= now /\ now < beginning'[s]]_vars
  BY Zenon, <1>1
<1> QED
  BY <1>2, Invariance, PTL DEF Spec, Coalesced

(***************************************************************************)
(* The Scheduler holds a schedule's slot exactly while the driver has an   *)
(* activation of it that is not over.                                      *)
(***************************************************************************)
THEOREM SlotsAreTruthful == Spec => []SlotIsTruthful
<1>1. IInv => SlotIsTruthful
  <2> SUFFICES ASSUME IInv, NEW s \in Schedules
               PROVE  Occupied(s) <=> \E a \in Running : a.schedule = s /\ now < a.end
    BY Zenon DEF SlotIsTruthful
  <2>1. ClockTypes /\ RoundTypes /\ Slots
    BY Zenon, Typing DEF IInv
  <2>2. ASSUME Occupied(s) PROVE \E a \in Running : a.schedule = s /\ now < a.end
    BY Zenon, <2>1, <2>2 DEF Slots, Occupied
  <2>3. ASSUME NEW a \in Running, a.schedule = s, now < a.end PROVE Occupied(s)
    <3>1. until[s] = a.end /\ now \in Nat /\ a.end \in Int
      BY Zenon, <2>1, <2>3, RunningTypes DEF Slots, ClockTypes
    <3> QED
      BY <2>3, <3>1 DEF Occupied, NoTime
  <2> QED
    BY Zenon, <2>2, <2>3
<1> QED
  BY <1>1, Invariance, PTL

(***************************************************************************)
(* next_wakeup and the sleep of start_outbound: the driver sleeps past no  *)
(* beginning and no end, and not long while an activation is open.         *)
(***************************************************************************)
THEOREM NeverOversleeps == Spec => []NoOversleep
<1>1. IInv => NoOversleep
  BY Zenon DEF IInv
<1> QED
  BY <1>1, Invariance, PTL

(***************************************************************************)
(* Between two starts a copy is Claimed exactly while it belongs to the    *)
(* connection the driver makes: no pass loses what claim_group took.       *)
(***************************************************************************)
THEOREM ClaimedAreInGroup == Spec => []ClaimedIsInGroup
<1>1. IInv => ClaimedIsInGroup
  BY Zenon DEF IInv, Claims
<1> QED
  BY <1>1, Invariance, PTL
=============================================================================
