------------------------------ MODULE MailDriver ------------------------------
(***************************************************************************)
(* The outbound driver of the mail service: the thread of start_outbound,  *)
(* the Scheduler that tells it when to work, and the passes it makes over  *)
(* the spool.                                                              *)
(*                                                                         *)
(* The thread goes round one loop: ask the Scheduler which schedules begin,*)
(* run every open activation (poll the schedule's Peers once, then make a  *)
(* pass over the copies the schedule selects), and sleep.  Connections take*)
(* time, so the clock may move between any two steps.  A pass works by the *)
(* time `asOf' it was given and defers what it cannot deliver to the time  *)
(* `nextAttempt' its activation computed before the polls.                 *)
(*                                                                         *)
(* The spool is reduced to what the driver sees of it: a copy waits (with  *)
(* its retry Timestamp), is in the driver's hands, is held by a poll       *)
(* connection, is settled, or is not committed yet.  OutboundSpool has the *)
(* whole of it.  The claims of one group are one step: whatever others do  *)
(* to the spool between two of them could as well have happened before the *)
(* first or after the last.                                                *)
(***************************************************************************)
EXTENDS Integers, Sequences, FiniteSets

CONSTANTS
    N,             \* number of schedules
    Start,         \* [1 .. N -> Nat]: time of day of the first beginning
    Duration,      \* [1 .. N -> Nat]
    RepeatAfter,   \* [1 .. N -> Nat]
    Offset,        \* [1 .. N -> Int]: local offset from UTC, if Start is Local
    Day,           \* length of a day
    IdleTick,      \* IDLE_TICK
    ActiveTick,    \* ACTIVE_TICK
    Copies,        \* copies by age: a set of integers, the oldest least
    Collected,     \* those a peer may also collect by polling this node
    Hops,
    HopOf,         \* [Copies -> Hops]
    Selected,      \* [1 .. N -> SUBSET Copies]
    Polls,         \* [1 .. N -> Seq(Hops)]: the Poll lines
    PeerTimes,     \* retry Timestamps a peer may name
    MaxGroup,      \* MAX_GROUP
    MaxTime        \* bound: the clock

Schedules == 1 .. N
Period(s) == Duration[s] + RepeatAfter[s]
NoTime == -1
Minus(a, b) == IF a > b THEN a - b ELSE 0
Least(a, b) == IF a < b THEN a ELSE b
Most(a, b) == IF a < b THEN b ELSE a

ASSUME DriverAssumption ==
    /\ N \in Nat \ {0}
    /\ Start \in [Schedules -> 0 .. Day - 1]
    /\ Duration \in [Schedules -> Nat]
    /\ RepeatAfter \in [Schedules -> Nat \ {0}]
    /\ Offset \in [Schedules -> Int]
    /\ Day \in Nat \ {0}
    /\ IdleTick \in Nat \ {0}
    /\ ActiveTick \in Nat \ {0}
    /\ Copies \subseteq Int
    /\ Collected \subseteq Copies
    /\ HopOf \in [Copies -> Hops]
    /\ Selected \in [Schedules -> SUBSET Copies]
    /\ Polls \in [Schedules -> Seq(Hops)]
    /\ PeerTimes \subseteq Nat
    /\ MaxGroup \in Nat \ {0}
    /\ MaxTime \in Nat

VARIABLES
    now,
    first,       \* first_beginning of each schedule, for this configuration
    beginning,   \* State.next_beginning of each schedule
    until,       \* State.active_until of each schedule
    open,        \* activations still to be run in this round
    still,       \* those to be run again in the next
    phase,       \* what the driver does now
    nextAttempt, \* when what cannot be delivered is due again
    asOf,        \* the time the polls or the pass were given
    polls,       \* Peers still to be polled
    group,       \* copies of the connection being made
    wakeAt,      \* when the sleeping driver looks at the clock again
    spool        \* the copies

clock == <<first, beginning, until>>
activation == <<nextAttempt, asOf, polls, group>>
vars == <<now, clock, open, still, phase, activation, wakeAt, spool>>

Activation == [schedule : Schedules, beginning : Int, end : Int, poll : BOOLEAN]
Copy == [state : {"Absent", "Waiting", "Claimed", "Held", "Settled"},
         retryAt : Nat \cup {NoTime}]

Waiting(retryAt) == [state |-> "Waiting", retryAt |-> retryAt]
Being(state) == [state |-> state, retryAt |-> NoTime]

Init ==
    /\ now \in 0 .. Day
    /\ first = [s \in Schedules |-> NoTime]
    /\ beginning = [s \in Schedules |-> NoTime]
    /\ until = [s \in Schedules |-> NoTime]
    /\ open = <<>>
    /\ still = <<>>
    /\ phase = "Down"
    /\ nextAttempt = NoTime
    /\ asOf = NoTime
    /\ polls = <<>>
    /\ group = {}
    /\ wakeAt = NoTime
    /\ spool = [c \in Copies |-> Being("Absent")]
-----------------------------------------------------------------------------
(***************************************************************************)
(* Start of the mail service.  recover_active returns the copies of a      *)
(* killed predecessor, and Scheduler::new sets every schedule to its Start *)
(* on the civil day on which the configuration takes effect, which may be  *)
(* in the past.                                                            *)
(***************************************************************************)
FirstBeginning(s) == 
    LET local == now + Offset[s]
    IN local - (local % Day) + Start[s] - Offset[s]

Recovered(copy) == 
    IF copy.state \in {"Claimed", "Held"} THEN Waiting(now) ELSE copy

StartOutbound ==
    /\ phase = "Down"
    /\ \A s \in Schedules : FirstBeginning(s) >= 0
    /\ spool' = [c \in Copies |-> Recovered(spool[c])]
    /\ first' = [s \in Schedules |-> FirstBeginning(s)]
    /\ beginning' = first'
    /\ until' = [s \in Schedules |-> NoTime]
    /\ phase' = "Clock"
    /\ UNCHANGED <<now, open, still, activation, wakeAt>>
-----------------------------------------------------------------------------
(***************************************************************************)
(* Scheduler::poll                                                         *)
(***************************************************************************)
Occupied(s) == until[s] # NoTime /\ now < until[s]

(* Mutant: a beginning is only noticed at its very second. *)
DueExactly(s) == ~ Occupied(s) /\ beginning[s] = now

Due(s) == ~ Occupied(s) /\ beginning[s] <= now

(* Mutant: the schedule is counted from when the driver looked. *)
FromNow(s) == now

(* Missed beginnings are coalesced: only the most recent one runs. *)
MostRecent(s) == beginning[s] + ((now - beginning[s]) \div Period(s)) * Period(s)

Begun(s) ==
    [schedule |-> s, beginning |-> MostRecent(s),
     end |-> MostRecent(s) + Duration[s], poll |-> TRUE]

(* An activation that began after its end keeps no slot. *)
Slot(s) == IF Begun(s).end > now THEN Begun(s).end ELSE NoTime

(* The schedules of `due' in the order of the configuration. *)
Orders(due) ==
    {order \in [1 .. Cardinality(due) -> due] :
        /\ \A s \in due : \E i \in DOMAIN order : order[i] = s
        /\ \A i, j \in DOMAIN order : i < j => order[i] < order[j]}

PollClock ==
    /\ phase = "Clock"
    /\ \E begun \in Orders({s \in Schedules : Due(s)}) :
           open' = open \o [i \in DOMAIN begun |-> Begun(begun[i])]
    /\ beginning' = [s \in Schedules |->
                        IF Due(s) THEN MostRecent(s) + Period(s) ELSE beginning[s]]
    /\ until' = [s \in Schedules |->
                    IF Due(s) THEN Slot(s)
                    ELSE IF Occupied(s) THEN until[s] ELSE NoTime]
    /\ phase' = "Round"
    /\ UNCHANGED <<now, first, still, activation, wakeAt, spool>>

(* The next activation of the round; its polls are given the present time. *)
BeginActivation ==
    /\ phase = "Round"
    /\ open # <<>>
    /\ nextAttempt' = beginning[Head(open).schedule]
    /\ asOf' = now
    /\ polls' = IF Head(open).poll THEN Polls[Head(open).schedule] ELSE <<>>
    /\ phase' = "Polling"
    /\ UNCHANGED <<now, clock, open, still, group, wakeAt, spool>>
-----------------------------------------------------------------------------
(***************************************************************************)
(* run_polls and run_pass                                                  *)
(***************************************************************************)
This == Head(open).schedule

Eligible ==
    {c \in Selected[This] : spool[c].state = "Waiting" /\ spool[c].retryAt <= asOf}

(* The oldest MaxGroup of `copies'. *)
Group(copies) ==
    {c \in copies : Cardinality({d \in copies : d < c}) < MaxGroup}

Claim(copies) ==
    /\ group' = copies
    /\ spool' = [c \in Copies |-> IF c \in copies THEN Being("Claimed") ELSE spool[c]]

(* poll_peer: the connection is made even when there is nothing to send. *)
PollPeer ==
    /\ phase = "Polling"
    /\ polls # <<>>
    /\ Claim(Group({c \in Eligible : HopOf[c] = Head(polls)}))
    /\ polls' = Tail(polls)
    /\ phase' = "Exchanging"
    /\ UNCHANGED <<now, clock, open, still, nextAttempt, asOf, wakeAt>>

BeginPass ==
    /\ phase = "Polling"
    /\ polls = <<>>
    /\ asOf' = now
    /\ phase' = "Passing"
    /\ UNCHANGED <<now, clock, open, still, nextAttempt, polls, group, wakeAt, spool>>

(* claim_group: the oldest eligible copy and those that go the same way. *)
ClaimGroup(oldest) ==
    /\ phase = "Passing"
    /\ oldest \in Eligible
    /\ \A c \in Eligible : oldest <= c
    /\ Claim(Group({c \in Eligible : HopOf[c] = HopOf[oldest]}))
    /\ phase' = "Delivering"
    /\ UNCHANGED <<now, clock, open, still, nextAttempt, asOf, polls, wakeAt>>

(***************************************************************************)
(* The outcomes of one connection.  A copy is settled by its response, or  *)
(* waits for the time the peer named; without a response, and when the     *)
(* connection fails, it waits for the next beginning of the schedule.      *)
(***************************************************************************)
Deferrals == {Waiting(t) : t \in PeerTimes \cup {nextAttempt}}
Outcomes == {Being("Settled")} \cup Deferrals

FinishGroup(outcome) ==
    /\ phase \in {"Exchanging", "Delivering"}
    /\ spool' = [c \in Copies |-> IF c \in group THEN outcome[c] ELSE spool[c]]
    /\ group' = {}
    /\ phase' = IF phase = "Exchanging" THEN "Polling" ELSE "Passing"
    /\ UNCHANGED <<now, clock, open, still, nextAttempt, asOf, polls, wakeAt>>

(* Mutant: an ended activation gives up the slot whoever has it. *)
FreeSlot(a) == [until EXCEPT ![a.schedule] = NoTime]

(* Scheduler::finished *)
Finished(a) ==
    [until EXCEPT ![a.schedule] = IF @ # NoTime /\ now >= @ THEN NoTime ELSE @]

(* The pass is over and its times forgotten; an activation that is open still runs again. *)
EndPass ==
    LET a == Head(open)
    IN /\ phase = "Passing"
       /\ Eligible = {}
       /\ IF now < a.end
          THEN /\ still' = Append(still, [a EXCEPT !.poll = FALSE])
               /\ UNCHANGED until
          ELSE /\ until' = Finished(a)
               /\ UNCHANGED still
       /\ open' = Tail(open)
       /\ phase' = "Round"
       /\ nextAttempt' = NoTime
       /\ asOf' = NoTime
       /\ UNCHANGED <<now, first, beginning, polls, group, wakeAt, spool>>
-----------------------------------------------------------------------------
(* next_wakeup *)
Wakeup(s) == IF until[s] = NoTime THEN beginning[s] ELSE Least(until[s], beginning[s])

(* Mutant: the ceiling is not lowered to the next wakeup. *)
SleepCeiling == Most(IF still = <<>> THEN IdleTick ELSE ActiveTick, 1)

SleepFor ==
    LET ceiling == IF still = <<>> THEN IdleTick ELSE ActiveTick
        next == CHOOSE t \in {Wakeup(s) : s \in Schedules} :
                    \A s \in Schedules : t <= Wakeup(s)
    IN Most(Least(Minus(next, now), ceiling), 1)

Sleep ==
    /\ phase = "Round"
    /\ open = <<>>
    /\ open' = still
    /\ still' = <<>>
    /\ wakeAt' = now + SleepFor
    /\ phase' = "Asleep"
    /\ UNCHANGED <<now, clock, activation, spool>>

(* At the bound of the clock the driver wakes without it. *)
Wake ==
    /\ phase = "Asleep"
    /\ now >= wakeAt \/ now = MaxTime
    /\ phase' = "Clock"
    /\ wakeAt' = NoTime
    /\ UNCHANGED <<now, clock, open, still, activation, spool>>

Kill ==
    /\ phase # "Down"
    /\ phase' = "Down"
    /\ open' = <<>>
    /\ still' = <<>>
    /\ polls' = <<>>
    /\ group' = {}
    /\ first' = [s \in Schedules |-> NoTime]
    /\ beginning' = first'
    /\ until' = first'
    /\ nextAttempt' = NoTime
    /\ asOf' = NoTime
    /\ wakeAt' = NoTime
    /\ UNCHANGED <<now, spool>>

(* A relay or, between two runs, the IPC service commits a copy. *)
Commit(c) ==
    /\ spool[c].state = "Absent"
    /\ spool' = [spool EXCEPT ![c] = Waiting(NoTime)]
    /\ UNCHANGED <<now, clock, open, still, phase, activation, wakeAt>>

(* A poll connection takes a copy, whatever its retry Timestamp, and settles it
   or returns it when the connection ends. *)
Collect(c) ==
    /\ phase # "Down"
    /\ spool[c].state = "Waiting"
    /\ spool' = [spool EXCEPT ![c] = Being("Held")]
    /\ UNCHANGED <<now, clock, open, still, phase, activation, wakeAt>>

Return(c, copy) ==
    /\ phase # "Down"
    /\ spool[c].state = "Held"
    /\ spool' = [spool EXCEPT ![c] = copy]
    /\ UNCHANGED <<now, clock, open, still, phase, activation, wakeAt>>

Tick ==
    /\ now < MaxTime
    /\ now' = now + 1
    /\ UNCHANGED <<clock, open, still, phase, activation, wakeAt, spool>>

Exchange == \E outcome \in [group -> Outcomes] : FinishGroup(outcome)

Drive ==
    \/ PollClock
    \/ BeginActivation
    \/ PollPeer
    \/ BeginPass
    \/ \E c \in Copies : ClaimGroup(c)
    \/ Exchange
    \/ EndPass
    \/ Sleep
    \/ Wake

Next ==
    \/ Drive
    \/ StartOutbound
    \/ Kill
    \/ \E c \in Copies : Commit(c)
    \/ \E c \in Collected :
           \/ Collect(c)
           \/ \E copy \in {Being("Settled"), Waiting(now)} : Return(c, copy)
    \/ Tick

Spec == Init /\ [][Next]_vars
-----------------------------------------------------------------------------
(***************************************************************************)
(* Properties                                                              *)
(***************************************************************************)
(* The driver, its activations and the copies are well formed. *)
TypeOK ==
    /\ now \in Nat
    /\ first \in [Schedules -> Int]
    /\ beginning \in [Schedules -> Int]
    /\ until \in [Schedules -> Int]
    /\ open \in Seq(Activation)
    /\ still \in Seq(Activation)
    /\ phase \in {"Down", "Clock", "Round", "Polling", "Exchanging", "Passing",
                  "Delivering", "Asleep"}
    /\ nextAttempt \in Int
    /\ asOf \in Nat \cup {NoTime}
    /\ polls \in Seq(Hops)
    /\ group \subseteq Copies
    /\ wakeAt \in Nat \cup {NoTime}
    /\ spool \in [Copies -> Copy]
    /\ phase \in {"Polling", "Exchanging", "Passing", "Delivering"} => open # <<>>

Running == {open[i] : i \in DOMAIN open} \cup {still[i] : i \in DOMAIN still}

(***************************************************************************)
(* However late the driver comes to look at the clock, and however long    *)
(* connections take, the activations of a schedule keep to its nominal     *)
(* beginnings, first + n * (Duration + Repeat-After), and of the beginnings*)
(* that were missed only the most recent runs.                             *)
(***************************************************************************)
KeepsTheBeat ==
    /\ phase # "Down" =>
           \A s \in Schedules :
               beginning[s] >= first[s] /\ (beginning[s] - first[s]) % Period(s) = 0
    /\ \A a \in Running :
           /\ (a.beginning - first[a.schedule]) % Period(a.schedule) = 0
           /\ a.end = a.beginning + Duration[a.schedule]
           /\ a.beginning < beginning[a.schedule]

(* The same as a property of the step: when the Scheduler begins an activation,
   the beginning after it is the first one still to come. *)
Coalesced ==
    [][phase = "Clock" /\ phase' = "Round" =>
           \A s \in Schedules :
               beginning'[s] # beginning[s] =>
                   beginning'[s] - Period(s) <= now /\ now < beginning'[s]]_vars

(***************************************************************************)
(* The Scheduler and the driver agree on what is active: a schedule's slot *)
(* is taken, so that no further activation of it begins, exactly while the *)
(* driver has an activation of it whose nominal end is still to come.      *)
(***************************************************************************)
SlotIsTruthful ==
    \A s \in Schedules :
        Occupied(s) <=> \E a \in Running : a.schedule = s /\ now < a.end

(***************************************************************************)
(* The sleeping driver does not miss a beginning or the end of an          *)
(* activation: it wakes by then, or within a second if that has passed;    *)
(* and while an activation is open it comes back for work that appears.    *)
(***************************************************************************)
NoOversleep ==
    phase = "Asleep" =>
        /\ \A s \in Schedules : wakeAt <= Most(Wakeup(s), now + 1)
        /\ open # <<>> => wakeAt <= now + ActiveTick

(***************************************************************************)
(* What the driver holds it is sending: a copy is Claimed exactly while it *)
(* belongs to the connection being made, or until the next start if the    *)
(* service was killed meanwhile.                                           *)
(***************************************************************************)
ClaimedIsInGroup ==
    phase # "Down" => group = {c \in Copies : spool[c].state = "Claimed"}
-----------------------------------------------------------------------------
(***************************************************************************)
(* Fairness.  The driver thread keeps running and every connection ends,   *)
(* by its timeouts if need be; time passes.                                *)
(***************************************************************************)
FairSpec == Spec /\ WF_vars(Drive) /\ WF_vars(Tick)

(***************************************************************************)
(* No schedule is forgotten: one that is due is activated, unless the      *)
(* service is killed or another schedule's pass is overtaken.  run_pass    *)
(* defers to the next beginning, computed before the polls, or to a time   *)
(* its peer named; when one of these is not after the time the pass works  *)
(* by, what it defers is eligible again at once, and with a peer that      *)
(* cannot be reached it need not end (PassEnds).                           *)
(***************************************************************************)
Overtaken ==
    /\ phase \in {"Passing", "Delivering"}
    /\ \E t \in PeerTimes \cup {nextAttempt} : t <= asOf

DueIsActivated ==
    \A s \in Schedules :
        phase # "Down" /\ beginning[s] <= now
            ~> phase = "Down" \/ beginning[s] > now \/ Overtaken

(***************************************************************************)
(* "A Duration of zero makes one pass over the work its Origin, Class, and *)
(* Next-Hop lines select and ends" (README.md:433): every pass ends, also  *)
(* when a peer cannot be reached.                                          *)
(***************************************************************************)
PassEnds == phase = "Passing" ~> phase \notin {"Passing", "Delivering"}
=============================================================================
