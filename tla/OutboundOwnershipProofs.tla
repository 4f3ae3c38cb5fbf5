----------------------- MODULE OutboundOwnershipProofs -----------------------
(***************************************************************************)
(* Proofs about who may change a delivery copy.  Every step is reduced to  *)
(* what it does to one copy and to the claims on that copy; the ownership  *)
(* invariant and the action properties follow from the six possibilities.  *)
(***************************************************************************)
EXTENDS OutboundSpoolProofs

(* The claims live workers hold on one copy. *)
Mine(j, i) == {c \in claims : c.job = j /\ c.index = i}

Ticket(j, i, token) == [job |-> j, index |-> i, token |-> token]

(* The step does not concern the copy. *)
Keeps(j, i) ==
    /\ jobs'[j].copies[i] = jobs[j].copies[i]
    /\ Mine(j, i)' = Mine(j, i)
    /\ service' = "Mail" => service = "Mail"

(* The process is killed. *)
Drops(j, i) ==
    /\ jobs'[j].copies[i] = jobs[j].copies[i]
    /\ claims' = {}
    /\ service' = "Down"

(* A worker claims the copy. *)
Takes(j, i, token) ==
    LET old == jobs[j].copies[i]
        new == jobs'[j].copies[i]
    IN /\ Held(old)
       /\ new.state = "Active"
       /\ new.retryAt = NoTime
       /\ new.token = token
       /\ token \in Tokens
       /\ Mine(j, i)' = Mine(j, i) \cup {Ticket(j, i, token)}

(* The worker that holds the copy answers for it. *)
Answers(j, i) ==
    LET old == jobs[j].copies[i]
        new == jobs'[j].copies[i]
        ticket == Ticket(j, i, old.token)
    IN /\ old.state = "Active"
       /\ ticket \in claims
       /\ ticket \notin claims'
       /\ claims' \subseteq claims
       /\ new.state \in {"Delivered", "Rejected", "Deferred"}
       /\ new.token = NoToken
       /\ new.retryAt # NoTime <=> new.state = "Deferred"

(* A control request changes a copy that is neither Active nor settled. *)
Changes(j, i) ==
    LET old == jobs[j].copies[i]
        new == jobs'[j].copies[i]
    IN /\ service' = "Ipc"
       /\ old.state \notin {"Active", "Delivered", "Cancelled"}
       /\ new.state \in {"Queued", "Cancelled"}
       /\ new.token = old.token
       /\ new.retryAt = NoTime
       /\ Mine(j, i)' = Mine(j, i)

(* The mail service starts and recovers the copy. *)
Recovers(j, i) ==
    /\ service = "Down"
    /\ Mine(j, i)' = Mine(j, i)
    /\ jobs'[j].copies[i] = Recovered(jobs[j].copies[i])

CopyStep(j, i) ==
    \/ Keeps(j, i)
    \/ Drops(j, i)
    \/ \E token : Takes(j, i, token)
    \/ Answers(j, i)
    \/ Changes(j, i)
    \/ Recovers(j, i)

CopySteps ==
    \A j \in DOMAIN jobs : \A i \in DOMAIN jobs[j].copies : CopyStep(j, i)
-----------------------------------------------------------------------------
(* A transaction that writes one Job leaves the others alone. *)
LEMMA SaveOne ==
    ASSUME Base, NEW j \in DOMAIN jobs, NEW copies \in Seq(Copy), NEW text \in Results,
           NEW writes, DOMAIN writes = {j}, writes[j] = WithCopies(jobs[j], copies, text),
           Save(writes)
    PROVE  /\ jobs'[j].copies = copies
           /\ \A k \in DOMAIN jobs : k # j => jobs'[k] = jobs[k]
<1>1. jobs[j] \in Job
  BY Zenon, CopiesType DEF Base
<1>2. /\ jobs'[j] = WithCopies(jobs[j], copies, text)
      /\ \A k \in DOMAIN jobs : k # j => jobs'[k] = jobs[k]
  BY Zenon DEF Save
<1> QED
  BY <1>1, <1>2, WithCopiesFields

(* A step that leaves copies, claims and service alone keeps every copy. *)
LEMMA KeepsAll ==
    ASSUME jobs' = jobs, claims' = claims,
           service' = "Mail" => service = "Mail"
    PROVE  CopySteps
BY Zenon DEF CopySteps, CopyStep, Keeps, Mine

(* New claims belong to the copies they name. *)
LEMMA AddTickets ==
    ASSUME NEW j, NEW i, NEW token, claims' = claims \cup {Ticket(j, i, token)}
    PROVE  /\ Mine(j, i)' = Mine(j, i) \cup {Ticket(j, i, token)}
           /\ \A k, m : ~ (k = j /\ m = i) => Mine(k, m)' = Mine(k, m)
<1> DEFINE t == Ticket(j, i, token)
<1>1. t.job = j /\ t.index = i
  BY Zenon DEF Ticket
<1> HIDE DEF t
<1>2. claims' = claims \cup {t}
  BY Zenon DEF t
<1>3. Mine(j, i)' = Mine(j, i) \cup {t}
  BY Zenon, <1>1, <1>2 DEF Mine
<1>4. ASSUME NEW k, NEW m, ~ (k = j /\ m = i)
      PROVE  Mine(k, m)' = Mine(k, m)
  BY Zenon, <1>1, <1>2, <1>4 DEF Mine
<1> QED
  BY Zenon, <1>3, <1>4 DEF t

(* claim_scheduled takes one copy and keeps the others. *)
LEMMA ClaimScheduledStep ==
    ASSUME Base, NEW selection, NEW asOf, NEW j, NEW i, NEW token,
           ClaimScheduled(selection, asOf, j, i, token)
    PROVE  CopySteps
<1>1. j \in DOMAIN jobs /\ i \in DOMAIN jobs[j].copies /\ token \in Tokens
  BY Zenon, ClaimScheduledUpdates
<1> DEFINE old == jobs[j].copies
           new == [old EXCEPT ![i] = Claimed(old[i], token)]
<1>2. /\ jobs[j].copies[i].attempts < MaxAttempts
      /\ <<j, i>> \in Eligible(selection, asOf)
      /\ Save([k \in {j} |-> ClaimCopy(j, i, token)])
      /\ claims' = claims \cup {Ticket(j, i, token)}
      /\ service' = service
  BY Zenon DEF ClaimScheduled, Ticket
<1>3. Held(old[i])
  BY Zenon, <1>2 DEF Eligible
<1>4. /\ new \in Seq(Copy)
      /\ ClaimCopy(j, i, token) = WithCopies(jobs[j], new, jobs[j].lastResult)
  BY Zenon, <1>1, <1>2, ClaimCopyRewrites
<1>5. old[i] \in Copy /\ jobs[j].lastResult \in Results
  BY Zenon, <1>1, CopiesType DEF Base
<1>6. /\ Claimed(old[i], token).state = "Active"
      /\ Claimed(old[i], token).retryAt = NoTime
      /\ Claimed(old[i], token).token = token
  BY Zenon, <1>1, <1>2, <1>5, ClaimedFields
<1>7. new[i] = Claimed(old[i], token) /\ \A k \in DOMAIN old : k # i => new[k] = old[k]
  BY Zenon, <1>1
<1> HIDE DEF new
<1>8. /\ jobs'[j].copies = new
      /\ \A k \in DOMAIN jobs : k # j => jobs'[k] = jobs[k]
  <2> DEFINE writes == [k \in {j} |-> ClaimCopy(j, i, token)]
             text == jobs[j].lastResult
  <2>1. /\ DOMAIN writes = {j}
        /\ writes[j] = WithCopies(jobs[j], new, text)
        /\ Save(writes)
    BY Zenon, <1>2, <1>4
  <2>2. j \in DOMAIN jobs /\ new \in Seq(Copy) /\ text \in Results
    BY Zenon, <1>1, <1>4, <1>5
  <2> HIDE DEF writes, text
  <2> QED
    BY <2>1, <2>2, SaveOne
<1> SUFFICES ASSUME NEW k \in DOMAIN jobs, NEW m \in DOMAIN jobs[k].copies
             PROVE  CopyStep(k, m)
  BY Zenon DEF CopySteps
<1>9. CASE k = j /\ m = i
  <2>1. Mine(j, i)' = Mine(j, i) \cup {Ticket(j, i, token)}
    BY Zenon, <1>2, AddTickets
  <2>2. Takes(j, i, token)
    BY Zenon, <1>1, <1>3, <1>6, <1>7, <1>8, <2>1 DEF Takes
  <2> QED
    BY Zenon, <1>9, <2>2 DEF CopyStep
<1>10. CASE ~ (k = j /\ m = i)
  <2>1. Mine(k, m)' = Mine(k, m)
    BY <1>2, <1>10, AddTickets
  <2>2. jobs'[k].copies[m] = jobs[k].copies[m]
    BY Zenon, <1>7, <1>8, <1>10
  <2> QED
    BY Zenon, <1>2, <2>1, <2>2 DEF CopyStep, Keeps
<1> QED
  BY Zenon, <1>9, <1>10

(* claim_poll_snapshot takes every copy of its snapshot and keeps the others. *)
LEMMA ClaimPollStep ==
    ASSUME Base, NEW peer, NEW kinds,
           NEW tokenOf \in [Snapshot(peer, kinds) -> FreshTokens],
           ClaimPollSnapshot(peer, kinds, tokenOf)
    PROVE  CopySteps
<1> DEFINE snapshot == Snapshot(peer, kinds)
           tickets == {Ticket(p[1], p[2], tokenOf[p]) : p \in snapshot}
<1>1. /\ \A p \in snapshot : jobs[p[1]].copies[p[2]].attempts < MaxAttempts
      /\ claims' = claims \cup tickets
      /\ service' = service
  BY Zenon DEF ClaimPollSnapshot, Ticket
<1>2. /\ \A p \in snapshot : jobs'[p[1]] = ClaimCopy(p[1], p[2], tokenOf[p])
      /\ \A j \in DOMAIN jobs : jobs'[j] = jobs[j] \/ \E p \in snapshot : p[1] = j
  BY ClaimPollUpdates, SMTT(60)
<1>3. \A p \in snapshot : /\ p \in AllCopies
                          /\ p[1] \in DOMAIN jobs
                          /\ p[2] \in DOMAIN jobs[p[1]].copies
                          /\ p = <<p[1], p[2]>>
                          /\ Held(jobs[p[1]].copies[p[2]])
                          /\ tokenOf[p] \in Tokens
  BY Zenon, CopyOf DEF Base, Snapshot, FreshTokens
<1>4. \A p, q \in snapshot : p[1] = q[1] => p = q
  <2> SUFFICES ASSUME NEW p \in snapshot, NEW q \in snapshot, p[1] = q[1]
               PROVE  p = q
    BY Zenon
  <2>1. LastOf(snapshot, p[1]) = p[2] /\ LastOf(snapshot, q[1]) = q[2]
    BY ZenonT(40), OneCopyPerJob
  <2> QED
    BY Zenon, <1>3, <2>1
<1>5. \A c \in tickets : \E p \in snapshot :
          c.job = p[1] /\ c.index = p[2] /\ c = Ticket(p[1], p[2], tokenOf[p])
  BY DEF Ticket
<1>6. \A p \in snapshot : Ticket(p[1], p[2], tokenOf[p]) \in tickets
  BY Zenon
<1> HIDE DEF snapshot, tickets
<1> SUFFICES ASSUME NEW j \in DOMAIN jobs, NEW i \in DOMAIN jobs[j].copies
             PROVE  CopyStep(j, i)
  BY Zenon DEF CopySteps
<1>7. CASE \E p \in snapshot : p[1] = j /\ p[2] = i
  <2>1. PICK p \in snapshot : p[1] = j /\ p[2] = i
    BY Zenon, <1>7
  <2> DEFINE token == tokenOf[p]
             old == jobs[j].copies
             new == [old EXCEPT ![i] = Claimed(old[i], token)]
  <2>2. jobs'[j] = ClaimCopy(j, i, token) /\ token \in Tokens /\ Held(old[i])
        /\ old[i].attempts < MaxAttempts
    BY Zenon, <1>1, <1>2, <1>3, <2>1
  <2>3. new \in Seq(Copy) /\ ClaimCopy(j, i, token) = WithCopies(jobs[j], new, jobs[j].lastResult)
    BY Zenon, <2>2, ClaimCopyRewrites
  <2>4. jobs[j] \in Job /\ old[i] \in Copy /\ jobs[j].lastResult \in Results
    BY Zenon, CopiesType DEF Base
  <2>5. new[i] = Claimed(old[i], token)
    BY Zenon
  <2>6. /\ Claimed(old[i], token).state = "Active"
        /\ Claimed(old[i], token).retryAt = NoTime
        /\ Claimed(old[i], token).token = token
    BY ZenonT(40), <2>2, <2>4, ClaimedFields
  <2>7. \A c \in tickets : c.job = j => c = Ticket(j, i, token)
    BY SMTT(60), <1>4, <1>5, <2>1
  <2>8. Ticket(j, i, token) \in tickets
    BY Zenon, <1>6, <2>1
  <2>9. Ticket(j, i, token).job = j /\ Ticket(j, i, token).index = i
    BY Zenon DEF Ticket
  <2> HIDE DEF new, token
  <2>10. jobs'[j].copies = new
    BY SMTT(60), <2>2, <2>3, <2>4, WithCopiesFields
  <2>11. Mine(j, i)' = Mine(j, i) \cup {Ticket(j, i, token)}
    BY Zenon, <1>1, <2>7, <2>8, <2>9 DEF Mine
  <2>12. Takes(j, i, token)
    BY ZenonT(40), <2>2, <2>5, <2>6, <2>10, <2>11 DEF Takes
  <2> QED
    BY Zenon, <2>12 DEF CopyStep
<1>8. CASE ~ \E p \in snapshot : p[1] = j /\ p[2] = i
  <2>1. \A c \in tickets : ~ (c.job = j /\ c.index = i)
    BY Zenon, <1>5, <1>8
  <2>2. Mine(j, i)' = Mine(j, i)
    BY Zenon, <1>1, <2>1 DEF Mine
  <2>3. jobs'[j].copies[i] = jobs[j].copies[i]
    <3>1. CASE jobs'[j] = jobs[j]
      BY Zenon, <3>1
    <3>2. CASE \E p \in snapshot : p[1] = j
      <4>1. PICK p \in snapshot : p[1] = j
        BY Zenon, <3>2
      <4> DEFINE token == tokenOf[p]
                 m == p[2]
                 old == jobs[j].copies
                 new == [old EXCEPT ![m] = Claimed(old[m], token)]
      <4>2. /\ jobs'[j] = ClaimCopy(j, m, token)
            /\ token \in Tokens
            /\ m \in DOMAIN old
            /\ old[m].attempts < MaxAttempts
        BY ZenonT(40), <1>1, <1>2, <1>3, <4>1
      <4>3. new \in Seq(Copy)
            /\ ClaimCopy(j, m, token) = WithCopies(jobs[j], new, jobs[j].lastResult)
        BY Zenon, <4>2, ClaimCopyRewrites
      <4>4. jobs[j] \in Job /\ jobs[j].lastResult \in Results
        BY Zenon, CopiesType DEF Base
      <4>5. m # i
        BY Zenon, <1>8, <4>1
      <4>6. new[i] = old[i]
        BY Zenon, <4>5
      <4> HIDE DEF new, token, m
      <4>7. jobs'[j].copies = new
        BY SMTT(60), <4>2, <4>3, <4>4, WithCopiesFields
      <4> QED
        BY Zenon, <4>6, <4>7
    <3> QED
      BY Zenon, <1>2, <3>1, <3>2
  <2> QED
    BY Zenon, <1>1, <2>2, <2>3 DEF CopyStep, Keeps
<1> QED
  BY Zenon, <1>7, <1>8

(* finish_delivery answers for one copy and keeps the others. *)
LEMMA FinishDeliveryStep ==
    ASSUME Base, NEW c \in claims, NEW outcome \in Outcomes, NEW text \in Texts,
           c.job \in DOMAIN jobs, c.index \in DOMAIN jobs[c.job].copies,
           FinishDelivery(c, outcome, text)
    PROVE  CopySteps
<1> DEFINE j == c.job
           i == c.index
           old == jobs[j].copies
           new == [old EXCEPT ![i] = Finished(old[i], outcome)]
           writes == [k \in {j} |-> WithCopies(jobs[j], new, text)]
<1>1. /\ old[i].state = "Active"
      /\ old[i].token = c.token
      /\ Save(writes)
      /\ claims' = claims \ {c}
      /\ service' = service
  BY Zenon DEF FinishDelivery, Current
<1>2. c = Ticket(j, i, c.token)
  BY Zenon DEF Base, TypeOK, Claim, Ticket
<1>3. old \in Seq(Copy) /\ old[i] \in Copy /\ text \in Results
  BY Zenon, CopiesType DEF Base, Results
<1>4. /\ Finished(old[i], outcome) \in Copy
      /\ Finished(old[i], outcome).token = NoToken
      /\ Finished(old[i], outcome).state \in {"Delivered", "Rejected", "Deferred"}
      /\ Finished(old[i], outcome).retryAt # NoTime <=> Finished(old[i], outcome).state = "Deferred"
  BY Zenon, <1>3, FinishedFields
<1>5. new \in Seq(Copy)
  BY Zenon, <1>3, <1>4, SetCopy
<1>6. new[i] = Finished(old[i], outcome) /\ \A k \in DOMAIN old : k # i => new[k] = old[k]
  BY Zenon
<1>7. DOMAIN writes = {j} /\ writes[j] = WithCopies(jobs[j], new, text)
  BY Zenon
<1> HIDE DEF new, writes
<1>8. jobs'[j].copies = new /\ \A k \in DOMAIN jobs : k # j => jobs'[k] = jobs[k]
  <2>1. jobs'[j] = WithCopies(jobs[j], new, text) /\ \A k \in DOMAIN jobs : k # j => jobs'[k] = jobs[k]
    BY Zenon, <1>1, <1>7 DEF Save
  <2>2. jobs[j] \in Job
    BY Zenon, CopiesType DEF Base
  <2>3. WithCopies(jobs[j], new, text).copies = new
    BY ZenonT(40), <1>3, <1>5, <2>2, WithCopiesFields
  <2> QED
    BY Zenon, <2>1, <2>3
<1> SUFFICES ASSUME NEW k \in DOMAIN jobs, NEW m \in DOMAIN jobs[k].copies
             PROVE  CopyStep(k, m)
  BY Zenon DEF CopySteps
<1>9. CASE k = j /\ m = i
  <2>1. Ticket(j, i, old[i].token) \in claims /\ Ticket(j, i, old[i].token) \notin claims'
    BY Zenon, <1>1, <1>2
  <2>2. Answers(j, i)
    BY ZenonT(40), <1>1, <1>4, <1>6, <1>8, <2>1 DEF Answers
  <2> QED
    BY Zenon, <1>9, <2>2 DEF CopyStep
<1>10. CASE ~ (k = j /\ m = i)
  <2>1. Mine(k, m)' = Mine(k, m)
    BY Zenon, <1>1, <1>10 DEF Mine
  <2>2. jobs'[k].copies[m] = jobs[k].copies[m]
    BY Zenon, <1>6, <1>8, <1>10
  <2> QED
    BY Zenon, <1>1, <2>1, <2>2 DEF CopyStep, Keeps
<1> QED
  BY Zenon, <1>9, <1>10
-----------------------------------------------------------------------------
(* What a control request may make of a copy. *)
MayBecome(old, new) ==
    \/ new = old
    \/ /\ old.state \notin {"Active", "Delivered", "Cancelled"}
       /\ new.state \in {"Queued", "Cancelled"}
       /\ new.token = old.token
       /\ new.retryAt = NoTime

(* A control request changes or keeps each copy of its Job. *)
LEMMA ControlStep ==
    ASSUME Base, NEW j \in DOMAIN jobs, NEW op, NEW outcome, NEW copies \in Seq(Copy),
           NEW text \in Results, NEW target, service = "Ipc",
           DOMAIN copies = DOMAIN jobs[j].copies,
           outcome = "Completed" =>
               \A i \in DOMAIN copies : MayBecome(jobs[j].copies[i], copies[i]),
           Control(j, op, outcome, copies, text, target)
    PROVE  CopySteps
<1>1. claims' = claims /\ service' = "Ipc"
  BY Zenon DEF Control
<1>2. CASE jobs' = jobs
  BY Zenon, <1>1, <1>2, KeepsAll
<1>3. CASE jobs' # jobs
  <2> DEFINE writes == [k \in {j} |-> WithCopies(jobs[j], copies, text)]
  <2>1. outcome = "Completed" /\ Save(writes)
    BY Zenon, <1>3 DEF Control
  <2>2. DOMAIN writes = {j} /\ writes[j] = WithCopies(jobs[j], copies, text)
    BY Zenon
  <2> HIDE DEF writes
  <2>3. jobs'[j].copies = copies /\ \A k \in DOMAIN jobs : k # j => jobs'[k] = jobs[k]
    BY Zenon, <2>1, <2>2, SaveOne
  <2> SUFFICES ASSUME NEW k \in DOMAIN jobs, NEW m \in DOMAIN jobs[k].copies
               PROVE  CopyStep(k, m)
    BY Zenon DEF CopySteps
  <2>4. Mine(k, m)' = Mine(k, m)
    BY Zenon, <1>1 DEF Mine
  <2>5. CASE jobs'[k].copies[m] = jobs[k].copies[m]
    BY Zenon, <1>1, <2>4, <2>5 DEF CopyStep, Keeps
  <2>6. CASE jobs'[k].copies[m] # jobs[k].copies[m]
    <3>1. k = j
      BY Zenon, <2>3, <2>6
    <3>2. MayBecome(jobs[j].copies[m], jobs'[j].copies[m])
      BY Zenon, <2>1, <2>3, <3>1
    <3> QED
      BY ZenonT(40), <1>1, <2>4, <2>6, <3>1, <3>2 DEF CopyStep, Changes, MayBecome
  <2> QED
    BY Zenon, <2>5, <2>6
<1> QED
  BY Zenon, <1>2, <1>3

(* Cancel and Retry touch only copies that wait or have failed. *)
LEMMA ChangeCopiesMoves ==
    ASSUME Base, NEW j \in DOMAIN jobs, NEW to \in {"Queued", "Cancelled"},
           NEW from \in SUBSET {"Queued", "Deferred", "Rejected", "Failed"}
    PROVE  LET new == ChangeCopies(jobs[j], from, to)
           IN /\ new \in Seq(Copy)
              /\ DOMAIN new = DOMAIN jobs[j].copies
              /\ \A i \in DOMAIN new : MayBecome(jobs[j].copies[i], new[i])
<1> DEFINE old == jobs[j].copies
           new == ChangeCopies(jobs[j], from, to)
<1>1. old \in Seq(Copy) /\ \A i \in DOMAIN old : old[i] \in Copy
  BY Zenon, CopiesType DEF Base
<1>2. new = [i \in DOMAIN old |-> IF old[i].state \in from THEN Requeue(old[i], to)
                                  ELSE old[i]]
  BY Zenon DEF ChangeCopies
<1>3. ASSUME NEW i \in DOMAIN old
      PROVE  /\ Requeue(old[i], to) \in Copy
             /\ Requeue(old[i], to).state = to
             /\ Requeue(old[i], to).retryAt = NoTime
             /\ Requeue(old[i], to).token = old[i].token
  <2>1. to \in States
    BY Zenon DEF States
  <2> QED
    BY Zenon, <1>1, <2>1, RequeueFields
<1>4. ASSUME NEW i \in DOMAIN old
      PROVE  new[i] \in Copy /\ MayBecome(old[i], new[i])
  <2>1. CASE old[i].state \in from
    <3>1. new[i] = Requeue(old[i], to)
      BY Zenon, <1>2, <2>1
    <3>2. old[i].state \notin {"Active", "Delivered", "Cancelled"}
      BY Zenon, <2>1
    <3> QED
      BY Zenon, <1>3, <3>1, <3>2 DEF MayBecome
  <2>2. CASE old[i].state \notin from
    BY Zenon, <1>1, <1>2, <2>2 DEF MayBecome
  <2> QED
    BY Zenon, <2>1, <2>2
<1>5. DOMAIN new = DOMAIN old /\ new = [i \in DOMAIN old |-> new[i]]
  BY Zenon, <1>2
<1> HIDE DEF new
<1>6. new \in Seq(Copy)
  BY <1>1, <1>4, <1>5, MapCopies, ZenonT(60)
<1> QED
  BY Zenon, <1>4, <1>5, <1>6 DEF new

(* Cancel *)
LEMMA CancelStep ==
    ASSUME Base, NEW j \in DOMAIN jobs, Cancel(j)
    PROVE  CopySteps
<1> DEFINE copies == ChangeCopies(jobs[j], Cancellable, "Cancelled")
<1>1. PICK outcome : Control(j, "Cancel", outcome, copies, "Cancelled", {})
  BY Zenon DEF Cancel
<1>2. service = "Ipc" /\ "Cancelled" \in Results
  BY Zenon DEF Cancel, Controllable, Results, ControlTexts
<1>3. /\ copies \in Seq(Copy)
      /\ DOMAIN copies = DOMAIN jobs[j].copies
      /\ \A i \in DOMAIN copies : MayBecome(jobs[j].copies[i], copies[i])
  BY Zenon, ChangeCopiesMoves DEF Cancellable
<1> HIDE DEF copies
<1> QED
  BY Zenon, <1>1, <1>2, <1>3, ControlStep

(* Retry *)
LEMMA RetryStep ==
    ASSUME Base, NEW j \in DOMAIN jobs, Retry(j)
    PROVE  CopySteps
<1> DEFINE copies == ChangeCopies(jobs[j], Retriable, "Queued")
<1>1. PICK outcome : Control(j, "Retry", outcome, copies, "Retry requested", {})
  BY Zenon DEF Retry
<1>2. service = "Ipc" /\ "Retry requested" \in Results
  BY Zenon DEF Retry, Controllable, Results, ControlTexts
<1>3. /\ copies \in Seq(Copy)
      /\ DOMAIN copies = DOMAIN jobs[j].copies
      /\ \A i \in DOMAIN copies : MayBecome(jobs[j].copies[i], copies[i])
  BY Zenon, ChangeCopiesMoves DEF Retriable
<1> HIDE DEF copies
<1> QED
  BY Zenon, <1>1, <1>2, <1>3, ControlStep

(* The aggregate of a single copy is the state of that copy. *)
LEMMA SingleAggregate ==
    ASSUME NEW copies, DOMAIN copies = {1}, copies[1].state \in States
    PROVE  AggregateState(copies) = copies[1].state
BY Zenon DEF AggregateState, States

(* Reroute looks at the Job's state, which is that of its only copy. *)
LEMMA RerouteStep ==
    ASSUME Base, JobStateIsAggregate, NEW j \in DOMAIN jobs, NEW d \in NewDelivery,
           Reroute(j, d)
    PROVE  CopySteps
<1> DEFINE old == jobs[j].copies
           new == [i \in DOMAIN old |-> Rerouted(old[i], d)]
           outcome == IF jobs[j].state = "Active" THEN "Busy"
                      ELSE IF Reroutable(jobs[j]) THEN "Completed" ELSE "NotPermitted"
<1>1. Control(j, "Reroute", outcome, new, "Rerouted", {d})
  BY Zenon DEF Reroute
<1>2. service = "Ipc" /\ "Rerouted" \in Results
  BY Zenon DEF Reroute, Controllable, Results, ControlTexts
<1>3. old \in Seq(Copy) /\ \A i \in DOMAIN old : old[i] \in Copy
  BY Zenon, CopiesType DEF Base
<1>4. \A i \in DOMAIN old : /\ new[i] \in Copy
                            /\ new[i].state = "Queued"
                            /\ new[i].retryAt = NoTime
                            /\ new[i].token = old[i].token
  BY Zenon, <1>3, ReroutedFields
<1>5. DOMAIN new = DOMAIN old /\ new = [i \in DOMAIN old |-> new[i]]
  BY Zenon
<1>6. ASSUME outcome = "Completed", NEW i \in DOMAIN old
      PROVE  old[i].state \notin {"Active", "Delivered", "Cancelled"}
  <2>1. /\ DOMAIN old = {1}
        /\ i = 1
        /\ jobs[j].state \notin {"Active", "Delivered", "Cancelled"}
    BY Zenon, <1>6 DEF Reroutable
  <2>2. old[1].state \in States
    BY Zenon, <1>3, <2>1 DEF Copy
  <2> QED
    BY Zenon, <2>1, <2>2, SingleAggregate DEF JobStateIsAggregate
<1> HIDE DEF new, outcome
<1>7. new \in Seq(Copy)
  BY Zenon, <1>3, <1>4, <1>5, MapCopies
<1>8. outcome = "Completed" => \A i \in DOMAIN new : MayBecome(old[i], new[i])
  BY Zenon, <1>4, <1>5, <1>6 DEF MayBecome
<1> QED
  BY Zenon, <1>1, <1>2, <1>5, <1>7, <1>8, ControlStep
-----------------------------------------------------------------------------
(* Every claim names a copy that exists. *)
ClaimsExist ==
    \A c \in claims : c.job \in DOMAIN jobs /\ c.index \in DOMAIN jobs[c.job].copies

(* No worker outlives its mail service. *)
OnlyMailClaims == ~ MailRuns => claims = {}

(* StartMail recovers what is Active. *)
LEMMA StartMailStep ==
    ASSUME Base, StartMail
    PROVE  CopySteps
<1>1. service = "Down" /\ claims' = claims
  BY Zenon DEF StartMail
<1>2. \A j \in DOMAIN jobs : \A i \in DOMAIN jobs[j].copies :
          jobs'[j].copies[i] = Recovered(jobs[j].copies[i])
  BY Zenon, StartMailUpdates
<1> QED
  BY Zenon, <1>1, <1>2 DEF CopySteps, CopyStep, Recovers, Mine

(* Every step does one of the six things to every copy there is. *)
LEMMA StepOfEveryCopy ==
    ASSUME Base, JobStateIsAggregate, ClaimsExist, [Next]_vars
    PROVE  CopySteps
<1>1. CASE Submit
  <2>1. PICK batch \in Batches, created \in Times :
            \E jobOf \in [NewIdentities(batch) -> JobIds \ DOMAIN jobs] :
                CommitBatch(batch, jobOf, created)
    BY Zenon, <1>1 DEF Submit
  <2>2. PICK jobOf \in [NewIdentities(batch) -> JobIds \ DOMAIN jobs] :
            CommitBatch(batch, jobOf, created)
    BY Zenon, <2>1
  <2>3. \A j \in DOMAIN jobs : jobs'[j] = jobs[j]
    BY <2>2, CommitBatchAdds, ZenonT(60) DEF Committed
  <2>4. claims' = claims /\ service' = service
    BY Zenon, <2>2 DEF CommitBatch
  <2> QED
    BY Zenon, <2>3, <2>4 DEF CopySteps, CopyStep, Keeps, Mine
<1>2. CASE Work
  BY Zenon, <1>2, ClaimScheduledStep, ClaimPollStep, FinishDeliveryStep DEF Work, ClaimsExist
<1>3. ASSUME NEW j \in DOMAIN jobs, NEW n, AcknowledgeEvent(j, n)
      PROVE  CopySteps
  <2>1. jobs' = jobs /\ claims' = claims /\ service' = service
    BY Zenon, <1>3 DEF AcknowledgeEvent
  <2> QED
    BY Zenon, <2>1, KeepsAll
<1>4. CASE ControlRequest
  BY Zenon, <1>3, <1>4, CancelStep, RetryStep, RerouteStep DEF ControlRequest
<1>5. CASE Kill
  BY Zenon, <1>5 DEF Kill, CopySteps, CopyStep, Drops
<1>6. CASE StartMail
  BY Zenon, <1>6, StartMailStep
<1>7. CASE StartIpc \/ StartListening
  <2>1. jobs' = jobs /\ claims' = claims /\ service' # "Mail"
    BY Zenon, <1>7 DEF StartIpc, StartListening
  <2> QED
    BY Zenon, <2>1, KeepsAll
<1>8. CASE Tick \/ UNCHANGED vars
  <2>1. jobs' = jobs /\ claims' = claims /\ service' = service
    BY Zenon, <1>8 DEF Tick, vars
  <2> QED
    BY Zenon, <2>1, KeepsAll
<1> QED
  BY ZenonT(40), <1>1, <1>2, <1>4, <1>5, <1>6, <1>7, <1>8 DEF Next

(* A copy just made: Queued, unclaimed, with no retry Timestamp. *)
IsNew(copy) == copy.state = "Queued" /\ copy.token = NoToken /\ copy.retryAt = NoTime

(* Jobs and copies are never removed, and those that are added are new. *)
Shelves ==
    /\ \A j \in DOMAIN jobs : /\ j \in DOMAIN jobs'
                              /\ DOMAIN jobs'[j].copies = DOMAIN jobs[j].copies
    /\ \A j \in DOMAIN jobs' \ DOMAIN jobs :
           \A i \in DOMAIN jobs'[j].copies : IsNew(jobs'[j].copies[i])

(* The tables only grow. *)
LEMMA StepShelves ==
    ASSUME Base, [Next]_vars
    PROVE  Shelves
<1>1. CASE Submit
  <2>1. PICK batch \in Batches, created \in Times :
            \E jobOf \in [NewIdentities(batch) -> JobIds \ DOMAIN jobs] :
                CommitBatch(batch, jobOf, created)
    BY Zenon, <1>1 DEF Submit
  <2>2. PICK jobOf \in [NewIdentities(batch) -> JobIds \ DOMAIN jobs] :
            CommitBatch(batch, jobOf, created)
    BY Zenon, <2>1
  <2>3. Committed(batch, jobOf, created)
    BY Zenon, <2>2, CommitBatchAdds
  <2>4. \A j \in DOMAIN jobs : j \in DOMAIN jobs' /\ jobs'[j] = jobs[j]
    BY Zenon, <2>3 DEF Committed
  <2>5. ASSUME NEW j \in DOMAIN jobs' \ DOMAIN jobs
        PROVE  \A i \in DOMAIN jobs'[j].copies : IsNew(jobs'[j].copies[i])
    <3>1. PICK id \in NewIdentities(batch) : j = jobOf[id]
      BY Zenon, <2>3 DEF Committed
    <3>2. /\ id \in Identities
          /\ batch[id] \in Blueprints
          /\ jobs'[j] = MakeJob(id, batch[id], created)
      BY Zenon, <2>3, <3>1 DEF Committed
    <3>3. PICK b \in Blueprints : jobs'[j] = MakeJob(id, b, created)
      BY Zenon, <3>2
    <3>4. \A i \in DOMAIN MakeJob(id, b, created).copies :
              IsNew(MakeJob(id, b, created).copies[i])
      BY <3>2, MakeJobFields DEF IsNew
    <3> QED
      BY Zenon, <3>3, <3>4
  <2> QED
    BY Zenon, <2>4, <2>5 DEF Shelves
<1>2. CASE Acknowledges
  <2>1. jobs' = jobs
    BY Zenon, <1>2 DEF Acknowledges, AcknowledgeEvent
  <2> QED
    BY Zenon, <2>1 DEF Shelves
<1>3. CASE Updates
  <2>1. DOMAIN jobs' = DOMAIN jobs
    BY Zenon, <1>3, UpdatesBase
  <2>2. \A j \in DOMAIN jobs : DOMAIN jobs'[j].copies = DOMAIN jobs[j].copies
    BY Zenon, <1>3, RewrittenFields DEF Updates
  <2> QED
    BY Zenon, <2>1, <2>2 DEF Shelves
<1> QED
  BY Zenon, <1>1, <1>2, <1>3, StepShapes
-----------------------------------------------------------------------------
(* One copy, its worker token, its retry Timestamp and the claims on it. *)
WellHeld(j, i) ==
    LET copy == jobs[j].copies[i]
    IN /\ copy.token # NoToken <=> copy.state = "Active"
       /\ copy.retryAt # NoTime <=> copy.state = "Deferred"
       /\ \A c \in Mine(j, i) : copy.state = "Active" /\ c.token = copy.token
       /\ service = "Mail" /\ copy.state = "Active" => Mine(j, i) # {}

(***************************************************************************)
(* The inductive invariant behind the ownership properties.  None of them  *)
(* is inductive alone: that an answer is never stale needs that a held     *)
(* copy has no claim, and that nothing is orphaned needs that no claim     *)
(* outlives its process.                                                   *)
(***************************************************************************)
Owned ==
    /\ Records
    /\ ClaimsExist
    /\ OnlyMailClaims
    /\ \A j \in DOMAIN jobs : \A i \in DOMAIN jobs[j].copies : WellHeld(j, i)

(* A step makes claims only on copies that exist, and only the mail service
   makes them. *)
LEMMA ClaimsNext ==
    ASSUME Base, ClaimsExist, OnlyMailClaims, [Next]_vars
    PROVE  /\ \A c \in claims' : c.job \in DOMAIN jobs /\ c.index \in DOMAIN jobs[c.job].copies
           /\ ~ MailRuns' => claims' = {}
<1>1. ASSUME NEW selection, NEW asOf, NEW j, NEW i, NEW token,
             ClaimScheduled(selection, asOf, j, i, token)
      PROVE  /\ \A c \in claims' : c.job \in DOMAIN jobs /\ c.index \in DOMAIN jobs[c.job].copies
             /\ MailRuns'
  <2>1. j \in DOMAIN jobs /\ i \in DOMAIN jobs[j].copies
    BY Zenon, <1>1, ClaimScheduledUpdates
  <2>2. /\ claims' = claims \cup {[job |-> j, index |-> i, token |-> token]}
        /\ MailRuns'
    BY Zenon, <1>1 DEF ClaimScheduled, MailRuns
  <2> QED
    BY <2>1, <2>2 DEF ClaimsExist
<1>2. ASSUME NEW peer, NEW kinds, NEW tokenOf, ClaimPollSnapshot(peer, kinds, tokenOf)
      PROVE  /\ \A c \in claims' : c.job \in DOMAIN jobs /\ c.index \in DOMAIN jobs[c.job].copies
             /\ MailRuns'
  <2>1. \A p \in Snapshot(peer, kinds) : p[1] \in DOMAIN jobs /\ p[2] \in DOMAIN jobs[p[1]].copies
    BY Zenon, CopyOf DEF Snapshot, Base
  <2>2. /\ claims' = claims \cup {[job |-> p[1], index |-> p[2], token |-> tokenOf[p]] :
                                      p \in Snapshot(peer, kinds)}
        /\ MailRuns'
    BY Zenon, <1>2 DEF ClaimPollSnapshot, MailRuns
  <2> QED
    BY <2>1, <2>2 DEF ClaimsExist
<1>3. CASE claims' \subseteq claims /\ (~ MailRuns' => ~ MailRuns \/ claims' = {})
  BY Zenon, <1>3 DEF ClaimsExist, OnlyMailClaims
<1>4. ASSUME NEW c, NEW outcome, NEW text, FinishDelivery(c, outcome, text)
      PROVE  claims' \subseteq claims /\ MailRuns' = MailRuns
  BY Zenon, <1>4 DEF FinishDelivery, MailRuns
<1>5. CASE Work
  BY Zenon, <1>1, <1>2, <1>3, <1>4, <1>5 DEF Work
<1>6. CASE ControlRequest
  BY <1>3, <1>6, ZenonT(60) DEF ControlRequest, Cancel, Retry, Reroute, Control, AcknowledgeEvent, MailRuns
<1>7. CASE Submit
  BY SMTT(60), <1>3, <1>7 DEF Submit, CommitBatch, MailRuns
<1>8. CASE Kill
  BY Zenon, <1>8 DEF Kill
<1>9. CASE StartMail \/ StartListening \/ StartIpc \/ Tick \/ UNCHANGED vars
  BY Zenon, <1>3, <1>9 DEF StartMail, StartListening, StartIpc, Tick, vars, MailRuns
<1> QED
  BY Zenon, <1>5, <1>6, <1>7, <1>8, <1>9 DEF Next

(* A step that does one of the six things to a copy leaves it well held. *)
LEMMA WellHeldStep ==
    ASSUME Owned, NEW j \in DOMAIN jobs, NEW i \in DOMAIN jobs[j].copies, CopyStep(j, i)
    PROVE  WellHeld(j, i)'
<1> DEFINE old == jobs[j].copies[i]
           new == jobs'[j].copies[i]
<1>0. TypeOK /\ OnlyMailClaims
  BY Zenon DEF Owned, Records, Base
<1>1. old \in Copy
  BY Zenon, <1>0, CopiesType
<1>2. /\ old.token # NoToken <=> old.state = "Active"
      /\ old.retryAt # NoTime <=> old.state = "Deferred"
      /\ \A c \in Mine(j, i) : old.state = "Active" /\ c.token = old.token
      /\ service = "Mail" /\ old.state = "Active" => Mine(j, i) # {}
  BY Zenon DEF Owned, WellHeld
<1>3. SUFFICES /\ new.token # NoToken <=> new.state = "Active"
               /\ new.retryAt # NoTime <=> new.state = "Deferred"
               /\ \A c \in Mine(j, i)' : new.state = "Active" /\ c.token = new.token
               /\ service' = "Mail" /\ new.state = "Active" => Mine(j, i)' # {}
  BY Zenon DEF WellHeld
<1>4. CASE Keeps(j, i)
  BY Zenon, <1>2, <1>4 DEF Keeps
<1>5. CASE Drops(j, i)
  <2>1. Mine(j, i)' = {}
    BY Zenon, <1>5 DEF Drops, Mine
  <2> QED
    BY Zenon, <1>2, <1>5, <2>1 DEF Drops
<1>6. ASSUME NEW token, Takes(j, i, token)
      PROVE  /\ new.token # NoToken <=> new.state = "Active"
             /\ new.retryAt # NoTime <=> new.state = "Deferred"
             /\ \A c \in Mine(j, i)' : new.state = "Active" /\ c.token = new.token
             /\ service' = "Mail" /\ new.state = "Active" => Mine(j, i)' # {}
  <2>1. Mine(j, i) = {}
    BY Zenon, <1>2, <1>6 DEF Takes, Held
  <2>2. Ticket(j, i, token).token = token
    BY Zenon DEF Ticket
  <2> QED
    BY Zenon, <1>6, <2>1, <2>2, SpoolAssumption DEF Takes
<1>7. CASE Answers(j, i)
  <2>1. \A c \in Mine(j, i) : c = Ticket(j, i, old.token)
    BY <1>0, <1>2, SMTT(60) DEF Mine, Ticket, TypeOK, Claim
  <2>2. Mine(j, i)' = {}
    BY Zenon, <1>7, <2>1 DEF Answers, Mine
  <2> QED
    BY Zenon, <1>7, <2>2 DEF Answers
<1>8. CASE Changes(j, i)
  BY Zenon, <1>2, <1>8 DEF Changes
<1>9. CASE Recovers(j, i)
  <2>1. Mine(j, i)' = {}
    BY Zenon, <1>0, <1>9 DEF Recovers, Mine, OnlyMailClaims, MailRuns
  <2>2. now \in Times /\ now # NoTime
    BY <1>0, SpoolAssumption DEF TypeOK, Times, NoTime
  <2>3. IF old.state = "Active"
        THEN new.state = "Deferred" /\ new.retryAt = now /\ new.token = NoToken
        ELSE new = old
    BY Zenon, <1>1, <1>9, <2>2, RecoveredFields DEF Recovers
  <2> QED
    BY Zenon, <1>2, <2>1, <2>2, <2>3
<1> QED
  BY ZenonT(40), <1>4, <1>5, <1>6, <1>7, <1>8, <1>9 DEF CopyStep

(* Ownership is preserved by every step. *)
LEMMA OwnedNext ==
    Owned /\ [Next]_vars => Owned'
<1> SUFFICES ASSUME Owned, [Next]_vars
             PROVE  Owned'
  BY Zenon
<1>1. Records' /\ Base /\ JobStateIsAggregate /\ ClaimsExist /\ OnlyMailClaims
  BY Zenon, RecordsNext DEF Owned, Records
<1>2. CopySteps /\ Shelves
  BY Zenon, <1>1, StepOfEveryCopy, StepShelves
<1>3. /\ \A c \in claims' : c.job \in DOMAIN jobs /\ c.index \in DOMAIN jobs[c.job].copies
      /\ ~ MailRuns' => claims' = {}
  BY Zenon, <1>1, ClaimsNext
<1>4. ClaimsExist' /\ OnlyMailClaims'
  BY Zenon, <1>2, <1>3 DEF ClaimsExist, OnlyMailClaims, Shelves
<1>5. ASSUME NEW j \in DOMAIN jobs', NEW i \in DOMAIN jobs'[j].copies
      PROVE  WellHeld(j, i)'
  <2>1. CASE j \in DOMAIN jobs
    <3>1. i \in DOMAIN jobs[j].copies
      BY Zenon, <1>2, <2>1 DEF Shelves
    <3>2. CopyStep(j, i)
      BY Zenon, <1>2, <2>1, <3>1 DEF CopySteps
    <3> QED
      BY Zenon, <2>1, <3>1, <3>2, WellHeldStep
  <2>2. CASE j \notin DOMAIN jobs
    <3>1. IsNew(jobs'[j].copies[i])
      BY Zenon, <1>2, <2>2 DEF Shelves
    <3>2. Mine(j, i)' = {}
      BY Zenon, <1>3, <2>2 DEF Mine
    <3> QED
      BY Zenon, <3>1, <3>2 DEF IsNew, WellHeld
  <2> QED
    BY Zenon, <2>1, <2>2
<1> QED
  BY Zenon, <1>1, <1>4, <1>5 DEF Owned

(* A new spool has no copy and no claim. *)
LEMMA OwnedInit ==
    Init => Owned
<1> SUFFICES ASSUME Init
             PROVE  Owned
  BY Zenon
<1>1. DOMAIN jobs = {} /\ claims = {}
  BY Zenon DEF Init, EmptyTable
<1> QED
  BY Zenon, <1>1, RecordsInit DEF Owned, ClaimsExist, OnlyMailClaims

(* What the invariant says of the properties. *)
LEMMA OwnedGives ==
    ASSUME Owned
    PROVE  CopyShape /\ ClaimsAreCurrent /\ NoOrphanedCopy
<1>0. TypeOK
  BY Zenon DEF Owned, Records, Base
<1>1. \A p \in AllCopies : WellHeld(p[1], p[2])
  BY Zenon, <1>0, CopyOf DEF Owned
<1>2. CopyShape
  BY Zenon, <1>1 DEF CopyShape, WellHeld
<1>3. ASSUME NEW c \in claims
      PROVE  /\ c.index \in DOMAIN jobs[c.job].copies
             /\ Current(c)
             /\ c = Ticket(c.job, c.index, jobs[c.job].copies[c.index].token)
  <2>1. c.job \in DOMAIN jobs /\ c.index \in DOMAIN jobs[c.job].copies /\ c \in Claim
    BY Zenon, <1>0 DEF Owned, ClaimsExist, TypeOK
  <2>2. WellHeld(c.job, c.index) /\ c \in Mine(c.job, c.index)
    BY Zenon, <2>1 DEF Owned, Mine
  <2>3. Current(c)
    BY Zenon, <2>2 DEF WellHeld, Current
  <2> QED
    BY Zenon, <2>1, <2>3 DEF Current, Ticket, Claim
<1>4. ClaimsAreCurrent
  BY Zenon, <1>3 DEF ClaimsAreCurrent
<1>5. NoOrphanedCopy
  BY Zenon, <1>1 DEF NoOrphanedCopy, ActiveCopies, InHand, WellHeld, Mine
<1> QED
  BY Zenon, <1>2, <1>4, <1>5

(***************************************************************************)
(* A copy carries a worker token exactly while Active and a retry          *)
(* Timestamp exactly while Deferred, after every transaction.              *)
(***************************************************************************)
THEOREM CopyShapeCorrect ==
    Spec => []CopyShape
<1>1. Owned => CopyShape
  BY Zenon, OwnedGives
<1> QED
  BY <1>1, OwnedInit, OwnedNext, PTL DEF Spec

(***************************************************************************)
(* The driver and any number of poll connections never hold one copy       *)
(* twice, and finish_delivery never refuses a live worker's answer.        *)
(***************************************************************************)
THEOREM ClaimsCorrect ==
    Spec => []ClaimsAreCurrent
<1>1. Owned => ClaimsAreCurrent
  BY Zenon, OwnedGives
<1> QED
  BY <1>1, OwnedInit, OwnedNext, PTL DEF Spec

(***************************************************************************)
(* A mail service with schedules never runs beside an Active copy that was *)
(* claimed before it started, whatever services were killed before it.     *)
(***************************************************************************)
THEOREM RecoveryCorrect ==
    Spec => []NoOrphanedCopy
<1>1. Owned => NoOrphanedCopy
  BY Zenon, OwnedGives
<1> QED
  BY <1>1, OwnedInit, OwnedNext, PTL DEF Spec

(***************************************************************************)
(* What is Delivered or Cancelled is never sent again or revived.          *)
(***************************************************************************)
THEOREM SettledCorrect ==
    Spec => SettledIsFinal
<1> DEFINE Final == \A p \in AllCopies :
               jobs[p[1]].copies[p[2]].state \in {"Delivered", "Cancelled"} =>
                   jobs'[p[1]].copies[p[2]] = jobs[p[1]].copies[p[2]]
<1>1. ASSUME Owned, [Next]_vars
      PROVE  Final
  <2> SUFFICES ASSUME NEW p \in AllCopies,
                      jobs[p[1]].copies[p[2]].state \in {"Delivered", "Cancelled"}
               PROVE  jobs'[p[1]].copies[p[2]] = jobs[p[1]].copies[p[2]]
    BY Zenon
  <2>1. Base /\ JobStateIsAggregate /\ ClaimsExist
    BY Zenon, <1>1 DEF Owned, Records
  <2>2. CopySteps
    BY Zenon, <1>1, <2>1, StepOfEveryCopy
  <2>3. CopyStep(p[1], p[2])
    BY Zenon, <2>1, <2>2, CopyOf DEF CopySteps, Base
  <2> QED
    BY <2>3, ZenonT(60) DEF CopyStep, Keeps, Drops, Takes, Answers, Changes, Recovers, Recovered, Held
<1>2. Owned /\ [Next]_vars => [Final]_vars
  BY Zenon, <1>1
<1> HIDE DEF Final
<1>3. Spec => [][Final]_vars
  BY <1>2, OwnedInit, OwnedNext, PTL DEF Spec
<1> QED
  BY Zenon, <1>3 DEF SettledIsFinal, Final

(***************************************************************************)
(* An Active copy changes only by the answer of the worker that holds its  *)
(* token, or by recovery, and only that answer makes a copy Delivered.     *)
(***************************************************************************)
THEOREM AnswersCorrect ==
    Spec => OnlyItsWorkerAnswers
<1> DEFINE Answered ==
               \A p \in AllCopies :
                   LET old == jobs[p[1]].copies[p[2]]
                       new == jobs'[p[1]].copies[p[2]]
                       answered == [job |-> p[1], index |-> p[2], token |-> old.token]
                                       \in claims \ claims'
                   IN /\ old.state = "Active" /\ new # old => answered \/ service = "Down"
                      /\ new.state = "Delivered" /\ new # old => answered
<1>1. ASSUME Owned, [Next]_vars
      PROVE  Answered
  <2>1. Base /\ JobStateIsAggregate /\ ClaimsExist
    BY Zenon, <1>1 DEF Owned, Records
  <2>2. CopySteps
    BY Zenon, <1>1, <2>1, StepOfEveryCopy
  <2> SUFFICES ASSUME NEW p \in AllCopies
               PROVE  LET old == jobs[p[1]].copies[p[2]]
                          new == jobs'[p[1]].copies[p[2]]
                          answered == [job |-> p[1], index |-> p[2], token |-> old.token]
                                          \in claims \ claims'
                      IN /\ old.state = "Active" /\ new # old => answered \/ service = "Down"
                         /\ new.state = "Delivered" /\ new # old => answered
    BY Zenon
  <2> DEFINE old == jobs[p[1]].copies[p[2]]
             new == jobs'[p[1]].copies[p[2]]
  <2>3. CopyStep(p[1], p[2]) /\ old \in Copy /\ now \in Times
    BY Zenon, <2>1, <2>2, CopyOf DEF CopySteps, Base, TypeOK
  <2>4. CASE new = old
    BY Zenon, <2>4
  <2>5. CASE \E token : Takes(p[1], p[2], token)
    <3>1. old.state # "Active" /\ new.state # "Delivered"
      BY Zenon, <2>5 DEF Takes, Held
    <3> QED
      BY Zenon, <3>1
  <2>6. CASE Answers(p[1], p[2])
    <3>1. [job |-> p[1], index |-> p[2], token |-> old.token] \in claims \ claims'
      BY Zenon, <2>6 DEF Answers, Ticket
    <3> QED
      BY Zenon, <3>1
  <2>7. CASE Changes(p[1], p[2])
    <3>1. old.state # "Active" /\ new.state # "Delivered"
      BY Zenon, <2>7 DEF Changes
    <3> QED
      BY Zenon, <3>1
  <2>8. CASE Recovers(p[1], p[2])
    <3>1. service = "Down" /\ (new # old => new.state = "Deferred")
      BY Zenon, <2>3, <2>8, RecoveredFields DEF Recovers
    <3> QED
      BY Zenon, <3>1
  <2> QED
    BY <2>3, <2>4, <2>5, <2>6, <2>7, <2>8, ZenonT(60) DEF CopyStep, Keeps, Drops
<1>2. Owned /\ [Next]_vars => [Answered]_vars
  BY Zenon, <1>1
<1> HIDE DEF Answered
<1>3. Spec => [][Answered]_vars
  BY <1>2, OwnedInit, OwnedNext, PTL DEF Spec
<1> QED
  BY Zenon, <1>3 DEF OnlyItsWorkerAnswers, Answered
=============================================================================
