------------------------- MODULE OutboundSpoolProofs -------------------------
(***************************************************************************)
(* Proofs about the outbound spool, for every number of Jobs, copies,      *)
(* workers, peers and applications.                                        *)
(***************************************************************************)
EXTENDS OutboundSpool, SequenceTheorems, TLAPS

Results == ControlTexts \cup Texts

(* No two copies of a Job are for one peer identity. *)
Distinct(copies) ==
    \A i, k \in DOMAIN copies :
        copies[i].hop = copies[k].hop /\ copies[i].key = copies[k].key => i = k

DistinctCopies == \A j \in DOMAIN jobs : Distinct(jobs[j].copies)

Base == TypeOK /\ DistinctCopies

(***************************************************************************)
(* What every transaction except commit_batch and acknowledge_event does   *)
(* to the tables: a Job is left alone, or it is written with other copies  *)
(* and one event is appended.                                              *)
(***************************************************************************)
Rewrite(j, record) ==
    \E copies \in Seq(Copy), text \in Results :
        /\ DOMAIN copies = DOMAIN jobs[j].copies
        /\ Distinct(copies)
        /\ record = WithCopies(jobs[j], copies, text)

Rewritten(j) ==
    /\ Rewrite(j, jobs'[j])
    /\ events'[j] = Append(events[j], Numbered(jobs'[j], jobs[j].state))

Updates ==
    /\ jobs' = [j \in DOMAIN jobs |-> jobs'[j]]
    /\ events' = [j \in DOMAIN jobs |-> events'[j]]
    /\ \A j \in DOMAIN jobs :
           (jobs'[j] = jobs[j] /\ events'[j] = events[j]) \/ Rewritten(j)
-----------------------------------------------------------------------------
(* aggregate_state always names a state. *)
LEMMA AggregateType ==
    ASSUME NEW copies
    PROVE  AggregateState(copies) \in States
BY Zenon DEF AggregateState, States

(* Writing copies and a result into a Job changes its state and nothing else. *)
LEMMA WithCopiesFields ==
    ASSUME NEW job \in Job, NEW copies \in Seq(Copy), NEW text \in Results
    PROVE  LET new == WithCopies(job, copies, text)
           IN /\ new \in Job
              /\ new.copies = copies
              /\ new.state = AggregateState(copies)
              /\ new.identity = job.identity
              /\ new.kind = job.kind
              /\ new.created = job.created
              /\ new.lastResult = text
BY Zenon, AggregateType DEF WithCopies, Job, Results

(* Replacing one copy of a sequence by another copy. *)
LEMMA SetCopy ==
    ASSUME NEW copies \in Seq(Copy), NEW i, NEW new, i \in DOMAIN copies => new \in Copy
    PROVE  /\ [copies EXCEPT ![i] = new] \in Seq(Copy)
           /\ DOMAIN [copies EXCEPT ![i] = new] = DOMAIN copies
<1>1. copies \in [1 .. Len(copies) -> Copy] /\ Len(copies) \in Nat
  OBVIOUS
<1>2. [copies EXCEPT ![i] = new] \in [1 .. Len(copies) -> Copy]
  BY Zenon, <1>1
<1> QED
  BY ZenonT(40), <1>1, <1>2, SeqDef

(* Replacing every copy of a sequence by some copy. *)
LEMMA MapCopies ==
    ASSUME NEW S, NEW old \in Seq(S), NEW new, new = [i \in DOMAIN old |-> new[i]],
           \A i \in DOMAIN old : new[i] \in Copy
    PROVE  new \in Seq(Copy)
<1>1. old \in [1 .. Len(old) -> S] /\ Len(old) \in Nat
  OBVIOUS
<1>2. new \in [1 .. Len(old) -> Copy]
  BY Zenon, <1>1
<1> QED
  BY ZenonT(40), <1>1, <1>2, SeqDef

(* A transaction that ends in Save has the shape of Updates. *)
LEMMA SaveUpdates ==
    ASSUME TypeOK, NEW writes,
           \A j \in DOMAIN writes \cap DOMAIN jobs : Rewrite(j, writes[j]),
           Save(writes)
    PROVE  Updates
BY Zenon DEF TypeOK, Save, Updates, Rewritten

(* Updates preserve the types of the tables and the distinctness of copies. *)
LEMMA UpdatesBase ==
    ASSUME Base, Updates
    PROVE  /\ DOMAIN jobs' = DOMAIN jobs
           /\ DOMAIN events' = DOMAIN jobs
           /\ jobs' \in [DOMAIN jobs -> Job]
           /\ events' \in [DOMAIN jobs -> Seq(Event)]
           /\ DistinctCopies'
<1>1. ASSUME NEW j \in DOMAIN jobs
      PROVE  jobs'[j] \in Job /\ events'[j] \in Seq(Event) /\ Distinct(jobs'[j].copies)
  <2>1. jobs[j] \in Job /\ events[j] \in Seq(Event) /\ Distinct(jobs[j].copies)
    BY Zenon DEF Base, TypeOK, DistinctCopies
  <2>2. CASE jobs'[j] = jobs[j] /\ events'[j] = events[j]
    BY Zenon, <2>1, <2>2
  <2>3. CASE Rewritten(j)
    <3>1. PICK copies \in Seq(Copy), text \in Results :
              Distinct(copies) /\ jobs'[j] = WithCopies(jobs[j], copies, text)
      BY Zenon, <2>3 DEF Rewritten, Rewrite
    <3>2. jobs'[j] \in Job /\ jobs'[j].copies = copies
      BY <2>1, <3>1, WithCopiesFields
    <3>3. Numbered(jobs'[j], jobs[j].state) \in Event
      BY Zenon, <2>1, <3>2 DEF Numbered, Event, Job
    <3>4. events'[j] \in Seq(Event)
      BY <2>1, <2>3, <3>3 DEF Rewritten
    <3> QED
      BY Zenon, <3>1, <3>2, <3>4
  <2> QED
    BY Zenon, <2>2, <2>3 DEF Updates
<1>2. DOMAIN jobs' = DOMAIN jobs /\ DOMAIN events' = DOMAIN jobs
  BY Zenon DEF Updates
<1>3. jobs' \in [DOMAIN jobs -> Job] /\ events' \in [DOMAIN jobs -> Seq(Event)]
  BY Zenon, <1>1 DEF Updates
<1>4. DistinctCopies'
  BY Zenon, <1>1, <1>2 DEF DistinctCopies
<1> QED
  BY Zenon, <1>2, <1>3, <1>4

-----------------------------------------------------------------------------
(* What a claim makes of a copy. *)
LEMMA ClaimedFields ==
    ASSUME NEW copy \in Copy, NEW token \in Tokens, copy.attempts < MaxAttempts
    PROVE  LET new == Claimed(copy, token)
           IN /\ new \in Copy
              /\ new.state = "Active"
              /\ new.token = token
              /\ new.retryAt = NoTime
              /\ new.hop = copy.hop
              /\ new.key = copy.key
<1>1. copy.attempts + 1 \in 0 .. MaxAttempts
  BY SpoolAssumption DEF Copy
<1> DEFINE n == copy.attempts + 1
<1> HIDE DEF n
<1>2. n \in 0 .. MaxAttempts
  BY Zenon, <1>1 DEF n
<1>3. Claimed(copy, token) =
          [copy EXCEPT !.state = "Active", !.retryAt = NoTime, !.token = token,
                       !.attempts = n]
  BY Zenon DEF Claimed, n
<1> QED
  BY <1>2, <1>3, ZenonT(60) DEF Copy, States

(* What a worker's answer makes of a copy. *)
LEMMA FinishedFields ==
    ASSUME NEW copy \in Copy, NEW outcome \in Outcomes
    PROVE  LET new == Finished(copy, outcome)
           IN /\ new \in Copy
              /\ new.token = NoToken
              /\ new.state \in {"Delivered", "Rejected", "Deferred"}
              /\ new.retryAt # NoTime <=> new.state = "Deferred"
              /\ new.hop = copy.hop
              /\ new.key = copy.key
<1>1. outcome.state \in {"Delivered", "Rejected", "Deferred"}
  BY DEF Outcomes
<1>2. /\ outcome.retryAt \in Times \cup {NoTime}
      /\ outcome.retryAt # NoTime <=> outcome.state = "Deferred"
  BY SpoolAssumption DEF Outcomes, Times, NoTime
<1> DEFINE s == outcome.state
           t == outcome.retryAt
<1>3. Finished(copy, outcome) =
          [copy EXCEPT !.state = s, !.retryAt = t, !.token = NoToken]
  BY Zenon DEF Finished
<1>4. s \in {"Delivered", "Rejected", "Deferred"} /\ t \in Times \cup {NoTime}
      /\ (t # NoTime <=> s = "Deferred")
  BY Zenon, <1>1, <1>2
<1> HIDE DEF s, t
<1> QED
  BY <1>3, <1>4, ZenonT(60) DEF Copy, States

(* What Cancel or Retry makes of a copy it changes. *)
LEMMA RequeueFields ==
    ASSUME NEW copy \in Copy, NEW state \in States
    PROVE  LET new == Requeue(copy, state)
           IN /\ new \in Copy
              /\ new.state = state
              /\ new.retryAt = NoTime
              /\ new.token = copy.token
              /\ new.hop = copy.hop
              /\ new.key = copy.key
BY Zenon DEF Requeue, Copy

(* What Reroute makes of a copy. *)
LEMMA ReroutedFields ==
    ASSUME NEW copy \in Copy, NEW d \in NewDelivery
    PROVE  LET new == Rerouted(copy, d)
           IN /\ new \in Copy
              /\ new.state = "Queued"
              /\ new.retryAt = NoTime
              /\ new.token = copy.token
<1> DEFINE h == d.hop
           m == d.mode
<1>1. h \in Hops /\ m \in Modes
  BY Zenon DEF NewDelivery
<1>2. Rerouted(copy, d) = [copy EXCEPT !.hop = h, !.mode = m, !.retryAt = NoTime,
                                       !.state = "Queued"]
  BY Zenon DEF Rerouted
<1> HIDE DEF h, m
<1> QED
  BY <1>1, <1>2, ZenonT(60) DEF Copy, States

(* What recovery makes of an Active copy. *)
LEMMA RecoveredFields ==
    ASSUME NEW copy \in Copy, now \in Times
    PROVE  LET new == Recovered(copy)
           IN /\ new \in Copy
              /\ new.hop = copy.hop
              /\ new.key = copy.key
              /\ IF copy.state = "Active"
                 THEN new.state = "Deferred" /\ new.retryAt = now /\ new.token = NoToken
                 ELSE new = copy
BY Zenon DEF Recovered, Copy, States

(* What a submission makes of a requested delivery. *)
LEMMA MakeCopyFields ==
    ASSUME NEW d \in NewDelivery
    PROVE  LET new == MakeCopy(d)
           IN /\ new \in Copy
              /\ new.state = "Queued"
              /\ new.retryAt = NoTime
              /\ new.token = NoToken
              /\ new.hop = d.hop
              /\ new.key = d.key
BY SpoolAssumption DEF MakeCopy, Copy, NewDelivery, States
-----------------------------------------------------------------------------
(* AllCopies is exactly the pairs of a Job and an index of its copies. *)
LEMMA CopyOf ==
    ASSUME TypeOK, NEW p \in AllCopies
    PROVE  /\ p[1] \in DOMAIN jobs
           /\ p[2] \in DOMAIN jobs[p[1]].copies
           /\ p = <<p[1], p[2]>>
           /\ jobs[p[1]] \in Job
           /\ jobs[p[1]].copies[p[2]] \in Copy
<1>1. p[1] \in DOMAIN jobs /\ p[2] \in DOMAIN jobs[p[1]].copies /\ p = <<p[1], p[2]>>
  BY DEF AllCopies
<1>2. jobs[p[1]] \in Job
  BY Zenon, <1>1 DEF TypeOK
<1>3. jobs[p[1]].copies \in Seq(Copy)
  BY Zenon, <1>2 DEF Job
<1> QED
  BY <1>1, <1>2, <1>3

(* Conversely, every copy of a known Job is in AllCopies. *)
LEMMA CopyIn ==
    ASSUME NEW j \in DOMAIN jobs, NEW i \in DOMAIN jobs[j].copies
    PROVE  <<j, i>> \in AllCopies
BY DEF AllCopies

(* The copies of a known Job. *)
LEMMA CopiesType ==
    ASSUME TypeOK, NEW j \in DOMAIN jobs
    PROVE  /\ jobs[j] \in Job
           /\ jobs[j].copies \in Seq(Copy)
           /\ jobs[j].lastResult \in Results
           /\ \A i \in DOMAIN jobs[j].copies : jobs[j].copies[i] \in Copy
<1>1. jobs[j] \in Job
  BY Zenon DEF TypeOK
<1>2. jobs[j].copies \in Seq(Copy) /\ jobs[j].lastResult \in Results
  BY Zenon, <1>1 DEF Job, Results
<1> QED
  BY <1>1, <1>2

(* Copies that go where the old ones go are as distinct as those. *)
LEMMA SameHops ==
    ASSUME NEW old, NEW new, Distinct(old), DOMAIN new = DOMAIN old,
           \A i \in DOMAIN old : new[i].hop = old[i].hop /\ new[i].key = old[i].key
    PROVE  Distinct(new)
BY Zenon DEF Distinct

(* A Job all of whose copies are kept or changed in place is a rewrite. *)
LEMMA RewriteInPlace ==
    ASSUME Base, NEW j \in DOMAIN jobs, NEW copies \in Seq(Copy), NEW text \in Results,
           DOMAIN copies = DOMAIN jobs[j].copies,
           \A i \in DOMAIN copies : /\ copies[i].hop = jobs[j].copies[i].hop
                                     /\ copies[i].key = jobs[j].copies[i].key
    PROVE  Rewrite(j, WithCopies(jobs[j], copies, text))
<1>1. Distinct(copies)
  BY ZenonT(40), SameHops DEF Base, DistinctCopies
<1> QED
  BY Zenon, <1>1 DEF Rewrite

(* Claiming one copy of a Job is a rewrite of it. *)
LEMMA ClaimCopyRewrites ==
    ASSUME Base, NEW j \in DOMAIN jobs, NEW i \in DOMAIN jobs[j].copies,
           NEW token \in Tokens, jobs[j].copies[i].attempts < MaxAttempts
    PROVE  LET copies == [jobs[j].copies EXCEPT ![i] = Claimed(jobs[j].copies[i], token)]
           IN /\ copies \in Seq(Copy)
              /\ ClaimCopy(j, i, token) = WithCopies(jobs[j], copies, jobs[j].lastResult)
              /\ Rewrite(j, ClaimCopy(j, i, token))
<1> DEFINE old == jobs[j].copies
           new == [old EXCEPT ![i] = Claimed(old[i], token)]
<1>1. old \in Seq(Copy) /\ old[i] \in Copy /\ jobs[j].lastResult \in Results
  BY Zenon, CopiesType DEF Base
<1>2. /\ Claimed(old[i], token) \in Copy
      /\ Claimed(old[i], token).hop = old[i].hop
      /\ Claimed(old[i], token).key = old[i].key
  BY Zenon, <1>1, ClaimedFields
<1>3. new \in Seq(Copy) /\ DOMAIN new = DOMAIN old
  BY Zenon, <1>1, <1>2, SetCopy
<1>4. \A k \in DOMAIN new : new[k].hop = old[k].hop /\ new[k].key = old[k].key
  BY Zenon, <1>2
<1>5. ClaimCopy(j, i, token) = WithCopies(jobs[j], new, jobs[j].lastResult)
  BY Zenon DEF ClaimCopy
<1> HIDE DEF new
<1>6. Rewrite(j, WithCopies(jobs[j], new, jobs[j].lastResult))
  BY Zenon, <1>1, <1>3, <1>4, RewriteInPlace
<1> QED
  BY Zenon, <1>3, <1>5, <1>6 DEF new

(* claim_scheduled rewrites the Job of the copy it claims. *)
LEMMA ClaimScheduledUpdates ==
    ASSUME Base, NEW selection, NEW asOf, NEW j, NEW i, NEW token,
           ClaimScheduled(selection, asOf, j, i, token)
    PROVE  /\ Updates
           /\ j \in DOMAIN jobs
           /\ i \in DOMAIN jobs[j].copies
           /\ token \in Tokens
<1>1. <<j, i>> \in AllCopies
  BY Zenon DEF ClaimScheduled, Eligible
<1>2. j \in DOMAIN jobs /\ i \in DOMAIN jobs[j].copies
  BY Zenon, <1>1, CopyOf DEF Base
<1>3. token \in Tokens /\ jobs[j].copies[i].attempts < MaxAttempts
  BY Zenon DEF ClaimScheduled, FreshTokens
<1> DEFINE writes == [k \in {j} |-> ClaimCopy(j, i, token)]
<1>4. \A k \in DOMAIN writes \cap DOMAIN jobs : Rewrite(k, writes[k])
  BY <1>2, <1>3, ClaimCopyRewrites, ZenonT(60)
<1>5. Save(writes)
  BY Zenon DEF ClaimScheduled
<1> HIDE DEF writes
<1>6. Updates
  BY Zenon, <1>4, <1>5, SaveUpdates DEF Base
<1> QED
  BY Zenon, <1>2, <1>3, <1>6

(* A Job has at most one copy in a poll snapshot, and that is its last. *)
LEMMA OneCopyPerJob ==
    ASSUME Base, NEW peer, NEW kinds, NEW p \in Snapshot(peer, kinds)
    PROVE  LastOf(Snapshot(peer, kinds), p[1]) = p[2]
<1> DEFINE snapshot == Snapshot(peer, kinds)
           indexes == {x[2] : x \in {q \in snapshot : q[1] = p[1]}}
<1>1. \A q \in snapshot : q \in AllCopies /\ <<jobs[q[1]].copies[q[2]].hop,
                                              jobs[q[1]].copies[q[2]].key>> = peer
  BY Zenon DEF Snapshot
<1>2. \A q \in snapshot : q[1] = p[1] => q[2] = p[2]
  <2> SUFFICES ASSUME NEW q \in snapshot, q[1] = p[1]
               PROVE  q[2] = p[2]
    BY Zenon
  <2>1. /\ p[1] \in DOMAIN jobs
        /\ p[2] \in DOMAIN jobs[p[1]].copies
        /\ q[2] \in DOMAIN jobs[p[1]].copies
    BY ZenonT(40), <1>1, CopyOf DEF Base
  <2>2. /\ jobs[p[1]].copies[q[2]].hop = jobs[p[1]].copies[p[2]].hop
        /\ jobs[p[1]].copies[q[2]].key = jobs[p[1]].copies[p[2]].key
    BY SMTT(60), <1>1
  <2> QED
    BY Zenon, <2>1, <2>2 DEF Base, DistinctCopies, Distinct
<1>3. indexes = {p[2]}
  BY Zenon, <1>2
<1>4. p[2] \in Nat
  <2>1. p[1] \in DOMAIN jobs /\ p[2] \in DOMAIN jobs[p[1]].copies
    BY Zenon, <1>1, CopyOf DEF Base
  <2>2. jobs[p[1]].copies \in Seq(Copy)
    BY Zenon, <2>1, CopiesType DEF Base
  <2> QED
    BY <2>1, <2>2
<1>5. \A q \in snapshot : q[1] = p[1] => q[2] <= p[2]
  BY <1>2, <1>4
<1>6. LastOf(snapshot, p[1]) =
          CHOOSE i \in indexes : \A q \in snapshot : q[1] = p[1] => q[2] <= i
  BY Zenon DEF LastOf
<1> HIDE DEF indexes, snapshot
<1>7. LastOf(snapshot, p[1]) = p[2]
  BY Zenon, <1>3, <1>5, <1>6
<1> QED
  BY Zenon, <1>7 DEF snapshot

(* claim_poll_snapshot claims exactly the copies of its snapshot. *)
LEMMA ClaimPollUpdates ==
    ASSUME Base, NEW peer, NEW kinds,
           NEW tokenOf \in [Snapshot(peer, kinds) -> FreshTokens],
           ClaimPollSnapshot(peer, kinds, tokenOf)
    PROVE  /\ Updates
           /\ \A p \in Snapshot(peer, kinds) :
                  jobs'[p[1]] = ClaimCopy(p[1], p[2], tokenOf[p])
           /\ \A j \in DOMAIN jobs :
                  jobs'[j] = jobs[j] \/ \E p \in Snapshot(peer, kinds) : p[1] = j
<1> DEFINE snapshot == Snapshot(peer, kinds)
           writes == [j \in {p[1] : p \in snapshot} |->
                         LET i == LastOf(snapshot, j)
                         IN ClaimCopy(j, i, tokenOf[<<j, i>>])]
<1>1. Save(writes) /\ \A p \in snapshot : jobs[p[1]].copies[p[2]].attempts < MaxAttempts
  BY Zenon DEF ClaimPollSnapshot
<1>2. \A p \in snapshot : /\ p \in AllCopies
                          /\ p[1] \in DOMAIN jobs
                          /\ p[2] \in DOMAIN jobs[p[1]].copies
                          /\ p = <<p[1], p[2]>>
  BY Zenon, CopyOf DEF Base, Snapshot
<1>3. ASSUME NEW p \in snapshot
      PROVE  p[1] \in DOMAIN writes /\ writes[p[1]] = ClaimCopy(p[1], p[2], tokenOf[p])
  <2>1. LastOf(snapshot, p[1]) = p[2]
    BY Zenon, OneCopyPerJob
  <2> QED
    BY Zenon, <1>2, <2>1
<1>4. \A j \in DOMAIN writes : \E p \in snapshot : p[1] = j
  BY Zenon
<1>5. \A p \in snapshot : tokenOf[p] \in Tokens
  BY Zenon DEF FreshTokens
<1>6. \A p \in snapshot : Rewrite(p[1], ClaimCopy(p[1], p[2], tokenOf[p]))
  BY Zenon, <1>1, <1>2, <1>5, ClaimCopyRewrites
<1> HIDE DEF writes, snapshot
<1>7. \A j \in DOMAIN writes \cap DOMAIN jobs : Rewrite(j, writes[j])
  BY <1>3, <1>4, <1>6
<1>8. Updates
  BY Zenon, <1>1, <1>7, SaveUpdates DEF Base
<1>9. \A p \in snapshot : jobs'[p[1]] = ClaimCopy(p[1], p[2], tokenOf[p])
  BY Zenon, <1>1, <1>2, <1>3 DEF Save
<1>10. \A j \in DOMAIN jobs : jobs'[j] = jobs[j] \/ \E p \in snapshot : p[1] = j
  BY Zenon, <1>1, <1>4 DEF Save
<1> QED
  BY Zenon, <1>8, <1>9, <1>10 DEF snapshot

(* finish_delivery rewrites the Job of the copy it answers for. *)
LEMMA FinishDeliveryUpdates ==
    ASSUME Base, NEW c, NEW outcome \in Outcomes, NEW text \in Texts,
           FinishDelivery(c, outcome, text)
    PROVE  Updates
<1> DEFINE old == jobs[c.job].copies
           new == [old EXCEPT ![c.index] = Finished(old[c.index], outcome)]
           writes == [k \in {c.job} |-> WithCopies(jobs[c.job], new, text)]
<1>1. Save(writes)
  BY Zenon DEF FinishDelivery
<1>2. ASSUME c.job \in DOMAIN jobs
      PROVE  Rewrite(c.job, WithCopies(jobs[c.job], new, text))
  <2>1. old \in Seq(Copy) /\ \A i \in DOMAIN old : old[i] \in Copy
    BY Zenon, <1>2, CopiesType DEF Base
  <2>2. c.index \in DOMAIN old => /\ Finished(old[c.index], outcome) \in Copy
                                  /\ Finished(old[c.index], outcome).hop = old[c.index].hop
                                  /\ Finished(old[c.index], outcome).key = old[c.index].key
    BY Zenon, <2>1, FinishedFields
  <2>3. new \in Seq(Copy) /\ DOMAIN new = DOMAIN old
    BY <2>1, <2>2, SetCopy, ZenonT(60)
  <2>4. \A k \in DOMAIN new : new[k].hop = old[k].hop /\ new[k].key = old[k].key
    BY Zenon, <2>2
  <2>5. text \in Results
    BY Zenon DEF Results
  <2> HIDE DEF new
  <2> QED
    BY Zenon, <1>2, <2>3, <2>4, <2>5, RewriteInPlace
<1>3. \A k \in DOMAIN writes \cap DOMAIN jobs : Rewrite(k, writes[k])
  BY Zenon, <1>2
<1> HIDE DEF writes
<1> QED
  BY Zenon, <1>1, <1>3, SaveUpdates DEF Base

(* A control request leaves the tables alone or rewrites its Job. *)
LEMMA ControlUpdates ==
    ASSUME Base, NEW j \in DOMAIN jobs, NEW op, NEW outcome, NEW copies, NEW text, NEW target,
           outcome = "Completed" => Rewrite(j, WithCopies(jobs[j], copies, text)),
           Control(j, op, outcome, copies, text, target)
    PROVE  Updates
<1>1. CASE UNCHANGED <<jobs, events>>
  BY Zenon, <1>1 DEF Updates, Base, TypeOK
<1>2. CASE /\ outcome = "Completed"
           /\ Save([k \in {j} |-> WithCopies(jobs[j], copies, text)])
  <2> DEFINE writes == [k \in {j} |-> WithCopies(jobs[j], copies, text)]
  <2>1. \A k \in DOMAIN writes \cap DOMAIN jobs : Rewrite(k, writes[k])
    BY Zenon, <1>2
  <2>2. Save(writes)
    BY Zenon, <1>2
  <2> HIDE DEF writes
  <2> QED
    BY Zenon, <2>1, <2>2, SaveUpdates DEF Base
<1> QED
  BY Zenon, <1>1, <1>2 DEF Control

(* Cancel and Retry change copies in place. *)
LEMMA ChangeCopiesRewrites ==
    ASSUME Base, NEW j \in DOMAIN jobs, NEW from, NEW to \in States, NEW text \in Results
    PROVE  Rewrite(j, WithCopies(jobs[j], ChangeCopies(jobs[j], from, to), text))
<1> DEFINE old == jobs[j].copies
           new == ChangeCopies(jobs[j], from, to)
<1>1. old \in Seq(Copy) /\ \A i \in DOMAIN old : old[i] \in Copy
  BY Zenon, CopiesType DEF Base
<1>2. new = [i \in DOMAIN old |-> IF old[i].state \in from THEN Requeue(old[i], to)
                                  ELSE old[i]]
  BY Zenon DEF ChangeCopies
<1>3. \A i \in DOMAIN old : /\ Requeue(old[i], to) \in Copy
                            /\ Requeue(old[i], to).hop = old[i].hop
                            /\ Requeue(old[i], to).key = old[i].key
  BY Zenon, <1>1, RequeueFields
<1>4. DOMAIN new = DOMAIN old /\ \A i \in DOMAIN old : /\ new[i] \in Copy
                                                       /\ new[i].hop = old[i].hop
                                                       /\ new[i].key = old[i].key
  BY Zenon, <1>1, <1>2, <1>3
<1>5. new = [i \in DOMAIN old |-> new[i]]
  BY Zenon, <1>2
<1> HIDE DEF new
<1>6. new \in Seq(Copy)
  BY Zenon, <1>1, <1>4, <1>5, MapCopies
<1>7. Rewrite(j, WithCopies(jobs[j], new, text))
  BY Zenon, <1>4, <1>6, RewriteInPlace
<1> QED
  BY Zenon, <1>7 DEF new

(* cancel leaves the tables alone or rewrites its Job. *)
LEMMA CancelUpdates ==
    ASSUME Base, NEW j \in DOMAIN jobs, Cancel(j)
    PROVE  Updates
<1> DEFINE copies == ChangeCopies(jobs[j], Cancellable, "Cancelled")
<1>1. Rewrite(j, WithCopies(jobs[j], copies, "Cancelled"))
  BY Zenon, ChangeCopiesRewrites DEF States, Results, ControlTexts
<1>2. PICK outcome : Control(j, "Cancel", outcome, copies, "Cancelled", {})
  BY Zenon DEF Cancel
<1> HIDE DEF copies
<1> QED
  BY Zenon, <1>1, <1>2, ControlUpdates

(* retry leaves the tables alone or rewrites its Job. *)
LEMMA RetryUpdates ==
    ASSUME Base, NEW j \in DOMAIN jobs, Retry(j)
    PROVE  Updates
<1> DEFINE copies == ChangeCopies(jobs[j], Retriable, "Queued")
<1>1. Rewrite(j, WithCopies(jobs[j], copies, "Retry requested"))
  BY Zenon, ChangeCopiesRewrites DEF States, Results, ControlTexts
<1>2. PICK outcome : Control(j, "Retry", outcome, copies, "Retry requested", {})
  BY Zenon DEF Retry
<1> HIDE DEF copies
<1> QED
  BY Zenon, <1>1, <1>2, ControlUpdates

(* Reroute moves the only copy of its Job, so distinctness is not at stake. *)
LEMMA RerouteUpdates ==
    ASSUME Base, NEW j \in DOMAIN jobs, NEW d \in NewDelivery, Reroute(j, d)
    PROVE  Updates
<1> DEFINE old == jobs[j].copies
           new == [i \in DOMAIN old |-> Rerouted(old[i], d)]
           outcome == IF jobs[j].state = "Active" THEN "Busy"
                      ELSE IF Reroutable(jobs[j]) THEN "Completed" ELSE "NotPermitted"
<1>1. Control(j, "Reroute", outcome, new, "Rerouted", {d})
  BY Zenon DEF Reroute
<1>2. ASSUME outcome = "Completed"
      PROVE  Rewrite(j, WithCopies(jobs[j], new, "Rerouted"))
  <2>1. DOMAIN old = {1}
    BY Zenon, <1>2 DEF Reroutable
  <2>2. old \in Seq(Copy) /\ \A i \in DOMAIN old : old[i] \in Copy
    BY Zenon, CopiesType DEF Base
  <2>3. \A i \in DOMAIN old : new[i] \in Copy
    BY Zenon, <2>2, ReroutedFields
  <2>4. new = [i \in DOMAIN old |-> new[i]] /\ DOMAIN new = DOMAIN old
    BY Zenon
  <2> HIDE DEF new
  <2>5. new \in Seq(Copy)
    BY Zenon, <2>2, <2>3, <2>4, MapCopies
  <2>6. Distinct(new)
    BY Zenon, <2>1, <2>4 DEF Distinct
  <2>7. "Rerouted" \in Results
    BY Zenon DEF Results, ControlTexts
  <2> QED
    BY Zenon, <2>4, <2>5, <2>6, <2>7 DEF Rewrite
<1> HIDE DEF new, outcome
<1> QED
  BY Zenon, <1>1, <1>2, ControlUpdates

(* recover_active rewrites the Jobs with an Active copy. *)
LEMMA StartMailUpdates ==
    ASSUME Base, StartMail
    PROVE  /\ Updates
           /\ \A j \in DOMAIN jobs : \A i \in DOMAIN jobs[j].copies :
                  jobs'[j].copies[i] = Recovered(jobs[j].copies[i])
<1>0. now \in Times
  BY Zenon DEF Base, TypeOK
<1> DEFINE New(j) == [i \in DOMAIN jobs[j].copies |-> Recovered(jobs[j].copies[i])]
           writes == [j \in {k \in DOMAIN jobs : HasActive(jobs[k])} |->
                          WithCopies(jobs[j], New(j), "recovered")]
<1>1. Save(writes)
  BY Zenon DEF StartMail, RecoverActive
<1>2. ASSUME NEW j \in DOMAIN jobs
      PROVE  /\ New(j) \in Seq(Copy)
             /\ Rewrite(j, WithCopies(jobs[j], New(j), "recovered"))
  <2> DEFINE old == jobs[j].copies
             new == New(j)
  <2>1. old \in Seq(Copy) /\ \A i \in DOMAIN old : old[i] \in Copy
    BY Zenon, CopiesType DEF Base
  <2>2. \A i \in DOMAIN old : /\ new[i] \in Copy
                              /\ new[i].hop = old[i].hop
                              /\ new[i].key = old[i].key
    BY Zenon, <1>0, <2>1, RecoveredFields
  <2>3. new = [i \in DOMAIN old |-> new[i]] /\ DOMAIN new = DOMAIN old
    BY Zenon
  <2>4. "recovered" \in Results
    BY Zenon DEF Results, ControlTexts
  <2> HIDE DEF new
  <2>5. new \in Seq(Copy)
    BY Zenon, <2>1, <2>2, <2>3, MapCopies
  <2>6. Rewrite(j, WithCopies(jobs[j], new, "recovered"))
    BY Zenon, <2>2, <2>3, <2>4, <2>5, RewriteInPlace
  <2> QED
    BY Zenon, <2>5, <2>6 DEF new
<1>3. \A j \in DOMAIN writes \cap DOMAIN jobs : Rewrite(j, writes[j])
  BY Zenon, <1>2
<1>4. ASSUME NEW j \in DOMAIN jobs, NEW i \in DOMAIN jobs[j].copies
      PROVE  jobs'[j].copies[i] = Recovered(jobs[j].copies[i])
  <2>1. CASE HasActive(jobs[j])
    <3>1. jobs'[j] = WithCopies(jobs[j], New(j), "recovered")
      BY Zenon, <1>1, <2>1 DEF Save
    <3>2. jobs[j] \in Job /\ "recovered" \in Results
      BY Zenon, CopiesType DEF Base, Results, ControlTexts
    <3>3. New(j)[i] = Recovered(jobs[j].copies[i])
      BY Zenon
    <3> HIDE DEF New
    <3>4. jobs'[j].copies = New(j)
      BY <1>2, <3>1, <3>2, WithCopiesFields, SMTT(60)
    <3> QED
      BY Zenon, <3>3, <3>4
  <2>2. CASE ~ HasActive(jobs[j])
    BY Zenon, <1>1, <2>2 DEF Save, HasActive, Recovered
  <2> QED
    BY Zenon, <2>1, <2>2
<1> HIDE DEF writes
<1>5. Updates
  BY Zenon, <1>1, <1>3, SaveUpdates DEF Base
<1> QED
  BY Zenon, <1>4, <1>5
-----------------------------------------------------------------------------
(* A newly made Job. *)
LEMMA MakeJobFields ==
    ASSUME NEW id \in Identities, NEW b \in Blueprints, NEW created \in Times
    PROVE  LET job == MakeJob(id, b, created)
           IN /\ job \in Job
              /\ job.identity = id
              /\ job.state = AggregateState(job.copies)
              /\ Distinct(job.copies)
              /\ \A i \in DOMAIN job.copies : /\ job.copies[i].state = "Queued"
                                              /\ job.copies[i].retryAt = NoTime
                                              /\ job.copies[i].token = NoToken
<1> DEFINE copies == [i \in DOMAIN b.copies |-> MakeCopy(b.copies[i])]
<1>1. b.kind \in Kinds /\ b.copies \in Seq(NewDelivery) /\ DistinctIdentities(b)
  BY Zenon, BlueprintAssumption
<1>2. \A i \in DOMAIN b.copies : b.copies[i] \in NewDelivery
  BY <1>1
<1>3. \A i \in DOMAIN b.copies : /\ copies[i] \in Copy
                                 /\ copies[i].state = "Queued"
                                 /\ copies[i].retryAt = NoTime
                                 /\ copies[i].token = NoToken
                                 /\ copies[i].hop = b.copies[i].hop
                                 /\ copies[i].key = b.copies[i].key
  BY Zenon, <1>2, MakeCopyFields
<1>4. DOMAIN copies = DOMAIN b.copies /\ copies = [i \in DOMAIN b.copies |-> copies[i]]
  BY Zenon
<1>5. MakeJob(id, b, created) =
          [identity |-> id, kind |-> b.kind, created |-> created, copies |-> copies,
           state |-> AggregateState(copies), lastResult |-> NoResult]
  BY Zenon DEF MakeJob
<1> HIDE DEF copies
<1>6. copies \in Seq(Copy)
  BY Zenon, <1>1, <1>3, <1>4, MapCopies
<1>7. Distinct(copies)
  BY <1>1, <1>3, <1>4, ZenonT(60) DEF Distinct, DistinctIdentities
<1>8. AggregateState(copies) \in States
  BY Zenon, AggregateType
<1>9. MakeJob(id, b, created) \in Job
  BY <1>1, <1>5, <1>6, <1>8 DEF Job, ControlTexts
<1>10. /\ MakeJob(id, b, created).identity = id
       /\ MakeJob(id, b, created).copies = copies
       /\ MakeJob(id, b, created).state = AggregateState(copies)
  BY <1>5
<1> QED
  BY Zenon, <1>3, <1>4, <1>7, <1>9, <1>10

(* What commit_batch adds to the tables. *)
Committed(batch, jobOf, created) ==
    /\ jobs' = [j \in DOMAIN jobs' |-> jobs'[j]]
    /\ events' = [j \in DOMAIN jobs' |-> events'[j]]
    /\ DOMAIN jobs' = DOMAIN jobs \cup {jobOf[id] : id \in NewIdentities(batch)}
    /\ \A j \in DOMAIN jobs : jobs'[j] = jobs[j] /\ events'[j] = events[j]
    /\ \A id \in NewIdentities(batch) :
           /\ id \in Identities
           /\ batch[id] \in Blueprints
           /\ jobOf[id] \in JobIds \ DOMAIN jobs
           /\ jobs'[jobOf[id]] = MakeJob(id, batch[id], created)
           /\ events'[jobOf[id]] = <<Numbered(jobs'[jobOf[id]], "None")>>
    /\ submissions' =
           [id \in DOMAIN submissions \cup NewIdentities(batch) |->
               IF id \in NewIdentities(batch)
               THEN [job |-> jobOf[id], digest |-> DigestOf(id, batch[id])]
               ELSE submissions[id]]

(* commit_batch adds one Job for every new identity and touches no other. *)
LEMMA CommitBatchAdds ==
    ASSUME Base, NEW batch \in Batches, NEW created \in Times,
           NEW jobOf \in [NewIdentities(batch) -> JobIds \ DOMAIN jobs],
           CommitBatch(batch, jobOf, created)
    PROVE  Committed(batch, jobOf, created)
<1> DEFINE IdOf(j) == CHOOSE id \in NewIdentities(batch) : jobOf[id] = j
           new == [j \in {jobOf[id] : id \in NewIdentities(batch)} |->
                      MakeJob(IdOf(j), batch[IdOf(j)], created)]
<1>1. /\ jobs' = [j \in DOMAIN jobs \cup DOMAIN new |->
                     IF j \in DOMAIN new THEN new[j] ELSE jobs[j]]
      /\ events' = FirstEvents(new)
      /\ Injective(jobOf)
  BY Zenon DEF CommitBatch
<1>2. \A id \in NewIdentities(batch) : id \in Identities /\ batch[id] \in Blueprints
  BY DEF Batches, NewIdentities
<1>3. \A id \in NewIdentities(batch) : /\ jobOf[id] \in DOMAIN new
                                       /\ jobOf[id] \notin DOMAIN jobs
                                       /\ IdOf(jobOf[id]) = id
  <2> SUFFICES ASSUME NEW id \in NewIdentities(batch)
               PROVE  jobOf[id] \in DOMAIN new /\ jobOf[id] \notin DOMAIN jobs
                      /\ IdOf(jobOf[id]) = id
    BY Zenon
  <2>1. jobOf[id] \in DOMAIN new /\ jobOf[id] \notin DOMAIN jobs
    BY Zenon
  <2>2. \A x \in NewIdentities(batch) : jobOf[x] = jobOf[id] => x = id
    BY Zenon, <1>1 DEF Injective
  <2>3. IdOf(jobOf[id]) = id
    BY Zenon, <2>2
  <2> QED
    BY Zenon, <2>1, <2>3
<1>4. \A id \in NewIdentities(batch) : new[jobOf[id]] = MakeJob(id, batch[id], created)
  <2> SUFFICES ASSUME NEW id \in NewIdentities(batch)
               PROVE  new[jobOf[id]] = MakeJob(id, batch[id], created)
    BY Zenon
  <2>1. new[jobOf[id]] = MakeJob(IdOf(jobOf[id]), batch[IdOf(jobOf[id])], created)
    BY Zenon, <1>3
  <2> HIDE DEF IdOf
  <2> QED
    BY Zenon, <1>3, <2>1
<1>5. DOMAIN new = {jobOf[id] : id \in NewIdentities(batch)}
  BY Zenon
<1>6. \A j \in DOMAIN jobs : j \notin DOMAIN new
  BY Zenon
<1>7. submissions' =
          [id \in DOMAIN submissions \cup NewIdentities(batch) |->
              IF id \in NewIdentities(batch)
              THEN [job |-> jobOf[id], digest |-> DigestOf(id, batch[id])]
              ELSE submissions[id]]
  BY Zenon DEF CommitBatch
<1> HIDE DEF new, IdOf
<1>8. DOMAIN events = DOMAIN jobs
  BY Zenon DEF Base, TypeOK
<1>9. events' = [j \in DOMAIN jobs \cup DOMAIN new |->
                    IF j \in DOMAIN new THEN <<Numbered(new[j], "None")>> ELSE events[j]]
  BY Zenon, <1>1, <1>8 DEF FirstEvents
<1>10. /\ DOMAIN jobs' = DOMAIN jobs \cup DOMAIN new
       /\ jobs' = [j \in DOMAIN jobs' |-> jobs'[j]]
       /\ events' = [j \in DOMAIN jobs' |-> events'[j]]
  BY Zenon, <1>1, <1>9
<1>11. \A j \in DOMAIN jobs : jobs'[j] = jobs[j] /\ events'[j] = events[j]
  BY Zenon, <1>1, <1>6, <1>9
<1>12. \A j \in DOMAIN new : jobs'[j] = new[j] /\ events'[j] = <<Numbered(new[j], "None")>>
  BY Zenon, <1>1, <1>9
<1>13. \A id \in NewIdentities(batch) :
           /\ jobs'[jobOf[id]] = MakeJob(id, batch[id], created)
           /\ events'[jobOf[id]] = <<Numbered(jobs'[jobOf[id]], "None")>>
  BY Zenon, <1>3, <1>4, <1>12
<1> QED
  BY Zenon, <1>2, <1>5, <1>7, <1>10, <1>11, <1>13 DEF Committed
-----------------------------------------------------------------------------
(* A step with the shape of Updates preserves Base when the rest is typed. *)
LEMMA UpdatesPreserveBase ==
    ASSUME Base, Updates, submissions' = submissions,
           service' \in {"Down", "Mail", "Listen", "Ipc"}, claims' \subseteq Claim,
           now' \in Times, reply' \in Reply \cup {NoReply}
    PROVE  Base'
<1>1. /\ DOMAIN jobs' = DOMAIN jobs
      /\ DOMAIN events' = DOMAIN jobs
      /\ jobs' \in [DOMAIN jobs -> Job]
      /\ events' \in [DOMAIN jobs -> Seq(Event)]
      /\ DistinctCopies'
  BY Zenon, UpdatesBase
<1>2. TypeOK'
  BY Zenon, <1>1 DEF Base, TypeOK
<1> QED
  BY Zenon, <1>1, <1>2 DEF Base

(* A table whose entries are typed is a typed function. *)
LEMMA TypedTable ==
    ASSUME NEW D, NEW S, NEW f, f = [x \in D |-> f[x]], \A x \in D : f[x] \in S
    PROVE  DOMAIN f = D /\ f \in [D -> S]
<1> DEFINE g == [x \in D |-> f[x]]
<1>1. DOMAIN g = D /\ g \in [D -> S]
  BY Zenon
<1> QED
  BY Zenon, <1>1

(* commit_batch keeps the tables in their types. *)
LEMMA CommitPreservesBase ==
    ASSUME Base, NEW batch \in Batches, NEW created \in Times,
           NEW jobOf \in [NewIdentities(batch) -> JobIds \ DOMAIN jobs],
           CommitBatch(batch, jobOf, created)
    PROVE  Base'
<1> DEFINE new == NewIdentities(batch)
<1>0. Committed(batch, jobOf, created)
  BY Zenon, CommitBatchAdds
<1>1. /\ DOMAIN jobs' = DOMAIN jobs \cup {jobOf[id] : id \in new}
      /\ jobs' = [j \in DOMAIN jobs' |-> jobs'[j]]
      /\ events' = [j \in DOMAIN jobs' |-> events'[j]]
      /\ \A j \in DOMAIN jobs : jobs'[j] = jobs[j] /\ events'[j] = events[j]
  BY Zenon, <1>0 DEF Committed
<1>2. \A id \in new : /\ id \in Identities
                      /\ batch[id] \in Blueprints
                      /\ jobs'[jobOf[id]] = MakeJob(id, batch[id], created)
                      /\ events'[jobOf[id]] = <<Numbered(jobs'[jobOf[id]], "None")>>
  BY Zenon, <1>0 DEF Committed
<1>3. submissions' = [id \in DOMAIN submissions \cup new |->
                         IF id \in new
                         THEN [job |-> jobOf[id], digest |-> DigestOf(id, batch[id])]
                         ELSE submissions[id]]
  BY Zenon, <1>0 DEF Committed
<1>4. reply' = NoReply /\ service' = service /\ claims' = claims /\ now' = now
  BY Zenon DEF CommitBatch
<1>5. \A id \in new : jobOf[id] \in JobIds
  BY Zenon
<1> HIDE DEF new
<1>6. ASSUME NEW j \in DOMAIN jobs'
      PROVE  jobs'[j] \in Job /\ events'[j] \in Seq(Event) /\ Distinct(jobs'[j].copies)
  <2>1. CASE j \in DOMAIN jobs
    BY Zenon, <1>1, <2>1 DEF Base, TypeOK, DistinctCopies
  <2>2. CASE j \notin DOMAIN jobs
    <3>1. PICK id \in new : j = jobOf[id]
      BY Zenon, <1>1, <2>2
    <3>2. jobs'[j] \in Job /\ Distinct(jobs'[j].copies)
      <4>1. PICK b \in Blueprints : jobs'[j] = MakeJob(id, b, created)
        BY Zenon, <1>2, <3>1
      <4>2. id \in Identities
        BY Zenon, <1>2
      <4>3. MakeJob(id, b, created) \in Job /\ Distinct(MakeJob(id, b, created).copies)
        BY Zenon, <4>2, MakeJobFields
      <4> QED
        BY Zenon, <4>1, <4>3
    <3>3. Numbered(jobs'[j], "None") \in Event
      BY Zenon, <3>2 DEF Numbered, Event, Job
    <3>4. events'[j] = <<Numbered(jobs'[j], "None")>>
      BY Zenon, <1>2, <3>1
    <3>5. events'[j] \in Seq(Event)
      BY <3>3, <3>4
    <3> QED
      BY Zenon, <3>2, <3>5
  <2> QED
    BY Zenon, <2>1, <2>2
<1>7. \A id \in new : DigestOf(id, batch[id]) \in Digests
  BY Zenon, <1>2 DEF DigestOf, Digests
<1>8. /\ DOMAIN submissions' \subseteq Identities
      /\ submissions' \in [DOMAIN submissions' -> [job : JobIds, digest : Digests]]
  BY Zenon, <1>2, <1>3, <1>5, <1>7 DEF Base, TypeOK
<1>9. /\ DOMAIN jobs' \subseteq JobIds
      /\ jobs' \in [DOMAIN jobs' -> Job]
      /\ DOMAIN events' = DOMAIN jobs'
      /\ events' \in [DOMAIN events' -> Seq(Event)]
  <2>1. DOMAIN jobs' \subseteq JobIds
    BY Zenon, <1>1, <1>5 DEF Base, TypeOK
  <2>2. jobs' \in [DOMAIN jobs' -> Job]
    BY Zenon, <1>1, <1>6, TypedTable
  <2>3. DOMAIN events' = DOMAIN jobs' /\ events' \in [DOMAIN jobs' -> Seq(Event)]
    BY Zenon, <1>1, <1>6, TypedTable
  <2> QED
    BY Zenon, <2>1, <2>2, <2>3
<1>10. DistinctCopies'
  BY Zenon, <1>6 DEF DistinctCopies
<1>11. TypeOK'
  BY Zenon, <1>4, <1>8, <1>9 DEF Base, TypeOK
<1> QED
  BY Zenon, <1>10, <1>11 DEF Base

(* acknowledge_event keeps the tables in their types. *)
LEMMA AcknowledgePreservesBase ==
    ASSUME Base, NEW j \in DOMAIN jobs, NEW n \in DOMAIN events[j], AcknowledgeEvent(j, n)
    PROVE  Base'
<1>1. /\ events' = [events EXCEPT ![j][n].acknowledged = TRUE]
      /\ UNCHANGED <<service, jobs, submissions, claims, now>>
      /\ reply' = NoReply
  BY Zenon DEF AcknowledgeEvent
<1>2. events[j] \in Seq(Event) /\ DOMAIN events = DOMAIN jobs
  BY Zenon DEF Base, TypeOK
<1>3. events[j][n] \in Event
  BY <1>2
<1> DEFINE acked == [events[j][n] EXCEPT !.acknowledged = TRUE]
<1>4. acked \in Event
  BY Zenon, <1>3 DEF Event
<1>5. events' = [events EXCEPT ![j] = [events[j] EXCEPT ![n] = acked]]
  BY Zenon, <1>1
<1> HIDE DEF acked
<1>6. [events[j] EXCEPT ![n] = acked] \in Seq(Event)
  <2>1. events[j] \in [1 .. Len(events[j]) -> Event] /\ Len(events[j]) \in Nat
    BY <1>2
  <2>2. [events[j] EXCEPT ![n] = acked] \in [1 .. Len(events[j]) -> Event]
    BY Zenon, <2>1, <1>4
  <2> QED
    BY <2>1, <2>2, SeqDef
<1>7. DOMAIN events' = DOMAIN jobs /\ events' \in [DOMAIN events' -> Seq(Event)]
  BY Zenon, <1>2, <1>5, <1>6 DEF Base, TypeOK
<1>8. TypeOK'
  BY Zenon, <1>1, <1>7 DEF Base, TypeOK
<1> QED
  BY Zenon, <1>1, <1>8 DEF Base, DistinctCopies

(* A control request leaves the claims, the clock and the service alone. *)
LEMMA ControlFrame ==
    ASSUME NEW j \in JobIds, NEW op \in {"Cancel", "Retry", "Reroute"},
           NEW outcome \in {"Completed", "Busy", "NotPermitted"},
           NEW copies, NEW text, NEW target \in SUBSET NewDelivery,
           Control(j, op, outcome, copies, text, target)
    PROVE  /\ UNCHANGED <<service, submissions, claims, now>>
           /\ reply' \in Reply
BY Zenon DEF Control, Reply

(***************************************************************************)
(* Every step has one of three shapes, and keeps the rest of the state in  *)
(* its types.                                                              *)
(***************************************************************************)
RestTyped ==
    /\ service' \in {"Down", "Mail", "Listen", "Ipc"}
    /\ claims' \subseteq Claim
    /\ now' \in Times
    /\ reply' \in Reply \cup {NoReply}

Acknowledges ==
    \E j \in DOMAIN jobs : \E n \in DOMAIN events[j] : AcknowledgeEvent(j, n)

(* Submit, acknowledge_event, or an update: there is no fourth kind of step. *)
LEMMA StepShapes ==
    ASSUME Base, [Next]_vars
    PROVE  Submit \/ Acknowledges \/ (Updates /\ submissions' = submissions /\ RestTyped)
<1> USE DEF RestTyped
<1>0. TypeOK
  BY Zenon DEF Base
<1>1. CASE Submit
  BY Zenon, <1>1
<1>2. ASSUME NEW selection \in SUBSET PeerIdentities, NEW asOf \in Times,
             NEW p \in AllCopies, NEW token \in Tokens,
             ClaimScheduled(selection, asOf, p[1], p[2], token)
      PROVE  Updates /\ submissions' = submissions /\ RestTyped
  <2>1. Updates /\ p[1] \in DOMAIN jobs /\ p[2] \in DOMAIN jobs[p[1]].copies
    BY Zenon, <1>2, ClaimScheduledUpdates
  <2>2. p[1] \in JobIds /\ p[2] \in Nat
    BY <1>0, <2>1, CopiesType DEF TypeOK
  <2>3. /\ claims' = claims \cup {[job |-> p[1], index |-> p[2], token |-> token]}
        /\ reply' = NoReply
        /\ UNCHANGED <<service, submissions, now>>
    BY Zenon, <1>2 DEF ClaimScheduled
  <2> QED
    BY <1>0, <2>1, <2>2, <2>3 DEF TypeOK, Claim
<1>3. ASSUME NEW peer \in PeerIdentities, NEW kinds \in PollKinds,
             NEW tokenOf \in [Snapshot(peer, kinds) -> FreshTokens],
             ClaimPollSnapshot(peer, kinds, tokenOf)
      PROVE  Updates /\ submissions' = submissions /\ RestTyped
  <2>1. Updates
    BY Zenon, <1>3, ClaimPollUpdates
  <2>2. ASSUME NEW p \in Snapshot(peer, kinds)
        PROVE  p[1] \in JobIds /\ p[2] \in Nat /\ tokenOf[p] \in Tokens
    <3>1. p \in AllCopies
      BY Zenon DEF Snapshot
    <3>2. p[1] \in DOMAIN jobs /\ p[2] \in DOMAIN jobs[p[1]].copies
      BY Zenon, <1>0, <3>1, CopyOf
    <3> QED
      BY <1>0, <3>2, CopiesType, SMTT(60) DEF TypeOK, FreshTokens
  <2>3. /\ claims' = claims \cup {[job |-> p[1], index |-> p[2], token |-> tokenOf[p]] :
                                       p \in Snapshot(peer, kinds)}
        /\ reply' = NoReply
        /\ UNCHANGED <<service, submissions, now>>
    BY Zenon, <1>3 DEF ClaimPollSnapshot
  <2> QED
    BY SMTT(60), <1>0, <2>1, <2>2, <2>3 DEF TypeOK, Claim
<1>4. ASSUME NEW c \in claims, NEW outcome \in Outcomes, NEW text \in Texts,
             FinishDelivery(c, outcome, text)
      PROVE  Updates /\ submissions' = submissions /\ RestTyped
  <2>1. Updates
    BY Zenon, <1>4, FinishDeliveryUpdates
  <2>2. claims' = claims \ {c} /\ reply' = NoReply /\ UNCHANGED <<service, submissions, now>>
    BY Zenon, <1>4 DEF FinishDelivery
  <2> QED
    BY Zenon, <1>0, <2>1, <2>2 DEF TypeOK
<1>5. ASSUME NEW j \in DOMAIN jobs, Cancel(j)
      PROVE  Updates /\ submissions' = submissions /\ RestTyped
  <2>1. Updates
    BY Zenon, <1>5, CancelUpdates
  <2>2. PICK outcome \in {"Completed", "Busy", "NotPermitted"} :
            Control(j, "Cancel", outcome, ChangeCopies(jobs[j], Cancellable, "Cancelled"),
                    "Cancelled", {})
    BY Zenon, <1>5 DEF Cancel
  <2>3. j \in JobIds /\ {} \in SUBSET NewDelivery
    BY Zenon, <1>0 DEF TypeOK
  <2>4. UNCHANGED <<service, submissions, claims, now>> /\ reply' \in Reply
    BY ZenonT(40), <2>2, <2>3, ControlFrame
  <2> QED
    BY Zenon, <1>0, <2>1, <2>4 DEF TypeOK
<1>6. ASSUME NEW j \in DOMAIN jobs, Retry(j)
      PROVE  Updates /\ submissions' = submissions /\ RestTyped
  <2>1. Updates
    BY Zenon, <1>6, RetryUpdates
  <2>2. PICK outcome \in {"Completed", "Busy", "NotPermitted"} :
            Control(j, "Retry", outcome, ChangeCopies(jobs[j], Retriable, "Queued"),
                    "Retry requested", {})
    BY Zenon, <1>6 DEF Retry
  <2>3. j \in JobIds /\ {} \in SUBSET NewDelivery
    BY Zenon, <1>0 DEF TypeOK
  <2>4. UNCHANGED <<service, submissions, claims, now>> /\ reply' \in Reply
    BY Zenon, <2>2, <2>3, ControlFrame
  <2> QED
    BY Zenon, <1>0, <2>1, <2>4 DEF TypeOK
<1>7. ASSUME NEW j \in DOMAIN jobs, NEW d \in NewDelivery, Reroute(j, d)
      PROVE  Updates /\ submissions' = submissions /\ RestTyped
  <2>1. Updates
    BY Zenon, <1>7, RerouteUpdates
  <2>2. PICK outcome \in {"Completed", "Busy", "NotPermitted"} :
            Control(j, "Reroute", outcome,
                    [i \in DOMAIN jobs[j].copies |-> Rerouted(jobs[j].copies[i], d)],
                    "Rerouted", {d})
    BY Zenon, <1>7 DEF Reroute
  <2>3. j \in JobIds /\ {d} \in SUBSET NewDelivery
    BY Zenon, <1>0 DEF TypeOK
  <2>4. UNCHANGED <<service, submissions, claims, now>> /\ reply' \in Reply
    BY Zenon, <2>2, <2>3, ControlFrame
  <2> QED
    BY Zenon, <1>0, <2>1, <2>4 DEF TypeOK
<1>8. CASE StartMail
  <2>1. Updates
    BY Zenon, <1>8, StartMailUpdates
  <2>2. service' = "Mail" /\ reply' = NoReply /\ UNCHANGED <<submissions, claims, now>>
    BY Zenon, <1>8 DEF StartMail
  <2> QED
    BY Zenon, <1>0, <2>1, <2>2 DEF TypeOK
<1>9. CASE UNCHANGED <<jobs, events>> /\ submissions' = submissions /\ RestTyped
  BY Zenon, <1>0, <1>9 DEF Updates, TypeOK
<1>10. CASE Kill
  BY Zenon, <1>0, <1>9, <1>10 DEF Kill, TypeOK
<1>11. CASE StartIpc \/ StartListening
  BY Zenon, <1>0, <1>9, <1>11 DEF StartIpc, StartListening, TypeOK
<1>12. CASE Tick
  <2>1. now' \in Times
    BY <1>0, <1>12, SpoolAssumption DEF Tick, TypeOK, Times
  <2>2. UNCHANGED <<service, jobs, submissions, events, claims, reply>>
    BY Zenon, <1>12 DEF Tick
  <2> QED
    BY Zenon, <1>0, <1>9, <2>1, <2>2 DEF TypeOK
<1>13. CASE UNCHANGED vars
  BY Zenon, <1>0, <1>9, <1>13 DEF vars, TypeOK
<1>14. CASE Work
  BY Zenon, <1>2, <1>3, <1>4, <1>14 DEF Work
<1>15. CASE ControlRequest
  BY Zenon, <1>5, <1>6, <1>7, <1>15 DEF ControlRequest, Acknowledges
<1> QED
  BY ZenonT(40), <1>1, <1>8, <1>10, <1>11, <1>12, <1>13, <1>14, <1>15 DEF Next

(* The empty spool is well typed. *)
LEMMA BaseInit ==
    Init => Base
<1> SUFFICES ASSUME Init
             PROVE  Base
  BY Zenon
<1>1. DOMAIN EmptyTable = {} /\ EmptyTable \in [{} -> Job]
      /\ EmptyTable \in [{} -> [job : JobIds, digest : Digests]]
      /\ EmptyTable \in [{} -> Seq(Event)]
  BY Zenon DEF EmptyTable
<1>2. TypeOK
  BY <1>1, SpoolAssumption DEF Init, TypeOK, Times
<1>3. DistinctCopies
  BY Zenon, <1>1 DEF Init, DistinctCopies
<1> QED
  BY Zenon, <1>2, <1>3 DEF Base

(* Every step keeps the spool well typed and its copies distinct. *)
LEMMA BaseNext ==
    Base /\ [Next]_vars => Base'
<1> SUFFICES ASSUME Base, [Next]_vars
             PROVE  Base'
  BY Zenon
<1>1. CASE Submit
  BY Zenon, <1>1, CommitPreservesBase DEF Submit
<1>2. CASE Acknowledges
  BY Zenon, <1>2, AcknowledgePreservesBase DEF Acknowledges
<1>3. CASE Updates /\ submissions' = submissions /\ RestTyped
  BY Zenon, <1>3, UpdatesPreserveBase DEF RestTyped
<1> QED
  BY Zenon, <1>1, <1>2, <1>3, StepShapes

(***************************************************************************)
(* The type invariant: after every transaction of the mail service, the    *)
(* IPC service and their restarts, every table, claim and answer is well   *)
(* formed.                                                                 *)
(***************************************************************************)
THEOREM TypeCorrect ==
    Spec => []TypeOK
<1>1. Base => TypeOK
  BY Zenon DEF Base
<1> QED
  BY <1>1, BaseInit, BaseNext, PTL DEF Spec
-----------------------------------------------------------------------------
(* A rewritten Job keeps its identity and its number of copies, and its state
   is their aggregate. *)
LEMMA RewrittenFields ==
    ASSUME Base, NEW j \in DOMAIN jobs, Rewritten(j)
    PROVE  /\ jobs'[j].identity = jobs[j].identity
           /\ jobs'[j].state = AggregateState(jobs'[j].copies)
           /\ DOMAIN jobs'[j].copies = DOMAIN jobs[j].copies
           /\ jobs'[j].state \in States
<1>1. jobs[j] \in Job
  BY Zenon, CopiesType DEF Base
<1>2. PICK copies \in Seq(Copy), text \in Results :
          /\ DOMAIN copies = DOMAIN jobs[j].copies
          /\ jobs'[j] = WithCopies(jobs[j], copies, text)
  BY Zenon DEF Rewritten, Rewrite
<1>3. /\ jobs'[j].copies = copies
      /\ jobs'[j].state = AggregateState(copies)
      /\ jobs'[j].identity = jobs[j].identity
  BY <1>1, <1>2, WithCopiesFields
<1> QED
  BY Zenon, <1>2, <1>3, AggregateType

(* Every step keeps the state of every Job the aggregate of its copies. *)
LEMMA AggregateNext ==
    ASSUME Base, JobStateIsAggregate, [Next]_vars
    PROVE  JobStateIsAggregate'
<1>1. CASE Submit
  <2>1. PICK batch \in Batches, created \in Times :
            \E jobOf \in [NewIdentities(batch) -> JobIds \ DOMAIN jobs] :
                CommitBatch(batch, jobOf, created)
    BY Zenon, <1>1 DEF Submit
  <2>2. PICK jobOf \in [NewIdentities(batch) -> JobIds \ DOMAIN jobs] :
            CommitBatch(batch, jobOf, created)
    BY Zenon, <2>1
  <2>3. Committed(batch, jobOf, created)
    BY Zenon, <2>2, CommitBatchAdds
  <2> SUFFICES ASSUME NEW j \in DOMAIN jobs'
               PROVE  jobs'[j].state = AggregateState(jobs'[j].copies)
    BY Zenon DEF JobStateIsAggregate, AggregateState
  <2>4. CASE j \in DOMAIN jobs
    BY Zenon, <2>3, <2>4 DEF Committed, JobStateIsAggregate
  <2>5. CASE j \notin DOMAIN jobs
    <3>1. PICK id \in NewIdentities(batch) : /\ id \in Identities
                                             /\ batch[id] \in Blueprints
                                             /\ jobs'[j] = MakeJob(id, batch[id], created)
      BY <2>3, <2>5 DEF Committed
    <3>2. PICK b \in Blueprints : jobs'[j] = MakeJob(id, b, created)
      BY Zenon, <3>1
    <3>3. MakeJob(id, b, created).state = AggregateState(MakeJob(id, b, created).copies)
      BY ZenonT(40), <3>1, MakeJobFields
    <3> QED
      BY Zenon, <3>2, <3>3
  <2> QED
    BY Zenon, <2>4, <2>5
<1>2. CASE Acknowledges
  BY <1>2 DEF Acknowledges, AcknowledgeEvent, JobStateIsAggregate, AggregateState
<1>3. CASE Updates
  <2> SUFFICES ASSUME NEW j \in DOMAIN jobs'
               PROVE  jobs'[j].state = AggregateState(jobs'[j].copies)
    BY Zenon DEF JobStateIsAggregate, AggregateState
  <2>1. j \in DOMAIN jobs
    BY Zenon, <1>3, UpdatesBase
  <2>2. CASE jobs'[j] = jobs[j]
    BY Zenon, <2>1, <2>2 DEF JobStateIsAggregate
  <2>3. CASE Rewritten(j)
    BY Zenon, <2>1, <2>3, RewrittenFields
  <2> QED
    BY Zenon, <1>3, <2>1, <2>2, <2>3 DEF Updates
<1> QED
  BY Zenon, <1>1, <1>2, <1>3, StepShapes

(* Every step keeps identities and Jobs in one-to-one correspondence. *)
LEMMA IdentityNext ==
    ASSUME Base, OneJobPerIdentity, [Next]_vars
    PROVE  OneJobPerIdentity'
<1>1. CASE Submit
  <2>1. PICK batch \in Batches, created \in Times :
            \E jobOf \in [NewIdentities(batch) -> JobIds \ DOMAIN jobs] :
                CommitBatch(batch, jobOf, created)
    BY Zenon, <1>1 DEF Submit
  <2>2. PICK jobOf \in [NewIdentities(batch) -> JobIds \ DOMAIN jobs] :
            CommitBatch(batch, jobOf, created)
    BY Zenon, <2>1
  <2>3. Committed(batch, jobOf, created)
    BY Zenon, <2>2, CommitBatchAdds
  <2> DEFINE new == NewIdentities(batch)
  <2>4. new \cap DOMAIN submissions = {}
    BY Zenon DEF NewIdentities
  <2>5. DOMAIN submissions' = DOMAIN submissions \cup new
    BY Zenon, <2>3 DEF Committed
  <2>6. \A id \in new : /\ jobOf[id] \in DOMAIN jobs'
                        /\ submissions'[id].job = jobOf[id]
                        /\ jobs'[jobOf[id]].identity = id
    <3> SUFFICES ASSUME NEW id \in new
                 PROVE  /\ jobOf[id] \in DOMAIN jobs'
                        /\ submissions'[id].job = jobOf[id]
                        /\ jobs'[jobOf[id]].identity = id
      BY Zenon
    <3>1. jobOf[id] \in DOMAIN jobs' /\ submissions'[id].job = jobOf[id]
      BY Zenon, <2>3 DEF Committed
    <3>2. /\ id \in Identities
          /\ batch[id] \in Blueprints
          /\ jobs'[jobOf[id]] = MakeJob(id, batch[id], created)
      BY Zenon, <2>3 DEF Committed
    <3>3. PICK b \in Blueprints : jobs'[jobOf[id]] = MakeJob(id, b, created)
      BY Zenon, <3>2
    <3>4. MakeJob(id, b, created).identity = id
      BY Zenon, <3>2, MakeJobFields
    <3> QED
      BY Zenon, <3>1, <3>3, <3>4
  <2>7. \A id \in DOMAIN submissions : submissions'[id] = submissions[id]
    BY Zenon, <2>3, <2>4 DEF Committed
  <2>8. \A j \in DOMAIN jobs : j \in DOMAIN jobs' /\ jobs'[j] = jobs[j]
    BY Zenon, <2>3 DEF Committed
  <2>9. \A j \in DOMAIN jobs' : j \in DOMAIN jobs \/ \E id \in new : j = jobOf[id]
    BY Zenon, <2>3 DEF Committed
  <2> HIDE DEF new
  <2>10. \A id \in DOMAIN submissions' : /\ submissions'[id].job \in DOMAIN jobs'
                                        /\ jobs'[submissions'[id].job].identity = id
    BY <2>5, <2>6, <2>7, <2>8 DEF OneJobPerIdentity
  <2>11. \A j \in DOMAIN jobs' : /\ jobs'[j].identity \in DOMAIN submissions'
                                 /\ submissions'[jobs'[j].identity].job = j
    BY <2>5, <2>6, <2>7, <2>8, <2>9 DEF OneJobPerIdentity
  <2> QED
    BY Zenon, <2>10, <2>11 DEF OneJobPerIdentity
<1>2. CASE Acknowledges
  BY Zenon, <1>2 DEF Acknowledges, AcknowledgeEvent, OneJobPerIdentity
<1>3. CASE Updates /\ submissions' = submissions
  <2>1. DOMAIN jobs' = DOMAIN jobs
    BY Zenon, <1>3, UpdatesBase
  <2>2. \A j \in DOMAIN jobs : jobs'[j].identity = jobs[j].identity
    BY Zenon, <1>3, RewrittenFields DEF Updates
  <2> QED
    BY Zenon, <1>3, <2>1, <2>2 DEF OneJobPerIdentity
<1> QED
  BY Zenon, <1>1, <1>2, <1>3, StepShapes

(* An unbroken account of states, ending in `state'. *)
Account(story, state) ==
    /\ story # <<>>
    /\ story[1].previous = "None"
    /\ \A n \in 2 .. Len(story) : story[n].previous = story[n - 1].current
    /\ story[Len(story)].current = state

(* An unbroken account stays one when the next event starts where it ended. *)
LEMMA AppendAccount ==
    ASSUME NEW story \in Seq(Event), NEW event \in Event, NEW state,
           Account(story, state), event.previous = state
    PROVE  Account(Append(story, event), event.current)
<1> DEFINE longer == Append(story, event)
           n == Len(story)
<1>1. n \in Nat \ {0} /\ Len(longer) = n + 1 /\ longer \in Seq(Event)
  BY DEF Account
<1>2. \A k \in 1 .. n : longer[k] = story[k]
  OBVIOUS
<1>3. longer[n + 1] = event
  OBVIOUS
<1>4. /\ story[1].previous = "None"
      /\ \A k \in 2 .. n : story[k].previous = story[k - 1].current
      /\ story[n].current = state
  BY Zenon DEF Account
<1> HIDE DEF longer, n
<1>5. longer # <<>> /\ longer[1].previous = "None"
  <2>1. 1 \in 1 .. n
    BY <1>1
  <2>2. longer[1] = story[1]
    BY Zenon, <1>2, <2>1
  <2>3. longer # <<>>
    BY <1>1
  <2> QED
    BY Zenon, <1>4, <2>2, <2>3
<1>6. ASSUME NEW k \in 2 .. n + 1
      PROVE  longer[k].previous = longer[k - 1].current
  <2>1. CASE k = n + 1
    <3>1. k - 1 = n /\ n \in 1 .. n
      BY <1>1, <2>1
    <3>2. longer[k] = event
      BY Zenon, <1>3, <2>1
    <3>3. longer[k - 1] = story[n]
      BY Zenon, <1>2, <3>1
    <3> QED
      BY Zenon, <1>4, <3>2, <3>3
  <2>2. CASE k # n + 1
    <3>1. k \in 1 .. n /\ k - 1 \in 1 .. n /\ k \in 2 .. n
      BY <1>1, <2>2
    <3>2. longer[k] = story[k]
      BY Zenon, <1>2, <3>1
    <3>3. longer[k - 1] = story[k - 1]
      BY Zenon, <1>2, <3>1
    <3>4. story[k].previous = story[k - 1].current
      BY Zenon, <1>4, <3>1
    <3> QED
      BY Zenon, <3>2, <3>3, <3>4
  <2> QED
    BY Zenon, <2>1, <2>2
<1>7. longer[Len(longer)].current = event.current
  BY Zenon, <1>1, <1>3
<1>8. Account(longer, event.current)
  BY Zenon, <1>1, <1>5, <1>6, <1>7 DEF Account
<1> QED
  BY Zenon, <1>8 DEF longer

(* Every step keeps the events of every Job an unbroken account. *)
LEMMA StoryNext ==
    ASSUME Base, EventsTellTheStory, [Next]_vars
    PROVE  EventsTellTheStory'
<1> SUFFICES ASSUME NEW j \in DOMAIN events'
             PROVE  Account(events'[j], jobs'[j].state)
  BY Zenon DEF EventsTellTheStory, Account
<1>0. DOMAIN events = DOMAIN jobs /\ events \in [DOMAIN jobs -> Seq(Event)]
  BY Zenon DEF Base, TypeOK
<1>1. \A k \in DOMAIN jobs : Account(events[k], jobs[k].state)
  BY Zenon, <1>0 DEF EventsTellTheStory, Account
<1>2. CASE Submit
  <2>1. PICK batch \in Batches, created \in Times :
            \E jobOf \in [NewIdentities(batch) -> JobIds \ DOMAIN jobs] :
                CommitBatch(batch, jobOf, created)
    BY Zenon, <1>2 DEF Submit
  <2>2. PICK jobOf \in [NewIdentities(batch) -> JobIds \ DOMAIN jobs] :
            CommitBatch(batch, jobOf, created)
    BY Zenon, <2>1
  <2>3. Committed(batch, jobOf, created)
    BY Zenon, <2>2, CommitBatchAdds
  <2>4. CASE j \in DOMAIN jobs
    BY Zenon, <1>1, <2>3, <2>4 DEF Committed
  <2>5. CASE j \notin DOMAIN jobs
    <3>0. j \in DOMAIN jobs'
      BY Zenon, <2>3 DEF Committed
    <3>1. events'[j] = <<Numbered(jobs'[j], "None")>>
      <4>1. PICK id \in NewIdentities(batch) : j = jobOf[id]
        BY <2>3, <2>5, <3>0 DEF Committed
      <4> QED
        BY Zenon, <2>3, <4>1 DEF Committed
    <3> DEFINE first == Numbered(jobs'[j], "None")
    <3>2. first.previous = "None" /\ first.current = jobs'[j].state
      BY Zenon DEF Numbered
    <3> HIDE DEF first
    <3>3. events'[j] = <<first>>
      BY Zenon, <3>1 DEF first
    <3>4. Len(events'[j]) = 1 /\ events'[j][1] = first /\ events'[j] # <<>>
      BY <3>3
    <3>5. 2 .. Len(events'[j]) = {}
      BY SMTT(60), <3>4
    <3> QED
      BY Zenon, <3>2, <3>4, <3>5 DEF Account
  <2> QED
    BY Zenon, <2>4, <2>5
<1>3. CASE Acknowledges
  <2>0. PICK k \in DOMAIN jobs : \E n \in DOMAIN events[k] : AcknowledgeEvent(k, n)
    BY Zenon, <1>3 DEF Acknowledges
  <2>1. PICK n \in DOMAIN events[k] : AcknowledgeEvent(k, n)
    BY Zenon, <2>0
  <2>2. events' = [events EXCEPT ![k][n].acknowledged = TRUE] /\ jobs' = jobs
    BY Zenon, <2>1 DEF AcknowledgeEvent
  <2>3. j \in DOMAIN jobs
    BY Zenon, <1>0, <2>2
  <2>4. /\ Len(events'[j]) = Len(events[j])
        /\ \A m \in DOMAIN events[j] : /\ events'[j][m].previous = events[j][m].previous
                                       /\ events'[j][m].current = events[j][m].current
        /\ events'[j] # <<>>
    <3>1. CASE j = k
      <4> DEFINE e == events[k]
                 acked == [e[n] EXCEPT !.acknowledged = TRUE]
                 new == [e EXCEPT ![n] = acked]
      <4>1. events'[j] = new
        BY Zenon, <1>0, <2>2, <3>1
      <4>2. e \in Seq(Event) /\ e[n] \in Event /\ e # <<>>
        BY <1>0, <1>1 DEF Account
      <4>3. acked \in Event /\ acked.previous = e[n].previous /\ acked.current = e[n].current
        BY Zenon, <4>2 DEF Event
      <4> HIDE DEF acked
      <4>4. e \in [1 .. Len(e) -> Event] /\ Len(e) \in Nat
        BY <4>2
      <4>5. new \in [1 .. Len(e) -> Event]
        BY Zenon, <4>3, <4>4
      <4>6. new \in Seq(Event) /\ Len(new) = Len(e)
        BY <4>4, <4>5, SeqDef
      <4>7. \A m \in DOMAIN e : new[m].previous = e[m].previous /\ new[m].current = e[m].current
        BY Zenon, <4>3
      <4>8. new # <<>>
        BY <4>2, <4>6
      <4> HIDE DEF new
      <4> QED
        BY Zenon, <3>1, <4>1, <4>6, <4>7, <4>8
    <3>2. CASE j # k
      BY Zenon, <1>1, <2>2, <2>3, <3>2 DEF Account
    <3> QED
      BY Zenon, <3>1, <3>2
  <2>5. Account(events[j], jobs[j].state) /\ events[j] \in Seq(Event)
    BY Zenon, <1>0, <1>1, <2>3
  <2>6. /\ Len(events[j]) \in Nat \ {0}
        /\ DOMAIN events[j] = 1 .. Len(events[j])
    BY <2>5 DEF Account
  <2>7. \A m \in 2 .. Len(events[j]) : m \in DOMAIN events[j] /\ m - 1 \in DOMAIN events[j]
    BY <2>6
  <2> QED
    BY <2>2, <2>4, <2>5, <2>6, <2>7 DEF Account
<1>4. CASE Updates
  <2>1. j \in DOMAIN jobs
    BY Zenon, <1>4, UpdatesBase
  <2>2. CASE jobs'[j] = jobs[j] /\ events'[j] = events[j]
    BY Zenon, <1>1, <2>1, <2>2
  <2>3. CASE Rewritten(j)
    <3> DEFINE event == Numbered(jobs'[j], jobs[j].state)
    <3>1. jobs'[j].state \in States /\ jobs[j].state \in States
      BY Zenon, <2>1, <2>3, RewrittenFields, CopiesType DEF Base, Job
    <3>2. event \in Event /\ event.previous = jobs[j].state /\ event.current = jobs'[j].state
      BY Zenon, <3>1 DEF Numbered, Event
    <3>3. events'[j] = Append(events[j], event)
      BY Zenon, <2>3 DEF Rewritten
    <3>4. events[j] \in Seq(Event) /\ Account(events[j], jobs[j].state)
      BY Zenon, <1>0, <1>1, <2>1
    <3> HIDE DEF event
    <3> QED
      BY Zenon, <3>2, <3>3, <3>4, AppendAccount
  <2> QED
    BY Zenon, <1>4, <2>1, <2>2, <2>3 DEF Updates
<1> QED
  BY Zenon, <1>2, <1>3, <1>4, StepShapes
-----------------------------------------------------------------------------
(* What the tables say of each other; inductive together with Base. *)
Records ==
    /\ Base
    /\ JobStateIsAggregate
    /\ OneJobPerIdentity
    /\ EventsTellTheStory

(* A new spool has nothing in it that could disagree. *)
LEMMA RecordsInit ==
    Init => Records
<1> SUFFICES ASSUME Init
             PROVE  Records
  BY Zenon
<1>1. DOMAIN jobs = {} /\ DOMAIN submissions = {} /\ DOMAIN events = {}
  BY Zenon DEF Init, EmptyTable
<1> QED
  BY Zenon, <1>1, BaseInit DEF Records, JobStateIsAggregate, OneJobPerIdentity, EventsTellTheStory

(* Every transaction leaves the tables in agreement. *)
LEMMA RecordsNext ==
    Records /\ [Next]_vars => Records'
BY Zenon, BaseNext, AggregateNext, IdentityNext, StoryNext DEF Records

(***************************************************************************)
(* A Job never reports another state than that of its copies, whichever of *)
(* the claim, answer, control and recovery paths wrote it last.            *)
(***************************************************************************)
THEOREM JobStateCorrect ==
    Spec => []JobStateIsAggregate
<1>1. Records => JobStateIsAggregate
  BY Zenon DEF Records
<1> QED
  BY <1>1, RecordsInit, RecordsNext, PTL DEF Spec

(***************************************************************************)
(* Resubmission never makes a second Job: an Application and               *)
(* Idempotency-Key pair and its Job determine each other for ever.         *)
(***************************************************************************)
THEOREM SubmissionCorrect ==
    Spec => []OneJobPerIdentity
<1>1. Records => OneJobPerIdentity
  BY Zenon DEF Records
<1> QED
  BY <1>1, RecordsInit, RecordsNext, PTL DEF Spec

(***************************************************************************)
(* The events of a Job are an unbroken account of its states, ending in    *)
(* the present one, through every transaction, kill and restart.           *)
(***************************************************************************)
THEOREM EventsCorrect ==
    Spec => []EventsTellTheStory
<1>1. Records => EventsTellTheStory
  BY Zenon DEF Records
<1> QED
  BY <1>1, RecordsInit, RecordsNext, PTL DEF Spec
=============================================================================
