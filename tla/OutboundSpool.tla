---------------------------- MODULE OutboundSpool ----------------------------
(***************************************************************************)
(* The durable outbound spool of tith-store (OutboundStore), together with *)
(* the processes that work on it.                                          *)
(*                                                                         *)
(* Every method of OutboundStore is one redb write transaction, so every   *)
(* method is one action here.  The database file is locked by the process  *)
(* that opened it, so at any moment it belongs to the mail service         *)
(* (`tithd serve-mail`: listener threads and, if there are schedules, the  *)
(* driver), to the IPC service (`tithd serve-unix-mailer` and its          *)
(* siblings), or to nobody.  Neither service has an orderly shutdown: it   *)
(* is killed.  What a worker thread knows (its DeliveryClaims) dies with   *)
(* the process; the tables do not.                                         *)
(***************************************************************************)
EXTENDS Integers, Sequences, FiniteSets

CONSTANTS
    JobIds,             \* identifiers unique_job_id can draw
    Applications,       \* IPC applications and the relay application
    RelayApplication,   \* "tithd-relay"
    IdempotencyKeys,
    Blueprints,         \* what a submission asks for: kind and delivery copies
    RelayDigest,        \* the digest of a relayed item is a hash of its key
    Hops,               \* next-hop addresses
    Anonymous,          \* the hops identified only together with a PublicKey
    PeerKeys,           \* those keys
    NoKey,
    Tokens,             \* worker tokens
    NoToken,
    Texts,              \* results a delivery attempt may record
    MaxTime,            \* bound: the clock and every Timestamp
    MaxAttempts,        \* bound: attempts of one copy (u64 in the code)
    MaxClaims,          \* bound: attempts of all copies together
    MaxBatch,           \* bound: Jobs of one Batch
    MaxAcks             \* bound: the events of a Job that may be acknowledged

Identities == Applications \X IdempotencyKeys
Kinds == {"NetMail", "EchoMail", "File", "PeerFile", "FileRequest"}
DirectKinds == {"PeerFile", "FileRequest"}
PollKinds == {{"NetMail", "EchoMail"}, {"File", "PeerFile"}, {"FileRequest"}}
States == {"Queued", "Active", "Deferred", "Delivered", "Rejected", "Failed",
           "Cancelled"}
Modes == {"Active", "Passive"}
Times == 0 .. MaxTime
NoTime == -1

(* NewDelivery.  Every caller leaves retry_at empty, so it has no field. *)
NewDelivery == [hop : Hops, key : PeerKeys \cup {NoKey}, mode : Modes]

(* The full identity of a peer: its address, with a key if it is anonymous. *)
PeerIdentities ==
    {x \in Hops \X (PeerKeys \cup {NoKey}) : (x[2] # NoKey) <=> (x[1] \in Anonymous)}

Digests == Blueprints \cup {RelayDigest}
NoResult == ""
ControlTexts == {NoResult, "Cancelled", "Retry requested", "Rerouted", "recovered"}

(***************************************************************************)
(* The configuration refuses two Peers with one exact identity and two     *)
(* Send-To lines for one Peer, so no Job has two copies for one identity.  *)
(* A Public-Key occurs exactly for an anonymous address.                   *)
(***************************************************************************)
DistinctIdentities(b) ==
    \A i, k \in DOMAIN b.copies :
        b.copies[i].hop = b.copies[k].hop /\ b.copies[i].key = b.copies[k].key
            => i = k

ExactKey(d) == <<d.hop, d.key>> \in PeerIdentities

ASSUME SpoolAssumption ==
    /\ RelayApplication \in Applications
    /\ NoKey \notin PeerKeys
    /\ NoToken \notin Tokens
    /\ RelayDigest \notin Blueprints
    /\ MaxTime \in Nat
    /\ MaxAttempts \in Nat
    /\ MaxAcks \in Nat

ASSUME BlueprintAssumption ==
    \A b \in Blueprints :
        /\ b.kind \in Kinds
        /\ b.forward \in BOOLEAN
        /\ b.copies \in Seq(NewDelivery)
        /\ \A i \in DOMAIN b.copies : ExactKey(b.copies[i])
        /\ DistinctIdentities(b)

VARIABLES
    service,      \* who has the database open: "Mail", the mail service with
                  \* its driver; "Listen", the mail service without schedules;
                  \* "Ipc", the IPC service; "Down", nobody
    jobs,         \* table JOBS: JobId -> record
    submissions,  \* table SUBMISSIONS: identity -> JobId and digest
    events,       \* table EVENTS: JobId -> its numbered events
    claims,       \* the DeliveryClaims the running service gave to its threads
                  \* and has no answer for; a thread that fails never answers
    now,
    reply         \* the answer to the control request just served

vars == <<service, jobs, submissions, events, claims, now, reply>>

Copy == [hop : Hops, key : PeerKeys \cup {NoKey}, mode : Modes,
         state : States, retryAt : Times \cup {NoTime},
         token : Tokens \cup {NoToken}, attempts : 0 .. MaxAttempts]

Event == [previous : States \cup {"None"}, current : States,
          acknowledged : BOOLEAN]

Job == [identity : Identities, kind : Kinds, created : Times, copies : Seq(Copy),
        state : States, lastResult : ControlTexts \cup Texts]

Claim == [job : JobIds, index : Nat, token : Tokens]

NoReply == [op |-> "None"]
Reply == [op : {"Cancel", "Retry", "Reroute"}, job : JobIds,
          outcome : {"Completed", "Busy", "NotPermitted"},
          target : SUBSET NewDelivery]

EmptyTable == [x \in {} |-> x]

-----------------------------------------------------------------------------
(* aggregate_state: the first of these states that some copy is in. *)
AggregateState(copies) ==
    LET Some(s) == \E i \in DOMAIN copies : copies[i].state = s
    IN IF Some("Active") THEN "Active"
       ELSE IF Some("Queued") THEN "Queued"
       ELSE IF Some("Deferred") THEN "Deferred"
       ELSE IF Some("Failed") THEN "Failed"
       ELSE IF Some("Rejected") THEN "Rejected"
       ELSE IF Some("Cancelled") THEN "Cancelled"
       ELSE "Delivered"

(* Mutant: a path that writes the copies and forgets the Job's own state. *)
WithStaleState(job, copies, result) ==
    [job EXCEPT !.copies = copies, !.lastResult = result]

WithCopies(job, copies, result) ==
    [job EXCEPT !.copies = copies,
                !.state = AggregateState(copies),
                !.lastResult = result]

(* Mutant: the previous state is read after the Job has been updated. *)
NumberedLate(job, previous) ==
    [previous |-> IF previous = "None" THEN previous ELSE job.state,
     current |-> job.state, acknowledged |-> FALSE]

Numbered(job, previous) ==
    [previous |-> previous, current |-> job.state, acknowledged |-> FALSE]

(***************************************************************************)
(* Every method that changes a Job ends in the same way: the record is     *)
(* written and append_event adds an event under the next number.  `writes' *)
(* maps each Job the transaction changes to its new record.                *)
(***************************************************************************)
Save(writes) ==
    /\ jobs' = [j \in DOMAIN jobs |->
                    IF j \in DOMAIN writes THEN writes[j] ELSE jobs[j]]
    /\ events' = [j \in DOMAIN events |->
                    IF j \in DOMAIN writes
                    THEN Append(events[j], Numbered(writes[j], jobs[j].state))
                    ELSE events[j]]

(* random_identifier: 128 random bits never repeat one that is still known. *)
TokensInUse ==
    {c.token : c \in claims}
        \cup UNION {{jobs[j].copies[i].token : i \in DOMAIN jobs[j].copies} :
                        j \in DOMAIN jobs}
FreshTokens == Tokens \ TokensInUse
-----------------------------------------------------------------------------
Init ==
    /\ service = "Down"
    /\ jobs = EmptyTable
    /\ submissions = EmptyTable
    /\ events = EmptyTable
    /\ claims = {}
    /\ now = 0
    /\ reply = NoReply

(***************************************************************************)
(* commit_batch                                                            *)
(***************************************************************************)
Batches ==
    UNION {[ids -> Blueprints] :
               ids \in {s \in SUBSET Identities :
                            s # {} /\ Cardinality(s) <= MaxBatch}}

(* hash_submission_job over the Job's text; relay_identity hashes the key. *)
DigestOf(id, b) == IF id[1] = RelayApplication THEN RelayDigest ELSE b

MailRuns == service \in {"Mail", "Listen"}

(* Submissions come over IPC; the mail service only commits single relays. *)
MaySubmit(batch) ==
    \/ /\ service = "Ipc"
       /\ \A id \in DOMAIN batch : id[1] # RelayApplication
    \/ /\ MailRuns
       /\ \E id \in Identities :
              /\ DOMAIN batch = {id}
              /\ id[1] = RelayApplication
              /\ batch[id].kind = "NetMail"

(* validate_new_job *)
ValidJob(b) ==
    /\ b.copies = <<>> => b.forward
    /\ b.kind \in DirectKinds => DOMAIN b.copies = {1}

MakeCopy(d) ==
    [hop |-> d.hop, key |-> d.key, mode |-> d.mode, state |-> "Queued",
     retryAt |-> NoTime, token |-> NoToken, attempts |-> 0]

MakeJob(id, b, created) ==
    LET copies == [i \in DOMAIN b.copies |-> MakeCopy(b.copies[i])]
    IN [identity |-> id, kind |-> b.kind, created |-> created,
        copies |-> copies, state |-> AggregateState(copies),
        lastResult |-> NoResult]

(***************************************************************************)
(* The whole Batch is classified first.  One Conflict commits nothing; an  *)
(* Existing Job is left alone; every New one is committed.  A Message Job  *)
(* takes its creation time from the submitted Timestamp.                   *)
(***************************************************************************)
Conflicts(batch) ==
    {id \in DOMAIN batch \cap DOMAIN submissions :
         submissions[id].digest # DigestOf(id, batch[id])}

(* Mutant: an Existing submission is committed again. *)
AllIdentities(batch) == DOMAIN batch

NewIdentities(batch) == DOMAIN batch \ DOMAIN submissions

Injective(f) == \A x, y \in DOMAIN f : f[x] = f[y] => x = y

FirstEvents(new) ==
    [j \in DOMAIN events \cup DOMAIN new |->
        IF j \in DOMAIN new THEN <<Numbered(new[j], "None")>> ELSE events[j]]

CommitBatch(batch, jobOf, created) ==
    LET IdOf(j) == CHOOSE id \in NewIdentities(batch) : jobOf[id] = j
        new == [j \in {jobOf[id] : id \in NewIdentities(batch)} |->
                    MakeJob(IdOf(j), batch[IdOf(j)], created)]
    IN /\ MaySubmit(batch)
       /\ Conflicts(batch) = {}
       /\ NewIdentities(batch) # {}
       /\ \A id \in NewIdentities(batch) : ValidJob(batch[id])
       /\ Injective(jobOf)
       /\ jobs' = [j \in DOMAIN jobs \cup DOMAIN new |->
                       IF j \in DOMAIN new THEN new[j] ELSE jobs[j]]
       /\ submissions' =
              [id \in DOMAIN submissions \cup NewIdentities(batch) |->
                   IF id \in NewIdentities(batch)
                   THEN [job |-> jobOf[id], digest |-> DigestOf(id, batch[id])]
                   ELSE submissions[id]]
       /\ events' = FirstEvents(new)
       /\ reply' = NoReply
       /\ UNCHANGED <<service, claims, now>>
-----------------------------------------------------------------------------
(***************************************************************************)
(* Claims                                                                  *)
(***************************************************************************)
Claimed(copy, token) ==
    [copy EXCEPT !.state = "Active", !.retryAt = NoTime, !.token = token,
                 !.attempts = @ + 1]

ClaimCopy(j, i, token) ==
    LET job == jobs[j]
    IN WithCopies(job, [job.copies EXCEPT ![i] = Claimed(@, token)],
                  job.lastResult)

(* Mutant: a copy another worker holds is taken again. *)
HeldOrActive(copy) == copy.state \in {"Queued", "Deferred", "Active"}

Held(copy) == copy.state \in {"Queued", "Deferred"}

AllCopies == UNION {{j} \X DOMAIN jobs[j].copies : j \in DOMAIN jobs}
ClaimsMade ==
    {x \in AllCopies \X (1 .. MaxAttempts) :
        x[2] <= jobs[x[1][1]].copies[x[1][2]].attempts}

(***************************************************************************)
(* What claim_scheduled may take: the rules of the spool (Active mode,     *)
(* Queued or Deferred, retry Timestamp passed) and those of the schedule,  *)
(* which selects identities.  The identity of an ordinary next hop has its *)
(* key from the nodelist, that of an anonymous one from the copy.          *)
(***************************************************************************)
NextHop(copy) == <<copy.hop, IF copy.hop \in Anonymous THEN copy.key ELSE NoKey>>

Eligible(selection, asOf) ==
    {p \in AllCopies :
        LET copy == jobs[p[1]].copies[p[2]]
        IN /\ copy.mode = "Active"
           /\ NextHop(copy) \in selection
           /\ Held(copy)
           /\ copy.retryAt <= asOf}

(* Oldest first, then by JobId (random, so any order), then by index. *)
Before(p, q) ==
    /\ jobs[p[1]].created <= jobs[q[1]].created
    /\ p[1] = q[1] => p[2] <= q[2]

(* `asOf' is the time the driver read when it began its pass. *)
ClaimScheduled(selection, asOf, j, i, token) ==
    /\ service = "Mail"
    /\ asOf <= now
    /\ <<j, i>> \in Eligible(selection, asOf)
    /\ \A q \in Eligible(selection, asOf) : Before(<<j, i>>, q)
    /\ jobs[j].copies[i].attempts < MaxAttempts
    /\ Cardinality(ClaimsMade) < MaxClaims
    /\ token \in FreshTokens
    /\ Save([k \in {j} |-> ClaimCopy(j, i, token)])
    /\ claims' = claims \cup {[job |-> j, index |-> i, token |-> token]}
    /\ reply' = NoReply
    /\ UNCHANGED <<service, submissions, now>>

(***************************************************************************)
(* claim_poll_snapshot: everything held for one authenticated identity, in *)
(* one transaction.  Each selected copy is claimed in a clone of its Job   *)
(* taken before the transaction changed anything, so of several copies of  *)
(* one Job only the last clone written would survive; DistinctIdentities   *)
(* makes that copy the only one.                                           *)
(***************************************************************************)
Snapshot(peer, kinds) ==
    {p \in AllCopies :
        LET copy == jobs[p[1]].copies[p[2]]
        IN /\ jobs[p[1]].kind \in kinds
           /\ <<copy.hop, copy.key>> = peer
           /\ Held(copy)}

LastOf(snapshot, j) ==
    CHOOSE i \in {p[2] : p \in {q \in snapshot : q[1] = j}} :
        \A p \in snapshot : p[1] = j => p[2] <= i

ClaimPollSnapshot(peer, kinds, tokenOf) ==
    LET snapshot == Snapshot(peer, kinds)
    IN /\ MailRuns
       /\ snapshot # {}
       /\ \A p \in snapshot : jobs[p[1]].copies[p[2]].attempts < MaxAttempts
       /\ Cardinality(ClaimsMade) + Cardinality(snapshot) <= MaxClaims
       /\ Injective(tokenOf)
       /\ Save([j \in {p[1] : p \in snapshot} |->
                    LET i == LastOf(snapshot, j)
                    IN ClaimCopy(j, i, tokenOf[<<j, i>>])])
       /\ claims' = claims \cup {[job |-> p[1], index |-> p[2],
                                  token |-> tokenOf[p]] : p \in snapshot}
       /\ reply' = NoReply
       /\ UNCHANGED <<service, submissions, now>>

(***************************************************************************)
(* finish_delivery.  A worker answers for a copy it claimed; an answer for *)
(* a copy that is no longer its own is refused as JobStale.  No worker ever*)
(* reports Failed.  A retry Timestamp is the schedule's next beginning or  *)
(* one the peer named, so it may be any.                                   *)
(***************************************************************************)
Outcomes ==
    {[state |-> s, retryAt |-> NoTime] : s \in {"Delivered", "Rejected"}}
        \cup {[state |-> "Deferred", retryAt |-> t] : t \in Times}

Current(c) ==
    LET copy == jobs[c.job].copies[c.index]
    IN copy.state = "Active" /\ copy.token = c.token

Finished(copy, outcome) ==
    [copy EXCEPT !.state = outcome.state, !.retryAt = outcome.retryAt,
                 !.token = NoToken]

(* Mutant: an answer settles every Active copy of its Job. *)
FinishWholeJob(c, outcome, text) ==
    LET job == jobs[c.job]
        Answer(copy) == IF copy.state = "Active" THEN Finished(copy, outcome) ELSE copy
    IN /\ MailRuns
       /\ c \in claims
       /\ Current(c)
       /\ Save([k \in {c.job} |->
                    WithCopies(job,
                        [i \in DOMAIN job.copies |-> Answer(job.copies[i])], text)])
       /\ claims' = claims \ {c}
       /\ reply' = NoReply
       /\ UNCHANGED <<service, submissions, now>>

FinishDelivery(c, outcome, text) ==
    LET job == jobs[c.job]
    IN /\ MailRuns
       /\ c \in claims
       /\ Current(c)
       /\ Save([k \in {c.job} |->
                    WithCopies(job,
                        [job.copies EXCEPT ![c.index] = Finished(@, outcome)],
                        text)])
       /\ claims' = claims \ {c}
       /\ reply' = NoReply
       /\ UNCHANGED <<service, submissions, now>>
-----------------------------------------------------------------------------
(***************************************************************************)
(* Control requests over IPC                                               *)
(***************************************************************************)
HasActive(job) == \E i \in DOMAIN job.copies : job.copies[i].state = "Active"

Requeue(copy, state) == [copy EXCEPT !.state = state, !.retryAt = NoTime]

(* The copies of `job' with those in one of the states `from' changed. *)
ChangeCopies(job, from, to) ==
    [i \in DOMAIN job.copies |->
        IF job.copies[i].state \in from THEN Requeue(job.copies[i], to)
        ELSE job.copies[i]]

(* No IPC client presents the name relayed Jobs are committed under. *)
Controllable(j) ==
    service = "Ipc" /\ jobs[j].identity[1] # RelayApplication

(***************************************************************************)
(* control: a Completed update is written, and its event appended, only    *)
(* when the Job's last result is not already the text of this request (the *)
(* updates never touch the Job's own state, the other half of the test).   *)
(***************************************************************************)
Control(j, op, outcome, copies, text, target) ==
    /\ IF outcome = "Completed" /\ jobs[j].lastResult # text
       THEN Save([k \in {j} |-> WithCopies(jobs[j], copies, text)])
       ELSE UNCHANGED <<jobs, events>>
    /\ reply' = [op |-> op, job |-> j, outcome |-> outcome, target |-> target]
    /\ UNCHANGED <<service, submissions, claims, now>>

Cancellable == {"Queued", "Deferred", "Rejected", "Failed"}
Retriable == {"Deferred", "Failed"}

Cancel(j) ==
    LET job == jobs[j]
        copies == ChangeCopies(job, Cancellable, "Cancelled")
    IN /\ Controllable(j)
       /\ Control(j, "Cancel",
              IF HasActive(job) THEN "Busy"
              ELSE IF job.state = "Cancelled" \/ copies # job.copies
                   THEN "Completed"
              ELSE "NotPermitted", copies, "Cancelled", {})

Retry(j) ==
    LET copies == ChangeCopies(jobs[j], Retriable, "Queued")
    IN /\ Controllable(j)
       /\ Control(j, "Retry",
              IF copies # jobs[j].copies THEN "Completed" ELSE "NotPermitted",
              copies, "Retry requested", {})

(* reroute moves the copy to the new delivery; next_hop_key stays behind. *)
Rerouted(copy, d) ==
    [copy EXCEPT !.hop = d.hop, !.mode = d.mode, !.retryAt = NoTime,
                 !.state = "Queued"]

(* Mutant: a Job that is Delivered or Cancelled is rerouted too. *)
IsSingleNetMail(job) == job.kind = "NetMail" /\ DOMAIN job.copies = {1}

Reroutable(job) ==
    /\ job.kind = "NetMail"
    /\ DOMAIN job.copies = {1}
    /\ job.state \notin {"Delivered", "Cancelled"}

Reroute(j, d) ==
    LET job == jobs[j]
    IN /\ Controllable(j)
       /\ ExactKey(d)
       /\ Control(j, "Reroute",
              IF job.state = "Active" THEN "Busy"
              ELSE IF Reroutable(job) THEN "Completed" ELSE "NotPermitted",
              [i \in DOMAIN job.copies |-> Rerouted(job.copies[i], d)],
              "Rerouted", {d})

(* acknowledge_event: the row stays, so its number is never given out again. *)
AcknowledgeEvent(j, n) ==
    /\ Controllable(j)
    /\ ~ events[j][n].acknowledged
    /\ n <= MaxAcks
    /\ events' = [events EXCEPT ![j][n].acknowledged = TRUE]
    /\ reply' = NoReply
    /\ UNCHANGED <<service, jobs, submissions, claims, now>>
-----------------------------------------------------------------------------
(***************************************************************************)
(* Processes                                                               *)
(***************************************************************************)
Kill ==
    /\ service # "Down"
    /\ service' = "Down"
    /\ claims' = {}
    /\ reply' = NoReply
    /\ UNCHANGED <<jobs, submissions, events, now>>

(* Mutant: what polls had claimed is not recovered. *)
RecoveredIfScheduled(copy) ==
    IF copy.state = "Active" /\ copy.mode = "Active"
    THEN [copy EXCEPT !.state = "Deferred", !.retryAt = now, !.token = NoToken]
    ELSE copy

Recovered(copy) ==
    IF copy.state = "Active"
    THEN [copy EXCEPT !.state = "Deferred", !.retryAt = now, !.token = NoToken]
    ELSE copy

RecoverActive ==
    Save([j \in {k \in DOMAIN jobs : HasActive(jobs[k])} |->
            WithCopies(jobs[j],
                [i \in DOMAIN jobs[j].copies |-> Recovered(jobs[j].copies[i])],
                "recovered")])

(* start_outbound: recover_active comes before the driver thread. *)
StartMail ==
    /\ service = "Down"
    /\ service' = "Mail"
    /\ RecoverActive
    /\ reply' = NoReply
    /\ UNCHANGED <<submissions, claims, now>>

(* It returns before recover_active when there are no schedules, and with
   --listen-only it is not called. *)
StartListening ==
    /\ service = "Down"
    /\ service' = "Listen"
    /\ reply' = NoReply
    /\ UNCHANGED <<jobs, submissions, events, claims, now>>

StartIpc ==
    /\ service = "Down"
    /\ service' = "Ipc"
    /\ reply' = NoReply
    /\ UNCHANGED <<jobs, submissions, events, claims, now>>

Tick ==
    /\ now < MaxTime
    /\ now' = now + 1
    /\ UNCHANGED <<service, jobs, submissions, events, claims, reply>>
-----------------------------------------------------------------------------
Submit ==
    \E batch \in Batches, created \in Times :
        \E jobOf \in [NewIdentities(batch) -> JobIds \ DOMAIN jobs] :
            CommitBatch(batch, jobOf, created)

Work ==
    \/ \E selection \in SUBSET PeerIdentities, asOf \in Times,
          p \in AllCopies, token \in Tokens :
           ClaimScheduled(selection, asOf, p[1], p[2], token)
    \/ \E peer \in PeerIdentities, kinds \in PollKinds :
           \E tokenOf \in [Snapshot(peer, kinds) -> FreshTokens] :
               ClaimPollSnapshot(peer, kinds, tokenOf)
    \/ \E c \in claims, outcome \in Outcomes, text \in Texts :
           FinishDelivery(c, outcome, text)

ControlRequest ==
    \E j \in DOMAIN jobs :
        \/ Cancel(j)
        \/ Retry(j)
        \/ \E d \in NewDelivery : Reroute(j, d)
        \/ \E n \in DOMAIN events[j] : AcknowledgeEvent(j, n)

Next ==
    \/ Submit
    \/ Work
    \/ ControlRequest
    \/ Kill
    \/ StartMail
    \/ StartListening
    \/ StartIpc
    \/ Tick

Spec == Init /\ [][Next]_vars
-----------------------------------------------------------------------------
(***************************************************************************)
(* Properties                                                              *)
(***************************************************************************)
(* Every table, every claim and every answer is well formed. *)
TypeOK ==
    /\ service \in {"Down", "Mail", "Listen", "Ipc"}
    /\ DOMAIN jobs \subseteq JobIds
    /\ jobs \in [DOMAIN jobs -> Job]
    /\ DOMAIN submissions \subseteq Identities
    /\ submissions \in [DOMAIN submissions -> [job : JobIds, digest : Digests]]
    /\ DOMAIN events = DOMAIN jobs
    /\ events \in [DOMAIN events -> Seq(Event)]
    /\ claims \subseteq Claim
    /\ now \in Times
    /\ reply \in Reply \cup {NoReply}

(***************************************************************************)
(* The state a Job reports is the aggregate of its copies after every      *)
(* transaction: no path writes a copy and forgets the Job, and nobody who  *)
(* polls Query sees a Delivered or Cancelled Job with work left in it.     *)
(***************************************************************************)
JobStateIsAggregate ==
    \A j \in DOMAIN jobs : jobs[j].state = AggregateState(jobs[j].copies)

(***************************************************************************)
(* A copy carries a worker token exactly while it is Active and a retry    *)
(* Timestamp exactly while it is Deferred, through every claim, outcome,   *)
(* control request and recovery.                                           *)
(***************************************************************************)
CopyShape ==
    \A p \in AllCopies :
        LET copy == jobs[p[1]].copies[p[2]]
        IN /\ (copy.token # NoToken) <=> (copy.state = "Active")
           /\ (copy.retryAt # NoTime) <=> (copy.state = "Deferred")

(***************************************************************************)
(* The schedule driver and any number of poll connections claim from one   *)
(* spool, yet a copy is in the hands of at most one live worker, and that  *)
(* worker's finish_delivery can never be refused as JobStale.              *)
(***************************************************************************)
ClaimsAreCurrent ==
    /\ \A c \in claims : c.index \in DOMAIN jobs[c.job].copies /\ Current(c)
    /\ \A c, d \in claims : c.job = d.job /\ c.index = d.index => c = d

(***************************************************************************)
(* start_outbound, recover_active: once the mail service has started its   *)
(* driver, every Active copy was claimed by a thread of this very run;     *)
(* what a killed service left Active, in whatever order the services       *)
(* follow each other, is back in the queue.  A service without schedules   *)
(* does not recover: see RecoveredAtStartup.                               *)
(***************************************************************************)
InHand(p) == \E c \in claims : c.job = p[1] /\ c.index = p[2]
ActiveCopies == {p \in AllCopies : jobs[p[1]].copies[p[2]].state = "Active"}
NoOrphanedCopy == service = "Mail" => \A p \in ActiveCopies : InHand(p)

(***************************************************************************)
(* "Copies left claimed by a killed daemon are returned to the queue at    *)
(* startup" (README.md:454), of every mail service, with schedules or not. *)
(***************************************************************************)
RecoveredAtStartup == MailRuns => \A p \in ActiveCopies : InHand(p)

(***************************************************************************)
(* An Application and Idempotency-Key pair stands for exactly one Job,     *)
(* whatever Batches repeat it, and no Job exists without its pair.         *)
(***************************************************************************)
OneJobPerIdentity ==
    /\ \A id \in DOMAIN submissions :
           /\ submissions[id].job \in DOMAIN jobs
           /\ jobs[submissions[id].job].identity = id
    /\ \A j \in DOMAIN jobs :
           /\ jobs[j].identity \in DOMAIN submissions
           /\ submissions[jobs[j].identity].job = j

(***************************************************************************)
(* Read in the order of their numbers, the events of a Job are an unbroken *)
(* account of its states: each starts where the one before ended, and the  *)
(* last one ends in the state the Job is in.                               *)
(***************************************************************************)
EventsTellTheStory ==
    \A j \in DOMAIN events :
        /\ events[j] # <<>>
        /\ events[j][1].previous = "None"
        /\ \A n \in 2 .. Len(events[j]) :
               events[j][n].previous = events[j][n - 1].current
        /\ events[j][Len(events[j])].current = jobs[j].state

(***************************************************************************)
(* A control request answered Completed has taken effect, although         *)
(* control() skips the write when the Job's last result already has the    *)
(* request's text.  `effect' is what the request asks of every copy.       *)
(***************************************************************************)
TakesEffect(op, effect(_)) ==
    reply.op = op /\ reply.outcome = "Completed" =>
        \A i \in DOMAIN jobs[reply.job].copies : effect(jobs[reply.job].copies[i])

(* "Cancel atomically changes every Queued or Deferred copy [...] to
   Cancelled": a Completed Cancel leaves nothing that would still be sent. *)
CancelTakesEffect ==
    LET Settled(copy) == copy.state \in {"Delivered", "Cancelled"}
    IN TakesEffect("Cancel", Settled)

(* "Retry atomically changes every Deferred copy to Queued and clears its
   delivery retry Timestamp": a Completed Retry leaves none waiting. *)
RetryTakesEffect ==
    LET NotWaiting(copy) == copy.state \notin {"Deferred", "Failed"}
    IN TakesEffect("Retry", NotWaiting)

(* "Reroute atomically commits the resulting exact next hop, mode, and
   policies": after a Completed Reroute the copy goes where it was sent. *)
RerouteTakesEffect ==
    LET Moved(copy) == \A d \in reply.target : copy.hop = d.hop /\ copy.mode = d.mode
    IN TakesEffect("Reroute", Moved)

(***************************************************************************)
(* What is Delivered or Cancelled stays so: no retry, reroute, recovery or *)
(* late answer sends a delivered copy again or revives a cancelled one.    *)
(***************************************************************************)
SettledIsFinal ==
    [][\A p \in AllCopies :
           jobs[p[1]].copies[p[2]].state \in {"Delivered", "Cancelled"} =>
               jobs'[p[1]].copies[p[2]] = jobs[p[1]].copies[p[2]]]_vars

(***************************************************************************)
(* Only the worker a copy was given to answers for it: an Active copy      *)
(* changes in a step that consumes the claim with its token, or when the   *)
(* mail service starts, and a copy becomes Delivered only from Active.     *)
(***************************************************************************)
OnlyItsWorkerAnswers ==
    [][\A p \in AllCopies :
           LET old == jobs[p[1]].copies[p[2]]
               new == jobs'[p[1]].copies[p[2]]
               answered == [job |-> p[1], index |-> p[2], token |-> old.token]
                               \in claims \ claims'
           IN /\ old.state = "Active" /\ new # old => answered \/ service = "Down"
              /\ new.state = "Delivered" /\ new # old => answered]_vars

(***************************************************************************)
(* Events are only ever appended, under fresh numbers, and an acknowledged *)
(* one is never offered again.                                             *)
(***************************************************************************)
EventsOnlyGrow ==
    [][\A j \in DOMAIN events :
           /\ Len(events'[j]) >= Len(events[j])
           /\ \A n \in DOMAIN events[j] :
                  events'[j][n] # events[j][n] =>
                      events'[j][n] = [events[j][n] EXCEPT !.acknowledged = TRUE]]_vars
=============================================================================
