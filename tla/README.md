# A TLA+ verification of tith

tith is a store-and-forward mailer for FidoNet-style networks, written in Rust.
This directory holds TLA+ models of it, the TLC configurations that check them
on small instances, and theorems that TLAPS checks for every value of the
constants. `PROJECT.json` lists the runs, the theorems, the source lines behind
each definition, the hazards and the disagreements found between code and
documents.

## The system

### Parts and state

| Part | Source (under `src/crates/`) | Module |
| --- | --- | --- |
| Outbound spool: Jobs, submissions, events | `tith-store/src/outbound.rs`, `poll_snapshot.rs` | `OutboundSpool` |
| Inbound spool: records, duplicates, claims | `tith-store/src/lib.rs`, `inbound_accept.rs` | `InboundSpool` |
| IPC service, its exports | `tithd/src/ipc.rs` | `InboundSpool`, `OutboundSpool` |
| File IPC binding | `tithd/src/filesystem.rs`, `tith-submit/src/filesystem.rs` | `FileIpc` |
| Schedules, driver thread, passes | `tithd/src/mail.rs`, `schedule.rs`, `deliver.rs` | `MailDriver` |
| Bundle exchange, client and server side, key pins | `tithd/src/client_exchange.rs`, `server_exchange.rs`, `deliver.rs`, `tith-exchange`, `tith-wire/src/bundle.rs`, `tith-store/src/key_pin.rs` | `Transfer`, `Handover` |
| Acceptance and relay | `tithd/src/accept.rs` | `Network` |
| Submission engine | `tithd/src/submission.rs` | `Submission` |
| Item formats | `tith-wire/src/item_*.rs` | `Items` |
| Router | `tith-router` | `Router` |
| Nodelists | `tith-nodelist` | `NodelistRecords`, `Nodelist` |
| Addresses and patterns | `tith-wire/src/address.rs` | `Addresses` |
| Inbound adapter and its ledger | `tith-adapter`, `tith-ledger`, `tith/src/inbound.rs` | `AdapterInbound` |
| NetMail scan | `tith/src/netmail.rs`, `netmail/submission.rs`, `tith-message-legacy` | `NetmailScan`, `LegacySubmission` |
| BSO scan | `tith/src/bso.rs`, `bso/correlate.rs`, `tith-bso` | `BsoScan`, `LegacySubmission` |

### How they interact

The database is a redb file: one writer at a time, every transaction atomic and
durable, and the file locked by the process that opened it. So exactly one of
these processes works on it at a time:

* the **mail service** (`tithd serve-mail`): listener threads accept items into
  the inbound spool, commit relayed Jobs and lend copies to polling peers; one
  driver thread claims copies by schedule and delivers them;
* the **IPC service** (`tithd serve-unix-mailer` and its siblings): a thread for
  each connection, or one loop over the directories of the file binding, submits
  and controls Jobs and lends inbound items to consumers.

Beside them run the clients of the IPC service. The **adapter** (`tith inbound
run`) is a consumer with a ledger of its own: it converts what it claims and
publishes legacy objects in a directory where a tosser polls for them. The
**scanners** (`tith netmail scan`, `tith bso scan`) go the other way: they claim
or lock what legacy software left in a directory, submit it and retire the
source.

None of them has an orderly shutdown; all are killed. Memory is lost, tables
and files stay.

### What is hard about it

* Workers hold copies and consumers hold items across network conversations,
  process deaths and other people's requests.
* The time a thread acts by is read before it waits for the write lock.
* Requests are repeated after lost answers, and recognised by keys, tokens,
  digests or (in one place) by the text of a result.
* Files and tables change in separate steps: exports, the adapter's directory
  and ledger, scanned messages, flow files, the carriers of the file binding.
* Both ends of a connection write and read in rounds, and each must know how far
  the other got when it breaks.
* Routing is decided hop by hop with each system's own nodelist and rules.
* The driver thread is alone: what keeps it busy keeps every schedule waiting.

### What correctness means here

No copy is in two hands; what is settled stays settled; every Job reports what
its copies say and its events are a complete account; a submission identity
stands for one Job; a lease given to a consumer is honoured until the time it
was told; a signed item is stored once, however often its sender has to send it;
a copy is Delivered only when the other end has the item; an item is relayed
once and ends in one place; schedules neither drift nor starve; the adapter
acknowledges nothing that is not safe; a scanner removes nothing that is not
committed; a client of the file binding gets the answer to its own request.

## The modules

`MC*` modules are the small instances TLC checks. An operator marked `Mutant`
changes one definition the way a plausible bug would; no specification uses it.
With the mutant in place of the definition, TLC finds the property violated.

### OutboundSpool

`jobs`, `submissions` and `events` are the tables; `claims` is the set of
DeliveryClaims that threads of the running service took; `service` says who has
the database: a mail service that started its driver (`Mail`) or only listens
(`Listen`), or the IPC service;
`reply` is the answer to the control request just served. ITEMS is left out: an
item is written with its Job and never changes.

Each store method is one transaction and so one action. `Save` is the end they
share: write the record, append an event. Who calls a method is part of its
guard: submissions and control requests need the IPC service, claims and
outcomes the mail service (whose relays commit single NetMail Jobs under the
reserved application).

Abstracted: a submission is a *blueprint* (kind, copies, whether it is a
forward), which `Submission` computes in detail; the digest of a submission is
its blueprint, and that of a relayed item a single value, because relay_identity
derives it from the key; what a schedule selects is an arbitrary set of
identities; a result is a text from a small set.

From the configuration parser the model assumes what it enforces: a Public-Key
exactly for an anonymous address, and no two Peers of one identity
(`BlueprintAssumption`). `claim_poll_snapshot` depends on the second: it claims
each copy in a clone of the Job made before the transaction changed anything.

### InboundSpool

The five tables, the export directory (`exports`, and `temporaries` for files
being written), `conn` for what each IPC thread is doing, and `leases` and
`outcomes` for what consumers have been told. A request is several actions, one
for each transaction or file operation. `conn[c].asOf` is the last reading of
the clock a thread took; the next one lies between it and `now`, so a thread
may act by a time that has passed, but not by one from before its request
arrived. `Overlap` says whether a consumer repeats a request about a claim
while the first is still being served.

`Forward` is the effect of commit_batch on the inbound record. Changed and
attempts, which no decision reads, are left out.

### MailDriver

The loop of start_outbound as `phase`, the Scheduler's `beginning` and `until`,
the lists `open` and `still`, and a spool reduced to what the driver sees. The
clock may tick between any two steps, because connections take time. `Selected`
and `Polls` are what the configuration lets a schedule select and poll; a
schedule without a local identity is one where both are empty.
`SlotIsTruthful` speaks of activations whose end is still to come: when a round
lasts beyond the end of an activation, the Scheduler begins the next one of its
schedule while the old one is still in `open`, and both get their pass.

### Transfer and Handover

`Handover` is the abstract specification: what two nodes promise about an item
one has for the other, whatever happens between them. `Transfer` is the exchange
as it is coded, and `ImplementsHandover` the refinement, with the states of the
sender's copy mapped to Waiting, Tried and settled.

In `Transfer` one node dials another again and again. `client` is the driver
thread's exchange (`converse`, its ResponseTracker and ClientSession), `server`
the thread of each connection with the copies it holds for a poll (`holds`),
`up` and `down` the frames in flight. A Bundle is a header and a payload; the
client sends its group and Polls, the server answers each value and returns what
it holds for the caller, and the last word is the client's final Reply Bundle,
by which the holds are resolved. A
connection may be cut or a payload damaged at any time, either process killed
and restarted (the server with or without recovery), a time-out may strike, and
the store may fail while copies are claimed or outcomes written. The server may get a new key, keeping its old ones or not; the client
follows by `pin` and `anchor` through a probe for continuity.

### Addresses, NodelistRecords, Nodelist

Operators for addresses, address patterns and their matching; for the validator
of a nodelist with the context it carries from line to line (`Descend`,
`address_for`), flags, services and endpoints; and the state machine of a
producer (`NodelistWriter`) that may go on after a refused line, and a reader
that reads the file back. A line is a record of what the validator tells apart,
not text. I/O failures, compression and the names of publications are left out.

### Router, Items, Submission

Operators only. `Router`: route_netmail with every method and selector, and the
failure policies. `Items`: building, validating, forwarding and relaying items
of each kind, refusals in the order of the code; a signature is the pair of a
key and what it covers. `Submission`: what submit makes of every form of
request, with routing, area distribution, retained signatures, Forward and
Reroute.

### Network

Several systems, each with its own configuration, nodelist and pins, composed of
the three modules above. `spool` and `inbound` are sequences of Jobs and
records. A step is a submission, a delivery or a poll of one item with its
answer, which may be lost, a Forward or a Reroute. `dispatch`, `prepare_relay`
and `relay` are accept.rs; what happens inside an exchange is left to
`Transfer`, and inside a store to the two spool modules.

Resolution is stated at quiescence (`Quiet`), not as liveness: every step but a
lost answer happens once per item and system, so the system always comes to
rest, and the invariants say what must be true then.

### AdapterInbound

`ledger`, `quarantine` and `counter` are the tables of tith-ledger; `inbox`,
`taken` and `staging` the directory; `mail`, `forwards` and `replies` what the
mailer has on record; `pc`, `batch` and `out` the memory of the one thread. Each
transaction, link, removal and request is a step, so that a crash falls between
any two.

`Kind` and `Size` are what plan makes of an item: the conversions and the
policy decide them, and nothing else about an item matters here. A name is the
number the counter gave; `Foreign` are names another program has taken. `erased`
holds the requests whose file marked for removal is gone; the request processor
offers it again on every run. Any request may be refused, unanswered or answered
too late, and whatever answer a result other than a submission gets is ignored,
as `control` and its callers do.

Two things are simplified. The fallback of claim_name for filesystems without
hard links, which creates the final name before it is written, is left out. So is
the truncation of an identity to 32 bits in a name.

### LegacySubmission, NetmailScan, BsoScan

`LegacySubmission` has what both scanners make of a legacy message: the checks
of build, build_packed, build_peer_files and build_file_requests in their order,
attachments and dispositions, timestamps, and the idempotency key.

`NetmailScan` is a directory of hard links (`fs`) and the scanners, one step per
filesystem call: claim, by link or by exclusive create, read, submit, mark or
remove, publish under the first free name, and recovery of old claims. A name is
a number and a depth of claim suffixes, because a claim may itself be claimed.
`regime` chooses, in the initial state, which scanners run, whether the
filesystem has links, and how many crashes there are.

`BsoScan` is the outbound of one node: packets, references and request lists by
flavour, `.hld` and `.bsy` files. A lock file and its name are separate, so that
an owner can remove the name while another takes over the file; the release of a
lock is one step. Reading an expired hold and removing it are two. `Garbled` are
the messages whose packet cannot be parsed. The tosser takes the `.bsy` of the directory it writes in, as
FTS-5005 asks.

### FileIpc

`requests`, `claimed` and `results` give each token the contents of its file,
`acknowledgements`, `private` and `drafts` the files that exist. Every link,
creation and removal of clients and service is a step, and both may be killed
between any two. A kill loses no file: what was linked stays, and sync_directory
has no effect in the model. That two live clients do not draw the same 128
random bits is assumed; that a token may be used again after its cleanup is
allowed. `executed` counts the executions of a token's operation.

## The runs

| Run | Question | Properties |
| --- | --- | --- |
| `spool_jobs` | two Jobs, one of an application and one relayed, of NetMail or of EchoMail with an active and a passive copy, submitted again and in conflict, each copy attempted twice, with every worker, control request, kill and start of either service, with and without schedules, around the attempts | `JobStateIsAggregate`, `ClaimsAreCurrent`, `NoOrphanedCopy`, `EventsTellTheStory`, `OneJobPerIdentity`, `SettledIsFinal`, `OnlyItsWorkerAnswers` |
| `inbound_claims` | one signed item retransmitted, two consumers, two threads | `TablesAgree`, `LeaseHonoured`, `TokenHasOneOutcome`, `OneRecordPerItem` |
| `driver` | beginnings, slots, sleeps and claims of two schedules | `KeepsTheBeat`, `SlotIsTruthful`, `NoOversleep`, `DueIsActivated` |
| `transfer` | a message and a FileRequest sent, two messages held, one of them refused, up to three connections, two keys, a fault of any kind | `ImplementsHandover`, `ActiveIsHeld`, `PinAdvances`, `ExchangeEnds` |
| `network` | mail, files and requests among a Host, its Hub, a private node and an anonymous point, two answers lost, one reroute | `OneFate`, `RelayedOnce`, `NetMailResolved`, `AreaSpreads` |
| `nodelist` | every nodelist of four lines out of twelve kinds, one of them refused, in three contexts | `BranchesAreReal`, `SegmentsAgree` |
| `adapter` | items of every kind in batches of two, with crashes, lost answers, taken names and a tosser | `AcknowledgedIsSafe`, `CompanionsFirst`, `RemovalRemembered`, `PublishedIsFinal` |
| `netmail` | two scanners, or one that crashes, with and without hard links, a lost request or answer, messages arriving | `NothingLost`, `SubmittedOnce`, `EveryMessageSettles` |
| `bso` | one or two scanners and a tosser, holds, stale locks, an unparsable packet, a missing file, a crash or a lost answer | `Mutex`, `NothingLost`, `EverythingLeaves` |
| `file_ipc` | two clients and the service, a kill of each, a failed read | `AnswersMatch`, `ExecutedOnce`, `EveryRequestAnswered` |
| `file_ipc_again` | the same clients and kills | `NeverExecutedAgain` is violated |
| `netmail_stolen` | two scanners and messages older than `--recover-after` | `NothingLost` is violated |

The modules state a few more properties that hold on the same instances and that
no run repeats: `TypeOK` of the older modules, `CopyShape`, `CancelTakesEffect`, `RetryTakesEffect`,
`EventsOnlyGrow`, `TerminalIsFinal`, `KeySticks`, `ClaimedIsInGroup`,
`Coalesced`, `RecordedBeforePublished`, `ItemsIntact`,
`SentIsAccepted`, `SentOnce`, `RetainedUntilAcknowledged`. Of these `TypeOK` of `OutboundSpool`, `CopyShape`,
`TerminalIsFinal`, `KeySticks`, `ClaimedIsInGroup`, `Coalesced` and
`RetainedUntilAcknowledged` are proved.
`MCInboundItems.cfg` checks `ClaimIsTransient`, that the item of a dead consumer
becomes available again, on an instance of its own.

### Bounds

Every bound is a CONSTANT and stands in a guard, never in a constraint.

* `OutboundSpool`, `InboundSpool`, `MailDriver`: `MaxTime` is 1 for the claims of
  both spools and 7 for the driver, enough for a claim or a period to run out and
  another to begin; two tokens, two threads
  and one or two Jobs or items are what it takes for two workers, two consumers
  or two claims of one item to meet; two attempts are the first that follows a
  deferral and one after a control request. Batches have one submission in the
  run; `SubmissionCorrect` is proved for Batches of any size. In `InboundSpool` claims and
  renewals date from at most `MaxTime` and the clock runs on for `Duration`, so
  that every claim can run out. In `MailDriver` a driver asleep at the bound
  wakes without the clock.
* `AdapterInbound`: three claims give one item two redeliveries, or two items of
  one batch and one redelivery.
* `Transfer`: a group of two, so that a Bundle can be answered in part; three
  connections, so that a thread of an abandoned connection and two retries
  overlap; one fault. `MCTransferKeys.cfg` leaves out the group and the liveness
  instead, and has three keys and three faults (2.39 million states), so that a
  key may change again while a probe is under way.
* `Network`: two lost answers, so that one item can come twice to two hops; the
  scenarios are one for each kind of item and direction, and one with two
  NetMails that the same hop relays and refuses.
* `Nodelist`: four lines are a Zone, a Region or Host, a Hub and a member; every
  coordinator keyword occurs, Zone and Host with several numbers, so that one
  can replace another.
* `NetmailScan`: two letters, one with a MSGID and one without that asks to be
  killed; four message numbers, five files, three claim suffixes. A lone scanner
  crashes up to twice with hard links and once without.
* `BsoScan`: a file attach with its entry, an EchoMail, a TIC entry, a request
  list, a reference to a file that is missing and a packet that cannot be parsed.
  Either two scanners and no mishap, one scanner and one mishap, or two
  scanners, one mishap and files only. Two scanners of packets of which one
  crashes are not in the run.
* `FileIpc`: two tokens, so that transactions meet and so that one can be used
  again; three starts are the first, the one after a kill and one after a
  failure. Three transactions (1.95 million states) were checked as well, and the
  invariants of the proofs with two kills (2.35 million).

Symmetry is used in `spool_jobs`, `inbound_claims` and the counterexamples of
the two spools, all of safety properties, over identifiers the code draws at random.

### Fairness

* `OutboundSpool`: none, and no liveness property. That a claimed copy is always
  answered for cannot be claimed: the threads of a server have no read time-out,
  and some errors leave a claim to nobody (see the remarks).
* `InboundSpool`: time passes, the IPC service is run again and again, and
  *some* request reaches it; nothing is assumed of the consumer that holds a
  claim.
* `MailDriver`: the driver thread runs, its connections end (on the client's
  side they have time-outs), time passes. Nothing is assumed of the peers, so
  `DueIsActivated` exempts a schedule that waits behind a pass whose retries fall
  due at once (`Overtaken`); `MCDriverEndlessPass.cfg` shows that it may wait for
  ever.
* `Transfer`: the driver thread and the server threads run. No time-out has to
  strike and nothing has to be dialled: that an exchange ends is not owed to
  time-outs. It could not be on the server's side, whose threads have no read
  time-out.
* `NetmailScan`, `BsoScan`: a scanner that started goes on, scans are started
  again and again (they are run from a timer), and a claim or lock that nobody
  refreshes is old at last. In `NetmailScan` recovery is strongly fair: it is
  possible in every pass of a scanner, and not between passes.
* `FileIpc`: clients that began go on, the service is started again and runs.
  `EveryRequestAnswered` exempts states where a killed service left a temporary
  result behind (`Wedged`), which the service does not survive (see the remarks).
* `NothingLost` and `EverythingLeaves` of `BsoScan` exempt the rest of a reference
  that a crash inside its rewrite lost (`torn`). `EverythingLeaves` says of each
  message, entry and requested action that it gets its Job, and exempts only
  what the code cannot get through: what comes at or after an unparsable packet
  in the order of the pass (`Starved`), a message that cannot be built
  (`Submittable`), and what shares a reference with a file that is missing or
  asks for a feature the service lacks (`Impeded`).

## Disagreements found

`netmail_stolen` is a run, with its finding in `PROJECT.json`: abandoned_claims
takes the age of the message for the age of the claim, so that a message older
than `--recover-after` can be taken from a scanner at work, and is lost when the
first scanner goes on with a name that is no longer its own.

`file_ipc_again` is the other: a kill between process_request and the link of the
result makes the next service execute the operation again, where TSP-0008.txt:147
says "The same token MUST NOT execute the operation again." Most
requests recognise a repetition by a key or token of their own, so that little
changes twice; but the client may be told `Existing` of a Job that its own
request made.

The configurations below end in a counterexample too. They are kept for whoever
wants the trace. Each checks one property, but `MCAdapterRedelivered.cfg` two,
which `-continue` shows.

| Configuration | Property | What the code does |
| --- | --- | --- |
| `MCBsoTwoRoots.cfg` | `NothingLost` | the flow files of a node may be in two directories, and node() takes the `.bsy` of the first (`bso.rs:302`): what a tosser appends in the second is overwritten |
| `MCBsoPacketStays.cfg` | `PacketRetires` | a packet with one failed message stays, but its reference is rewritten (`bso.rs:415`), where the comment before says "anything short of it leaves everything alone"; on the next pass the committed message with the attachment is another submission under the same key, a Conflict for ever |
| `MCSpoolListen.cfg` | `RecoveredAtStartup` | start_outbound returns before recover_active when there are no schedules (`mail.rs:171`), and `--listen-only` does not call it, so copies a killed predecessor lent to a poll stay Active; `src/README.md:454` says "Copies left claimed by a killed daemon are returned to the queue at startup." |
| `MCNodelistGoesOn.cfg` | `ReadBack` | a refused line has already moved the writer's context (`document.rs:776`), so a producer that goes on is told addresses the file does not have; no producer in the repository goes on |
| `MCNetworkPoints.cfg` | `AreaSpreads` | build_forward_job excludes the incoming peer by address alone, and all anonymous points have one address: an echo of one point never reaches another |
| `MCSpoolRerouteTwice.cfg` | `RerouteTakesEffect` | control() skips the write when last_result already has the request's text, so a second Reroute without an attempt between is answered Completed and lost |
| `MCInboundRenewTwice.cfg` | `LeaseHonoured` | two renewals of one claim in flight can shorten it |
| `MCInboundExportRemoved.cfg` | `ExportOutlivesClaim` | a Claim thread whose claim has run out removes the export of the claim that followed |
| `MCDriverEndlessPass.cfg` | `PassEnds` | a pass whose `next_attempt` has passed, because the polls before it took long, claims a failing copy again for as long as its peer is unreachable, and no other schedule is served |
| `MCAdapterRedelivered.cfg` | `PublishedOnce` | a crash or an error after an object got its final name and before the ledger says Published makes the next delivery publish the item again under new names |
| `MCAdapterRedelivered.cfg` | `RedeliveryResolves` | a Forward Job that was committed and not recorded is in the way of its own resubmission, because its digest covers the claim token; the item is deferred again and again |

### Remarks on the code, without a configuration

Spools and service:

* reroute() replaces the next hop of a copy and keeps the `next_hop_key` of the
  old one (`outbound.rs:654`). A Job whose last delivery result happens to be
  the text "Cancelled" is answered Completed to a Cancel that changes nothing;
  the runs keep delivery results and control results apart.
* Three errors leave copies Active that no thread answers for, until the next
  start with schedules (`stranded` in `Transfer`, exempted by `ActiveIsHeld`): one
  of claim_scheduled after the first claim of a group (`deliver.rs:275`, `:300`);
  one on a value of a poll snapshot before its last, when the whole snapshot is
  claimed and the rest is not yet a hold (`server_exchange.rs`, whose comment
  says "every copy this connection claimed needs an outcome"); and one of
  finish_delivery, after which release_holds and finish_group do not go on to
  the copies that follow.
* A temporary file left by an interrupted export blocks every repetition of the
  Claim until the claim expires (`ipc.rs:558`).
* A failed recovery of key continuity discards the responses already received.

File binding:

* A kill between the link in `claimed` and the removal from `requests` leaves
  both names; after the acknowledgement and its cleanup the request is claimed
  and executed once more, and nobody acknowledges that result.
* A kill between the creation and the removal of `.service/<token>.rsp.tmp` makes
  every later publication of that token fail, and process_once with it: the
  service ends at each start, after executing the operation again (`Wedged`).

Routing and submission:

* The SeenBy of an originated item is the local identity alone, and an empty
  SeenBy is refused; area_deliveries ignores the endpoints of the nodelist; a
  point never matches a Branch or Independent selector, and a coordinator's own
  entry matches Independent; Direct ignores the LO flag (TSP-0002).
* Forward, File and Reroute verify with the keys of the nodelist only, where
  TTS-0008 also knows pins.
* failure_policies is asked with the next hop as the destination. Retained
  NetMail and reroutes are routed without their Vias. A Hub's default route to a
  private node of its own is a Loop. prepare_relay runs again for a
  retransmission, so a changed configuration may refuse what was relayed.
* A reroute of a copy whose answer was lost can send the item two ways, which is
  why `OneFate` exempts rerouted items.

Nodelists:

* `BranchesAreReal` and `SegmentsAgree` are about what a reader makes of the file
  and hold whether or not its producer went on after a refusal.
* After a refused Zone 0, a Region reaches the `expect("a Region follows an
  active Zone")` of the validator (`RegionFollowsZone` does not hold).

Scanners:

* On a filesystem without hard links a scanner may claim the empty name another
  has just reserved in place(), and a message is lost; the run has one scanner
  there.
* A crash between link and removal leaves twins, which for a message without a
  MSGID are two Jobs; a crash inside the write of a marked message leaves an
  empty file of a message already submitted.
* A message without a MSGID in a packet that stays is sent again in every pass;
  an attachment may go out on its own when its packet appears between the
  listing and the lock; lines marked `~` or `!` are dropped by a rewrite; a crash
  inside rewrite_reference loses the rest of the reference.
* A packet that cannot be parsed ends the pass of its node each time, and what
  comes after it waits until somebody removes it; one missing file keeps the
  unclaimed entries of its whole reference (`bso.rs:530`).

Adapter:

* A crash between mark_orphan_notice_published and the Retired entry makes plan
  convert the orphan anew; stage_orphan then refuses the different quarantine
  each time the item is delivered.
* A crash after record_cleanup and before the reply is committed makes recovery
  remove a file that was never sent.

## The proofs

The theorems hold for any Jobs, hops, keys, tokens, clients, requests, items,
consumers and schedules, and any bounds. They rest on the named assumptions of the
modules they are about, which TLC evaluates in the runs: `SpoolAssumption` and
`BlueprintAssumption` of `OutboundSpool`, `InboundAssumption`,
`AdapterAssumption`, `DriverAssumption`, and for `FileIpc` only that the mark for
a missing file is not a response (`NoneIsNoFile`). `LeasesHonoured` has a
hypothesis besides: a token has one request at a time (`~ Overlap`), without
which `LeaseHonoured` is false, as `MCInboundRenewTwice.cfg` shows.

`OutboundSpoolProofs` builds one inductive invariant in layers:

* `Base` = `TypeOK` and *every Job's copies go to distinct identities or are a
  single NetMail copy*. The second part is what makes claim_poll_snapshot's
  clones harmless: reroute changes identities, but only of Jobs with one copy.
* `Records` = `Base`, `JobStateIsAggregate`, `OneJobPerIdentity`,
  `EventsTellTheStory`. Aggregates are needed by the event story (the previous
  state of the next event is the Job's present state) and the correspondence of
  JOBS and SUBMISSIONS by commit_batch, which must not overwrite a Job.

`OutboundOwnershipProofs` adds `Owned`: every claim names an existing copy, only
a mail service has claims, and every copy is *well held* (its token, state and
retry Timestamp match, and its token is that of at most one claim, for this very
copy), and every Active copy of a service that started the driver has its claim.
From it follow `CopyShape`, `ClaimsAreCurrent` and `NoOrphanedCopy`; the action properties `SettledIsFinal` and
`OnlyItsWorkerAnswers` follow step by step.

`FileIpcProofs` has three invariants:

* `IInv`: the listing the service works through is still true of the directories
  (`Listing`); the two names a kill may leave are of one request (`Twins`); a
  result answers the claimed request of its token, or its cleanup has begun and
  will be finished before anything is claimed (`Results`); and the files of a
  token a client holds are its own (`Owners`). The order of the removals in
  cleanup_acknowledged, and that cleanup comes first in a pass, are what
  `Results` rests on.
* `Budget`: executions of a token, and those still owed to a request that waits
  or is claimed without a result, are at most the starts of the service. A kill
  can bring an owed execution back, but costs a start.
* `KInv`: a service that was not killed was started once and left no temporary
  result behind, which is all that could end it. With `Budget` this gives one
  execution.

`InboundSpoolProofs` proves `IInv` = `TypeOK`, `TablesAgree` and four facts about
who knows what: a thread acts by a time that has been and for a claim that was
granted (`Threads`), as does a consumer (`Leased`); a signed item is registered
under the record that holds it (`Registered`), without which a retransmission
could make a second record; and what a consumer was told of a token is what
RESOLVED_TOKENS has (`Remembered`). Its lemma `EndClaimsEnds` says row by row
what ending several claims in one transaction writes; it needs that open claims
have distinct keys and tokens. `Durable`, what no step undoes, gives the
action properties.

`InboundLeaseProofs` adds `Promises` (a claim whose consumer was told a time
either is open and expires no earlier, or was ended by that consumer, or that
time is past) and `Renewals` (no other request is being served for the claim that
a renewal moves, so the claim expires no later than the renewal will set it).

`AdapterInboundProofs` has to survive a kill after any step, after which only the
tables and the directory are left. Its invariant therefore says what each state
of the ledger promises about the rest (`Ledgered`, `Isolated`), what is known of
the item in hand at each step (`Handled`), and why the mailer has not let go of
an item that is being worked on: the claims of one item within a batch have
growing tokens, so that only the last can be current (`Tokens`, `Over`).
`PublishedIsFinal` follows because a conversion is only ever under way for an item
that is not recorded as published (`Fresh`).

`MailDriverProofs` relates two accounts of the same activations, the Scheduler's
(`beginning`, `until`) and the driver's (`open`), which are written at different
times: a slot that is taken has an activation with that very end, and an
activation that is not over has its schedule's slot (`Slots`). The beat is stated
with the number of periods instead of the remainder (`Beats`). That next_wakeup
finds an earliest wakeup is the least-element principle of the natural numbers
(`FirstWakeup`).

| Theorem | Establishes |
| --- | --- |
| `TypeCorrect` | `TypeOK` |
| `JobStateCorrect` | `JobStateIsAggregate` |
| `SubmissionCorrect` | `OneJobPerIdentity` |
| `EventsCorrect` | `EventsTellTheStory` |
| `CopyShapeCorrect` | `CopyShape` |
| `ClaimsCorrect` | `ClaimsAreCurrent` |
| `RecoveryCorrect` | `NoOrphanedCopy` |
| `SettledCorrect` | `SettledIsFinal` |
| `AnswersCorrect` | `OnlyItsWorkerAnswers` |
| `AnswersMatchAlways` | `AnswersMatch` |
| `ExecutedPerStartAlways` | `ExecutedPerStart`: no more executions of a token than starts, whatever is killed |
| `ExecutedOnceAlways` | `ExecutedOnce` |
| `ResultsAreRetained` | `RetainedUntilAcknowledged` |
| `TablesAlwaysAgree` | `TablesAgree` of `InboundSpool` |
| `NoSecondRecord` | `OneRecordPerItem` |
| `OutcomeIsStable` | `TokenHasOneOutcome` |
| `KeysStick` | `KeySticks` |
| `TerminalStays` | `TerminalIsFinal` |
| `LeasesHonoured` | `LeaseHonoured`, given one request per token at a time |
| `AcknowledgedAlwaysSafe` | `AcknowledgedIsSafe` |
| `CompanionsAlwaysFirst` | `CompanionsFirst` |
| `RemovalAlwaysRemembered` | `RemovalRemembered` |
| `PublishedStaysFinal` | `PublishedIsFinal` |
| `BeatIsKept` | `KeepsTheBeat` |
| `MissedAreCoalesced` | `Coalesced` |
| `SlotsAreTruthful` | `SlotIsTruthful` |
| `NeverOversleeps` | `NoOversleep` |
| `ClaimedAreInGroup` | `ClaimedIsInGroup` |

Each inductive invariant was checked by TLC on the constants of its module's run
before it was proved.

**Only model-checked:** the liveness properties (fairness and ENABLED are out of
the prover's reach); everything about `Transfer` and its refinement of
`Handover`, `Network`, `Nodelist`, `NetmailScan` and `BsoScan`; and what the
operators of `Router`, `Items`, `Submission`, `NodelistRecords` and
`LegacySubmission` compute, which is checked through the state machines that use
them. Those operators are recursive or filter sequences by a predicate, which
the prover cannot reason about.

## Not modelled

* **Text and bytes**: the parsers of configuration, requests and items, the
  encodings of tith-wire, the conversions of the adapter, the legacy nodelist
  conversion, compression. They are functions without state, and their inputs
  are unbounded. What a parser guarantees and others rely on is an ASSUME.
* **Cryptography**: hashes and signatures are taken as collision free and
  unforgeable where they matter.
* **The stream bindings and authentication of IPC callers**: one request and one
  answer; their loss is a step of the modules that submit.
* **Store errors**, except in `Transfer`: elsewhere a transaction that cannot be
  committed ends the request that wanted it.
* **Power failures**: a kill loses memory and no file. Which writes survive a
  power failure is the business of the sync calls, which the models skip.
* **remove_duplicate_identity**, which no program calls, and the proof of concept
  in C, which shares no code with the crates.
