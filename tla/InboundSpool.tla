----------------------------- MODULE InboundSpool -----------------------------
(***************************************************************************)
(* The durable inbound spool of tith-store (InboundStore) and the IPC      *)
(* service that lends its items to consumers.                              *)
(*                                                                         *)
(* The mail service accepts items.  The IPC service, one thread for every  *)
(* connection, serves the requests of consumers: Claim lends the oldest    *)
(* eligible item for a limited time and exports its payload as a file;     *)
(* Renew, Acknowledge, Release, Defer and Reject answer for a claim.  Each *)
(* store method is one redb transaction and so one action; a request is    *)
(* several of them, with file operations between.  A thread reads the      *)
(* clock before it waits for its transaction, so the time `asOf' it acts   *)
(* by may have passed, but not before its request arrived or it last read  *)
(* the clock.  A kill loses the threads and keeps tables and files.        *)
(***************************************************************************)
EXTENDS Integers, FiniteSets

CONSTANTS
    InboundIds,     \* identifiers inbound_identifier::allocate can draw
    Items,          \* payloads peers send
    Signed,         \* those with a duplicate identity
    Applications,
    ClaimKeys,
    NoClaimKey,
    Tokens,         \* claim tokens
    NoToken,
    Connections,    \* threads of the IPC service
    Duration,       \* CLAIM_DURATION
    Overlap,        \* TRUE: a consumer repeats a request still being served
    MaxTime         \* bound: items, claims and renewals date from before it

States == {"Available", "Claimed", "Deferred", "Consumed", "Rejected"}
Terminal == {"Consumed", "Rejected"}
Clock == 0 .. MaxTime + Duration
NoTime == -1

ASSUME InboundAssumption ==
    /\ Signed \subseteq Items
    /\ NoClaimKey \notin ClaimKeys
    /\ NoToken \notin Tokens
    /\ Duration \in Nat \ {0}
    /\ MaxTime \in Nat
    /\ Overlap \in BOOLEAN

VARIABLES
    service,     \* who has the database open: "Down", "Mail" or "Ipc"
    records,     \* table RECORDS: InboundId -> record
    payloads,    \* table PAYLOADS: InboundId -> item
    duplicates,  \* table DUPLICATES: signed item -> InboundId
    mappings,    \* table CLAIM_KEYS: <<application, key>> -> claim and outcome
    resolved,    \* table RESOLVED_TOKENS: token -> how its claim ended
    exports,     \* files <id>-<token>.tlv of the export directory
    temporaries, \* files .<id>-<token>.tmp
    conn,        \* what each thread of the IPC service is doing
    leases,      \* what consumers were told: item, token and Claim-Expires
    outcomes,    \* what consumers were told: token and resulting state
    now

tables == <<records, payloads, duplicates, mappings, resolved>>
files == <<exports, temporaries>>
told == <<leases, outcomes>>
vars == <<service, tables, files, conn, told, now>>

Record == [application : Applications, received : Clock, state : States,
           eligible : Clock, key : ClaimKeys \cup {NoClaimKey},
           token : Tokens \cup {NoToken}, expires : Clock \cup {NoTime},
           forwarded : BOOLEAN]

Mapping == [id : InboundIds, token : Tokens, outcome : States \cup {"None"}]
Resolution == [id : InboundIds, state : States, completed : BOOLEAN]
Lease == [id : InboundIds, token : Tokens, until : Clock]

(* A thread serves a Claim that has selected nothing yet, exports what a Claim
   was granted, or serves a request about a claim.  `asOf' is the last reading
   of the clock, at first the time the request arrived. *)
Idle == [phase |-> "Idle"]
Claiming == [phase : {"Arrived", "Refreshed"}, application : Applications,
             key : ClaimKeys, asOf : Clock]
Exporting == [phase : {"Granted", "Cleared", "Checked", "Writing"},
              id : InboundIds, token : Tokens, until : Clock, asOf : Clock]
Controlling == [phase : {"Asked", "Ready", "Resolved"}, id : InboundIds,
                token : Tokens, asOf : Clock]

EmptyTable == [x \in {} |-> x]
Put(table, rows) ==
    [k \in DOMAIN table \cup DOMAIN rows |->
        IF k \in DOMAIN rows THEN rows[k] ELSE table[k]]

Init ==
    /\ service = "Down"
    /\ records = EmptyTable
    /\ payloads = EmptyTable
    /\ duplicates = EmptyTable
    /\ mappings = EmptyTable
    /\ resolved = EmptyTable
    /\ exports = {}
    /\ temporaries = {}
    /\ conn = [c \in Connections |-> Idle]
    /\ leases = {}
    /\ outcomes = {}
    /\ now = 0
-----------------------------------------------------------------------------
(***************************************************************************)
(* accept: a signed item whose identity is known is a duplicate and only   *)
(* acknowledged again; an unsigned item or a FileRequest has no identity.  *)
(***************************************************************************)
NewRecord(application, received) ==
    [application |-> application, received |-> received, state |-> "Available",
     eligible |-> received, key |-> NoClaimKey, token |-> NoToken,
     expires |-> NoTime, forwarded |-> FALSE]

(* Mutant: the identity is looked up but never registered. *)
NoIdentity(item, id) == EmptyTable

Identity(item, id) == IF item \in Signed THEN [x \in {item} |-> id] ELSE EmptyTable

Accept(item, id, application, received) ==
    /\ service = "Mail"
    /\ item \notin DOMAIN duplicates
    /\ id \notin DOMAIN records
    /\ received <= now
    /\ records' = Put(records, [x \in {id} |-> NewRecord(application, received)])
    /\ payloads' = Put(payloads, [x \in {id} |-> item])
    /\ duplicates' = Put(duplicates, Identity(item, id))
    /\ UNCHANGED <<service, mappings, resolved, files, conn, told, now>>
-----------------------------------------------------------------------------
(***************************************************************************)
(* A claim ends: the record, the mapping of its ClaimKey and its token are *)
(* written together, by refresh_expirations for every claim that ran out   *)
(* and by resolve for one.  `new' maps each item to its new record.        *)
(***************************************************************************)
KeyOf(record) == <<record.application, record.key>>

EndClaims(new, completed) ==
    LET ids == DOMAIN new
        Of(k) == CHOOSE id \in ids : KeyOf(records[id]) = k
        By(t) == CHOOSE id \in ids : records[id].token = t
    IN /\ records' = Put(records, new)
       /\ mappings' =
              Put(mappings, [k \in {KeyOf(records[id]) : id \in ids} |->
                  [id |-> Of(k), token |-> records[Of(k)].token,
                   outcome |-> new[Of(k)].state]])
       /\ resolved' =
              Put(resolved, [t \in {records[id].token : id \in ids} |->
                  [id |-> By(t), state |-> new[By(t)].state,
                   completed |-> completed]])

(* Mutant: the expiration of a claim that has ended stays in the record. *)
EndedWithExpiry(record, state, eligible) ==
    [record EXCEPT !.state = state, !.eligible = eligible]

Ended(record, state, eligible) ==
    [record EXCEPT !.state = state, !.eligible = eligible, !.expires = NoTime]

(* Mutant: a claim is taken away in its last second. *)
ExpiredEarly(asOf) ==
    {id \in DOMAIN records :
        records[id].state = "Claimed" /\ records[id].expires <= asOf + 1}

Expired(asOf) ==
    {id \in DOMAIN records :
        records[id].state = "Claimed" /\ records[id].expires <= asOf}

RefreshExpirations(asOf) ==
    /\ EndClaims([id \in Expired(asOf) |->
                      Ended(records[id], "Available", records[id].expires)], FALSE)
    /\ UNCHANGED <<payloads, duplicates>>

(* The test renew, resolve, claimed_payload and claimed_inbound share. *)
Current(id, token, asOf) ==
    /\ records[id].state = "Claimed"
    /\ records[id].token = token
    /\ asOf < records[id].expires
-----------------------------------------------------------------------------
(***************************************************************************)
(* Claim-Inbound                                                           *)
(***************************************************************************)
At(c, phase) == service = "Ipc" /\ conn[c].phase = phase
Goto(c, state) == conn' = [conn EXCEPT ![c] = state]
Advance(c, phase) == Goto(c, [conn[c] EXCEPT !.phase = phase])

Reads(c, asOf) == conn[c].asOf <= asOf /\ asOf <= now

ArriveClaim(c, application, key) ==
    /\ At(c, "Idle")
    /\ now <= MaxTime
    /\ Goto(c, [phase |-> "Arrived", application |-> application, key |-> key,
                asOf |-> now])
    /\ UNCHANGED <<service, tables, files, told, now>>

(* claim refreshes first, which subsumes the refresh before the dispatch. *)
BeginClaim(c, asOf) ==
    /\ At(c, "Arrived")
    /\ Reads(c, asOf)
    /\ asOf <= MaxTime
    /\ RefreshExpirations(asOf)
    /\ Goto(c, [conn[c] EXCEPT !.phase = "Refreshed", !.asOf = asOf])
    /\ UNCHANGED <<service, files, told, now>>

Grant(c, id, token, until) ==
    Goto(c, [phase |-> "Granted", id |-> id, token |-> token, until |-> until,
             asOf |-> conn[c].asOf])

MappingKey(c) == <<conn[c].application, conn[c].key>>

Mapped(c) == MappingKey(c) \in DOMAIN mappings

(* A ClaimKey that has selected an item returns that claim while it is
   current, and what became of it afterwards. *)
RepeatClaim(c) ==
    LET m == mappings[MappingKey(c)]
    IN /\ At(c, "Refreshed")
       /\ Mapped(c)
       /\ IF m.outcome = "None" /\ Current(m.id, m.token, conn[c].asOf)
          THEN Grant(c, m.id, m.token, records[m.id].expires)
          ELSE Goto(c, Idle)
       /\ UNCHANGED <<service, tables, files, told, now>>

Claimable == {"Available", "Deferred"}

EligibleItems(application, asOf) ==
    {id \in DOMAIN records :
        /\ records[id].application = application
        /\ records[id].state \in Claimable
        /\ records[id].eligible <= asOf}

(* The item eligible first, then the one received first, then any. *)
NoLater(i, k) ==
    \/ records[i].eligible < records[k].eligible
    \/ /\ records[i].eligible = records[k].eligible
       /\ records[i].received <= records[k].received

(* random_identifier: a token is never drawn twice. *)
FreshTokens == Tokens \ {mappings[k].token : k \in DOMAIN mappings}

TakeClaim(c, id, token) ==
    LET eligible == EligibleItems(conn[c].application, conn[c].asOf)
        until == conn[c].asOf + Duration
    IN /\ At(c, "Refreshed")
       /\ ~ Mapped(c)
       /\ id \in eligible
       /\ \A k \in eligible : NoLater(id, k)
       /\ token \in FreshTokens
       /\ records' = [records EXCEPT ![id].state = "Claimed",
                                     ![id].key = conn[c].key,
                                     ![id].token = token,
                                     ![id].expires = until]
       /\ mappings' = Put(mappings, [k \in {MappingKey(c)} |->
              [id |-> id, token |-> token, outcome |-> "None"]])
       /\ Grant(c, id, token, until)
       /\ UNCHANGED <<service, payloads, duplicates, resolved, files, told, now>>

(* A Claim that waits tries again. *)
EmptyClaim(c, wait) ==
    /\ At(c, "Refreshed")
    /\ ~ Mapped(c)
    /\ EligibleItems(conn[c].application, conn[c].asOf) = {}
    /\ IF wait THEN Advance(c, "Arrived") ELSE Goto(c, Idle)
    /\ UNCHANGED <<service, tables, files, told, now>>

(* remove_other_exports *)
ClearExports(c) ==
    /\ At(c, "Granted")
    /\ exports' = {e \in exports : e[1] = conn[c].id => e[2] = conn[c].token}
    /\ Advance(c, "Cleared")
    /\ UNCHANGED <<service, tables, temporaries, told, now>>

(* claimed_payload: the claim may have ended since it was granted. *)
ReadPayload(c, asOf) ==
    /\ At(c, "Cleared")
    /\ Reads(c, asOf)
    /\ IF Current(conn[c].id, conn[c].token, asOf)
       THEN Advance(c, "Checked")
       ELSE Goto(c, Idle)
    /\ UNCHANGED <<service, tables, files, told, now>>

(***************************************************************************)
(* export_payload: an existing export is used as it is; otherwise a        *)
(* temporary file is created, written, sealed and renamed.  The create     *)
(* fails if the temporary file is already there, the write may fail too,   *)
(* and both answer TemporaryFailure.                                       *)
(***************************************************************************)
Tell(c) ==
    leases' = leases \cup {[id |-> conn[c].id, token |-> conn[c].token,
                            until |-> conn[c].until]}

File(c) == <<conn[c].id, conn[c].token>>

FindExport(c) ==
    /\ At(c, "Checked")
    /\ File(c) \in exports
    /\ Tell(c)
    /\ Goto(c, Idle)
    /\ UNCHANGED <<service, tables, files, outcomes, now>>

CreateTemporary(c) ==
    /\ At(c, "Checked")
    /\ File(c) \notin exports
    /\ IF File(c) \in temporaries THEN Goto(c, Idle) ELSE Advance(c, "Writing")
    /\ temporaries' = temporaries \cup {File(c)}
    /\ UNCHANGED <<service, tables, exports, told, now>>

PublishExport(c) ==
    /\ At(c, "Writing")
    /\ exports' = exports \cup {File(c)}
    /\ temporaries' = temporaries \ {File(c)}
    /\ Tell(c)
    /\ Goto(c, Idle)
    /\ UNCHANGED <<service, tables, outcomes, now>>

FailExport(c) ==
    /\ At(c, "Writing")
    /\ Goto(c, Idle)
    /\ UNCHANGED <<service, tables, files, told, now>>
-----------------------------------------------------------------------------
(***************************************************************************)
(* Requests about a claim.  dispatch_inner refreshes the spool before it   *)
(* looks at the request, which reads the clock again.                      *)
(***************************************************************************)
About(c, token) ==
    conn[c].phase \in {"Asked", "Ready", "Resolved"} /\ conn[c].token = token

Ask(c, lease) ==
    /\ At(c, "Idle")
    /\ Overlap \/ \A d \in Connections : ~ About(d, lease.token)
    /\ Goto(c, [phase |-> "Asked", id |-> lease.id, token |-> lease.token,
                asOf |-> now])
    /\ UNCHANGED <<service, tables, files, told, now>>

Dispatch(c, asOf) ==
    /\ At(c, "Asked")
    /\ Reads(c, asOf)
    /\ RefreshExpirations(asOf)
    /\ Goto(c, [conn[c] EXCEPT !.phase = "Ready", !.asOf = asOf])
    /\ UNCHANGED <<service, files, told, now>>

(* Capabilities and Query: nothing follows the refresh. *)
OtherRequest(asOf) ==
    /\ service = "Ipc"
    /\ asOf <= now
    /\ RefreshExpirations(asOf)
    /\ UNCHANGED <<service, files, conn, told, now>>

(* renew.  `heard' is FALSE when the answer is lost. *)
Renew(c, asOf, heard) ==
    LET id == conn[c].id
        until == asOf + Duration
    IN /\ At(c, "Ready")
       /\ Reads(c, asOf)
       /\ asOf <= MaxTime
       /\ Current(id, conn[c].token, asOf)
       /\ records' = [records EXCEPT ![id].expires = until]
       /\ leases' = IF heard
                    THEN leases \cup {[id |-> id, token |-> conn[c].token,
                                       until |-> until]}
                    ELSE leases
       /\ Goto(c, Idle)
       /\ UNCHANGED <<service, payloads, duplicates, mappings, resolved, files,
                      outcomes, now>>

(* resolve: Acknowledge and Reject keep the time the item was eligible,
   Release makes it eligible now and Defer at the time the consumer names. *)
Results(id, asOf) ==
    {Ended(records[id], s, records[id].eligible) : s \in Terminal}
        \cup {Ended(records[id], "Available", asOf)}
        \cup {Ended(records[id], "Deferred", retry) : retry \in Clock}

Resolve(c, new, asOf) ==
    LET id == conn[c].id
    IN /\ At(c, "Ready")
       /\ conn[c].token \notin DOMAIN resolved
       /\ Reads(c, asOf)
       /\ Current(id, conn[c].token, asOf)
       /\ EndClaims([x \in {id} |-> new], TRUE)
       /\ outcomes' = outcomes \cup {[token |-> conn[c].token, state |-> new.state]}
       /\ Advance(c, "Resolved")
       /\ UNCHANGED <<service, payloads, duplicates, files, leases, now>>

(* Mutant: a repeated result is answered from the record. *)
ResultFromRecord(c) == records[conn[c].id].state

KnownResult(c) == resolved[conn[c].token].state

(* The same result requested again: answered from RESOLVED_TOKENS. *)
RepeatResult(c) ==
    /\ At(c, "Ready")
    /\ conn[c].token \in DOMAIN resolved
    /\ resolved[conn[c].token].completed
    /\ outcomes' = outcomes \cup {[token |-> conn[c].token, state |-> KnownResult(c)]}
    /\ Advance(c, "Resolved")
    /\ UNCHANGED <<service, tables, files, leases, now>>

(* Stale: the claim has ended or expired.  Nothing is written. *)
RefuseStale(c, asOf) ==
    /\ At(c, "Ready")
    /\ Reads(c, asOf)
    /\ ~ Current(conn[c].id, conn[c].token, asOf)
    /\ Goto(c, Idle)
    /\ UNCHANGED <<service, tables, files, told, now>>

(* remove_export, after resolve has committed *)
RemoveExport(c) ==
    /\ At(c, "Resolved")
    /\ exports' = exports \ {File(c)}
    /\ Goto(c, Idle)
    /\ UNCHANGED <<service, tables, temporaries, told, now>>

(* commit_batch for a Forward Job: the claim is checked with the clock read
   inside the transaction, and an item is forwarded at most once. *)
Forward(lease) ==
    /\ service = "Ipc"
    /\ Current(lease.id, lease.token, now)
    /\ ~ records[lease.id].forwarded
    /\ records' = [records EXCEPT ![lease.id].forwarded = TRUE]
    /\ UNCHANGED <<service, payloads, duplicates, mappings, resolved, files, conn,
                   told, now>>
-----------------------------------------------------------------------------
Kill ==
    /\ service # "Down"
    /\ service' = "Down"
    /\ conn' = [c \in Connections |-> Idle]
    /\ UNCHANGED <<tables, files, told, now>>

Start(kind) ==
    /\ service = "Down"
    /\ service' = kind
    /\ UNCHANGED <<tables, files, conn, told, now>>

Tick ==
    /\ now < MaxTime + Duration
    /\ now' = now + 1
    /\ UNCHANGED <<service, tables, files, conn, told>>

AcceptItem ==
    \E item \in Items, id \in InboundIds, application \in Applications,
       received \in 0 .. MaxTime : Accept(item, id, application, received)

ClaimRequest(c) ==
    \/ \E application \in Applications, key \in ClaimKeys :
           ArriveClaim(c, application, key)
    \/ \E asOf \in Clock : BeginClaim(c, asOf)
    \/ RepeatClaim(c)
    \/ \E id \in InboundIds, token \in Tokens : TakeClaim(c, id, token)
    \/ \E wait \in BOOLEAN : EmptyClaim(c, wait)
    \/ ClearExports(c)
    \/ \E asOf \in Clock : ReadPayload(c, asOf)
    \/ FindExport(c)
    \/ CreateTemporary(c)
    \/ PublishExport(c)
    \/ FailExport(c)

ControlRequest(c) ==
    \/ \E lease \in leases : Ask(c, lease)
    \/ \E asOf \in Clock : Dispatch(c, asOf)
    \/ \E asOf \in Clock, heard \in BOOLEAN : Renew(c, asOf, heard)
    \/ \E asOf \in Clock :
           At(c, "Ready") /\ \E new \in Results(conn[c].id, asOf) : Resolve(c, new, asOf)
    \/ RepeatResult(c)
    \/ \E asOf \in Clock : RefuseStale(c, asOf)
    \/ RemoveExport(c)

Next ==
    \/ AcceptItem
    \/ \E c \in Connections : ClaimRequest(c) \/ ControlRequest(c)
    \/ \E asOf \in Clock : OtherRequest(asOf)
    \/ \E lease \in leases : Forward(lease)
    \/ Kill
    \/ \E kind \in {"Mail", "Ipc"} : Start(kind)
    \/ Tick

Spec == Init /\ [][Next]_vars
-----------------------------------------------------------------------------
(***************************************************************************)
(* Properties                                                              *)
(***************************************************************************)
(* Every table, file, thread and answer is well formed. *)
TypeOK ==
    /\ service \in {"Down", "Mail", "Ipc"}
    /\ DOMAIN records \subseteq InboundIds
    /\ records \in [DOMAIN records -> Record]
    /\ payloads \in [DOMAIN records -> Items]
    /\ DOMAIN duplicates \subseteq Signed
    /\ duplicates \in [DOMAIN duplicates -> DOMAIN records]
    /\ DOMAIN mappings \subseteq Applications \X ClaimKeys
    /\ mappings \in [DOMAIN mappings -> Mapping]
    /\ DOMAIN resolved \subseteq Tokens
    /\ resolved \in [DOMAIN resolved -> Resolution]
    /\ exports \subseteq InboundIds \X Tokens
    /\ temporaries \subseteq InboundIds \X Tokens
    /\ conn \in [Connections -> {Idle} \cup Claiming \cup Exporting \cup Controlling]
    /\ leases \subseteq Lease
    /\ outcomes \subseteq [token : Tokens, state : States]
    /\ now \in Clock

(***************************************************************************)
(* RECORDS, CLAIM_KEYS and RESOLVED_TOKENS agree after every transaction:  *)
(* an item is Claimed exactly under the one ClaimKey that is still open    *)
(* for it, a ClaimKey is closed exactly when its token is resolved, with   *)
(* one outcome, and no token belongs to two ClaimKeys.                     *)
(***************************************************************************)
TablesAgree ==
    /\ \A id \in DOMAIN records :
           /\ (records[id].state = "Claimed") <=> (records[id].expires # NoTime)
           /\ records[id].state = "Claimed" =>
                  /\ KeyOf(records[id]) \in DOMAIN mappings
                  /\ mappings[KeyOf(records[id])] =
                         [id |-> id, token |-> records[id].token, outcome |-> "None"]
    /\ \A k \in DOMAIN mappings :
           LET m == mappings[k]
           IN /\ m.id \in DOMAIN records
              /\ m.outcome = "None" =>
                     /\ m.token \notin DOMAIN resolved
                     /\ records[m.id].state = "Claimed"
                     /\ KeyOf(records[m.id]) = k
              /\ m.outcome # "None" =>
                     /\ m.token \in DOMAIN resolved
                     /\ resolved[m.token].id = m.id
                     /\ resolved[m.token].state = m.outcome
    /\ \A k, l \in DOMAIN mappings : mappings[k].token = mappings[l].token => k = l
    /\ DOMAIN resolved \subseteq {mappings[k].token : k \in DOMAIN mappings}

(***************************************************************************)
(* "Claimed is durably and exclusively owned by one consumer worker until  *)
(* its claim expires or is resolved": until the Claim-Expires a consumer   *)
(* was last told, the item is Claimed under its token, or it was that      *)
(* consumer who resolved it.  No thread with an old reading of the clock,  *)
(* no repeated Claim, no renewal whose answer was lost and no restart ends *)
(* the claim early.                                                        *)
(***************************************************************************)
LeaseHonoured ==
    \A l \in leases :
        now < l.until =>
            \/ records[l.id].state = "Claimed" /\ records[l.id].token = l.token
            \/ l.token \in DOMAIN resolved /\ resolved[l.token].completed

(***************************************************************************)
(* "TTS-0005 prevents a retransmitted signed Message or standalone File    *)
(* from creating another inbound item", whatever became of the first one.  *)
(***************************************************************************)
OneRecordPerItem ==
    \A i, k \in DOMAIN records :
        payloads[i] = payloads[k] /\ payloads[i] \in Signed => i = k

(***************************************************************************)
(* "A result operation repeated with the exact token which performed its   *)
(* transition returns that completed outcome", also when the item has been *)
(* claimed, deferred or consumed by others since.                          *)
(***************************************************************************)
TokenHasOneOutcome ==
    \A o, p \in outcomes : o.token = p.token => o.state = p.state

(***************************************************************************)
(* "Once that identity selects an item, repeating it MUST NOT select       *)
(* another item": a ClaimKey keeps its item and its token for ever, and    *)
(* its outcome once it has one.                                            *)
(***************************************************************************)
KeySticks ==
    [][\A k \in DOMAIN mappings :
           /\ k \in DOMAIN mappings'
           /\ mappings'[k].id = mappings[k].id
           /\ mappings'[k].token = mappings[k].token
           /\ mappings[k].outcome # "None" => mappings'[k] = mappings[k]]_vars

(***************************************************************************)
(* Consumed and Rejected are terminal, and a consumer that was told so can *)
(* rely on it: no expiration, claim, late result or restart changes the    *)
(* record again.                                                           *)
(***************************************************************************)
TerminalIsFinal ==
    [][\A id \in DOMAIN records :
           records[id].state \in Terminal => records'[id] = records[id]]_vars

(***************************************************************************)
(* "The export path remains valid while its claim is current" (TSP-0012    *)
(* section 3).                                                             *)
(***************************************************************************)
ExportOutlivesClaim ==
    \A l \in leases :
        Current(l.id, l.token, now) => <<l.id, l.token>> \in exports
-----------------------------------------------------------------------------
(***************************************************************************)
(* Fairness.  Time passes, an operator who runs the mail service also runs *)
(* the IPC service again, and some consumer keeps sending requests to it.  *)
(* Nothing is assumed of the consumer that holds a claim: it may have died.*)
(***************************************************************************)
LeaveMail == service = "Mail" /\ Kill

Fairness ==
    /\ WF_vars(Tick)
    /\ WF_vars(LeaveMail)
    /\ SF_vars(Start("Ipc"))
    /\ SF_vars(OtherRequest(now))

FairSpec == Spec /\ Fairness

(***************************************************************************)
(* A claim whose consumer died, and so stops renewing it, does not keep    *)
(* the item for ever, however often the services are killed meanwhile.     *)
(***************************************************************************)
IsClaimed(id) == id \in DOMAIN records /\ records[id].state = "Claimed"

ClaimIsTransient == \A id \in InboundIds : IsClaimed(id) ~> ~ IsClaimed(id)
=============================================================================
