--------------------------- MODULE AdapterInbound ---------------------------
(***************************************************************************)
(* `tith inbound run': the adapter that claims inbound items, converts     *)
(* them and publishes legacy objects where a tosser polls for them.  Its   *)
(* ledger is durable; everything else it knows dies with the process.  The *)
(* tables of the mailer appear as far as the adapter can tell: whether an  *)
(* item is claimed and by which token, which Forward Jobs and which replies*)
(* to file requests are committed.                                         *)
(***************************************************************************)
EXTENDS Naturals, Sequences, FiniteSets

CONSTANTS
    Ids,        \* InboundIDs
    Kind,       \* what plan makes of each of them
    Size,       \* objects of its conversion; the last refers to the others
    Erase,      \* requests answered with a file marked `-'
    Foreign,    \* names other programs have taken in the directory
    BatchMax,   \* bound: items of one batch
    MaxClaims   \* bound: claims granted

Kinds == {"Deliver", "Distribute", "Orphan", "Notice", "Request", "Refuse"}

ASSUME AdapterAssumption ==
    /\ Kind \in [Ids -> Kinds]
    /\ Size \in [Ids -> Nat \ {0}]
    /\ Erase \subseteq {id \in Ids : Kind[id] = "Request"}
    /\ Foreign \subseteq Nat
    /\ BatchMax \in Nat \ {0}
    /\ MaxClaims \in Nat

VARIABLES
    mail,       \* the mailer: state and last token of each item
    forwards,   \* the token each committed Forward Job was submitted with
    replies,    \* requests whose reply is committed
    ledger,     \* table INBOUND
    quarantine, \* table QUARANTINE
    counter,    \* table COUNTER
    inbox,      \* objects published so far: name to item and position
    taken,      \* names the tosser has removed
    staging,    \* private staging files
    erased,     \* requests whose `-' file is gone
    pc,         \* what the adapter is doing
    batch,      \* claims in hand, the head being handled
    out         \* the outcome planned for the head

mailer == <<mail, forwards, replies>>
tables == <<ledger, quarantine, counter>>
directory == <<inbox, taken, staging>>
vars == <<mailer, tables, directory, erased, pc, batch, out>>

NoName == 0
Names == Nat \ {NoName}
Claim == [id : Ids, token : Nat]
Record ==
    [state : {"Staged", "Published", "Acknowledged", "Retired"}, objects : Seq(Names),
     owes : BOOLEAN, forwarded : BOOLEAN, cleanup : BOOLEAN]
OrphanRecord == [objects : Seq(Names), notice : Nat, published : BOOLEAN]
Outcome == [objects : Seq(Names), notice : Nat, next : Nat]
Nothing == [objects |-> <<>>, notice |-> NoName, next |-> 1]

Entry(state, objects, owes) ==
    [state |-> state, objects |-> objects, owes |-> owes, forwarded |-> FALSE,
     cleanup |-> FALSE]
Put(f, k, v) == [x \in DOMAIN f \cup {k} |-> IF x = k THEN v ELSE f[x]]

Init ==
    /\ mail = [id \in Ids |-> [state |-> "Available", token |-> 0]]
    /\ forwards = <<>>
    /\ replies = {}
    /\ ledger = <<>>
    /\ quarantine = <<>>
    /\ counter = 0
    /\ inbox = <<>>
    /\ taken = {}
    /\ staging = {}
    /\ erased = {}
    /\ pc = "Down"
    /\ batch = <<>>
    /\ out = Nothing

Goto(step) == pc' = step /\ UNCHANGED <<batch, out>>
current == Head(batch)
-----------------------------------------------------------------------------
(***************************************************************************)
(* The mailer, as the consumption client meets it.                         *)
(***************************************************************************)
Holds(c) == mail[c.id] = [state |-> "Claimed", token |-> c.token]
(* The token is stale or the mailer cannot serve: the client does not look. *)
Resolve(c, state) ==
    \/ Holds(c) /\ mail' = [mail EXCEPT ![c.id].state = state]
    \/ UNCHANGED mail

Issued == Cardinality(UNION {{<<id, t>> : t \in 1 .. mail[id].token} : id \in Ids})

(* A claim runs out, or a deferred item becomes due. *)
Return(id) ==
    /\ mail[id].state \in {"Claimed", "Deferred"}
    /\ mail' = [mail EXCEPT ![id].state = "Available"]
    /\ UNCHANGED <<forwards, replies, tables, directory, erased, pc, batch, out>>

(* The next item of the queue; an answer that comes too late is not used. *)
Collect(id) ==
    /\ pc = "Batch"
    /\ Len(batch) < BatchMax
    /\ mail[id].state = "Available"
    /\ Issued < MaxClaims
    /\ mail' = [mail EXCEPT ![id] = [state |-> "Claimed", token |-> @.token + 1]]
    /\ \/ batch' = Append(batch, [id |-> id, token |-> mail[id].token + 1])
       \/ UNCHANGED batch
    /\ UNCHANGED <<forwards, replies, tables, directory, erased, pc, out>>

EndBatch ==
    /\ pc = "Batch"
    /\ batch # <<>>
    /\ Goto("Plan")
    /\ UNCHANGED <<mailer, tables, directory, erased>>

(* The head is dealt with; the batch ends with its last item. *)
NextItem ==
    /\ batch' = Tail(batch)
    /\ out' = Nothing
    /\ pc' = IF Len(batch) = 1 THEN "Batch" ELSE "Plan"

(* handle returns an error and the loop releases the claim. *)
Release ==
    /\ Resolve(current, "Available")
    /\ NextItem
    /\ UNCHANGED <<forwards, replies, tables, directory, erased>>

Defer ==
    /\ pc = "Defer"
    /\ Resolve(current, "Deferred")
    /\ NextItem
    /\ UNCHANGED <<forwards, replies, tables, directory, erased>>
-----------------------------------------------------------------------------
(***************************************************************************)
(* plan.                                                                   *)
(***************************************************************************)
Known(id, state) == id \in DOMAIN ledger /\ ledger[id].state = state
PendingNotice(id) ==
    /\ id \in DOMAIN quarantine
    /\ quarantine[id].notice # NoName
    /\ ~ quarantine[id].published
Owed(id) == ledger[id].owes /\ ~ ledger[id].forwarded

PlanStep ==
    /\ pc = "Plan"
    /\ UNCHANGED <<mailer, ledger, quarantine, directory, erased, batch>>

(* Mutant of Done: what is staged counts as published. *)
DoneStaged(id) ==
    \/ Known(id, "Acknowledged")
    \/ (Known(id, "Retired") \/ Known(id, "Staged")) /\ ~ PendingNotice(id)
    \/ Known(id, "Published") /\ ~ Owed(id) /\ Kind[id] # "Request"

(* Already published and owing nothing: acknowledge, and no more. *)
Done(id) ==
    \/ Known(id, "Acknowledged")
    \/ Known(id, "Retired") /\ ~ PendingNotice(id)
    \/ Known(id, "Published") /\ ~ Owed(id) /\ Kind[id] # "Request"

PlanNothing ==
    /\ PlanStep
    /\ Done(current.id)
    /\ pc' = "AcknowledgeOnly"
    /\ UNCHANGED <<counter, out>>

(* Published, and the distribution or the reply still owed. *)
PlanResume ==
    /\ PlanStep
    /\ Known(current.id, "Published")
    /\ ~ Done(current.id)
    /\ pc' = IF Owed(current.id) THEN "Forward" ELSE "Serve"
    /\ UNCHANGED <<counter, out>>

(* An orphan whose notice is still to be published keeps its names. *)
PlanNotice ==
    /\ PlanStep
    /\ Known(current.id, "Staged") \/ Known(current.id, "Retired")
    /\ PendingNotice(current.id)
    /\ out' = [objects |-> quarantine[current.id].objects,
               notice |-> quarantine[current.id].notice, next |-> 1]
    /\ pc' = "Quarantine"
    /\ UNCHANGED counter

(* Mutant of Convertible: what was published is converted anew. *)
ConvertibleAgain(id) == ~ Known(id, "Acknowledged")

(* A conversion.  Names are numbers: what matters is that the counter makes
   them, each once. *)
Convertible(id) ==
    id \notin DOMAIN ledger \/ (Known(id, "Staged") /\ ~ PendingNotice(id))
Generated(id) == [n \in 1 .. Size[id] |-> counter + n]
PlanConvert ==
    LET id == current.id
        named == Kind[id] \in {"Deliver", "Distribute", "Orphan", "Notice"}
        noticed == Kind[id] = "Notice"
        used == (IF named THEN Size[id] ELSE 0) + (IF noticed THEN 1 ELSE 0)
    IN /\ PlanStep
       /\ Convertible(id)
       /\ counter' = counter + used
       /\ out' = [objects |-> IF named THEN Generated(id) ELSE <<>>,
                  notice |-> IF noticed THEN counter + used ELSE NoName,
                  next |-> 1]
       /\ pc' = CASE Kind[id] \in {"Deliver", "Distribute", "Request"} -> "Stage"
                  [] Kind[id] \in {"Orphan", "Notice"} -> "Quarantine"
                  [] Kind[id] = "Refuse" -> "Refuse"

(* The export is gone, the item does not decode or its peer has no link. *)
Unreadable ==
    /\ pc = "Plan"
    /\ Release

(* Reject or Defer, as the configuration says. *)
Refuse ==
    /\ pc = "Refuse"
    /\ \E state \in {"Rejected", "Deferred"} : Resolve(current, state)
    /\ NextItem
    /\ UNCHANGED <<forwards, replies, tables, directory, erased>>
-----------------------------------------------------------------------------
(***************************************************************************)
(* commit of a conversion.                                                 *)
(***************************************************************************)
Staged(id) ==
    IF Kind[id] = "Request" THEN Entry("Published", <<>>, FALSE)
                            ELSE Entry("Staged", out.objects, Kind[id] = "Distribute")

Stage ==
    /\ pc = "Stage"
    /\ ledger' = Put(ledger, current.id, Staged(current.id))
    /\ Goto(IF Kind[current.id] = "Request" THEN "Serve" ELSE "Write")
    /\ UNCHANGED <<mailer, quarantine, counter, directory, erased>>

(* publish: every object is staged, then each is linked to its name. *)
Write ==
    /\ pc = "Write"
    /\ staging' = staging \cup {out.objects[n] : n \in DOMAIN out.objects}
    /\ Goto("Link")
    /\ UNCHANGED <<mailer, tables, inbox, taken, erased>>

Present(name) == name \in Foreign \/ (name \in DOMAIN inbox /\ name \notin taken)
Publish(name, part) ==
    /\ inbox' = Put(inbox, name, part)
    /\ taken' = taken \ {name}
    /\ staging' = staging \ {name}

(* The order of publication.  Mutant: the referring object first. *)
LastFirst(objects, n) == Len(objects) + 1 - n
Order(objects, n) == n

Link ==
    LET n == Order(out.objects, out.next)
        name == out.objects[n]
    IN /\ pc = "Link"
       /\ ~ Present(name)
       /\ Publish(name, [id |-> current.id, index |-> n, objects |-> out.objects])
       /\ out' = [out EXCEPT !.next = @ + 1]
       /\ pc' = IF out.next = Len(out.objects) THEN "Advance" ELSE "Link"
       /\ UNCHANGED <<mailer, tables, erased, batch>>

(* A name is taken, or the directory cannot be written, before or after the
   link.  What is linked stays. *)
PublishFails ==
    /\ pc \in {"Write", "Link", "Advance"}
    /\ Goto("Defer")
    /\ UNCHANGED <<mailer, tables, directory, erased>>

Advance ==
    /\ pc = "Advance"
    /\ ledger' = [ledger EXCEPT ![current.id].state = "Published"]
    /\ Goto(IF Owed(current.id) THEN "Forward" ELSE "Acknowledge")
    /\ UNCHANGED <<mailer, quarantine, counter, directory, erased>>
-----------------------------------------------------------------------------
(***************************************************************************)
(* commit of an orphan.  QuarantineExists is an error of handle.           *)
(***************************************************************************)
Quarantined ==
    [objects |-> out.objects, notice |-> out.notice, published |-> FALSE]
Same(id) == [quarantine[id] EXCEPT !.published = FALSE] = Quarantined
AfterQuarantine == IF out.notice = NoName THEN "Acknowledge" ELSE "Notice"

Quarantine ==
    LET id == current.id
    IN /\ pc = "Quarantine"
       /\ \/ /\ id \notin DOMAIN quarantine
             /\ quarantine' = Put(quarantine, id, Quarantined)
             /\ ledger' = Put(ledger, id,
                              Entry(IF out.notice = NoName THEN "Retired" ELSE "Staged",
                                    <<>>, FALSE))
          \/ /\ id \in DOMAIN quarantine
             /\ Same(id)
             /\ UNCHANGED <<quarantine, ledger>>
       /\ Goto(AfterQuarantine)
       /\ UNCHANGED <<mailer, counter, directory, erased>>

QuarantineExists ==
    /\ pc = "Quarantine"
    /\ current.id \in DOMAIN quarantine
    /\ ~ Same(current.id)
    /\ Release

(* The notice is published, or found published under its own name, or it fails. *)
Notice ==
    LET mine == [id |-> current.id, index |-> 0, objects |-> <<>>]
        name == out.notice
    IN /\ pc = "Notice"
       /\ \/ ~ Present(name) /\ Publish(name, mine) /\ (Goto("Mark") \/ Goto("Defer"))
          \/ /\ Present(name)
             /\ name \notin Foreign
             /\ inbox[name] = mine
             /\ staging' = staging \ {name}
             /\ UNCHANGED <<inbox, taken>>
             /\ Goto("Mark")
          \/ staging' = staging \cup {name} /\ UNCHANGED <<inbox, taken>> /\ Goto("Defer")
       /\ UNCHANGED <<mailer, tables, erased>>

Mark ==
    /\ pc = "Mark"
    /\ quarantine' = [quarantine EXCEPT ![current.id].published = TRUE]
    /\ Goto("Retire")
    /\ UNCHANGED <<mailer, ledger, counter, directory, erased>>

Retire ==
    /\ pc = "Retire"
    /\ ledger' = [ledger EXCEPT ![current.id].state = "Retired"]
    /\ Goto("Acknowledge")
    /\ UNCHANGED <<mailer, quarantine, counter, directory, erased>>
-----------------------------------------------------------------------------
(***************************************************************************)
(* distribute.  The Forward Job is submitted under a key made from the     *)
(* InboundID; the digest of the submission covers the claim token.         *)
(***************************************************************************)
Existing(c) == c.id \in DOMAIN forwards /\ forwards[c.id] = c.token
Conflict(c) == c.id \in DOMAIN forwards /\ forwards[c.id] # c.token
Forwardable(c) == c.id \notin DOMAIN forwards /\ Holds(c)

Forward ==
    /\ pc = "Forward"
    /\ Existing(current) \/ Forwardable(current)
    /\ forwards' = Put(forwards, current.id, current.token)
    /\ Goto("RecordForward")
    /\ UNCHANGED <<mail, replies, tables, directory, erased>>

(* The Job is committed and the answer lost. *)
ForwardLost ==
    /\ pc = "Forward"
    /\ Forwardable(current)
    /\ forwards' = Put(forwards, current.id, current.token)
    /\ Resolve(current, "Available")
    /\ NextItem
    /\ UNCHANGED <<replies, tables, directory, erased>>

NotForwarded ==
    /\ pc = "Forward"
    /\ ~ Existing(current)
    /\ ~ Forwardable(current)
    /\ Goto("Defer")
    /\ UNCHANGED <<mailer, tables, directory, erased>>

RecordForward ==
    /\ pc = "RecordForward"
    /\ ledger' = [ledger EXCEPT ![current.id].forwarded = TRUE]
    /\ Goto("Acknowledge")
    /\ UNCHANGED <<mailer, quarantine, counter, directory, erased>>
-----------------------------------------------------------------------------
(* Mutant of Serve: the removal is remembered, not recorded. *)
ServeUnrecorded ==
    /\ pc = "Serve"
    /\ erased' = erased \ {current.id}
    /\ Goto("Submit")
    /\ UNCHANGED <<mailer, tables, directory>>
(***************************************************************************)
(* serve.  The request processor (an external program) offers its file     *)
(* anew each time it is run.                                               *)
(***************************************************************************)
Serve ==
    /\ pc = "Serve"
    /\ erased' = erased \ {current.id}
    /\ ledger' = [ledger EXCEPT ![current.id].cleanup = current.id \in Erase]
    /\ Goto("Submit")
    /\ UNCHANGED <<mailer, quarantine, counter, directory>>

Submit ==
    /\ pc = "Submit"
    /\ replies' = replies \cup {current.id}
    /\ Goto(IF current.id \in Erase THEN "Remove" ELSE "Acknowledge")
    /\ UNCHANGED <<mail, forwards, tables, directory, erased>>

SubmitLost ==
    /\ pc = "Submit"
    /\ replies' = replies \cup {current.id}
    /\ Resolve(current, "Available")
    /\ NextItem
    /\ UNCHANGED <<forwards, tables, directory, erased>>

NotSubmitted ==
    /\ pc = "Submit"
    /\ ledger' = [ledger EXCEPT ![current.id].cleanup = FALSE]
    /\ Goto("Defer")
    /\ UNCHANGED <<mailer, quarantine, counter, directory, erased>>

(* discharge_cleanup: the file goes first, then the record of it. *)
RemoveFile ==
    /\ pc = "Remove"
    /\ erased' = erased \cup {current.id}
    /\ Goto("Clear")
    /\ UNCHANGED <<mailer, tables, directory>>

RemoveFails ==
    /\ pc = "Remove"
    /\ Goto("Acknowledge")
    /\ UNCHANGED <<mailer, tables, directory, erased>>

Clear ==
    /\ pc = "Clear"
    /\ ledger' = [ledger EXCEPT ![current.id].cleanup = FALSE]
    /\ Goto("Acknowledge")
    /\ UNCHANGED <<mailer, quarantine, counter, directory, erased>>
-----------------------------------------------------------------------------
(***************************************************************************)
(* The end of handle.  Whether the mailer found the token current is not   *)
(* asked.                                                                  *)
(***************************************************************************)
Acknowledge ==
    /\ pc = "Acknowledge"
    /\ Resolve(current, "Consumed")
    /\ Goto("Finish")
    /\ UNCHANGED <<forwards, replies, tables, directory, erased>>

Finish ==
    /\ pc = "Finish"
    /\ ledger' = [ledger EXCEPT ![current.id].state = "Acknowledged"]
    /\ NextItem
    /\ UNCHANGED <<mailer, quarantine, counter, directory, erased>>

(* The ledger is left alone after plan found nothing to do, or if the answer
   is lost. *)
AcknowledgeOnly ==
    /\ pc \in {"AcknowledgeOnly", "Acknowledge"}
    /\ Resolve(current, "Consumed")
    /\ NextItem
    /\ UNCHANGED <<forwards, replies, tables, directory, erased>>

(* A request to the mailer, or the request processor, fails. *)
Unanswered ==
    /\ pc \in {"Forward", "Serve", "Submit", "Acknowledge", "AcknowledgeOnly", "Defer", "Refuse"}
    /\ Release
-----------------------------------------------------------------------------
(***************************************************************************)
(* The process, and the tosser.                                            *)
(***************************************************************************)
Start ==
    /\ pc = "Down"
    /\ staging' = {}
    /\ Goto("Recover")
    /\ UNCHANGED <<mailer, tables, inbox, taken, erased>>

Owing == {id \in DOMAIN ledger : ledger[id].cleanup}
RecoverRemove(id) ==
    /\ pc = "Recover"
    /\ id \in Owing
    /\ erased' = erased \cup {id}
    /\ UNCHANGED <<mailer, tables, directory, pc, batch, out>>

RecoverClear(id) ==
    /\ pc = "Recover"
    /\ id \in Owing
    /\ id \in erased
    /\ ledger' = [ledger EXCEPT ![id].cleanup = FALSE]
    /\ UNCHANGED <<mailer, quarantine, counter, directory, erased, pc, batch, out>>

(* A removal that fails stays owed. *)
Recovered ==
    /\ pc = "Recover"
    /\ \A id \in Owing : id \notin erased
    /\ Goto("Batch")
    /\ UNCHANGED <<mailer, tables, directory, erased>>

Crash ==
    /\ pc # "Down"
    /\ pc' = "Down"
    /\ batch' = <<>>
    /\ out' = Nothing
    /\ UNCHANGED <<mailer, tables, directory, erased>>

Toss(name) ==
    /\ name \in DOMAIN inbox \ taken
    /\ taken' = taken \cup {name}
    /\ UNCHANGED <<mailer, tables, inbox, staging, erased, pc, batch, out>>

Plan == PlanNothing \/ PlanResume \/ PlanNotice \/ PlanConvert \/ Unreadable \/ Refuse
Commit == Stage \/ Write \/ Link \/ PublishFails \/ Advance
CommitOrphan == Quarantine \/ QuarantineExists \/ Notice \/ Mark \/ Retire
Distribute == Forward \/ ForwardLost \/ NotForwarded \/ RecordForward
Answer == Serve \/ Submit \/ SubmitLost \/ NotSubmitted \/ RemoveFile \/ RemoveFails \/ Clear
Resolution == Acknowledge \/ Finish \/ AcknowledgeOnly \/ Unanswered \/ Defer

Next ==
    \/ \E id \in Ids : Return(id) \/ Collect(id) \/ RecoverRemove(id) \/ RecoverClear(id)
    \/ EndBatch \/ Start \/ Recovered \/ Crash
    \/ Plan \/ Commit \/ CommitOrphan \/ Distribute \/ Answer \/ Resolution
    \/ \E name \in DOMAIN inbox : Toss(name)

Spec == Init /\ [][Next]_vars
-----------------------------------------------------------------------------
(***************************************************************************)
(* Properties                                                              *)
(***************************************************************************)
Steps ==
    {"Down", "Recover", "Batch", "Plan", "Refuse", "Stage", "Write", "Link", "Advance",
     "Quarantine", "Notice", "Mark", "Retire", "Forward", "RecordForward", "Serve",
     "Submit", "Remove", "Clear", "Acknowledge", "AcknowledgeOnly", "Finish", "Defer"}

(* The tables, the directory and the adapter's memory are well formed. *)
TypeOK ==
    /\ mail \in [Ids -> [state : {"Available", "Claimed", "Deferred", "Consumed", "Rejected"},
                         token : Nat]]
    /\ DOMAIN forwards \subseteq Ids /\ forwards \in [DOMAIN forwards -> Nat]
    /\ replies \subseteq Ids
    /\ DOMAIN ledger \subseteq Ids /\ ledger \in [DOMAIN ledger -> Record]
    /\ DOMAIN quarantine \subseteq Ids /\ quarantine \in [DOMAIN quarantine -> OrphanRecord]
    /\ counter \in Nat
    /\ DOMAIN inbox \subseteq Names
    /\ inbox \in [DOMAIN inbox -> [id : Ids, index : Nat, objects : Seq(Names)]]
    /\ taken \subseteq DOMAIN inbox
    /\ staging \subseteq Names
    /\ erased \subseteq Ids
    /\ pc \in Steps
    /\ batch \in Seq(Claim)
    /\ out \in Outcome
    /\ pc \notin {"Down", "Recover", "Batch"} => batch # <<>>

(***************************************************************************)
(* "The adapter acknowledges the inbound item only after all converted     *)
(* objects and the ledger state [...] are durable" (TSP-0013:225): an item *)
(* the mailer has let go of is published, its distribution is committed,   *)
(* an orphan is in quarantine and its notice published, a request answered.*)
(***************************************************************************)
PublishedUnder(names) == {names[n] : n \in DOMAIN names} \subseteq DOMAIN inbox
Discharged(id) ==
    CASE Kind[id] = "Deliver" -> id \in DOMAIN ledger /\ PublishedUnder(ledger[id].objects)
      [] Kind[id] = "Distribute" -> /\ id \in DOMAIN ledger \cap DOMAIN forwards
                                    /\ PublishedUnder(ledger[id].objects)
      [] Kind[id] = "Orphan" -> id \in DOMAIN quarantine
      [] Kind[id] = "Notice" -> /\ id \in DOMAIN quarantine
                                /\ quarantine[id].notice \in DOMAIN inbox
      [] Kind[id] = "Request" -> id \in replies
      [] Kind[id] = "Refuse" -> FALSE
AcknowledgedIsSafe == \A id \in Ids : mail[id].state = "Consumed" => Discharged(id)

(***************************************************************************)
(* "every companion is durably published first and the referencing object  *)
(* is published last" (TSP-0013:269), whatever conversions were cut short. *)
(***************************************************************************)
CompanionsFirst ==
    \A name \in DOMAIN inbox : \A n \in 1 .. inbox[name].index - 1 :
        inbox[name].objects[n] \in DOMAIN inbox

(***************************************************************************)
(* A file the processor wants erased, whose reply is committed and whose   *)
(* request is acknowledged, is gone or its removal is on record            *)
(* (record_cleanup before the submission, discharge_cleanup after it).     *)
(***************************************************************************)
RemovalRemembered ==
    \A id \in Erase :
        mail[id].state = "Consumed" => id \in erased \/ ledger[id].cleanup

(***************************************************************************)
(* Once the ledger says Published, or more, no step publishes anything for *)
(* the item and none takes it back to Staged: plan and resuming_published. *)
(***************************************************************************)
Visible(id) == {name \in DOMAIN inbox \ taken : inbox[name].id = id}
PublishedIsFinal ==
    [][\A id \in DOMAIN ledger :
           ledger[id].state # "Staged" =>
               ledger'[id].state # "Staged" /\ Visible(id)' \subseteq Visible(id)]_vars

(***************************************************************************)
(* A name appears in the directory only after the ledger has it: commit    *)
(* stages the record, or the orphan, before it calls publish.              *)
(***************************************************************************)
Recorded ==
    UNION {{ledger[id].objects[n] : n \in DOMAIN ledger[id].objects} : id \in DOMAIN ledger}
        \cup {quarantine[id].notice : id \in DOMAIN quarantine}
RecordedBeforePublished == [][DOMAIN inbox' \subseteq DOMAIN inbox \cup Recorded]_vars

(***************************************************************************)
(* "An entry with published objects is never published again" (TSP-0013    *)
(* section 6, quoted at State::Published in tith-ledger): no part of an    *)
(* item appears under two names.                                           *)
(***************************************************************************)
PublishedOnce ==
    \A m, n \in DOMAIN inbox :
        inbox[m].id = inbox[n].id /\ inbox[m].index = inbox[n].index => m = n

(***************************************************************************)
(* "The key is derived from InboundID so a redelivery resolves to the same *)
(* Job" (distribute): submitting the Forward Job again is never refused    *)
(* because of the Job that is already there.                               *)
(***************************************************************************)
RedeliveryResolves == pc = "Forward" => ~ Conflict(current)
=============================================================================
