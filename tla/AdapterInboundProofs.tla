------------------------ MODULE AdapterInboundProofs ------------------------
(***************************************************************************)
(* Proofs about AdapterInbound, for every set of items, every size of a    *)
(* conversion and every number of claims: what the adapter acknowledges is *)
(* safe, companions are published first, a removal is remembered and what  *)
(* is published is final.                                                  *)
(*                                                                         *)
(* The adapter may be killed after any step, and everything but its tables *)
(* and the directory is then forgotten, so the inductive invariant says    *)
(* what each state of the ledger promises about the rest (Ledgered,        *)
(* Isolated), what the adapter knows of the item in its hands at each step *)
(* of handle (Handled), and why the mailer cannot have let go of an item   *)
(* that is worked on: the claims of one item that are in a batch have      *)
(* growing tokens, so only the last of them can be current (Tokens, Over). *)
(***************************************************************************)
EXTENDS AdapterInbound, TLAPS

Objects == {"Deliver", "Distribute"}
Orphans == {"Orphan", "Notice"}

(* Nothing is owed for the item any more. *)
Cleaned(id) == id \in Erase => id \in erased \/ ledger[id].cleanup
Settled(id) ==
    /\ Discharged(id) /\ Cleaned(id)
    /\ id \in DOMAIN ledger /\ ledger[id].state # "Staged"

(* Its conversion was not begun, or not finished. *)
Fresh(id) == id \notin DOMAIN ledger \/ ledger[id].state = "Staged"

LedgeredAt(id) ==
    id \in DOMAIN ledger =>
        /\ Kind[id] # "Refuse"
        /\ Kind[id] \in Orphans => id \in DOMAIN quarantine
        /\ ledger[id].state = "Staged" => Kind[id] \in Objects \cup {"Notice"}
        /\ ledger[id].state = "Published" => Kind[id] \in Objects \cup {"Request"}
        /\ ledger[id].state = "Published" /\ Kind[id] # "Request" =>
               PublishedUnder(ledger[id].objects)
        /\ ledger[id].state = "Retired" => Kind[id] \in Orphans
        /\ ledger[id].state \in {"Retired", "Acknowledged"} => Settled(id)
        /\ ledger[id].owes <=> Kind[id] = "Distribute"
        /\ ledger[id].forwarded => id \in DOMAIN forwards
Ledgered == \A id \in Ids : LedgeredAt(id)

IsolatedAt(id) ==
    id \in DOMAIN quarantine =>
        /\ id \in DOMAIN ledger
        /\ Kind[id] \in Orphans
        /\ quarantine[id].notice # NoName <=> Kind[id] = "Notice"
        /\ quarantine[id].published => quarantine[id].notice \in DOMAIN inbox
        /\ ledger[id].state = "Retired" => ~ PendingNotice(id)
Isolated == \A id \in Ids : IsolatedAt(id)

(* What is known at each step of commit, of distribute and serve, and of   *)
(* the commit of an orphan.                                                *)
Linked(n) == \A k \in 1 .. n : out.objects[k] \in DOMAIN inbox
Conversion(id) ==
    /\ pc \in {"Stage", "Write", "Link", "Advance"} => Fresh(id)
    /\ pc = "Stage" => Kind[id] \in Objects \cup {"Request"}
    /\ pc \in {"Write", "Link", "Advance"} =>
           Kind[id] \in Objects /\ id \in DOMAIN ledger /\ ledger[id].objects = out.objects
    /\ pc \in {"Stage", "Write"} => out.next = 1 /\ (Kind[id] \in Objects => out.objects # <<>>)
    /\ pc = "Link" => out.next \in 1 .. Len(out.objects) /\ Linked(out.next - 1)
    /\ pc = "Advance" => PublishedUnder(out.objects)
Orphaned(id) ==
    /\ pc \in {"Quarantine", "Notice", "Mark", "Retire"} => Fresh(id) /\ Kind[id] \in Orphans
    /\ pc = "Quarantine" => (out.notice # NoName <=> Kind[id] = "Notice")
    /\ pc \in {"Notice", "Mark", "Retire"} =>
           id \in DOMAIN quarantine /\ quarantine[id].notice = out.notice /\ Kind[id] = "Notice"
    /\ pc \in {"Mark", "Retire"} => out.notice \in DOMAIN inbox
    /\ pc = "Retire" => quarantine[id].published
Continued(id) ==
    /\ pc \in {"Forward", "RecordForward", "Serve", "Submit", "Remove", "Clear"} =>
           Known(id, "Published")
    /\ pc \in {"Forward", "RecordForward"} => Kind[id] = "Distribute"
    /\ pc = "RecordForward" => id \in DOMAIN forwards
    /\ pc \in {"Serve", "Submit", "Remove", "Clear"} => Kind[id] = "Request"
    /\ pc \in {"Submit", "Remove"} => (id \in Erase => ledger[id].cleanup)
    /\ pc \in {"Remove", "Clear"} => id \in replies
    /\ pc = "Clear" => id \in erased
    /\ pc \in {"Acknowledge", "AcknowledgeOnly", "Finish"} => Settled(id)
Step(id) == Conversion(id) /\ Orphaned(id) /\ Continued(id)
Handled == \A id \in Ids : batch # <<>> /\ current.id = id => Step(id)

(* The claims in hand. *)
Tokens ==
    /\ \A i \in DOMAIN batch : batch[i].token <= mail[batch[i].id].token
    /\ \A i, j \in DOMAIN batch :
           i < j /\ batch[i].id = batch[j].id => batch[i].token < batch[j].token
Over ==
    \A i \in DOMAIN batch : mail[batch[i].id].state = "Consumed" => i = 1 /\ pc = "Finish"
Safe == \A id \in Ids : mail[id].state = "Consumed" => Settled(id)

IInv ==
    TypeOK /\ Ledgered /\ Isolated /\ Handled /\ Tokens /\ Over /\ Safe /\ CompanionsFirst
-----------------------------------------------------------------------------
(***************************************************************************)
(* Typing.                                                                 *)
(***************************************************************************)
(* The head of a batch is a claim, and its tail a batch. *)
LEMMA BatchTypes ==
    ASSUME TypeOK, batch # <<>>
    PROVE  /\ current \in Claim /\ current.id \in Ids /\ current.token \in Nat
           /\ current = batch[1] /\ 1 \in DOMAIN batch
           /\ Tail(batch) \in Seq(Claim)
           /\ Len(batch) \in Nat /\ Len(batch) >= 1 /\ Len(Tail(batch)) = Len(batch) - 1
           /\ \A i \in DOMAIN Tail(batch) : i + 1 \in DOMAIN batch /\ Tail(batch)[i] = batch[i + 1]
<1>1. batch \in Seq(Claim)
  BY Zenon DEF TypeOK
<1>2. Len(batch) \in Nat /\ Len(batch) >= 1 /\ 1 \in DOMAIN batch /\ current = batch[1]
  BY <1>1 DEF current
<1>3. current \in Claim
  BY <1>1, <1>2
<1>4. current.id \in Ids /\ current.token \in Nat
  BY Zenon, <1>3 DEF Claim
<1>5. Tail(batch) \in Seq(Claim) /\ Len(Tail(batch)) = Len(batch) - 1
  BY <1>1
<1>6. ASSUME NEW i \in DOMAIN Tail(batch)
      PROVE  i + 1 \in DOMAIN batch /\ Tail(batch)[i] = batch[i + 1]
  BY <1>1, <1>2, <1>5
<1> QED
  BY Zenon, <1>2, <1>3, <1>4, <1>5, <1>6

(* The constants, per item. *)
LEMMA ItemTypes ==
    ASSUME NEW id \in Ids
    PROVE  Kind[id] \in Kinds /\ Size[id] \in Nat /\ Size[id] >= 1
BY AdapterAssumption

(* Only requests are answered with a file to erase. *)
LEMMA EraseTypes ==
    ASSUME NEW id \in Erase
    PROVE  id \in Ids /\ Kind[id] = "Request"
BY Zenon, AdapterAssumption
-----------------------------------------------------------------------------
(***************************************************************************)
(* What a step leaves alone.                                               *)
(***************************************************************************)
Grows ==
    /\ DOMAIN inbox \subseteq DOMAIN inbox'
    /\ DOMAIN forwards \subseteq DOMAIN forwards'
    /\ replies \subseteq replies'
SameEntry(id) ==
    /\ id \in DOMAIN ledger' <=> id \in DOMAIN ledger
    /\ id \in DOMAIN ledger => ledger'[id] = ledger[id]
    /\ id \in DOMAIN quarantine' <=> id \in DOMAIN quarantine
    /\ id \in DOMAIN quarantine => quarantine'[id] = quarantine[id]
    /\ id \in erased => id \in erased'

(* What was published under some names stays so. *)
LEMMA PublishedStays ==
    ASSUME Grows, NEW names, PublishedUnder(names)
    PROVE  {names[n] : n \in DOMAIN names} \subseteq DOMAIN inbox'
BY Zenon DEF Grows, PublishedUnder

(* A discharged item stays discharged while its names stay on record. *)
LEMMA DischargedStays ==
    ASSUME Grows, NEW id \in Ids, Discharged(id),
           id \in DOMAIN ledger => id \in DOMAIN ledger' /\ ledger'[id].objects = ledger[id].objects,
           id \in DOMAIN quarantine =>
               id \in DOMAIN quarantine' /\ quarantine'[id].notice = quarantine[id].notice
    PROVE  Discharged(id)'
<1>1. Kind[id] \in Kinds
  BY Zenon, ItemTypes
<1>2. CASE Kind[id] = "Deliver"
  BY Zenon, <1>2, PublishedStays DEF Discharged, PublishedUnder
<1>3. CASE Kind[id] = "Distribute"
  BY Zenon, <1>3, PublishedStays DEF Discharged, PublishedUnder, Grows
<1>4. CASE Kind[id] \in {"Orphan", "Notice", "Request", "Refuse"}
  BY Zenon, <1>4 DEF Discharged, Grows
<1> QED
  BY Zenon, <1>1, <1>2, <1>3, <1>4 DEF Kinds

(* An item whose entries stay as they are keeps all that is known of it. *)
LEMMA EntryStays ==
    ASSUME Grows, NEW id \in Ids, SameEntry(id)
    PROVE  /\ Settled(id) => Settled(id)'
           /\ LedgeredAt(id) => LedgeredAt(id)'
           /\ IsolatedAt(id) => IsolatedAt(id)'
<1>1. Discharged(id) => Discharged(id)'
  BY Zenon, DischargedStays DEF SameEntry
<1>2. Settled(id) => Settled(id)'
  BY Zenon, <1>1 DEF Settled, Cleaned, SameEntry
<1>3. ASSUME id \in DOMAIN ledger, PublishedUnder(ledger[id].objects)
      PROVE  PublishedUnder(ledger[id].objects)'
  BY Zenon, <1>3, PublishedStays DEF SameEntry, PublishedUnder
<1>4. LedgeredAt(id) => LedgeredAt(id)'
  BY Zenon, <1>2, <1>3 DEF LedgeredAt, SameEntry, Grows
<1>5. IsolatedAt(id) => IsolatedAt(id)'
  BY Zenon DEF IsolatedAt, SameEntry, Grows, PendingNotice
<1> QED
  BY Zenon, <1>2, <1>4, <1>5

(* If all tables stay, so does what is known of every item. *)
LEMMA TablesStay ==
    ASSUME IInv, UNCHANGED <<ledger, quarantine, erased, inbox, forwards, replies>>
    PROVE  /\ Ledgered' /\ Isolated' /\ CompanionsFirst'
           /\ \A id \in Ids : Settled(id) => Settled(id)'
<1>1. Grows /\ \A id \in Ids : SameEntry(id)
  BY Zenon DEF Grows, SameEntry
<1>2. \A id \in Ids : /\ Settled(id) => Settled(id)'
                      /\ LedgeredAt(id) => LedgeredAt(id)'
                      /\ IsolatedAt(id) => IsolatedAt(id)'
  BY Zenon, <1>1, EntryStays
<1>3. CompanionsFirst'
  BY Zenon DEF IInv, CompanionsFirst
<1> QED
  BY Zenon, <1>2, <1>3 DEF IInv, Ledgered, Isolated

(* One item's entries change: the others keep what is known of them. *)
LEMMA OthersStay ==
    ASSUME IInv, Grows, NEW id \in Ids, \A k \in Ids \ {id} : SameEntry(k),
           LedgeredAt(id)', IsolatedAt(id)'
    PROVE  /\ Ledgered' /\ Isolated'
           /\ \A k \in Ids \ {id} : Settled(k) => Settled(k)'
<1>1. \A k \in Ids \ {id} : /\ Settled(k) => Settled(k)'
                            /\ LedgeredAt(k) => LedgeredAt(k)'
                            /\ IsolatedAt(k) => IsolatedAt(k)'
  BY Zenon, EntryStays
<1> QED
  BY Zenon, <1>1 DEF IInv, Ledgered, Isolated
-----------------------------------------------------------------------------
(***************************************************************************)
(* The mailer's view and the claims in hand.                               *)
(***************************************************************************)
MailStates == {"Available", "Claimed", "Deferred", "Consumed", "Rejected"}
MailTypes == mail \in [Ids -> [state : MailStates, token : Nat]]
TableTypes ==
    /\ DOMAIN forwards \subseteq Ids /\ forwards \in [DOMAIN forwards -> Nat]
    /\ replies \subseteq Ids
    /\ DOMAIN ledger \subseteq Ids /\ ledger \in [DOMAIN ledger -> Record]
    /\ DOMAIN quarantine \subseteq Ids /\ quarantine \in [DOMAIN quarantine -> OrphanRecord]
    /\ DOMAIN inbox \subseteq Names
    /\ inbox \in [DOMAIN inbox -> [id : Ids, index : Nat, objects : Seq(Names)]]
    /\ taken \subseteq DOMAIN inbox
    /\ erased \subseteq Ids
FileTypes == counter \in Nat /\ staging \subseteq Names
HandTypes ==
    /\ pc \in Steps
    /\ batch \in Seq(Claim)
    /\ out \in Outcome
    /\ pc \notin {"Down", "Recover", "Batch"} => batch # <<>>

(* The parts make up the type invariant. *)
LEMMA Typing == TypeOK <=> MailTypes /\ TableTypes /\ FileTypes /\ HandTypes
BY Zenon DEF TypeOK, MailTypes, MailStates, TableTypes, FileTypes, HandTypes

(* The same after a step. *)
LEMMA TypingNext == MailTypes' /\ TableTypes' /\ FileTypes' /\ HandTypes' => TypeOK'
BY Zenon DEF TypeOK, MailTypes, MailStates, TableTypes, FileTypes, HandTypes

(* The tokens the mailer has issued stay issued, and nothing is consumed but
   the item in hand, by its current token. *)
SameTokens == \A id \in Ids : mail'[id].token = mail[id].token
ConsumesNothing ==
    \A id \in Ids : mail'[id].state = "Consumed" => mail[id].state = "Consumed"
ConsumesCurrent ==
    \A id \in Ids :
        mail'[id].state = "Consumed" =>
            mail[id].state = "Consumed" \/ (current.id = id /\ current.token = mail[id].token)

(* Resolve, whatever the mailer makes of the token. *)
LEMMA ResolveMail ==
    ASSUME TypeOK, batch # <<>>, NEW state \in MailStates, Resolve(current, state)
    PROVE  /\ MailTypes' /\ SameTokens /\ ConsumesCurrent
           /\ state # "Consumed" => ConsumesNothing
<1>1. MailTypes /\ current.id \in Ids /\ current.token \in Nat
  BY Zenon, Typing, BatchTypes
<1>2. CASE UNCHANGED mail
  BY Zenon, <1>1, <1>2 DEF MailTypes, SameTokens, ConsumesCurrent, ConsumesNothing
<1>3. CASE Holds(current) /\ mail' = [mail EXCEPT ![current.id].state = state]
  <2>1. MailTypes'
    BY Zenon, <1>1, <1>3 DEF MailTypes
  <2>2. \A id \in Ids : /\ mail'[id].token = mail[id].token
                        /\ mail'[id].state = IF id = current.id THEN state ELSE mail[id].state
    BY Zenon, <1>1, <1>3 DEF MailTypes
  <2>3. current.token = mail[current.id].token
    BY <1>3 DEF Holds
  <2> QED
    BY Zenon, <2>1, <2>2, <2>3 DEF SameTokens, ConsumesCurrent, ConsumesNothing
<1> QED
  BY Zenon, <1>2, <1>3 DEF Resolve

(* The head leaves the batch.  If it was consumed by its own token, no later
   claim of the batch is for the same item. *)
LEMMA NextItemMoves ==
    ASSUME IInv, batch # <<>>, NextItem, SameTokens, ConsumesCurrent
    PROVE  HandTypes' /\ Handled' /\ Tokens' /\ Over'
<1> DEFINE n == Len(batch)
<1>1. /\ batch' = Tail(batch) /\ out' = Nothing /\ pc' \in {"Batch", "Plan"}
      /\ pc' = "Plan" => n # 1
  BY Zenon DEF NextItem
<1>2. /\ current = batch[1] /\ 1 \in DOMAIN batch /\ current.id \in Ids /\ current.token \in Nat
      /\ n \in Nat /\ n >= 1 /\ Len(Tail(batch)) = n - 1 /\ Tail(batch) \in Seq(Claim)
      /\ \A i \in DOMAIN Tail(batch) : i + 1 \in DOMAIN batch /\ Tail(batch)[i] = batch[i + 1]
  BY Zenon, BatchTypes DEF IInv
<1>3. HandTypes'
  <2>1. Nothing \in Outcome
    BY DEF Nothing, Outcome, NoName
  <2>2. Len(Tail(batch)) # 0 => Tail(batch) # <<>>
    <3> HIDE DEF n
    <3>1. \A t \in Seq(Claim) : Len(t) # 0 => t # <<>>
      BY Zenon
    <3> QED
      BY Zenon, <1>2, <3>1
  <2>3. pc' = "Plan" => Tail(batch) # <<>>
    BY <1>1, <1>2, <2>2
  <2> QED
    BY Zenon, <1>1, <1>2, <2>1, <2>3 DEF HandTypes, Steps
<1>4. Handled'
  BY Zenon, <1>1 DEF Handled, Step, Conversion, Orphaned, Continued
<1>5. batch \in Seq(Claim) /\ MailTypes
  BY Zenon, Typing DEF IInv, HandTypes
<1>6. ASSUME NEW i \in DOMAIN batch
      PROVE  /\ batch[i].id \in Ids /\ batch[i].token \in Nat
             /\ mail[batch[i].id].token \in Nat
  <2>1. batch[i] \in Claim
    BY <1>5
  <2> QED
    BY Zenon, <1>5, <2>1 DEF Claim, MailTypes
<1>7. DOMAIN Tail(batch) = 1 .. n - 1 /\ DOMAIN batch = 1 .. n
  BY <1>2, <1>5
<1>8. Tokens'
  <2>1. ASSUME NEW i \in DOMAIN Tail(batch)
        PROVE  Tail(batch)[i].token <= mail'[Tail(batch)[i].id].token
    BY <2>1, <1>2, <1>6 DEF IInv, Tokens, SameTokens
  <2>2. ASSUME NEW i \in DOMAIN Tail(batch), NEW j \in DOMAIN Tail(batch),
               i < j, Tail(batch)[i].id = Tail(batch)[j].id
        PROVE  Tail(batch)[i].token < Tail(batch)[j].token
    <3>1. i + 1 < j + 1
      BY <2>2, <1>2, <1>7
    <3> QED
      BY Zenon, <2>2, <3>1, <1>2 DEF IInv, Tokens
  <2> QED
    BY Zenon, <1>1, <2>1, <2>2 DEF Tokens
<1>9. Over'
  <2> SUFFICES ASSUME NEW i \in DOMAIN Tail(batch), mail'[Tail(batch)[i].id].state = "Consumed"
               PROVE  FALSE
    BY Zenon, <1>1 DEF Over
  <2>1. i + 1 \in DOMAIN batch /\ Tail(batch)[i] = batch[i + 1] /\ i + 1 # 1 /\ 1 < i + 1
    BY <1>2, <1>7
  <2>2. mail[batch[i + 1].id].state # "Consumed"
    BY Zenon, <2>1 DEF IInv, Over
  <2>3. batch[1].id = batch[i + 1].id /\ batch[1].token = mail[batch[i + 1].id].token
    BY Zenon, <1>2, <1>6, <2>1, <2>2 DEF ConsumesCurrent
  <2>4. batch[1].token < batch[i + 1].token /\ batch[i + 1].token <= mail[batch[i + 1].id].token
    BY Zenon, <1>2, <2>1, <2>3 DEF IInv, Tokens
  <2> QED
    BY <1>2, <1>6, <2>1, <2>3, <2>4
<1> QED
  BY Zenon, <1>3, <1>4, <1>8, <1>9
-----------------------------------------------------------------------------
(***************************************************************************)
(* The shapes of a step.                                                   *)
(***************************************************************************)
(* The batch stays and nothing is consumed. *)
LEMMA HandStays ==
    ASSUME IInv, UNCHANGED batch, out' \in Outcome, pc' \in Steps,
           pc' \notin {"Down", "Recover", "Batch"} => batch # <<>>,
           SameTokens, ConsumesNothing, pc # "Finish"
    PROVE  HandTypes' /\ Tokens' /\ Over'
<1>1. batch \in Seq(Claim)
  BY Zenon, Typing DEF IInv, HandTypes
<1>2. ASSUME NEW i \in DOMAIN batch PROVE batch[i].id \in Ids
  <2>1. batch[i] \in Claim
    BY <1>1
  <2> QED
    BY Zenon, <2>1 DEF Claim
<1>3. HandTypes'
  BY Zenon, <1>1 DEF HandTypes
<1>4. Tokens'
  BY Zenon, <1>2 DEF IInv, Tokens, SameTokens
<1>5. Over'
  BY Zenon, <1>2 DEF IInv, Over, ConsumesNothing
<1> QED
  BY Zenon, <1>3, <1>4, <1>5

(* The item in hand is known to the adapter by the new step. *)
LEMMA HandledStays ==
    ASSUME UNCHANGED batch, NEW id \in Ids, id = current.id, Step(id)'
    PROVE  Handled'
BY Zenon DEF Handled, current

(* While an item is worked on, the mailer has not let go of it. *)
LEMMA NotConsumed ==
    ASSUME IInv, batch # <<>>, pc # "Finish"
    PROVE  current.id \in Ids /\ mail[current.id].state # "Consumed"
<1>1. current = batch[1] /\ 1 \in DOMAIN batch /\ current.id \in Ids
  BY Zenon, BatchTypes DEF IInv
<1> QED
  BY Zenon, <1>1 DEF IInv, Over

(* A step of handle that changes the entries of the item in hand only. *)
LEMMA WorkStep ==
    ASSUME IInv, batch # <<>>, pc # "Finish", NEW id \in Ids, id = current.id,
           UNCHANGED <<mail, batch>>, pc' \in Steps, out' \in Outcome,
           Grows, \A k \in Ids \ {id} : SameEntry(k),
           TableTypes', FileTypes', LedgeredAt(id)', IsolatedAt(id)', Step(id)', CompanionsFirst'
    PROVE  IInv'
<1>1. MailTypes' /\ SameTokens /\ ConsumesNothing
  BY Zenon, Typing DEF IInv, MailTypes, SameTokens, ConsumesNothing
<1>2. HandTypes' /\ Tokens' /\ Over'
  <2>1. UNCHANGED batch
    BY Zenon
  <2> QED
    BY Zenon, <1>1, <2>1, HandStays
<1>3. Handled'
  BY Zenon, HandledStays
<1>4. Ledgered' /\ Isolated' /\ \A k \in Ids \ {id} : Settled(k) => Settled(k)'
  BY Zenon, OthersStay
<1>5. Safe'
  <2>1. mail[id].state # "Consumed"
    BY Zenon, NotConsumed
  <2> QED
    BY Zenon, <1>4, <2>1 DEF IInv, Safe
<1>6. TypeOK'
  BY Zenon, <1>1, <1>2, TypingNext
<1> QED
  BY Zenon, <1>2, <1>3, <1>4, <1>5, <1>6 DEF IInv

(* A step of handle that changes no table. *)
LEMMA QuietStep ==
    ASSUME IInv, batch # <<>>, pc # "Finish", NEW id \in Ids, id = current.id,
           UNCHANGED <<mail, forwards, replies, ledger, quarantine, inbox, taken, erased, batch>>,
           pc' \in Steps, out' \in Outcome, FileTypes', Step(id)'
    PROVE  IInv'
<1>1. TableTypes'
  BY Zenon, Typing DEF IInv, TableTypes
<1>2. LedgeredAt(id)' /\ IsolatedAt(id)' /\ CompanionsFirst'
  BY Zenon, TablesStay DEF Ledgered, Isolated
<1>3. Grows /\ \A k \in Ids \ {id} : SameEntry(k)
  BY Zenon DEF Grows, SameEntry
<1> QED
  BY Zenon, <1>1, <1>2, <1>3, WorkStep

(* The claim in hand is resolved and the next one taken up; a Forward Job or a
   reply may have been committed. *)
LEMMA ResolveStep ==
    ASSUME IInv, batch # <<>>, NEW state \in MailStates, Resolve(current, state), NextItem,
           state = "Consumed" => Settled(current.id),
           UNCHANGED <<tables, directory, erased>>, Grows,
           DOMAIN forwards' \subseteq Ids, forwards' \in [DOMAIN forwards' -> Nat],
           replies' \subseteq Ids
    PROVE  IInv'
<1>1. /\ MailTypes' /\ SameTokens /\ ConsumesCurrent
      /\ state # "Consumed" => ConsumesNothing
  BY Zenon, ResolveMail DEF IInv
<1>2. HandTypes' /\ Handled' /\ Tokens' /\ Over'
  BY Zenon, <1>1, NextItemMoves
<1>3. TableTypes' /\ FileTypes'
  BY Zenon, Typing DEF IInv, TableTypes, FileTypes, tables, directory
<1>4. \A id \in Ids : SameEntry(id)
  BY Zenon DEF SameEntry, tables, directory
<1>5. \A id \in Ids : /\ Settled(id) => Settled(id)'
                      /\ LedgeredAt(id) => LedgeredAt(id)'
                      /\ IsolatedAt(id) => IsolatedAt(id)'
  BY Zenon, <1>4, EntryStays
<1>6. Ledgered' /\ Isolated'
  BY Zenon, <1>5 DEF IInv, Ledgered, Isolated
<1>7. Safe'
  <2> SUFFICES ASSUME NEW id \in Ids, mail'[id].state = "Consumed" PROVE Settled(id)
    BY Zenon, <1>5 DEF Safe
  <2>1. CASE mail[id].state = "Consumed"
    BY Zenon, <2>1 DEF IInv, Safe
  <2>2. CASE mail[id].state # "Consumed"
    BY Zenon, <2>2, <1>1 DEF ConsumesCurrent, ConsumesNothing
  <2> QED
    BY Zenon, <2>1, <2>2
<1>8. CompanionsFirst'
  <2>1. inbox' = inbox
    BY Zenon DEF directory
  <2> QED
    BY Zenon, <2>1 DEF IInv, CompanionsFirst
<1>9. TypeOK'
  BY Zenon, <1>1, <1>2, <1>3, TypingNext
<1> QED
  BY Zenon, <1>2, <1>6, <1>7, <1>8, <1>9 DEF IInv
-----------------------------------------------------------------------------
(***************************************************************************)
(* One lemma per action, or per family of actions with the same effect.    *)
(***************************************************************************)
(* Return, Collect and EndBatch: the mailer and the batch. *)
LEMMA ReturnKeeps ==
    ASSUME IInv, NEW id \in Ids, Return(id)
    PROVE  IInv'
<1>1. /\ mail[id].state \in {"Claimed", "Deferred"}
      /\ mail' = [mail EXCEPT ![id].state = "Available"]
      /\ UNCHANGED <<ledger, quarantine, counter, inbox, taken, staging, erased, forwards, replies,
                     pc, batch, out>>
  BY Zenon DEF Return, tables, directory
<1>2. MailTypes /\ TableTypes /\ FileTypes /\ HandTypes
  BY Zenon, Typing DEF IInv
<1>3. MailTypes' /\ SameTokens /\ ConsumesNothing
  BY Zenon, <1>1, <1>2 DEF MailTypes, MailStates, SameTokens, ConsumesNothing
<1>4. TypeOK'
  <2>1. TableTypes' /\ FileTypes' /\ HandTypes'
    BY Zenon, <1>1, <1>2 DEF TableTypes, FileTypes, HandTypes
  <2> QED
    BY Zenon, <1>3, <2>1, TypingNext
<1>5. Ledgered' /\ Isolated' /\ CompanionsFirst' /\ \A k \in Ids : Settled(k) => Settled(k)'
  BY Zenon, <1>1, TablesStay
<1>6. Safe'
  BY Zenon, <1>3, <1>5 DEF IInv, Safe, ConsumesNothing
<1>7. Handled'
  <2> SUFFICES ASSUME NEW k \in Ids, batch # <<>>, current.id = k PROVE Step(k)'
    BY Zenon, <1>1 DEF Handled, current
  <2>1. Step(k)
    BY Zenon DEF IInv, Handled
  <2>2. Settled(k) => Settled(k)'
    BY Zenon, <1>5
  <2> QED
    BY <1>1, <2>1, <2>2 DEF Step, Conversion, Orphaned, Continued, Fresh, Linked, PublishedUnder, Known
<1>8. Tokens' /\ Over'
  <2>1. ASSUME NEW i \in DOMAIN batch PROVE batch[i].id \in Ids
    <3>1. batch[i] \in Claim
      BY <1>2 DEF HandTypes
    <3> QED
      BY Zenon, <3>1 DEF Claim
  <2> QED
    BY <1>1, <1>3, <2>1 DEF IInv, Tokens, Over, SameTokens, ConsumesNothing
<1> QED
  BY Zenon, <1>4, <1>5, <1>6, <1>7, <1>8 DEF IInv

(* A claim is granted, to a batch that is being collected or to nobody. *)
LEMMA CollectKeeps ==
    ASSUME IInv, NEW id \in Ids, Collect(id)
    PROVE  IInv'
<1> DEFINE claim == [id |-> id, token |-> mail[id].token + 1]
<1>1. /\ pc = "Batch" /\ mail[id].state = "Available"
      /\ mail' = [mail EXCEPT ![id] = [state |-> "Claimed", token |-> @.token + 1]]
      /\ batch' = Append(batch, claim) \/ batch' = batch
      /\ UNCHANGED <<ledger, quarantine, counter, inbox, taken, staging, erased, forwards, replies,
                     pc, out>>
  BY Zenon DEF Collect, tables, directory
<1>2. MailTypes /\ TableTypes /\ FileTypes /\ HandTypes
  BY Zenon, Typing DEF IInv
<1>3. /\ MailTypes' /\ ConsumesNothing
      /\ \A k \in Ids : /\ mail[k].token \in Nat
                        /\ mail'[k].token = IF k = id THEN mail[k].token + 1 ELSE mail[k].token
      /\ mail'[id].state # "Consumed"
  BY <1>1, <1>2 DEF MailTypes, MailStates, ConsumesNothing
<1>4. claim \in Claim /\ batch \in Seq(Claim)
  BY <1>2, <1>3 DEF Claim, HandTypes
<1>5. TypeOK'
  <2>1. batch' \in Seq(Claim)
    BY <1>1, <1>4
  <2>2. HandTypes'
    BY Zenon, <1>1, <1>2, <2>1 DEF HandTypes
  <2>3. TableTypes' /\ FileTypes'
    BY Zenon, <1>1, <1>2 DEF TableTypes, FileTypes
  <2> QED
    BY Zenon, <1>3, <2>2, <2>3, TypingNext
<1>6. Ledgered' /\ Isolated' /\ CompanionsFirst' /\ \A k \in Ids : Settled(k) => Settled(k)'
  BY Zenon, <1>1, TablesStay
<1>7. Safe'
  BY ZenonT(40), <1>3, <1>6 DEF IInv, Safe, ConsumesNothing
<1>8. Handled'
  BY Zenon, <1>1 DEF Handled, Step, Conversion, Orphaned, Continued
<1>9. ASSUME NEW i \in DOMAIN batch
      PROVE  /\ batch[i].id \in Ids /\ batch[i].token \in Nat
             /\ batch[i].token <= mail[batch[i].id].token
             /\ mail[batch[i].id].state # "Consumed"
  <2>1. batch[i] \in Claim
    BY <1>4
  <2> QED
    BY Zenon, <1>1, <2>1 DEF IInv, Claim, Tokens, Over
<1>10. Tokens' /\ Over'
  <2>1. CASE batch' = batch
    <3>1. Tokens'
      BY <2>1, <1>3, <1>9 DEF IInv, Tokens
    <3>2. Over'
      BY Zenon, <2>1, <1>3, <1>9 DEF Over, ConsumesNothing
    <3> QED
      BY Zenon, <3>1, <3>2
  <2>2. CASE batch' = Append(batch, claim)
    <3>1. /\ Len(batch) \in Nat /\ DOMAIN batch = 1 .. Len(batch)
          /\ DOMAIN batch' = 1 .. Len(batch) + 1
          /\ \A i \in DOMAIN batch : batch'[i] = batch[i]
          /\ batch'[Len(batch) + 1] = claim
      BY <2>2, <1>4
    <3>2. claim.id = id /\ claim.token = mail[id].token + 1
      BY Zenon
    <3> HIDE DEF claim
    <3>3. ASSUME NEW i \in DOMAIN batch', NEW j \in DOMAIN batch', i < j, batch'[i].id = batch'[j].id
          PROVE  batch'[i].token < batch'[j].token
      <4>1. i \in DOMAIN batch
        BY <3>1, <3>3
      <4>2. CASE j \in DOMAIN batch
        BY Zenon, <3>1, <3>3, <4>1, <4>2 DEF IInv, Tokens
      <4>3. CASE j \notin DOMAIN batch
        <5>1. batch'[j] = claim /\ batch[i].id = id
          BY <3>1, <3>2, <3>3, <4>1, <4>3
        <5>2. batch[i].token <= mail[id].token
          BY Zenon, <1>9, <4>1, <5>1
        <5> QED
          BY SMTT(60), <1>3, <1>9, <3>1, <3>2, <4>1, <5>1, <5>2
      <4> QED
        BY Zenon, <4>2, <4>3
    <3>4. ASSUME NEW i \in DOMAIN batch'
          PROVE  /\ batch'[i].token <= mail'[batch'[i].id].token
                 /\ mail'[batch'[i].id].state # "Consumed"
      <4>1. CASE i \in DOMAIN batch
        BY SMTT(60), <4>1, <3>1, <1>3, <1>9 DEF ConsumesNothing
      <4>2. CASE i \notin DOMAIN batch
        BY SMTT(60), <4>2, <3>1, <3>2, <1>3
      <4> QED
        BY Zenon, <4>1, <4>2
    <3> QED
      BY Zenon, <3>3, <3>4 DEF Tokens, Over
  <2> QED
    BY Zenon, <1>1, <2>1, <2>2
<1> QED
  BY Zenon, <1>5, <1>6, <1>7, <1>8, <1>10 DEF IInv

(* Release, after an error of handle, and the other ends of an item that leave
   nothing behind: Unreadable, QuarantineExists, Unanswered, Defer, Refuse. *)
LEMMA GivenUpKeeps ==
    ASSUME IInv, Unreadable \/ QuarantineExists \/ Unanswered \/ Defer \/ Refuse
    PROVE  IInv'
<1>1. PICK state \in {"Available", "Deferred", "Rejected"} :
          /\ pc \notin {"Down", "Recover", "Batch"} /\ Resolve(current, state) /\ NextItem
          /\ UNCHANGED <<forwards, replies, tables, directory, erased>>
  BY Zenon DEF Unreadable, QuarantineExists, Unanswered, Defer, Refuse, Release
<1>2. batch # <<>> /\ TableTypes
  BY Zenon, <1>1, Typing DEF IInv, HandTypes
<1>3. Grows
  BY Zenon, <1>1 DEF Grows, directory
<1>4. /\ DOMAIN forwards' \subseteq Ids /\ forwards' \in [DOMAIN forwards' -> Nat]
      /\ replies' \subseteq Ids
  BY Zenon, <1>1, <1>2 DEF TableTypes
<1>5. state \in MailStates /\ state # "Consumed"
  BY Zenon DEF MailStates
<1> QED
  BY Zenon, <1>1, <1>2, <1>3, <1>4, <1>5, ResolveStep

(* The item is acknowledged and the ledger left alone. *)
LEMMA AcknowledgeOnlyKeeps ==
    ASSUME IInv, AcknowledgeOnly
    PROVE  IInv'
<1>1. /\ pc \in {"AcknowledgeOnly", "Acknowledge"} /\ Resolve(current, "Consumed") /\ NextItem
      /\ UNCHANGED <<forwards, replies, tables, directory, erased>>
  BY Zenon DEF AcknowledgeOnly
<1>2. batch # <<>> /\ TableTypes
  BY Zenon, <1>1, Typing DEF IInv, HandTypes
<1>3. Grows
  BY Zenon, <1>1 DEF Grows, directory
<1>4. /\ DOMAIN forwards' \subseteq Ids /\ forwards' \in [DOMAIN forwards' -> Nat]
      /\ replies' \subseteq Ids
  BY Zenon, <1>1, <1>2 DEF TableTypes
<1>5. Settled(current.id)
  BY Zenon, <1>1, <1>2, BatchTypes DEF IInv, Handled, Step, Continued
<1>6. "Consumed" \in MailStates
  BY Zenon DEF MailStates
<1> QED
  BY Zenon, <1>1, <1>2, <1>3, <1>4, <1>5, <1>6, ResolveStep

(* A Forward Job or a reply is committed and the answer lost. *)
LEMMA LostKeeps ==
    ASSUME IInv, ForwardLost \/ SubmitLost
    PROVE  IInv'
<1>1. /\ pc \in {"Forward", "Submit"} /\ Resolve(current, "Available") /\ NextItem
      /\ UNCHANGED <<tables, directory, erased>>
  BY Zenon DEF ForwardLost, SubmitLost
<1>2. batch # <<>> /\ TableTypes
  BY Zenon, <1>1, Typing DEF IInv, HandTypes
<1>3. current.id \in Ids /\ current.token \in Nat
  BY Zenon, <1>2, BatchTypes DEF IInv
<1>4. \/ forwards' = Put(forwards, current.id, current.token) /\ replies' = replies
      \/ forwards' = forwards /\ replies' = replies \cup {current.id}
  BY Zenon DEF ForwardLost, SubmitLost
<1>5. /\ DOMAIN forwards \subseteq DOMAIN forwards' /\ replies \subseteq replies'
      /\ DOMAIN forwards' \subseteq Ids /\ forwards' \in [DOMAIN forwards' -> Nat]
      /\ replies' \subseteq Ids
  <2>1. CASE forwards' = Put(forwards, current.id, current.token) /\ replies' = replies
    <3>1. /\ DOMAIN forwards \subseteq Ids /\ forwards \in [DOMAIN forwards -> Nat]
          /\ replies \subseteq Ids
      BY Zenon, <1>2 DEF TableTypes
    <3>2. /\ forwards' \in [DOMAIN forwards' -> Nat]
          /\ DOMAIN forwards' = DOMAIN forwards \cup {current.id}
      BY Zenon, <2>1, <3>1, <1>3 DEF Put
    <3> QED
      BY Zenon, <2>1, <3>1, <3>2, <1>3
  <2>2. CASE forwards' = forwards /\ replies' = replies \cup {current.id}
    BY Zenon, <2>2, <1>2, <1>3 DEF TableTypes
  <2> QED
    BY Zenon, <1>4, <2>1, <2>2
<1>6. Grows
  BY Zenon, <1>1, <1>5 DEF Grows, directory
<1>7. "Available" \in MailStates /\ "Available" # "Consumed"
  BY Zenon DEF MailStates
<1> QED
  BY Zenon, <1>1, <1>2, <1>5, <1>6, <1>7, ResolveStep

(* A step that only moves on: EndBatch, PublishFails, NotForwarded, RemoveFails. *)
LEMMA MovesOnKeeps ==
    ASSUME IInv, EndBatch \/ PublishFails \/ NotForwarded \/ RemoveFails
    PROVE  IInv'
<1>1. /\ pc \in {"Batch", "Write", "Link", "Advance", "Forward", "Remove"}
      /\ pc' \in {"Plan", "Defer", "Acknowledge"} /\ (pc' = "Acknowledge" => pc = "Remove")
      /\ UNCHANGED <<mailer, tables, directory, erased, batch, out>>
      /\ pc = "Batch" => batch # <<>>
  BY Zenon DEF EndBatch, PublishFails, NotForwarded, RemoveFails, Goto
<1>2. batch # <<>> /\ out \in Outcome /\ FileTypes
  BY Zenon, <1>1, Typing DEF IInv, HandTypes
<1>3. PICK id \in Ids : id = current.id
  BY Zenon, <1>2, BatchTypes DEF IInv
<1>4. Step(id)
  BY Zenon, <1>2, <1>3 DEF IInv, Handled
<1>5. UNCHANGED <<mail, forwards, replies, ledger, quarantine, inbox, taken, erased, batch, counter,
                  staging, out>>
  BY Zenon, <1>1 DEF mailer, tables, directory
<1>6. pc = "Remove" => Settled(id)
  BY Zenon, <1>4, ItemTypes DEF Step, Continued, Settled, Discharged, Cleaned, Known
<1>7. pc' = "Acknowledge" => Settled(id)'
  BY Zenon, <1>1, <1>5, <1>6, TablesStay
<1>8. Step(id)'
  BY Zenon, <1>1, <1>7 DEF Step, Conversion, Orphaned, Continued
<1>9. FileTypes' /\ out' \in Outcome /\ pc' \in Steps
  BY Zenon, <1>1, <1>2, <1>5 DEF FileTypes, Steps
<1> QED
  BY Zenon, <1>1, <1>2, <1>3, <1>5, <1>8, <1>9, QuietStep

(* plan finds nothing left to do, or only what comes after the publication. *)
LEMMA PlanResumedKeeps ==
    ASSUME IInv, PlanNothing \/ PlanResume
    PROVE  IInv'
<1>1. /\ pc = "Plan" /\ UNCHANGED <<mailer, ledger, quarantine, directory, erased, batch, counter, out>>
      /\ \/ Done(current.id) /\ pc' = "AcknowledgeOnly"
         \/ /\ Known(current.id, "Published") /\ ~ Done(current.id)
            /\ pc' = IF Owed(current.id) THEN "Forward" ELSE "Serve"
  BY Zenon DEF PlanNothing, PlanResume, PlanStep
<1>2. batch # <<>> /\ out \in Outcome /\ FileTypes
  BY Zenon, <1>1, Typing DEF IInv, HandTypes
<1>3. PICK id \in Ids : id = current.id
  BY Zenon, <1>2, BatchTypes DEF IInv
<1>4. UNCHANGED <<mail, forwards, replies, ledger, quarantine, inbox, taken, erased, batch, counter,
                  staging, out>>
  BY Zenon, <1>1 DEF mailer, directory
<1>5. LedgeredAt(id) /\ Kind[id] \in Kinds
  BY Zenon, ItemTypes DEF IInv, Ledgered
<1>6. ASSUME Done(id), pc' = "AcknowledgeOnly" PROVE Step(id)'
  <2>1. Settled(id)
    <3>1. CASE Known(id, "Acknowledged") \/ Known(id, "Retired")
      BY Zenon, <3>1, <1>5 DEF Known, LedgeredAt
    <3>2. CASE Known(id, "Published") /\ ~ Owed(id) /\ Kind[id] # "Request"
      <4>1. /\ id \in DOMAIN ledger /\ ledger[id].state = "Published" /\ Kind[id] \in Objects
            /\ PublishedUnder(ledger[id].objects)
        BY Zenon, <3>2, <1>5 DEF Known, LedgeredAt
      <4>2. Kind[id] = "Distribute" => id \in DOMAIN forwards
        BY Zenon, <3>2, <4>1, <1>5 DEF Owed, LedgeredAt
      <4>3. Discharged(id)
        BY Zenon, <4>1, <4>2 DEF Discharged, Objects
      <4>4. Cleaned(id)
        BY Zenon, <4>1, EraseTypes DEF Cleaned, Objects
      <4> QED
        BY Zenon, <4>1, <4>3, <4>4 DEF Settled
    <3> QED
      BY Zenon, <1>6, <3>1, <3>2 DEF Done
  <2>2. Settled(id)'
    BY Zenon, <1>4, <2>1, TablesStay
  <2> QED
    BY Zenon, <1>6, <2>2 DEF Step, Conversion, Orphaned, Continued
<1>7. ASSUME Known(id, "Published"), ~ Done(id), pc' = IF Owed(id) THEN "Forward" ELSE "Serve"
      PROVE  Step(id)'
  <2>1. Known(id, "Published")'
    BY Zenon, <1>4, <1>7 DEF Known
  <2>2. Owed(id) => Kind[id] = "Distribute"
    BY Zenon, <1>5, <1>7 DEF Owed, LedgeredAt, Known
  <2>3. ~ Owed(id) => Kind[id] = "Request"
    BY Zenon, <1>7 DEF Done
  <2>4. pc' \in {"Forward", "Serve"} /\ (pc' = "Forward" <=> Owed(id))
    BY Zenon, <1>7
  <2> QED
    BY Zenon, <2>1, <2>2, <2>3, <2>4 DEF Step, Conversion, Orphaned, Continued
<1>8. Step(id)' /\ pc' \in Steps
  BY Zenon, <1>1, <1>3, <1>6, <1>7 DEF Steps
<1>9. FileTypes' /\ out' \in Outcome
  BY Zenon, <1>2, <1>4 DEF FileTypes
<1> QED
  BY Zenon, <1>1, <1>2, <1>3, <1>4, <1>8, <1>9, QuietStep

(* plan goes on with the notice of an orphan. *)
LEMMA PlanNoticeKeeps ==
    ASSUME IInv, PlanNotice
    PROVE  IInv'
<1>1. /\ pc = "Plan" /\ UNCHANGED <<mailer, ledger, quarantine, directory, erased, batch, counter>>
      /\ Known(current.id, "Staged") \/ Known(current.id, "Retired")
      /\ PendingNotice(current.id)
      /\ out' = [objects |-> quarantine[current.id].objects,
                 notice |-> quarantine[current.id].notice, next |-> 1]
      /\ pc' = "Quarantine"
  BY Zenon DEF PlanNotice, PlanStep
<1>2. batch # <<>> /\ FileTypes /\ TableTypes
  BY Zenon, <1>1, Typing DEF IInv, HandTypes
<1>3. PICK id \in Ids : id = current.id
  BY Zenon, <1>2, BatchTypes DEF IInv
<1>4. UNCHANGED <<mail, forwards, replies, ledger, quarantine, inbox, taken, erased, batch, counter,
                  staging>>
  BY Zenon, <1>1 DEF mailer, directory
<1>5. id \in DOMAIN quarantine /\ quarantine[id] \in OrphanRecord /\ IsolatedAt(id)
  BY Zenon, <1>1, <1>2, <1>3 DEF PendingNotice, TableTypes, IInv, Isolated
<1>6. out' \in Outcome
  BY Zenon, <1>1, <1>3, <1>5 DEF Outcome, OrphanRecord
<1>7. Fresh(id)
  BY ZenonT(40), <1>1, <1>3, <1>5 DEF Fresh, Known, IsolatedAt
<1>8. Step(id)'
  BY Zenon, <1>1, <1>3, <1>4, <1>5, <1>7 DEF Step, Conversion, Orphaned, Continued, IsolatedAt, Fresh
<1>9. FileTypes' /\ pc' \in Steps
  BY Zenon, <1>1, <1>2, <1>4 DEF FileTypes, Steps
<1> QED
  BY Zenon, <1>1, <1>2, <1>3, <1>4, <1>6, <1>8, <1>9, QuietStep

(* plan converts the item; the counter makes its names. *)
LEMMA PlanConvertKeeps ==
    ASSUME IInv, PlanConvert
    PROVE  IInv'
<1>2. pc = "Plan"
  BY Zenon DEF PlanConvert, PlanStep
<1>3. batch # <<>> /\ FileTypes
  BY Zenon, <1>2, Typing DEF IInv, HandTypes
<1>4. PICK id \in Ids : id = current.id
  BY Zenon, <1>3, BatchTypes DEF IInv
<1> DEFINE named == Kind[id] \in {"Deliver", "Distribute", "Orphan", "Notice"}
           noticed == Kind[id] = "Notice"
           used == (IF named THEN Size[id] ELSE 0) + (IF noticed THEN 1 ELSE 0)
<1>5. /\ UNCHANGED <<mailer, ledger, quarantine, directory, erased, batch>>
      /\ Convertible(id)
      /\ counter' = counter + used
      /\ out' = [objects |-> IF named THEN Generated(id) ELSE <<>>,
                 notice |-> IF noticed THEN counter + used ELSE NoName,
                 next |-> 1]
      /\ pc' = CASE Kind[id] \in {"Deliver", "Distribute", "Request"} -> "Stage"
                 [] Kind[id] \in {"Orphan", "Notice"} -> "Quarantine"
                 [] Kind[id] = "Refuse" -> "Refuse"
  BY Zenon, <1>4 DEF PlanConvert, PlanStep
<1>6. UNCHANGED <<mail, forwards, replies, ledger, quarantine, inbox, taken, erased, batch, staging>>
  BY Zenon, <1>5 DEF mailer, directory
<1>7. counter \in Nat /\ Kind[id] \in Kinds /\ Size[id] \in Nat /\ Size[id] >= 1
  BY Zenon, <1>3, ItemTypes DEF FileTypes
<1>8. used \in Nat /\ (noticed => used >= 1)
  BY <1>7
<1>9. Generated(id) \in Seq(Names) /\ Generated(id) # <<>>
  <2>1. Generated(id) \in [1 .. Size[id] -> Names]
    BY <1>7 DEF Generated, Names, NoName
  <2>2. Generated(id) \in Seq(Names) /\ Len(Generated(id)) = Size[id]
    BY <1>7, <2>1
  <2> QED
    BY <1>7, <2>2
<1> HIDE DEF used
<1>10. out' \in Outcome
  <2>1. <<>> \in Seq(Names)
    OBVIOUS
  <2> QED
    BY <1>5, <1>7, <1>8, <1>9, <2>1 DEF Outcome, NoName
<1>11. Fresh(id)
  BY Zenon, <1>5 DEF Convertible, Fresh, Known
<1>12. Step(id)'
  <2>1. CASE Kind[id] \in {"Deliver", "Distribute", "Request"}
    <3>1. pc' = "Stage" /\ out'.next = 1 /\ (Kind[id] \in Objects => out'.objects = Generated(id))
      BY Zenon, <1>5, <2>1 DEF Objects
    <3> QED
      BY Zenon, <1>6, <1>9, <1>11, <2>1, <3>1 DEF Step, Conversion, Orphaned, Continued, Fresh, Objects
  <2>2. CASE Kind[id] \in {"Orphan", "Notice"}
    <3>1. pc' = "Quarantine" /\ (out'.notice # NoName <=> Kind[id] = "Notice")
      BY <1>5, <1>7, <1>8, <2>2 DEF NoName
    <3> QED
      BY Zenon, <1>6, <1>11, <2>2, <3>1 DEF Step, Conversion, Orphaned, Continued, Fresh, Orphans
  <2>3. CASE Kind[id] = "Refuse"
    <3>1. pc' = "Refuse"
      BY Zenon, <1>5, <2>3
    <3> QED
      BY Zenon, <3>1 DEF Step, Conversion, Orphaned, Continued
  <2> QED
    BY Zenon, <1>7, <2>1, <2>2, <2>3 DEF Kinds
<1>13. FileTypes' /\ pc' \in Steps
  BY <1>3, <1>5, <1>6, <1>7, <1>8 DEF FileTypes, Steps, Kinds
<1> QED
  BY Zenon, <1>2, <1>3, <1>4, <1>6, <1>10, <1>12, <1>13, QuietStep
-----------------------------------------------------------------------------
(***************************************************************************)
(* Steps that write to the ledger.                                         *)
(***************************************************************************)
(* The entry of one item is written. *)
LEMMA LedgerWritten ==
    ASSUME TableTypes, NEW id \in Ids, NEW r \in Record, ledger' = Put(ledger, id, r),
           UNCHANGED <<forwards, quarantine, inbox, taken>>,
           replies \subseteq replies', replies' \subseteq Ids,
           erased \ {id} \subseteq erased', erased' \subseteq Ids
    PROVE  /\ TableTypes' /\ Grows
           /\ id \in DOMAIN ledger' /\ ledger'[id] = r
           /\ \A k \in Ids \ {id} : SameEntry(k)
           /\ CompanionsFirst => CompanionsFirst'
<1>1. /\ DOMAIN ledger' = DOMAIN ledger \cup {id} /\ ledger'[id] = r
      /\ \A k \in DOMAIN ledger \ {id} : ledger'[k] = ledger[k]
      /\ ledger' \in [DOMAIN ledger' -> Record]
  BY Zenon DEF Put, TableTypes
<1>2. TableTypes'
  BY Zenon, <1>1 DEF TableTypes
<1>3. Grows
  BY Zenon DEF Grows
<1>4. \A k \in Ids \ {id} : SameEntry(k)
  BY Zenon, <1>1 DEF SameEntry
<1>5. CompanionsFirst => CompanionsFirst'
  BY Zenon DEF CompanionsFirst
<1> QED
  BY Zenon, <1>1, <1>2, <1>3, <1>4, <1>5

(* Changing an entry that is there is writing it. *)
LEMMA ExceptIsPut ==
    ASSUME TableTypes, NEW id \in DOMAIN ledger, NEW r
    PROVE  [ledger EXCEPT ![id] = r] = Put(ledger, id, r)
BY ZenonT(40) DEF Put, TableTypes

(* The conversion is on record before anything of it is published. *)
LEMMA StageKeeps ==
    ASSUME IInv, Stage
    PROVE  IInv'
<1>1. /\ pc = "Stage" /\ ledger' = Put(ledger, current.id, Staged(current.id))
      /\ pc' = IF Kind[current.id] = "Request" THEN "Serve" ELSE "Write"
      /\ UNCHANGED <<mailer, quarantine, counter, directory, erased, batch, out>>
  BY Zenon DEF Stage, Goto
<1>2. batch # <<>> /\ FileTypes /\ TableTypes /\ out \in Outcome
  BY Zenon, <1>1, Typing DEF IInv, HandTypes
<1>3. PICK id \in Ids : id = current.id
  BY Zenon, <1>2, BatchTypes DEF IInv
<1>4. UNCHANGED <<mail, forwards, replies, quarantine, inbox, taken, erased, batch, counter,
                  staging, out>>
  BY Zenon, <1>1 DEF mailer, directory
<1>5. Step(id) /\ Kind[id] \in Kinds /\ IsolatedAt(id)
  BY Zenon, <1>2, <1>3, ItemTypes DEF IInv, Handled, Isolated
<1>6. /\ Fresh(id) /\ Kind[id] \in Objects \cup {"Request"}
      /\ out.next = 1 /\ (Kind[id] \in Objects => out.objects # <<>>)
  BY ZenonT(40), <1>1, <1>5 DEF Step, Conversion
<1> DEFINE r == Staged(id)
<1>7. /\ r \in Record /\ r.owes = (Kind[id] = "Distribute") /\ r.forwarded = FALSE
      /\ Kind[id] = "Request" => r.state = "Published"
      /\ Kind[id] # "Request" => r.state = "Staged" /\ r.objects = out.objects
  <2>1. out.objects \in Seq(Names) /\ <<>> \in Seq(Names)
    BY <1>2 DEF Outcome
  <2> QED
    BY Zenon, <2>1 DEF Staged, Entry, Record
<1> HIDE DEF r
<1>8. ledger' = Put(ledger, id, r)
  BY Zenon, <1>1, <1>3 DEF r
<1>9. replies' \subseteq Ids /\ erased' \subseteq Ids
  BY Zenon, <1>2, <1>4 DEF TableTypes
<1>10. /\ TableTypes' /\ Grows
       /\ id \in DOMAIN ledger' /\ ledger'[id] = r
       /\ \A k \in Ids \ {id} : SameEntry(k)
       /\ CompanionsFirst'
  BY Zenon, <1>2, <1>4, <1>7, <1>8, <1>9, LedgerWritten DEF IInv
<1>11. LedgeredAt(id)'
  BY ZenonT(40), <1>6, <1>7, <1>10 DEF LedgeredAt, Objects, Orphans
<1>12. IsolatedAt(id)'
  BY Zenon, <1>4, <1>5, <1>6 DEF IsolatedAt, Objects, Orphans
<1>13. Step(id)'
  <2>1. CASE Kind[id] = "Request"
    BY ZenonT(40), <1>1, <1>3, <1>7, <1>10, <2>1 DEF Step, Conversion, Orphaned, Continued, Known
  <2>2. CASE Kind[id] # "Request"
    BY Zenon, <1>1, <1>3, <1>4, <1>6, <1>7, <1>10, <2>2 DEF Step, Conversion, Orphaned, Continued, Fresh, Objects
  <2> QED
    BY Zenon, <2>1, <2>2
<1>14. pc' \in Steps /\ FileTypes' /\ out' \in Outcome
  BY Zenon, <1>1, <1>2, <1>4 DEF Steps, FileTypes
<1> QED
  BY Zenon, <1>1, <1>2, <1>3, <1>4, <1>10, <1>11, <1>12, <1>13, <1>14, WorkStep

(* An entry that is there is rewritten by a step of handle. *)
LEMMA RewriteStep ==
    ASSUME IInv, batch # <<>>, pc # "Finish", NEW id \in Ids, id = current.id, id \in DOMAIN ledger,
           NEW r \in Record, ledger' = [ledger EXCEPT ![id] = r],
           UNCHANGED <<mailer, quarantine, counter, directory, batch, out>>,
           erased \ {id} \subseteq erased', erased' \subseteq Ids, pc' \in Steps,
           ledger'[id] = r => LedgeredAt(id)' /\ IsolatedAt(id)' /\ Step(id)'
    PROVE  IInv'
<1>1. FileTypes /\ TableTypes /\ out \in Outcome
  BY Zenon, Typing DEF IInv, HandTypes
<1>2. UNCHANGED <<mail, forwards, replies, quarantine, inbox, taken, batch, counter, staging, out>>
  BY Zenon DEF mailer, directory
<1>3. ledger' = Put(ledger, id, r)
  BY Zenon, <1>1, ExceptIsPut
<1>4. replies \subseteq replies' /\ replies' \subseteq Ids
  BY Zenon, <1>1, <1>2 DEF TableTypes
<1>5. /\ TableTypes' /\ Grows
      /\ ledger'[id] = r
      /\ \A k \in Ids \ {id} : SameEntry(k)
      /\ CompanionsFirst'
  BY Zenon, <1>1, <1>2, <1>3, <1>4, LedgerWritten DEF IInv
<1>6. FileTypes' /\ out' \in Outcome
  BY Zenon, <1>1, <1>2 DEF FileTypes
<1> QED
  BY Zenon, <1>2, <1>5, <1>6, WorkStep

(* All objects are published: the ledger says so. *)
LEMMA AdvanceKeeps ==
    ASSUME IInv, Advance
    PROVE  IInv'
<1>1. /\ pc = "Advance" /\ ledger' = [ledger EXCEPT ![current.id].state = "Published"]
      /\ pc' = IF Owed(current.id) THEN "Forward" ELSE "Acknowledge"
      /\ UNCHANGED <<mailer, quarantine, counter, directory, erased, batch, out>>
  BY Zenon DEF Advance, Goto
<1>2. batch # <<>> /\ TableTypes
  BY Zenon, <1>1, Typing DEF IInv, HandTypes
<1>3. PICK id \in Ids : id = current.id
  BY Zenon, <1>2, BatchTypes DEF IInv
<1>4. Step(id) /\ LedgeredAt(id) /\ IsolatedAt(id)
  BY Zenon, <1>2, <1>3 DEF IInv, Handled, Ledgered, Isolated
<1>5. /\ id \in DOMAIN ledger /\ Kind[id] \in Objects
      /\ PublishedUnder(ledger[id].objects)
  BY Zenon, <1>1, <1>4 DEF Step, Conversion
<1> DEFINE r == [ledger[id] EXCEPT !.state = "Published"]
<1>6. ledger[id] \in Record
  BY Zenon, <1>2, <1>5 DEF TableTypes
<1>7. /\ r \in Record /\ r.state = "Published" /\ r.objects = ledger[id].objects
      /\ r.owes = ledger[id].owes /\ r.forwarded = ledger[id].forwarded
  BY Zenon, <1>6 DEF Record
<1>8. ledger' = [ledger EXCEPT ![id] = r]
  BY Zenon, <1>1, <1>3
<1> HIDE DEF r
<1>9. UNCHANGED <<forwards, quarantine, inbox>>
  BY Zenon, <1>1 DEF mailer, directory
<1>10. ASSUME ledger'[id] = r PROVE LedgeredAt(id)' /\ IsolatedAt(id)' /\ Step(id)'
  <2>1. id \in DOMAIN ledger' /\ PublishedUnder(ledger[id].objects)'
    BY ZenonT(40), <1>5, <1>7, <1>8, <1>9, <1>10 DEF PublishedUnder
  <2>2. LedgeredAt(id)'
    BY ZenonT(40), <1>4, <1>5, <1>7, <1>9, <1>10, <2>1 DEF LedgeredAt, Objects, Orphans
  <2>3. IsolatedAt(id)'
    BY Zenon, <1>4, <1>5, <1>9 DEF IsolatedAt, Objects, Orphans
  <2>4. CASE Owed(id)
    <3>1. Kind[id] = "Distribute" /\ pc' = "Forward"
      BY ZenonT(40), <1>1, <1>3, <1>4, <1>5, <2>4 DEF Owed, LedgeredAt
    <3> QED
      BY Zenon, <1>7, <1>10, <2>1, <2>2, <2>3, <3>1 DEF Step, Conversion, Orphaned, Continued, Known
  <2>5. CASE ~ Owed(id)
    <3>1. pc' = "Acknowledge" /\ (Kind[id] = "Distribute" => id \in DOMAIN forwards')
      BY Zenon, <1>1, <1>3, <1>4, <1>5, <1>9, <2>5 DEF Owed, LedgeredAt
    <3>2. Discharged(id)' /\ Cleaned(id)'
      BY Zenon, <1>5, <1>7, <1>10, <2>1, <3>1, EraseTypes DEF Discharged, Cleaned, Objects
    <3>3. Settled(id)'
      BY Zenon, <1>7, <1>10, <2>1, <3>2 DEF Settled
    <3> QED
      BY Zenon, <2>2, <2>3, <3>1, <3>3 DEF Step, Conversion, Orphaned, Continued
  <2> QED
    BY Zenon, <2>4, <2>5
<1>11. erased \ {id} \subseteq erased' /\ erased' \subseteq Ids /\ pc' \in Steps /\ pc # "Finish"
  BY Zenon, <1>1, <1>2 DEF TableTypes, Steps
<1> QED
  BY Zenon, <1>1, <1>2, <1>3, <1>5, <1>7, <1>8, <1>10, <1>11, RewriteStep

(* The notice is published and marked so: the orphan is retired. *)
LEMMA RetireKeeps ==
    ASSUME IInv, Retire
    PROVE  IInv'
<1>1. /\ pc = "Retire" /\ ledger' = [ledger EXCEPT ![current.id].state = "Retired"]
      /\ pc' = "Acknowledge"
      /\ UNCHANGED <<mailer, quarantine, counter, directory, erased, batch, out>>
  BY Zenon DEF Retire, Goto
<1>2. batch # <<>> /\ TableTypes
  BY Zenon, <1>1, Typing DEF IInv, HandTypes
<1>3. PICK id \in Ids : id = current.id
  BY Zenon, <1>2, BatchTypes DEF IInv
<1>4. Step(id) /\ LedgeredAt(id) /\ IsolatedAt(id)
  BY Zenon, <1>2, <1>3 DEF IInv, Handled, Ledgered, Isolated
<1>5. /\ id \in DOMAIN ledger /\ Kind[id] = "Notice" /\ id \in DOMAIN quarantine
      /\ quarantine[id].published /\ quarantine[id].notice \in DOMAIN inbox
  BY Zenon, <1>1, <1>4 DEF Step, Orphaned, IsolatedAt
<1> DEFINE r == [ledger[id] EXCEPT !.state = "Retired"]
<1>6. ledger[id] \in Record
  BY Zenon, <1>2, <1>5 DEF TableTypes
<1>7. /\ r \in Record /\ r.state = "Retired"
      /\ r.owes = ledger[id].owes /\ r.forwarded = ledger[id].forwarded
  BY Zenon, <1>6 DEF Record
<1>8. ledger' = [ledger EXCEPT ![id] = r]
  BY Zenon, <1>1, <1>3
<1> HIDE DEF r
<1>9. UNCHANGED <<forwards, quarantine, inbox>>
  BY Zenon, <1>1 DEF mailer, directory
<1>10. ASSUME ledger'[id] = r PROVE LedgeredAt(id)' /\ IsolatedAt(id)' /\ Step(id)'
  <2>1. Discharged(id)' /\ Cleaned(id)'
    BY Zenon, <1>5, <1>9, EraseTypes DEF Discharged, Cleaned
  <2>2. Settled(id)'
    BY ZenonT(40), <1>5, <1>7, <1>8, <1>10, <2>1 DEF Settled
  <2>3. LedgeredAt(id)'
    BY Zenon, <1>4, <1>5, <1>7, <1>9, <1>10, <2>2 DEF LedgeredAt, Orphans
  <2>4. IsolatedAt(id)'
    BY Zenon, <1>4, <1>5, <1>8, <1>9 DEF IsolatedAt, Orphans, PendingNotice
  <2> QED
    BY Zenon, <1>1, <2>2, <2>3, <2>4 DEF Step, Conversion, Orphaned, Continued
<1>11. erased \ {id} \subseteq erased' /\ erased' \subseteq Ids /\ pc' \in Steps /\ pc # "Finish"
  BY Zenon, <1>1, <1>2 DEF TableTypes, Steps
<1> QED
  BY Zenon, <1>1, <1>2, <1>3, <1>5, <1>7, <1>8, <1>10, <1>11, RewriteStep

(* The Forward Job is on record. *)
LEMMA RecordForwardKeeps ==
    ASSUME IInv, RecordForward
    PROVE  IInv'
<1>1. /\ pc = "RecordForward" /\ ledger' = [ledger EXCEPT ![current.id].forwarded = TRUE]
      /\ pc' = "Acknowledge"
      /\ UNCHANGED <<mailer, quarantine, counter, directory, erased, batch, out>>
  BY Zenon DEF RecordForward, Goto
<1>2. batch # <<>> /\ TableTypes
  BY Zenon, <1>1, Typing DEF IInv, HandTypes
<1>3. PICK id \in Ids : id = current.id
  BY Zenon, <1>2, BatchTypes DEF IInv
<1>4. Step(id) /\ LedgeredAt(id) /\ IsolatedAt(id)
  BY Zenon, <1>2, <1>3 DEF IInv, Handled, Ledgered, Isolated
<1>5. /\ id \in DOMAIN ledger /\ ledger[id].state = "Published" /\ Kind[id] = "Distribute"
      /\ id \in DOMAIN forwards
  BY Zenon, <1>1, <1>4 DEF Step, Continued, Known
<1>6. ledger[id] \in Record /\ PublishedUnder(ledger[id].objects)
  BY Zenon, <1>2, <1>4, <1>5 DEF TableTypes, LedgeredAt
<1> DEFINE r == [ledger[id] EXCEPT !.forwarded = TRUE]
<1>7. /\ r \in Record /\ r.state = "Published" /\ r.objects = ledger[id].objects
      /\ r.owes = ledger[id].owes
  BY ZenonT(40), <1>5, <1>6 DEF Record
<1>8. ledger' = [ledger EXCEPT ![id] = r]
  BY Zenon, <1>1, <1>3
<1> HIDE DEF r
<1>9. UNCHANGED <<forwards, quarantine, inbox>>
  BY Zenon, <1>1 DEF mailer, directory
<1>10. ASSUME ledger'[id] = r PROVE LedgeredAt(id)' /\ IsolatedAt(id)' /\ Step(id)'
  <2>1. id \in DOMAIN ledger' /\ PublishedUnder(ledger[id].objects)'
    BY Zenon, <1>5, <1>6, <1>7, <1>8, <1>9, <1>10 DEF PublishedUnder
  <2>2. Discharged(id)' /\ Cleaned(id)'
    BY Zenon, <1>5, <1>7, <1>9, <1>10, <2>1, EraseTypes DEF Discharged, Cleaned
  <2>3. Settled(id)'
    BY Zenon, <1>7, <1>10, <2>1, <2>2 DEF Settled
  <2>4. LedgeredAt(id)'
    BY ZenonT(40), <1>4, <1>5, <1>7, <1>9, <1>10, <2>1 DEF LedgeredAt, Objects, Orphans
  <2>5. IsolatedAt(id)'
    BY Zenon, <1>4, <1>5, <1>9 DEF IsolatedAt, Orphans
  <2> QED
    BY Zenon, <1>1, <2>3, <2>4, <2>5 DEF Step, Conversion, Orphaned, Continued
<1>11. erased \ {id} \subseteq erased' /\ erased' \subseteq Ids /\ pc' \in Steps /\ pc # "Finish"
  BY Zenon, <1>1, <1>2 DEF TableTypes, Steps
<1> QED
  BY Zenon, <1>1, <1>2, <1>3, <1>5, <1>7, <1>8, <1>10, <1>11, RewriteStep

(* The removal of a file is put on record before the reply is submitted, taken
   off it when the reply is refused and when the file is gone. *)
LEMMA CleanupKeeps ==
    ASSUME IInv, Serve \/ NotSubmitted \/ Clear
    PROVE  IInv'
<1>1. PICK owed \in BOOLEAN :
         /\ ledger' = [ledger EXCEPT ![current.id].cleanup = owed]
         /\ UNCHANGED <<mailer, quarantine, counter, directory, batch, out>>
         /\ \/ /\ pc = "Serve" /\ pc' = "Submit" /\ owed = (current.id \in Erase)
               /\ erased' = erased \ {current.id}
            \/ pc = "Submit" /\ pc' = "Defer" /\ erased' = erased
            \/ pc = "Clear" /\ pc' = "Acknowledge" /\ erased' = erased
  <2>1. CASE Serve
    <3>1. (current.id \in Erase) \in BOOLEAN
      OBVIOUS
    <3> QED
      BY Zenon, <2>1, <3>1 DEF Serve, Goto
  <2>2. CASE NotSubmitted \/ Clear
    BY Zenon, <2>2, FALSE \in BOOLEAN DEF NotSubmitted, Clear, Goto
  <2> QED
    BY Zenon, <2>1, <2>2
<1>2. batch # <<>> /\ TableTypes
  BY Zenon, <1>1, Typing DEF IInv, HandTypes
<1>3. PICK id \in Ids : id = current.id
  BY Zenon, <1>2, BatchTypes DEF IInv
<1>4. Step(id) /\ LedgeredAt(id) /\ IsolatedAt(id)
  BY Zenon, <1>2, <1>3 DEF IInv, Handled, Ledgered, Isolated
<1>5. /\ id \in DOMAIN ledger /\ ledger[id].state = "Published" /\ Kind[id] = "Request"
      /\ pc = "Clear" => id \in replies /\ id \in erased
  BY Zenon, <1>1, <1>4 DEF Step, Continued, Known
<1>6. ledger[id] \in Record
  BY Zenon, <1>2, <1>5 DEF TableTypes
<1> DEFINE r == [ledger[id] EXCEPT !.cleanup = owed]
<1>7. /\ r \in Record /\ r.state = "Published" /\ r.owes = ledger[id].owes
      /\ r.forwarded = ledger[id].forwarded /\ r.cleanup = owed
  BY Zenon, <1>5, <1>6 DEF Record
<1>8. ledger' = [ledger EXCEPT ![id] = r]
  BY Zenon, <1>1, <1>3
<1> HIDE DEF r
<1>9. UNCHANGED <<forwards, replies, quarantine, inbox>>
  BY Zenon, <1>1 DEF mailer, directory
<1>10. ASSUME ledger'[id] = r PROVE LedgeredAt(id)' /\ IsolatedAt(id)' /\ Step(id)'
  <2>1. id \in DOMAIN ledger'
    BY ZenonT(40), <1>5, <1>8
  <2>2. LedgeredAt(id)'
    BY ZenonT(40), <1>4, <1>5, <1>7, <1>9, <1>10 DEF LedgeredAt, Orphans
  <2>3. IsolatedAt(id)'
    BY ZenonT(40), <1>4, <1>5, <1>9 DEF IsolatedAt, Orphans
  <2>4. CASE pc' = "Submit"
    <3>1. Known(id, "Published")' /\ (id \in Erase => ledger'[id].cleanup)
      BY Zenon, <1>1, <1>3, <1>7, <1>10, <2>1, <2>4 DEF Known
    <3> QED
      BY Zenon, <1>5, <2>2, <2>3, <2>4, <3>1 DEF Step, Conversion, Orphaned, Continued
  <2>5. CASE pc' = "Defer"
    BY Zenon, <2>2, <2>3, <2>5 DEF Step, Conversion, Orphaned, Continued
  <2>6. CASE pc = "Clear" /\ pc' = "Acknowledge" /\ erased' = erased
    <3>1. Discharged(id)' /\ Cleaned(id)'
      BY Zenon, <1>5, <1>9, <2>6 DEF Discharged, Cleaned
    <3>2. Settled(id)'
      BY Zenon, <1>7, <1>10, <2>1, <3>1 DEF Settled
    <3> QED
      BY Zenon, <2>2, <2>3, <2>6, <3>2 DEF Step, Conversion, Orphaned, Continued
  <2> QED
    BY Zenon, <1>1, <2>4, <2>5, <2>6
<1>11. erased \ {id} \subseteq erased' /\ erased' \subseteq Ids /\ pc' \in Steps /\ pc # "Finish"
  BY Zenon, <1>1, <1>2, <1>3 DEF TableTypes, Steps
<1> QED
  BY Zenon, <1>1, <1>2, <1>3, <1>5, <1>7, <1>8, <1>10, <1>11, RewriteStep

(* The mailer was told, and the ledger says so. *)
LEMMA FinishKeeps ==
    ASSUME IInv, Finish
    PROVE  IInv'
<1>1. /\ pc = "Finish" /\ ledger' = [ledger EXCEPT ![current.id].state = "Acknowledged"]
      /\ NextItem /\ UNCHANGED <<mailer, quarantine, counter, directory, erased>>
  BY Zenon DEF Finish
<1>2. batch # <<>> /\ TableTypes /\ FileTypes /\ MailTypes
  BY Zenon, <1>1, Typing DEF IInv, HandTypes
<1>3. PICK id \in Ids : id = current.id
  BY Zenon, <1>2, BatchTypes DEF IInv
<1>4. Settled(id) /\ LedgeredAt(id) /\ IsolatedAt(id)
  BY Zenon, <1>1, <1>2, <1>3 DEF IInv, Handled, Step, Continued, Ledgered, Isolated
<1>5. id \in DOMAIN ledger /\ ledger[id] \in Record
  BY Zenon, <1>2, <1>4 DEF Settled, TableTypes
<1> DEFINE r == [ledger[id] EXCEPT !.state = "Acknowledged"]
<1>6. /\ r \in Record /\ r.state = "Acknowledged" /\ r.owes = ledger[id].owes
      /\ r.forwarded = ledger[id].forwarded /\ r.cleanup = ledger[id].cleanup
      /\ r.objects = ledger[id].objects
  BY Zenon, <1>5 DEF Record
<1>7. ledger' = Put(ledger, id, r)
  <2>1. ledger' = [ledger EXCEPT ![id] = r]
    BY Zenon, <1>1, <1>3
  <2> HIDE DEF r
  <2> QED
    BY Zenon, <1>2, <1>5, <2>1, ExceptIsPut
<1> HIDE DEF r
<1>8. UNCHANGED <<mail, forwards, replies, quarantine, inbox, taken, erased, counter, staging>>
  BY Zenon, <1>1 DEF mailer, directory
<1>9. replies' \subseteq Ids /\ erased' \subseteq Ids
  BY Zenon, <1>2, <1>8 DEF TableTypes
<1>10. /\ TableTypes' /\ Grows
       /\ id \in DOMAIN ledger' /\ ledger'[id] = r
       /\ \A k \in Ids \ {id} : SameEntry(k)
       /\ CompanionsFirst'
  BY Zenon, <1>2, <1>6, <1>7, <1>8, <1>9, LedgerWritten DEF IInv
<1>11. Settled(id)'
  <2>1. Discharged(id)'
    BY ZenonT(40), <1>4, <1>6, <1>8, <1>10, DischargedStays DEF Settled
  <2>2. Cleaned(id)'
    BY ZenonT(40), <1>4, <1>6, <1>8, <1>10 DEF Settled, Cleaned
  <2> QED
    BY ZenonT(40), <1>6, <1>10, <2>1, <2>2 DEF Settled
<1>12. LedgeredAt(id)'
  BY ZenonT(40), <1>4, <1>5, <1>6, <1>8, <1>10, <1>11 DEF LedgeredAt
<1>13. IsolatedAt(id)'
  BY Zenon, <1>4, <1>6, <1>8, <1>10 DEF IsolatedAt
<1>14. Ledgered' /\ Isolated' /\ \A k \in Ids \ {id} : Settled(k) => Settled(k)'
  BY Zenon, <1>10, <1>12, <1>13, OthersStay
<1>15. Safe'
  BY Zenon, <1>8, <1>11, <1>14 DEF IInv, Safe
<1>16. MailTypes' /\ SameTokens /\ ConsumesCurrent /\ FileTypes'
  BY Zenon, <1>2, <1>8 DEF MailTypes, SameTokens, ConsumesCurrent, FileTypes
<1>17. HandTypes' /\ Handled' /\ Tokens' /\ Over'
  BY Zenon, <1>1, <1>2, <1>16, NextItemMoves
<1>18. TypeOK'
  BY Zenon, <1>10, <1>16, <1>17, TypingNext
<1> QED
  BY Zenon, <1>10, <1>14, <1>15, <1>17, <1>18 DEF IInv
-----------------------------------------------------------------------------
(***************************************************************************)
(* The quarantine, the directory, the mailer's Jobs and replies.           *)
(***************************************************************************)
(* The orphan is in quarantine, with its ledger entry, or was before. *)
LEMMA QuarantineKeeps ==
    ASSUME IInv, Quarantine
    PROVE  IInv'
<1>1. /\ pc = "Quarantine" /\ pc' = AfterQuarantine
      /\ UNCHANGED <<mailer, counter, directory, erased, batch, out>>
  BY Zenon DEF Quarantine, Goto
<1>2. batch # <<>> /\ TableTypes /\ FileTypes /\ out \in Outcome
  BY Zenon, <1>1, Typing DEF IInv, HandTypes
<1>3. PICK id \in Ids : id = current.id
  BY Zenon, <1>2, BatchTypes DEF IInv
<1>4. Step(id) /\ LedgeredAt(id) /\ IsolatedAt(id)
  BY Zenon, <1>2, <1>3 DEF IInv, Handled, Ledgered, Isolated
<1>5. /\ Fresh(id) /\ Kind[id] \in Orphans /\ (out.notice # NoName <=> Kind[id] = "Notice")
  BY Zenon, <1>1, <1>4 DEF Step, Orphaned
<1>6. UNCHANGED <<mail, forwards, replies, inbox, taken, erased, batch, counter, staging, out>>
  BY Zenon, <1>1 DEF mailer, directory
<1>7. pc' \in Steps /\ FileTypes' /\ out' \in Outcome /\ CompanionsFirst' /\ Grows
  <2>1. CompanionsFirst'
    BY Zenon, <1>6 DEF IInv, CompanionsFirst
  <2> QED
    BY Zenon, <1>1, <1>2, <1>6, <2>1 DEF AfterQuarantine, Steps, FileTypes, Grows
<1>8. CASE id \in DOMAIN quarantine
  <2>1. Same(id) /\ UNCHANGED <<quarantine, ledger>>
    BY ZenonT(40), <1>3, <1>8 DEF Quarantine
  <2>2. id \in DOMAIN ledger /\ ledger[id].state = "Staged" /\ Kind[id] = "Notice"
    BY Zenon, <1>4, <1>5, <1>8 DEF Fresh, IsolatedAt, LedgeredAt, Objects, Orphans
  <2>3. quarantine[id] \in OrphanRecord
    BY Zenon, <1>2, <1>8 DEF TableTypes
  <2>4. quarantine[id].notice = out.notice
    BY Zenon, <2>1, <2>3 DEF Same, Quarantined, OrphanRecord
  <2>5. pc' = "Notice"
    BY Zenon, <1>1, <1>5, <2>2 DEF AfterQuarantine
  <2>6. Step(id)'
    BY ZenonT(40), <1>6, <1>8, <2>1, <2>2, <2>4, <2>5 DEF Step, Conversion, Orphaned, Continued, Fresh, Orphans
  <2> QED
    BY ZenonT(40), <1>1, <1>2, <1>3, <1>6, <1>7, <2>1, <2>6, QuietStep
<1>9. CASE id \notin DOMAIN quarantine
  <2> DEFINE q == Quarantined
             r == Entry(IF out.notice = NoName THEN "Retired" ELSE "Staged", <<>>, FALSE)
  <2>1. quarantine' = Put(quarantine, id, q) /\ ledger' = Put(ledger, id, r)
    BY Zenon, <1>3, <1>9 DEF Quarantine
  <2>2. q \in OrphanRecord /\ q.notice = out.notice /\ q.published = FALSE
    BY Zenon, <1>2 DEF Quarantined, OrphanRecord, Outcome
  <2>3. /\ r \in Record /\ r.owes = FALSE /\ r.forwarded = FALSE
        /\ r.state = IF out.notice = NoName THEN "Retired" ELSE "Staged"
    <3>1. <<>> \in Seq(Names)
      OBVIOUS
    <3> QED
      BY Zenon, <3>1 DEF Entry, Record
  <2> HIDE DEF q, r
  <2>4. /\ DOMAIN quarantine' = DOMAIN quarantine \cup {id} /\ quarantine'[id] = q
        /\ \A k \in DOMAIN quarantine \ {id} : quarantine'[k] = quarantine[k]
        /\ quarantine' \in [DOMAIN quarantine' -> OrphanRecord]
    BY Zenon, <1>2, <2>1, <2>2 DEF Put, TableTypes
  <2>5. /\ DOMAIN ledger' = DOMAIN ledger \cup {id} /\ ledger'[id] = r
        /\ \A k \in DOMAIN ledger \ {id} : ledger'[k] = ledger[k]
        /\ ledger' \in [DOMAIN ledger' -> Record]
    BY Zenon, <1>2, <2>1, <2>3 DEF Put, TableTypes
  <2>6. TableTypes'
    BY Zenon, <1>2, <1>6, <2>4, <2>5 DEF TableTypes
  <2>7. \A k \in Ids \ {id} : SameEntry(k)
    BY ZenonT(40), <1>6, <2>4, <2>5 DEF SameEntry
  <2>8. Kind[id] = "Orphan" => Settled(id)'
    <3> SUFFICES ASSUME Kind[id] = "Orphan" PROVE Settled(id)'
      BY Zenon
    <3>1. Discharged(id)' /\ Cleaned(id)'
      BY Zenon, <2>4, EraseTypes DEF Discharged, Cleaned
    <3>2. ledger'[id].state # "Staged" /\ id \in DOMAIN ledger'
      BY Zenon, <1>5, <2>3, <2>5
    <3> QED
      BY Zenon, <3>1, <3>2 DEF Settled
  <2>9. /\ Kind[id] = "Notice" => r.state = "Staged"
        /\ Kind[id] = "Orphan" => r.state = "Retired"
    BY Zenon, <1>5, <2>3
  <2>10. LedgeredAt(id)'
    BY Zenon, <1>5, <2>3, <2>4, <2>5, <2>8, <2>9 DEF LedgeredAt, Orphans
  <2>11. IsolatedAt(id)'
    BY Zenon, <1>5, <2>2, <2>4, <2>5, <2>9 DEF IsolatedAt, Orphans, PendingNotice
  <2>12. Step(id)'
    <3>1. CASE Kind[id] = "Notice"
      BY ZenonT(40), <1>1, <1>5, <1>6, <2>2, <2>4, <2>5, <2>9, <3>1
         DEF Step, Conversion, Orphaned, Continued, Fresh, AfterQuarantine, Orphans
    <3>2. CASE Kind[id] = "Orphan"
      BY Zenon, <1>1, <1>5, <2>8, <3>2 DEF Step, Conversion, Orphaned, Continued, AfterQuarantine
    <3> QED
      BY ZenonT(40), <1>5, <3>1, <3>2 DEF Orphans
  <2> QED
    BY ZenonT(40), <1>1, <1>2, <1>3, <1>6, <1>7, <2>6, <2>7, <2>10, <2>11, <2>12, WorkStep
<1> QED
  BY Zenon, <1>8, <1>9

(* The notice is marked as published. *)
LEMMA MarkKeeps ==
    ASSUME IInv, Mark
    PROVE  IInv'
<1>1. /\ pc = "Mark" /\ quarantine' = [quarantine EXCEPT ![current.id].published = TRUE]
      /\ pc' = "Retire"
      /\ UNCHANGED <<mailer, ledger, counter, directory, erased, batch, out>>
  BY Zenon DEF Mark, Goto
<1>2. batch # <<>> /\ TableTypes /\ FileTypes /\ out \in Outcome
  BY Zenon, <1>1, Typing DEF IInv, HandTypes
<1>3. PICK id \in Ids : id = current.id
  BY Zenon, <1>2, BatchTypes DEF IInv
<1>4. Step(id) /\ LedgeredAt(id) /\ IsolatedAt(id)
  BY Zenon, <1>2, <1>3 DEF IInv, Handled, Ledgered, Isolated
<1>5. /\ Fresh(id) /\ id \in DOMAIN quarantine /\ quarantine[id].notice = out.notice
      /\ Kind[id] = "Notice" /\ out.notice \in DOMAIN inbox
      /\ id \in DOMAIN ledger /\ ledger[id].state = "Staged"
  BY Zenon, <1>1, <1>4 DEF Step, Orphaned, IsolatedAt, Fresh
<1>6. UNCHANGED <<mail, ledger, forwards, replies, inbox, taken, erased, batch, counter, staging, out>>
  BY Zenon, <1>1 DEF mailer, directory
<1>7. pc' \in Steps /\ FileTypes' /\ out' \in Outcome /\ CompanionsFirst' /\ Grows
  <2>1. CompanionsFirst'
    BY Zenon, <1>6 DEF IInv, CompanionsFirst
  <2> QED
    BY Zenon, <1>1, <1>2, <1>6, <2>1 DEF Steps, FileTypes, Grows
<1>8. quarantine[id] \in OrphanRecord
  BY Zenon, <1>2, <1>5 DEF TableTypes
<1>9. /\ DOMAIN quarantine' = DOMAIN quarantine /\ quarantine' \in [DOMAIN quarantine' -> OrphanRecord]
      /\ quarantine'[id].published = TRUE /\ quarantine'[id].notice = quarantine[id].notice
      /\ \A k \in DOMAIN quarantine \ {id} : quarantine'[k] = quarantine[k]
  BY Zenon, <1>1, <1>2, <1>3, <1>5, <1>8 DEF TableTypes, OrphanRecord
<1>10. TableTypes'
  BY Zenon, <1>2, <1>6, <1>9 DEF TableTypes
<1>11. \A k \in Ids \ {id} : SameEntry(k)
  BY Zenon, <1>6, <1>9 DEF SameEntry
<1>12. LedgeredAt(id)' /\ IsolatedAt(id)'
  BY Zenon, <1>4, <1>5, <1>6, <1>9 DEF LedgeredAt, IsolatedAt, Orphans
<1>13. Step(id)'
  BY Zenon, <1>1, <1>5, <1>6, <1>9 DEF Step, Conversion, Orphaned, Continued, Fresh, Orphans
<1> QED
  BY Zenon, <1>1, <1>2, <1>3, <1>6, <1>7, <1>10, <1>11, <1>12, <1>13, WorkStep

(* An object appears in the directory, after those it refers to. *)
LEMMA PublishKeeps ==
    ASSUME TableTypes, FileTypes, NEW name \in Names,
           NEW part \in [id : Ids, index : Nat, objects : Seq(Names)], Publish(name, part),
           UNCHANGED <<forwards, replies, ledger, quarantine, erased, counter>>,
           \A n \in 1 .. part.index - 1 : part.objects[n] \in DOMAIN inbox
    PROVE  /\ TableTypes' /\ FileTypes' /\ Grows
           /\ \A k \in Ids : SameEntry(k)
           /\ DOMAIN inbox' = DOMAIN inbox \cup {name}
           /\ CompanionsFirst => CompanionsFirst'
<1>1. inbox' = Put(inbox, name, part) /\ taken' = taken \ {name} /\ staging' = staging \ {name}
  BY Zenon DEF Publish
<1>2. /\ DOMAIN inbox' = DOMAIN inbox \cup {name} /\ inbox'[name] = part
      /\ \A m \in DOMAIN inbox \ {name} : inbox'[m] = inbox[m]
      /\ inbox' \in [DOMAIN inbox' -> [id : Ids, index : Nat, objects : Seq(Names)]]
  BY Zenon, <1>1 DEF Put, TableTypes
<1>3. TableTypes' /\ FileTypes'
  BY Zenon, <1>1, <1>2 DEF TableTypes, FileTypes
<1>4. Grows /\ \A k \in Ids : SameEntry(k)
  BY Zenon, <1>2 DEF Grows, SameEntry
<1>5. ASSUME CompanionsFirst PROVE CompanionsFirst'
  <2> SUFFICES ASSUME NEW m \in DOMAIN inbox', NEW n \in 1 .. inbox'[m].index - 1
               PROVE  inbox'[m].objects[n] \in DOMAIN inbox'
    BY Zenon DEF CompanionsFirst
  <2>1. CASE m = name
    BY Zenon, <1>2, <2>1
  <2>2. CASE m # name
    BY ZenonT(40), <1>2, <1>5, <2>2 DEF CompanionsFirst
  <2> QED
    BY Zenon, <2>1, <2>2
<1> QED
  BY ZenonT(40), <1>2, <1>3, <1>4, <1>5

(* The next object of a conversion is linked to its name. *)
LEMMA LinkKeeps ==
    ASSUME IInv, Link
    PROVE  IInv'
<1>1. /\ pc = "Link" /\ UNCHANGED <<mailer, tables, erased, batch>>
      /\ Publish(out.objects[out.next],
                 [id |-> current.id, index |-> out.next, objects |-> out.objects])
      /\ out' = [out EXCEPT !.next = @ + 1]
      /\ pc' = IF out.next = Len(out.objects) THEN "Advance" ELSE "Link"
  BY Zenon DEF Link, Order
<1>2. batch # <<>> /\ TableTypes /\ FileTypes /\ out \in Outcome
  BY Zenon, <1>1, Typing DEF IInv, HandTypes
<1>3. PICK id \in Ids : id = current.id
  BY Zenon, <1>2, BatchTypes DEF IInv
<1>4. Step(id) /\ LedgeredAt(id) /\ IsolatedAt(id)
  BY Zenon, <1>2, <1>3 DEF IInv, Handled, Ledgered, Isolated
<1>5. /\ Fresh(id) /\ Kind[id] \in Objects /\ id \in DOMAIN ledger /\ ledger[id].objects = out.objects
      /\ out.next \in 1 .. Len(out.objects) /\ Linked(out.next - 1)
  BY Zenon, <1>1, <1>4 DEF Step, Conversion
<1> DEFINE name == out.objects[out.next]
           part == [id |-> id, index |-> out.next, objects |-> out.objects]
<1>6. /\ out.objects \in Seq(Names) /\ out.next \in Nat
      /\ Len(out.objects) \in Nat /\ DOMAIN out.objects = 1 .. Len(out.objects)
  BY <1>2 DEF Outcome
<1>7. name \in Names
  BY <1>5, <1>6
<1>8. /\ part \in [id : Ids, index : Nat, objects : Seq(Names)] /\ Publish(name, part)
      /\ part.index = out.next /\ part.objects = out.objects
  BY Zenon, <1>1, <1>3, <1>6
<1> HIDE DEF name, part
<1>9. \A n \in 1 .. part.index - 1 : part.objects[n] \in DOMAIN inbox
  BY Zenon, <1>5, <1>8 DEF Linked
<1>10. UNCHANGED <<mail, forwards, replies, ledger, quarantine, erased, counter, batch>>
  BY ZenonT(40), <1>1 DEF mailer, tables
<1>11. /\ TableTypes' /\ FileTypes' /\ Grows
       /\ \A k \in Ids : SameEntry(k)
       /\ DOMAIN inbox' = DOMAIN inbox \cup {name}
       /\ CompanionsFirst'
  BY ZenonT(40), <1>2, <1>7, <1>8, <1>9, <1>10, PublishKeeps DEF IInv
<1>12. /\ out' \in Outcome /\ out'.objects = out.objects /\ out'.next = out.next + 1
  BY SMTT(60), <1>1, <1>2, <1>6 DEF Outcome
<1>13. LedgeredAt(id)' /\ IsolatedAt(id)'
  BY Zenon, <1>4, <1>11, EntryStays
<1>14. ASSUME NEW k \in 1 .. out.next PROVE out.objects[k] \in DOMAIN inbox'
  <2>1. k = out.next \/ k \in 1 .. out.next - 1
    BY <1>6
  <2> QED
    BY Zenon, <1>5, <1>11, <2>1 DEF Linked, name
<1>15. Step(id)'
  <2>1. Fresh(id)' /\ id \in DOMAIN ledger' /\ ledger'[id].objects = out'.objects
    BY Zenon, <1>5, <1>10, <1>12 DEF Fresh
  <2>2. CASE out.next = Len(out.objects)
    <3>1. PublishedUnder(out.objects)'
      BY Zenon, <1>6, <1>12, <1>14, <2>2 DEF PublishedUnder
    <3> QED
      BY Zenon, <1>1, <1>5, <2>1, <2>2, <3>1 DEF Step, Conversion, Orphaned, Continued
  <2>3. CASE out.next # Len(out.objects)
    <3>1. out'.next \in 1 .. Len(out'.objects) /\ out'.next - 1 = out.next
      BY <1>5, <1>6, <1>12, <2>3
    <3>2. Linked(out.next - 1)'
      BY Zenon, <1>12, <1>14, <3>1 DEF Linked
    <3> QED
      BY Zenon, <1>1, <1>5, <2>1, <2>3, <3>1, <3>2 DEF Step, Conversion, Orphaned, Continued
  <2> QED
    BY Zenon, <2>2, <2>3
<1>16. pc' \in Steps /\ pc # "Finish"
  BY ZenonT(40), <1>1 DEF Steps
<1> QED
  BY Zenon, <1>2, <1>3, <1>10, <1>11, <1>12, <1>13, <1>15, <1>16, WorkStep

(* The notice of an orphan is published, found published, or fails. *)
LEMMA NoticeKeeps ==
    ASSUME IInv, Notice
    PROVE  IInv'
<1> DEFINE mine == [id |-> current.id, index |-> 0, objects |-> <<>>]
           name == out.notice
<1>1. /\ pc = "Notice" /\ UNCHANGED <<mailer, tables, erased, batch, out>>
      /\ \/ Publish(name, mine) /\ pc' \in {"Mark", "Defer"}
         \/ /\ name \in DOMAIN inbox /\ pc' = "Mark"
            /\ staging' = staging \ {name} /\ UNCHANGED <<inbox, taken>>
         \/ staging' = staging \cup {name} /\ UNCHANGED <<inbox, taken>> /\ pc' = "Defer"
  BY ZenonT(40) DEF Notice, Goto, Present
<1>2. batch # <<>> /\ TableTypes /\ FileTypes /\ out \in Outcome
  BY Zenon, <1>1, Typing DEF IInv, HandTypes
<1>3. PICK id \in Ids : id = current.id
  BY Zenon, <1>2, BatchTypes DEF IInv
<1>4. Step(id) /\ LedgeredAt(id) /\ IsolatedAt(id)
  BY ZenonT(40), <1>2, <1>3 DEF IInv, Handled, Ledgered, Isolated
<1>5. /\ Fresh(id) /\ id \in DOMAIN quarantine /\ quarantine[id].notice = name
      /\ Kind[id] = "Notice" /\ name # NoName
  BY Zenon, <1>1, <1>4 DEF Step, Orphaned, IsolatedAt
<1>6. name \in Names
  BY ZenonT(40), <1>2, <1>5 DEF Outcome, Names
<1>7. UNCHANGED <<mail, forwards, replies, ledger, quarantine, erased, counter, batch, out>>
  BY Zenon, <1>1 DEF mailer, tables
<1>8. /\ TableTypes' /\ FileTypes' /\ Grows /\ (\A k \in Ids : SameEntry(k)) /\ CompanionsFirst'
      /\ pc' \in {"Mark", "Defer"} /\ (pc' = "Mark" => name \in DOMAIN inbox')
  <2>1. CASE Publish(name, mine) /\ pc' \in {"Mark", "Defer"}
    <3>1. <<>> \in Seq(Names)
      OBVIOUS
    <3>2. mine \in [id : Ids, index : Nat, objects : Seq(Names)] /\ mine.index = 0
      BY Zenon, <1>3, <3>1
    <3>3. \A n \in 1 .. mine.index - 1 : mine.objects[n] \in DOMAIN inbox
      BY <3>2
    <3> HIDE DEF mine, name
    <3> QED
      BY Zenon, <1>2, <1>6, <1>7, <2>1, <3>2, <3>3, PublishKeeps DEF IInv
  <2>2. CASE UNCHANGED <<inbox, taken>> /\ staging' \subseteq staging \cup {name}
             /\ (pc' = "Mark" => name \in DOMAIN inbox) /\ pc' \in {"Mark", "Defer"}
    <3>1. TableTypes' /\ FileTypes'
      BY ZenonT(40), <1>2, <1>6, <1>7, <2>2 DEF TableTypes, FileTypes
    <3>2. Grows /\ \A k \in Ids : SameEntry(k)
      BY Zenon, <1>7, <2>2 DEF Grows, SameEntry
    <3>3. CompanionsFirst'
      BY ZenonT(40), <2>2 DEF IInv, CompanionsFirst
    <3> QED
      BY Zenon, <2>2, <3>1, <3>2, <3>3
  <2> HIDE DEF mine, name
  <2> QED
    BY ZenonT(40), <1>1, <2>1, <2>2
<1>9. LedgeredAt(id)' /\ IsolatedAt(id)'
  BY ZenonT(40), <1>4, <1>8, EntryStays
<1>10. Step(id)'
  BY ZenonT(40), <1>5, <1>7, <1>8 DEF Step, Conversion, Orphaned, Continued, Fresh, Orphans
<1>11. pc' \in Steps /\ out' \in Outcome /\ pc # "Finish"
  BY ZenonT(40), <1>1, <1>2, <1>7, <1>8 DEF Steps
<1> QED
  BY ZenonT(40), <1>2, <1>3, <1>7, <1>8, <1>9, <1>10, <1>11, WorkStep

(* The objects are staged in private files. *)
LEMMA WriteKeeps ==
    ASSUME IInv, Write
    PROVE  IInv'
<1>1. /\ pc = "Write" /\ pc' = "Link" /\ UNCHANGED <<mailer, tables, inbox, taken, erased, batch, out>>
      /\ staging' = staging \cup {out.objects[n] : n \in DOMAIN out.objects}
  BY Zenon DEF Write, Goto
<1>2. batch # <<>> /\ TableTypes /\ FileTypes /\ out \in Outcome
  BY Zenon, <1>1, Typing DEF IInv, HandTypes
<1>3. PICK id \in Ids : id = current.id
  BY Zenon, <1>2, BatchTypes DEF IInv
<1>4. Step(id)
  BY ZenonT(40), <1>2, <1>3 DEF IInv, Handled
<1>5. /\ Fresh(id) /\ Kind[id] \in Objects /\ id \in DOMAIN ledger /\ ledger[id].objects = out.objects
      /\ out.next = 1 /\ out.objects # <<>>
  BY Zenon, <1>1, <1>4 DEF Step, Conversion
<1>6. UNCHANGED <<mail, forwards, replies, ledger, quarantine, inbox, taken, erased, counter, batch, out>>
  BY Zenon, <1>1 DEF mailer, tables
<1>7. out.objects \in Seq(Names)
  BY Zenon, <1>2 DEF Outcome
<1>8. FileTypes' /\ pc' \in Steps /\ out' \in Outcome
  <2>1. \A n \in DOMAIN out.objects : out.objects[n] \in Names
    BY <1>7
  <2> QED
    BY Zenon, <1>1, <1>2, <1>6, <2>1 DEF FileTypes, Steps
<1>9. Step(id)'
  <2>1. Len(out.objects) \in Nat /\ Len(out.objects) >= 1
    BY <1>5, <1>7
  <2>2. out.next \in 1 .. Len(out.objects) /\ Linked(out.next - 1)
    <3>1. out.next - 1 = 0
      BY <1>5
    <3>2. \A n \in 1 .. 0 : FALSE
      OBVIOUS
    <3>3. Linked(out.next - 1)
      BY Zenon, <3>1, <3>2 DEF Linked
    <3> QED
      BY <1>5, <2>1, <3>3
  <2>3. Fresh(id)' /\ Linked(out.next - 1)'
    BY Zenon, <1>5, <1>6, <2>2 DEF Fresh, Linked
  <2> QED
    BY ZenonT(40), <1>1, <1>5, <1>6, <2>2, <2>3 DEF Step, Conversion, Orphaned, Continued
<1> QED
  BY Zenon, <1>1, <1>2, <1>3, <1>6, <1>8, <1>9, QuietStep

(* The Forward Job is committed, or was before with this token. *)
LEMMA ForwardKeeps ==
    ASSUME IInv, Forward
    PROVE  IInv'
<1>1. /\ pc = "Forward" /\ pc' = "RecordForward"
      /\ forwards' = Put(forwards, current.id, current.token)
      /\ UNCHANGED <<mail, replies, tables, directory, erased, batch, out>>
  BY Zenon DEF Forward, Goto
<1>2. batch # <<>> /\ TableTypes /\ FileTypes /\ out \in Outcome
  BY Zenon, <1>1, Typing DEF IInv, HandTypes
<1>3. current.token \in Nat /\ current.id \in Ids
  BY Zenon, <1>2, BatchTypes DEF IInv
<1>4. PICK id \in Ids : id = current.id
  BY Zenon, <1>3
<1>5. Step(id) /\ LedgeredAt(id) /\ IsolatedAt(id)
  BY ZenonT(40), <1>2, <1>4 DEF IInv, Handled, Ledgered, Isolated
<1>6. Known(id, "Published") /\ Kind[id] = "Distribute"
  BY Zenon, <1>1, <1>5 DEF Step, Continued
<1>7. UNCHANGED <<mail, replies, ledger, quarantine, inbox, taken, erased, counter, staging, batch, out>>
  BY Zenon, <1>1 DEF tables, directory
<1>8. /\ forwards' \in [DOMAIN forwards' -> Nat]
      /\ DOMAIN forwards' = DOMAIN forwards \cup {id}
  BY Zenon, <1>1, <1>2, <1>3, <1>4 DEF Put, TableTypes
<1>9. TableTypes' /\ FileTypes'
  BY Zenon, <1>2, <1>7, <1>8 DEF TableTypes, FileTypes
<1>10. Grows /\ \A k \in Ids : SameEntry(k)
  BY Zenon, <1>7, <1>8 DEF Grows, SameEntry
<1>11. LedgeredAt(id)' /\ IsolatedAt(id)'
  BY Zenon, <1>5, <1>10, EntryStays
<1>12. CompanionsFirst'
  BY ZenonT(40), <1>7 DEF IInv, CompanionsFirst
<1>13. Step(id)'
  BY Zenon, <1>1, <1>6, <1>7, <1>8 DEF Step, Conversion, Orphaned, Continued, Known
<1>14. pc' \in Steps /\ out' \in Outcome /\ pc # "Finish"
  BY Zenon, <1>1, <1>2 DEF Steps
<1> QED
  BY Zenon, <1>2, <1>4, <1>7, <1>9, <1>10, <1>11, <1>12, <1>13, <1>14, WorkStep

(* The reply is committed, or the file is erased. *)
LEMMA ServedKeeps ==
    ASSUME IInv, Submit \/ RemoveFile
    PROVE  IInv'
<1>1. /\ UNCHANGED <<mail, forwards, tables, directory, batch, out>>
      /\ \/ /\ pc = "Submit" /\ replies' = replies \cup {current.id} /\ erased' = erased
            /\ pc' = IF current.id \in Erase THEN "Remove" ELSE "Acknowledge"
         \/ /\ pc = "Remove" /\ erased' = erased \cup {current.id} /\ replies' = replies
            /\ pc' = "Clear"
  BY Zenon DEF Submit, RemoveFile, Goto, mailer
<1>2. batch # <<>> /\ TableTypes /\ FileTypes /\ out \in Outcome
  BY Zenon, <1>1, Typing DEF IInv, HandTypes
<1>3. PICK id \in Ids : id = current.id
  BY Zenon, <1>2, BatchTypes DEF IInv
<1>4. Step(id) /\ LedgeredAt(id) /\ IsolatedAt(id)
  BY ZenonT(40), <1>2, <1>3 DEF IInv, Handled, Ledgered, Isolated
<1>5. /\ Known(id, "Published") /\ Kind[id] = "Request" /\ (id \in Erase => ledger[id].cleanup)
      /\ pc = "Remove" => id \in replies
  BY Zenon, <1>1, <1>4 DEF Step, Continued
<1>6. UNCHANGED <<mail, forwards, ledger, quarantine, inbox, taken, counter, staging, batch, out>>
  BY Zenon, <1>1 DEF tables, directory
<1>7. TableTypes' /\ FileTypes'
  BY ZenonT(40), <1>1, <1>2, <1>3, <1>6 DEF TableTypes, FileTypes
<1>8. Grows /\ \A k \in Ids : SameEntry(k)
  BY Zenon, <1>1, <1>6 DEF Grows, SameEntry
<1>9. LedgeredAt(id)' /\ IsolatedAt(id)'
  BY Zenon, <1>4, <1>8, EntryStays
<1>10. CompanionsFirst'
  BY Zenon, <1>6 DEF IInv, CompanionsFirst
<1>11. Step(id)'
  <2>1. Known(id, "Published")' /\ (id \in Erase => ledger'[id].cleanup)
    BY ZenonT(40), <1>5, <1>6 DEF Known
  <2>2. CASE pc' = "Acknowledge"
    <3>1. pc = "Submit" /\ id \in replies' /\ id \notin Erase
      BY Zenon, <1>1, <1>3, <2>2
    <3>2. Discharged(id)' /\ Cleaned(id)'
      BY Zenon, <1>5, <3>1 DEF Discharged, Cleaned
    <3>3. Settled(id)'
      BY ZenonT(40), <2>1, <3>2 DEF Settled, Known
    <3> QED
      BY Zenon, <2>2, <3>3 DEF Step, Conversion, Orphaned, Continued
  <2>3. CASE pc' \in {"Remove", "Clear"}
    <3>1. id \in replies' /\ (pc' = "Clear" => id \in erased')
      BY Zenon, <1>1, <1>3, <1>5, <2>3
    <3> QED
      BY ZenonT(40), <1>5, <2>1, <2>3, <3>1 DEF Step, Conversion, Orphaned, Continued
  <2> QED
    BY Zenon, <1>1, <2>2, <2>3
<1>12. pc' \in Steps /\ out' \in Outcome /\ pc # "Finish"
  BY Zenon, <1>1, <1>2 DEF Steps
<1> QED
  BY Zenon, <1>2, <1>3, <1>6, <1>7, <1>8, <1>9, <1>10, <1>11, <1>12, WorkStep
-----------------------------------------------------------------------------
(***************************************************************************)
(* The acknowledgement, the process and the tosser.                        *)
(***************************************************************************)
(* The mailer lets go of the item, if the token is still current. *)
LEMMA AcknowledgeKeeps ==
    ASSUME IInv, Acknowledge
    PROVE  IInv'
<1>1. /\ pc = "Acknowledge" /\ pc' = "Finish" /\ Resolve(current, "Consumed")
      /\ UNCHANGED <<forwards, replies, tables, directory, erased, batch, out>>
  BY Zenon DEF Acknowledge, Goto
<1>2. batch # <<>> /\ TableTypes /\ FileTypes /\ MailTypes /\ HandTypes
  BY Zenon, <1>1, Typing DEF IInv, HandTypes
<1>3. PICK id \in Ids : id = current.id
  BY Zenon, <1>2, BatchTypes DEF IInv
<1>4. Settled(id)
  BY Zenon, <1>1, <1>2, <1>3 DEF IInv, Handled, Step, Continued
<1>5. UNCHANGED <<forwards, replies, ledger, quarantine, inbox, taken, erased, counter, staging, batch, out>>
  BY Zenon, <1>1 DEF tables, directory
<1>6. MailTypes' /\ SameTokens /\ ConsumesCurrent
  <2>1. "Consumed" \in MailStates
    BY Zenon DEF MailStates
  <2> QED
    BY Zenon, <1>1, <1>2, <2>1, ResolveMail DEF IInv
<1>7. Ledgered' /\ Isolated' /\ CompanionsFirst' /\ \A k \in Ids : Settled(k) => Settled(k)'
  BY Zenon, <1>5, TablesStay
<1>8. Safe'
  <2> SUFFICES ASSUME NEW k \in Ids, mail'[k].state = "Consumed" PROVE Settled(k)
    BY Zenon, <1>7 DEF Safe
  <2>1. mail[k].state = "Consumed" \/ k = id
    BY Zenon, <1>3, <1>6 DEF ConsumesCurrent
  <2> QED
    BY Zenon, <1>4, <2>1 DEF IInv, Safe
<1>9. TypeOK'
  <2>1. TableTypes' /\ FileTypes'
    BY Zenon, <1>2, <1>5 DEF TableTypes, FileTypes
  <2>2. HandTypes'
    BY Zenon, <1>1, <1>2, <1>5 DEF HandTypes, Steps
  <2> QED
    BY Zenon, <1>6, <2>1, <2>2, TypingNext
<1>10. Handled'
  <2>1. Step(id)'
    BY Zenon, <1>1, <1>4, <1>7 DEF Step, Conversion, Orphaned, Continued
  <2> QED
    BY ZenonT(40), <1>3, <1>5, <2>1, HandledStays
<1>11. ASSUME NEW i \in DOMAIN batch
       PROVE  /\ batch[i].id \in Ids /\ batch[i].token \in Nat /\ mail[batch[i].id].token \in Nat
              /\ i \in Nat /\ i >= 1
  <2>1. batch[i] \in Claim /\ i \in Nat /\ i >= 1
    BY <1>2 DEF HandTypes
  <2> QED
    BY Zenon, <1>2, <2>1 DEF Claim, MailTypes
<1>12. Tokens'
  BY ZenonT(40), <1>5, <1>6, <1>11 DEF IInv, Tokens, SameTokens
<1>13. Over'
  <2> SUFFICES ASSUME NEW i \in DOMAIN batch, mail'[batch[i].id].state = "Consumed", i # 1
               PROVE  FALSE
    BY Zenon, <1>1, <1>5 DEF Over
  <2>1. mail[batch[i].id].state # "Consumed"
    BY ZenonT(40), <1>1 DEF IInv, Over
  <2>2. current = batch[1] /\ 1 \in DOMAIN batch
    BY Zenon, <1>2, BatchTypes DEF IInv
  <2>3. batch[1].id = batch[i].id /\ batch[1].token = mail[batch[i].id].token
    BY Zenon, <1>6, <1>11, <2>1, <2>2 DEF ConsumesCurrent
  <2>4. batch[1].token < batch[i].token /\ batch[i].token <= mail[batch[i].id].token
    BY <1>11, <2>2, <2>3 DEF IInv, Tokens
  <2> QED
    BY <1>11, <2>2, <2>3, <2>4
<1> QED
  BY Zenon, <1>7, <1>8, <1>9, <1>10, <1>12, <1>13 DEF IInv

(* The process starts, has recovered, or is killed; the tosser takes a file. *)
LEMMA ProcessKeeps ==
    ASSUME IInv, Start \/ Recovered \/ Crash \/ \E name \in DOMAIN inbox : Toss(name)
    PROVE  IInv'
<1>1. /\ UNCHANGED <<mail, forwards, replies, ledger, quarantine, counter, inbox, erased>>
      /\ taken' = taken \/ \E name \in DOMAIN inbox : taken' = taken \cup {name}
      /\ staging' = staging \/ staging' = {}
      /\ \/ UNCHANGED <<pc, batch, out>>
         \/ pc' \in {"Recover", "Batch"} /\ pc \in {"Down", "Recover"} /\ UNCHANGED <<batch, out>>
         \/ pc' = "Down" /\ batch' = <<>> /\ out' = Nothing
  BY Zenon DEF Start, Recovered, Crash, Toss, Goto, mailer, tables, directory
<1>2. TableTypes /\ FileTypes /\ MailTypes /\ HandTypes
  BY Zenon, Typing DEF IInv
<1>3. Ledgered' /\ Isolated' /\ CompanionsFirst' /\ \A k \in Ids : Settled(k) => Settled(k)'
  BY ZenonT(40), <1>1, TablesStay
<1>4. Safe'
  BY Zenon, <1>1, <1>3 DEF IInv, Safe
<1>5. HandTypes'
  <2>1. Nothing \in Outcome /\ <<>> \in Seq(Claim)
    BY DEF Nothing, Outcome, NoName
  <2> QED
    BY Zenon, <1>1, <1>2, <2>1 DEF HandTypes, Steps
<1>6. TypeOK'
  <2>1. TableTypes'
    BY Zenon, <1>1, <1>2 DEF TableTypes
  <2>2. FileTypes' /\ MailTypes'
    BY Zenon, <1>1, <1>2 DEF FileTypes, MailTypes
  <2> QED
    BY Zenon, <1>5, <2>1, <2>2, TypingNext
<1>7. Handled'
  <2>1. CASE pc' \in {"Recover", "Batch", "Down"}
    BY ZenonT(40), <2>1 DEF Handled, Step, Conversion, Orphaned, Continued
  <2>2. CASE UNCHANGED <<pc, batch, out>>
    <3> SUFFICES ASSUME NEW k \in Ids, batch # <<>>, current.id = k PROVE Step(k)'
      BY Zenon, <2>2 DEF Handled, current
    <3>1. Step(k)
      BY Zenon DEF IInv, Handled
    <3>2. Settled(k) => Settled(k)'
      BY Zenon, <1>3
    <3> QED
      BY ZenonT(40), <1>1, <2>2, <3>1, <3>2
         DEF Step, Conversion, Orphaned, Continued, Fresh, Linked, PublishedUnder, Known
  <2> QED
    BY ZenonT(40), <1>1, <2>1, <2>2
<1>8. Tokens' /\ Over'
  <2>1. CASE batch' = batch /\ (pc = "Finish" => pc' = "Finish")
    BY Zenon, <1>1, <2>1 DEF IInv, Tokens, Over
  <2>2. CASE batch' = <<>>
    BY <2>2 DEF Tokens, Over
  <2> QED
    BY Zenon, <1>1, <2>1, <2>2
<1> QED
  BY Zenon, <1>3, <1>4, <1>6, <1>7, <1>8 DEF IInv

(* Recovery discharges the removals that are on record. *)
LEMMA RecoverKeeps ==
    ASSUME IInv, NEW id \in Ids, RecoverRemove(id) \/ RecoverClear(id)
    PROVE  IInv'
<1>1. /\ pc = "Recover" /\ id \in DOMAIN ledger
      /\ UNCHANGED <<mail, forwards, replies, quarantine, counter, inbox, taken, staging, pc, batch, out>>
      /\ \/ erased' = erased \cup {id} /\ ledger' = ledger
         \/ id \in erased /\ erased' = erased /\ ledger' = [ledger EXCEPT ![id].cleanup = FALSE]
  BY Zenon DEF RecoverRemove, RecoverClear, Owing, mailer, tables, directory
<1>2. TableTypes /\ FileTypes /\ MailTypes /\ HandTypes
  BY Zenon, Typing DEF IInv
<1>3. ledger[id] \in Record /\ LedgeredAt(id) /\ IsolatedAt(id)
  BY Zenon, <1>1, <1>2 DEF TableTypes, IInv, Ledgered, Isolated
<1>4. /\ DOMAIN ledger' = DOMAIN ledger /\ ledger' \in [DOMAIN ledger' -> Record]
      /\ \A k \in DOMAIN ledger \ {id} : ledger'[k] = ledger[k]
      /\ ledger'[id].state = ledger[id].state /\ ledger'[id].objects = ledger[id].objects
      /\ ledger'[id].owes = ledger[id].owes /\ ledger'[id].forwarded = ledger[id].forwarded
      /\ id \in erased'
  <2>1. CASE erased' = erased \cup {id} /\ ledger' = ledger
    BY Zenon, <1>2, <2>1 DEF TableTypes
  <2>2. CASE id \in erased /\ erased' = erased /\ ledger' = [ledger EXCEPT ![id].cleanup = FALSE]
    <3> DEFINE r == [ledger[id] EXCEPT !.cleanup = FALSE]
    <3>1. /\ r \in Record /\ r.state = ledger[id].state /\ r.objects = ledger[id].objects
          /\ r.owes = ledger[id].owes /\ r.forwarded = ledger[id].forwarded
      BY Zenon, <1>3 DEF Record
    <3>2. ledger' = [ledger EXCEPT ![id] = r]
      BY Zenon, <2>2
    <3> HIDE DEF r
    <3> QED
      BY Zenon, <1>1, <1>2, <2>2, <3>1, <3>2 DEF TableTypes
  <2> QED
    BY Zenon, <1>1, <2>1, <2>2
<1>5. Grows /\ \A k \in Ids \ {id} : SameEntry(k)
  BY Zenon, <1>1, <1>4 DEF Grows, SameEntry
<1>6. Settled(id) => Settled(id)'
  <2>1. Discharged(id) => Discharged(id)'
    BY Zenon, <1>1, <1>4, <1>5, DischargedStays
  <2>2. Cleaned(id)'
    BY Zenon, <1>4 DEF Cleaned
  <2> QED
    BY Zenon, <1>4, <2>1, <2>2 DEF Settled
<1>7. LedgeredAt(id)'
  <2>1. PublishedUnder(ledger[id].objects) => PublishedUnder(ledger[id].objects)'
    BY Zenon, <1>1, <1>4 DEF PublishedUnder
  <2> QED
    BY Zenon, <1>1, <1>3, <1>4, <1>6, <2>1 DEF LedgeredAt
<1>8. IsolatedAt(id)'
  BY Zenon, <1>1, <1>3, <1>4 DEF IsolatedAt, PendingNotice
<1>9. Ledgered' /\ Isolated' /\ \A k \in Ids : Settled(k) => Settled(k)'
  BY Zenon, <1>5, <1>6, <1>7, <1>8, OthersStay
<1>10. Safe'
  BY Zenon, <1>1, <1>9 DEF IInv, Safe
<1>11. TypeOK'
  <2>1. TableTypes'
    BY Zenon, <1>1, <1>2, <1>4 DEF TableTypes
  <2>2. FileTypes' /\ MailTypes' /\ HandTypes'
    BY Zenon, <1>1, <1>2 DEF FileTypes, MailTypes, HandTypes
  <2> QED
    BY Zenon, <2>1, <2>2, TypingNext
<1>12. Handled'
  BY Zenon, <1>1 DEF Handled, Step, Conversion, Orphaned, Continued
<1>13. Tokens' /\ Over' /\ CompanionsFirst'
  <2>1. Tokens'
    BY Zenon, <1>1 DEF IInv, Tokens
  <2>2. Over'
    BY Zenon, <1>1 DEF IInv, Over
  <2>3. CompanionsFirst'
    BY Zenon, <1>1 DEF IInv, CompanionsFirst
  <2> QED
    BY Zenon, <2>1, <2>2, <2>3
<1> QED
  BY Zenon, <1>9, <1>10, <1>11, <1>12, <1>13 DEF IInv
-----------------------------------------------------------------------------
(***************************************************************************)
(* The invariant and what follows from it.                                 *)
(***************************************************************************)
(* A step that changes nothing keeps the invariant. *)
LEMMA StutterKeeps ==
    ASSUME IInv, UNCHANGED vars
    PROVE  IInv'
<1>1. UNCHANGED <<mail, forwards, replies, ledger, quarantine, counter, inbox, taken, staging, erased,
                  pc, batch, out>>
  BY Zenon DEF vars, mailer, tables, directory
<1>2. TypeOK'
  <2>1. MailTypes /\ TableTypes /\ FileTypes /\ HandTypes
    BY Zenon, Typing DEF IInv
  <2>2. MailTypes' /\ TableTypes' /\ FileTypes' /\ HandTypes'
    BY Zenon, <1>1, <2>1 DEF MailTypes, TableTypes, FileTypes, HandTypes
  <2> QED
    BY Zenon, <2>2, TypingNext
<1>3. Ledgered' /\ Isolated' /\ CompanionsFirst' /\ \A k \in Ids : Settled(k) => Settled(k)'
  BY Zenon, <1>1, TablesStay
<1>4. Safe'
  BY ZenonT(40), <1>1, <1>3 DEF IInv, Safe
<1>5. Handled'
  <2> SUFFICES ASSUME NEW k \in Ids, batch # <<>>, current.id = k PROVE Step(k)'
    BY Zenon, <1>1 DEF Handled, current
  <2>1. Step(k)
    BY Zenon DEF IInv, Handled
  <2>2. Settled(k) => Settled(k)'
    BY Zenon, <1>3
  <2> QED
    BY ZenonT(40), <1>1, <2>1, <2>2
       DEF Step, Conversion, Orphaned, Continued, Fresh, Linked, PublishedUnder, Known
<1>6. Tokens' /\ Over'
  BY Zenon, <1>1 DEF IInv, Tokens, Over
<1> QED
  BY Zenon, <1>2, <1>3, <1>4, <1>5, <1>6 DEF IInv

(* The empty spool and the adapter that was never started. *)
LEMMA Initially == Init => IInv
<1> SUFFICES ASSUME Init PROVE IInv
  BY Zenon
<1>1. DOMAIN forwards = {} /\ DOMAIN ledger = {} /\ DOMAIN quarantine = {} /\ DOMAIN inbox = {}
      /\ DOMAIN batch = {} /\ batch = <<>> /\ pc = "Down"
  BY DEF Init
<1>2. TypeOK
  <2>1. MailTypes
    BY Zenon DEF Init, MailTypes, MailStates
  <2>2. TableTypes
    BY <1>1 DEF Init, TableTypes
  <2>3. FileTypes
    BY Zenon DEF Init, FileTypes
  <2>4. Nothing \in Outcome /\ <<>> \in Seq(Claim)
    BY DEF Nothing, Outcome, NoName
  <2>5. HandTypes
    BY ZenonT(40), <2>4 DEF Init, HandTypes, Steps
  <2> QED
    BY Zenon, <2>1, <2>2, <2>3, <2>5, Typing
<1>3. Ledgered /\ Isolated /\ CompanionsFirst
  BY Zenon, <1>1 DEF Ledgered, LedgeredAt, Isolated, IsolatedAt, CompanionsFirst
<1>4. Handled /\ Tokens /\ Over
  BY Zenon, <1>1 DEF Handled, Tokens, Over
<1>5. Safe
  BY Zenon DEF Init, Safe
<1> QED
  BY Zenon, <1>2, <1>3, <1>4, <1>5 DEF IInv

(* Every step of the adapter, the mailer and the tosser keeps the invariant. *)
LEMMA NextKeeps == IInv /\ [Next]_vars => IInv'
<1> SUFFICES ASSUME IInv, [Next]_vars PROVE IInv'
  BY Zenon
<1>1. ASSUME NEW id \in Ids, Return(id) \/ Collect(id) \/ RecoverRemove(id) \/ RecoverClear(id)
      PROVE  IInv'
  BY Zenon, <1>1, ReturnKeeps, CollectKeeps, RecoverKeeps
<1>2. CASE EndBatch \/ Start \/ Recovered \/ Crash \/ \E name \in DOMAIN inbox : Toss(name)
  BY Zenon, <1>2, MovesOnKeeps, ProcessKeeps
<1>3. CASE Plan
  BY Zenon, <1>3, PlanResumedKeeps, PlanNoticeKeeps, PlanConvertKeeps, GivenUpKeeps DEF Plan
<1>4. CASE Commit
  BY Zenon, <1>4, StageKeeps, WriteKeeps, LinkKeeps, MovesOnKeeps, AdvanceKeeps DEF Commit
<1>5. CASE CommitOrphan
  BY Zenon, <1>5, QuarantineKeeps, GivenUpKeeps, NoticeKeeps, MarkKeeps, RetireKeeps DEF CommitOrphan
<1>6. CASE Distribute
  BY Zenon, <1>6, ForwardKeeps, LostKeeps, MovesOnKeeps, RecordForwardKeeps DEF Distribute
<1>7. CASE Answer
  BY Zenon, <1>7, CleanupKeeps, ServedKeeps, LostKeeps, MovesOnKeeps DEF Answer
<1>8. CASE Resolution
  BY Zenon, <1>8, AcknowledgeKeeps, FinishKeeps, AcknowledgeOnlyKeeps, GivenUpKeeps DEF Resolution
<1>9. CASE UNCHANGED vars
  BY Zenon, <1>9, StutterKeeps
<1> QED
  BY Zenon, <1>1, <1>2, <1>3, <1>4, <1>5, <1>6, <1>7, <1>8, <1>9 DEF Next

(***************************************************************************)
(* The inductive invariant: types, what the ledger and the quarantine      *)
(* promise, what handle knows at each of its steps, and that only the last *)
(* claim of an item in the batch can be current.                           *)
(***************************************************************************)
THEOREM Invariance == Spec => []IInv
<1>1. Init => IInv
  BY Zenon, Initially
<1>2. IInv /\ [Next]_vars => IInv'
  BY Zenon, NextKeeps
<1> QED
  BY <1>1, <1>2, PTL DEF Spec

(***************************************************************************)
(* Whatever is killed, lost, late or refused, an item the mailer has let   *)
(* go of is published, distributed, in quarantine or answered, as its kind *)
(* demands (commit before acknowledge).                                    *)
(***************************************************************************)
THEOREM AcknowledgedAlwaysSafe == Spec => []AcknowledgedIsSafe
<1>1. IInv => AcknowledgedIsSafe
  BY Zenon DEF IInv, Safe, Settled, AcknowledgedIsSafe
<1> QED
  BY <1>1, Invariance, PTL

(***************************************************************************)
(* No object appears in the directory before those it refers to (publish). *)
(***************************************************************************)
THEOREM CompanionsAlwaysFirst == Spec => []CompanionsFirst
<1>1. IInv => CompanionsFirst
  BY Zenon DEF IInv
<1> QED
  BY <1>1, Invariance, PTL

(***************************************************************************)
(* A file that is to be erased after its request was acknowledged is gone, *)
(* or its removal is on record (record_cleanup, discharge_cleanup).        *)
(***************************************************************************)
THEOREM RemovalAlwaysRemembered == Spec => []RemovalRemembered
<1>1. IInv => RemovalRemembered
  BY ZenonT(40), EraseTypes DEF IInv, Safe, Settled, Cleaned, RemovalRemembered
<1> QED
  BY <1>1, Invariance, PTL

(* No step takes an entry back to Staged. *)
LEMMA StateStays ==
    ASSUME IInv, [Next]_vars, NEW id \in DOMAIN ledger, ledger[id].state # "Staged"
    PROVE  ledger'[id].state # "Staged"
<1>1. TableTypes /\ id \in Ids /\ ledger[id] \in Record
  BY Zenon, Typing DEF IInv, TableTypes
<1>2. ASSUME NEW k, NEW v \in {"Published", "Retired", "Acknowledged"},
             ledger' = [ledger EXCEPT ![k].state = v]
      PROVE  ledger'[id].state # "Staged"
  BY Zenon, <1>1, <1>2 DEF TableTypes, Record
<1>3. ASSUME NEW k, NEW v \in BOOLEAN,
             \/ ledger' = [ledger EXCEPT ![k].cleanup = v]
             \/ ledger' = [ledger EXCEPT ![k].forwarded = v]
      PROVE  ledger'[id].state # "Staged"
  <2>1. CASE ledger' = [ledger EXCEPT ![k].cleanup = v]
    BY Zenon, <1>1, <2>1 DEF TableTypes, Record
  <2>2. CASE ledger' = [ledger EXCEPT ![k].forwarded = v]
    BY Zenon, <1>1, <2>2 DEF TableTypes, Record
  <2> QED
    BY Zenon, <1>3, <2>1, <2>2
<1>4. CASE ledger' = ledger
  BY Zenon, <1>4
<1>5. ASSUME batch # <<>>, pc \in {"Stage", "Quarantine"} PROVE current.id # id
  <2>1. current.id \in Ids
    BY ZenonT(40), <1>5, BatchTypes DEF IInv
  <2>2. Fresh(current.id)
    BY Zenon, <1>5, <2>1 DEF IInv, Handled, Step, Conversion, Orphaned
  <2> QED
    BY Zenon, <2>2 DEF Fresh
<1>6. ASSUME pc \in {"Stage", "Quarantine"} PROVE batch # <<>>
  BY Zenon, <1>6, Typing DEF IInv, HandTypes
<1>7. CASE Stage
  BY Zenon, <1>1, <1>5, <1>6, <1>7 DEF Stage, Put
<1>8. CASE Quarantine
  BY Zenon, <1>1, <1>4, <1>5, <1>6, <1>8 DEF Quarantine, Put
<1>9. CASE Advance \/ Retire \/ Finish
  BY Zenon, <1>2, <1>9 DEF Advance, Retire, Finish
<1>10. CASE RecordForward \/ NotSubmitted \/ Clear \/ \E k \in Ids : RecoverClear(k)
  BY Zenon, <1>3, <1>10 DEF RecordForward, NotSubmitted, Clear, RecoverClear
<1>11. CASE Serve
  <2>1. (current.id \in Erase) \in BOOLEAN
    OBVIOUS
  <2> QED
    BY Zenon, <1>3, <1>11, <2>1 DEF Serve
<1>12. CASE \E k \in Ids : Return(k) \/ Collect(k) \/ RecoverRemove(k)
  BY ZenonT(40), <1>4, <1>12 DEF Return, Collect, RecoverRemove, tables
<1>13. CASE EndBatch \/ Start \/ Recovered \/ Crash \/ \E name \in DOMAIN inbox : Toss(name)
  BY Zenon, <1>4, <1>13 DEF EndBatch, Start, Recovered, Crash, Toss, tables
<1>14. CASE Plan
  BY Zenon, <1>4, <1>14 DEF Plan, PlanNothing, PlanResume, PlanNotice, PlanConvert, PlanStep, Unreadable,
                     Refuse, Release, tables
<1>15. CASE Write \/ Link \/ PublishFails \/ QuarantineExists \/ Notice \/ Mark
  BY ZenonT(40), <1>4, <1>15 DEF Write, Link, PublishFails, QuarantineExists, Notice, Mark, Release, tables
<1>16. CASE Forward \/ ForwardLost \/ NotForwarded \/ Submit \/ SubmitLost \/ RemoveFile \/ RemoveFails
  BY ZenonT(40), <1>4, <1>16 DEF Forward, ForwardLost, NotForwarded, Submit, SubmitLost, RemoveFile,
                     RemoveFails, tables
<1>17. CASE Acknowledge \/ AcknowledgeOnly \/ Unanswered \/ Defer
  BY ZenonT(40), <1>4, <1>17 DEF Acknowledge, AcknowledgeOnly, Unanswered, Defer, Release, tables
<1>18. CASE UNCHANGED vars
  BY ZenonT(40), <1>4, <1>18 DEF vars, tables
<1> QED
  BY Zenon, <1>7, <1>8, <1>9, <1>10, <1>11, <1>12, <1>13, <1>14, <1>15, <1>16, <1>17, <1>18
     DEF Next, Commit, CommitOrphan, Distribute, Answer, Resolution

(* Only Link and Notice publish, and only for the item in hand, while its
   conversion is not finished. *)
LEMMA DirectoryStays ==
    ASSUME IInv, [Next]_vars, NEW id \in DOMAIN ledger, ledger[id].state # "Staged"
    PROVE  Visible(id)' \subseteq Visible(id)
<1>1. CASE inbox' = inbox /\ taken \subseteq taken'
  BY ZenonT(40), <1>1 DEF Visible
<1>2. ASSUME NEW name, NEW part, Publish(name, part), part.id # id
      PROVE  Visible(id)' \subseteq Visible(id)
  BY Zenon, <1>2 DEF Visible, Publish, Put
<1>3. ASSUME pc \in {"Link", "Notice"} PROVE current.id # id
  <2>1. batch # <<>>
    BY Zenon, <1>3, Typing DEF IInv, HandTypes
  <2>2. current.id \in Ids
    BY ZenonT(40), <2>1, BatchTypes DEF IInv
  <2>3. Fresh(current.id)
    BY ZenonT(40), <1>3, <2>1, <2>2 DEF IInv, Handled, Step, Conversion, Orphaned
  <2> QED
    BY Zenon, <2>3 DEF Fresh
<1>4. CASE Link
  <2> DEFINE part == [id |-> current.id, index |-> out.next, objects |-> out.objects]
  <2>1. Publish(out.objects[out.next], part) /\ part.id = current.id /\ pc = "Link"
    BY ZenonT(40), <1>4 DEF Link, Order
  <2> HIDE DEF part
  <2> QED
    BY Zenon, <1>2, <1>3, <2>1
<1>5. CASE Notice
  <2> DEFINE part == [id |-> current.id, index |-> 0, objects |-> <<>>]
  <2>1. /\ part.id = current.id /\ pc = "Notice"
        /\ Publish(out.notice, part) \/ UNCHANGED <<inbox, taken>>
    BY Zenon, <1>5 DEF Notice
  <2> HIDE DEF part
  <2> QED
    BY ZenonT(40), <1>1, <1>2, <1>3, <2>1
<1>6. CASE \E k \in Ids : Return(k) \/ Collect(k) \/ RecoverRemove(k) \/ RecoverClear(k)
  BY ZenonT(40), <1>1, <1>6 DEF Return, Collect, RecoverRemove, RecoverClear, directory
<1>7. CASE EndBatch \/ Start \/ Recovered \/ Crash \/ \E name \in DOMAIN inbox : Toss(name)
  BY Zenon, <1>1, <1>7 DEF EndBatch, Start, Recovered, Crash, Toss, directory
<1>8. CASE Plan
  BY Zenon, <1>1, <1>8 DEF Plan, PlanNothing, PlanResume, PlanNotice, PlanConvert, PlanStep, Unreadable,
                    Refuse, Release, directory
<1>9. CASE Stage \/ Write \/ PublishFails \/ Advance \/ Quarantine \/ QuarantineExists \/ Mark \/ Retire
  BY Zenon, <1>1, <1>9 DEF Stage, Write, PublishFails, Advance, Quarantine, QuarantineExists, Mark, Retire,
                    Release, directory
<1>10. CASE Distribute
  BY Zenon, <1>1, <1>10 DEF Distribute, Forward, ForwardLost, NotForwarded, RecordForward, directory
<1>11. CASE Answer
  BY Zenon, <1>1, <1>11 DEF Answer, Serve, Submit, SubmitLost, NotSubmitted, RemoveFile, RemoveFails, Clear,
                     directory
<1>12. CASE Resolution
  BY Zenon, <1>1, <1>12 DEF Resolution, Acknowledge, Finish, AcknowledgeOnly, Unanswered, Defer, Release,
                     directory
<1>13. CASE UNCHANGED vars
  BY Zenon, <1>1, <1>13 DEF vars, directory
<1> QED
  BY Zenon, <1>4, <1>5, <1>6, <1>7, <1>8, <1>9, <1>10, <1>11, <1>12, <1>13
     DEF Next, Commit, CommitOrphan

(***************************************************************************)
(* Once the ledger says Published, or more, no step publishes anything for *)
(* the item and none takes it back to Staged, also after a redelivery with *)
(* another token.                                                          *)
(***************************************************************************)
THEOREM PublishedStaysFinal == Spec => PublishedIsFinal
<1>1. ASSUME IInv, [Next]_vars, NEW id \in DOMAIN ledger, ledger[id].state # "Staged"
      PROVE  ledger'[id].state # "Staged" /\ Visible(id)' \subseteq Visible(id)
  BY ZenonT(40), <1>1, StateStays, DirectoryStays
<1>2. IInv /\ [Next]_vars =>
        [\A id \in DOMAIN ledger :
           ledger[id].state # "Staged" =>
               ledger'[id].state # "Staged" /\ Visible(id)' \subseteq Visible(id)]_vars
  BY Zenon, <1>1
<1> QED
  BY <1>2, Invariance, PTL DEF Spec, PublishedIsFinal
=============================================================================
