------------------------------ MODULE Transfer ------------------------------
(***************************************************************************)
(* One node dials another: the outbound driver claims a group of delivery  *)
(* copies, sends it in a Bundle (with Polls when the schedule names the    *)
(* peer), and the listener of the other node stores what arrives, returns  *)
(* what it holds for the caller and waits for the caller's final Reply     *)
(* Bundle.  Every connection has a server thread of its own, so a thread   *)
(* whose client has gone may still hold claims while the client dials      *)
(* again.  Connections break, both processes are killed and restarted,     *)
(* payloads arrive damaged, and the server changes its signing key, which  *)
(* the client follows through its key pins.                                *)
(*                                                                         *)
(* A copy's spool record is reduced to its state (OutboundSpool has the    *)
(* rest), the inbound store to how often an item was stored (InboundSpool) *)
(* and the acceptance rules to a Verdict per item (Network).               *)
(***************************************************************************)
EXTENDS Naturals, Sequences, FiniteSets

CONSTANTS
    Queue,           \* the client's copies for this server, in spool order
    HeldQueue,       \* the server's copies held for this client, in spool order
    Kind,            \* "Message", "File" or "FileRequest", per item
    Signed,          \* the items with a duplicate identity
    Verdict,         \* what Acceptance::dispatch answers, per item
    TrustOnFirstUse, \* the Peer block's setting at the client
    MaxGroup,        \* MAX_GROUP
    MaxConnections,  \* bound: connections dialled
    MaxKeys,         \* bound: signing keys the server ever has
    MaxFaults        \* bound: cuts, damages, restarts, time-outs, store errors

Items == {Queue[n] : n \in DOMAIN Queue}
Held == {HeldQueue[n] : n \in DOMAIN HeldQueue}
Copies == Items \cup Held
Connections == 1 .. MaxConnections
NoKey == 0
NoPin == [current |-> NoKey, anchor |-> NoKey]
Verdicts == {"Accepted", "Permanent", "Temporary"}
Polls == <<"PollMessages", "PollFiles", "PollFileRequests">>

ASSUME TransferAssumption ==
    /\ Items \cap Held = {}
    /\ Copies \cap {Polls[n] : n \in DOMAIN Polls} = {}
    /\ Verdict \in [Copies -> Verdicts]
    /\ Kind \in [Copies -> {"Message", "File", "FileRequest"}]
    /\ Signed \subseteq Copies

VARIABLES
    copy,      \* state of every delivery copy in its own node's spool
    stored,    \* how often the receiving node stored the item as new
    client,    \* the driver thread's exchange
    server,    \* per connection, its server thread
    up, down,  \* per connection, the frames in flight in each direction
    ended,     \* the ends of connections that are closed: <<connection, "up" | "down">>
    opened,    \* connections dialled so far
    current, retired,  \* the server's signing key, and the old ones it kept
    pin, anchor,       \* the client's pin of it, and the key its nodelist lists
    stranded,  \* Active copies that an error, or a start without recovery, left to nobody
    faults     \* faults so far

spools == <<copy, stored, stranded>>
wires == <<up, down, ended, opened>>
keys == <<current, retired, pin, anchor>>
vars == <<copy, stored, client, server, up, down, ended, opened,
          current, retired, pin, anchor, stranded, faults>>

Idle == [phase |-> "Idle", conn |-> 0, group |-> <<>>, polls |-> FALSE, key |-> NoKey,
         completed |-> {}, answers |-> <<>>, retried |-> FALSE]
NoThread == [phase |-> "Ended", holds |-> {}, wait |-> FALSE, written |-> 0, started |-> FALSE]

Init ==
    /\ copy = [i \in Copies |-> "Queued"]
    /\ stored = [i \in Copies |-> 0]
    /\ client = Idle
    /\ server = [k \in Connections |-> NoThread]
    /\ up = [k \in Connections |-> <<>>]
    /\ down = [k \in Connections |-> <<>>]
    /\ ended = {}
    /\ opened = 0
    /\ current = 1
    /\ retired = {}
    /\ pin = NoPin
    /\ anchor \in {NoKey, 1}
    /\ stranded = {}
    /\ faults = 0

Fault == faults < MaxFaults /\ faults' = faults + 1
-----------------------------------------------------------------------------
(* Key pins *)

resolve(p, listed) ==
    IF p # NoPin /\ (listed = NoKey \/ p.anchor = listed) THEN p.current ELSE listed

EffectiveKey == resolve(pin, anchor)

(* observe_initial: a first key is recorded only where none is in effect. *)
ObserveInitial(key) ==
    IF EffectiveKey # NoKey THEN pin ELSE [current |-> key, anchor |-> NoKey]

(* Mutant of Advance: the pin does not record the listed key. *)
AdvanceUnanchored(key) == [current |-> key, anchor |-> NoKey]

(* advance: the successor of the key in effect replaces it. *)
Advance(key) ==
    [current |-> key, anchor |-> IF anchor # NoKey THEN anchor ELSE pin.anchor]
-----------------------------------------------------------------------------
(* Bundles *)

Header(key) == [type |-> "Header", key |-> key]

Payload(id, requests, responses) ==
    [type |-> "Payload", id |-> id, requests |-> requests, responses |-> responses,
     damage |-> "none"]

Response(to, ident, verdict) == [to |-> to, ident |-> ident, verdict |-> verdict]

IsFileRequest(i) == Kind[i] = "FileRequest"

(* The group's FileRequests travel with the Polls in the first payload. *)
Ordered(group) ==
    SelectSeq(group, IsFileRequest) \o SelectSeq(group, LAMBDA i : ~ IsFileRequest(i))

PayloadGroups(group, polls) ==
    LET first == (IF polls THEN Polls ELSE <<>>) \o SelectSeq(group, IsFileRequest)
        second == SelectSeq(group, LAMBDA i : ~ IsFileRequest(i))
    IN SelectSeq(<<first, second>>, LAMBDA values : values # <<>>)

(* The Bundle sent on connection k. *)
build_bundle(k, group, polls) ==
    LET groups == PayloadGroups(group, polls)
    IN <<Header(NoKey)>> \o
       [n \in DOMAIN groups |-> Payload(<<k, "up", n>>, groups[n], <<>>)]

(* The tracker's outstanding requests, in the order they are transmitted. *)
Outstanding(k, group, polls) ==
    LET groups == PayloadGroups(group, polls)
        Requests(n) == [m \in DOMAIN groups[n] |->
                            [to |-> <<k, "up", n>>, ident |-> m, value |-> groups[n][m]]]
    IN IF Len(groups) = 1 THEN Requests(1) ELSE Requests(1) \o Requests(2)

RequiresReturnBundle(group, polls) ==
    polls \/ \E n \in DOMAIN group : IsFileRequest(group[n])

(* receive_payload: what either side may act on. A damaged value has another hash. *)
receive_payload(frame) ==
    [error |-> frame.damage = "signature" /\ frame.responses # <<>>,
     valid |-> frame.damage = "none",
     requests |-> frame.requests,
     responses |-> IF frame.damage = "none" THEN frame.responses ELSE <<>>,
     close |-> frame.damage = "header"]

(* Acceptance::dispatch of the values, or the data error response to each. *)
DispatchAnswer(received, value) ==
    IF received.valid THEN Verdict[value] ELSE "Permanent"

Dispatched(received, values) ==
    [i \in Copies |->
        IF /\ received.valid /\ Verdict[i] = "Accepted"
           /\ \E n \in DOMAIN values : values[n] = i
           /\ ~ (i \in Signed /\ stored[i] > 0)
        THEN stored[i] + 1 ELSE stored[i]]
-----------------------------------------------------------------------------
(* The client: deliver.rs and client_exchange.rs *)

(* Mutant of Due: a copy in some exchange is due as well. *)
DueActive(queue) == SelectSeq(queue, LAMBDA i : copy[i] \in {"Queued", "Deferred", "Active"})

Due(queue) == SelectSeq(queue, LAMBDA i : copy[i] \in {"Queued", "Deferred"})

Group == LET due == Due(Queue)
         IN SubSeq(due, 1, IF Len(due) < MaxGroup THEN Len(due) ELSE MaxGroup)

Finishing(group, completed) ==
    [client EXCEPT !.phase = "Finishing", !.group = group, !.completed = completed]

(* A failed exchange keeps the responses it got, but a failed second attempt does not. *)
Failed(completed) == Finishing(client.group, IF client.retried THEN {} ELSE completed)

(* A connection carries the frames, and the server gives it a thread. *)
Connect(frames, keepOpen) ==
    /\ opened < MaxConnections
    /\ opened' = opened + 1
    /\ up' = [up EXCEPT ![opened + 1] = frames]
    /\ ended' = ended \cup (IF keepOpen THEN {} ELSE {<<opened + 1, "up">>})
    /\ server' = [server EXCEPT ![opened + 1] = [NoThread EXCEPT !.phase = "Start"]]
    /\ UNCHANGED down

(* The claimed group goes out, or no endpoint answers and it is deferred. *)
Send(group, polls, key, retried) ==
    \/ /\ Connect(build_bundle(opened + 1, group, polls), RequiresReturnBundle(group, polls))
       /\ client' = [Idle EXCEPT !.phase = "AwaitingReplyHeader", !.conn = opened + 1,
                                 !.group = group, !.polls = polls, !.key = key,
                                 !.retried = retried]
    \/ /\ client' = Finishing(group, {})
       /\ UNCHANGED <<server, wires>>

Claimed(group) ==
    [i \in Copies |-> IF \E n \in DOMAIN group : group[n] = i THEN "Active" ELSE copy[i]]

(* A later claim_scheduled of the group fails: its error drops the claims made, *)
(* which stay Active.                                                           *)
ClaimFails ==
    \E done \in 1 .. Len(Group) :
        LET claimed == SubSeq(Group, 1, done)
        IN /\ done < MaxGroup
           /\ Fault
           /\ copy' = Claimed(claimed)
           /\ stranded' = stranded \cup {claimed[n] : n \in 1 .. done}
           /\ client' = Idle
           /\ UNCHANGED <<server, wires>>

(* run_pass (without Polls) and poll_peer (with them), once a key is in effect. *)
StartExchange ==
    /\ client.phase = "Idle"
    /\ EffectiveKey # NoKey
    /\ \/ /\ \E polls \in BOOLEAN :
              /\ polls \/ Group # <<>>
              /\ Send(Group, polls, EffectiveKey, FALSE)
          /\ copy' = Claimed(Group)
          /\ UNCHANGED <<stranded, faults>>
       \/ ClaimFails
    /\ UNCHANGED <<stored, keys>>

build_public_key_probe(requested) == [type |-> "Probe", requested |-> requested]

(* discover_key before the first contact, which the Peer block must allow. *)
FirstContact ==
    /\ client.phase = "Idle"
    /\ EffectiveKey = NoKey /\ TrustOnFirstUse
    /\ Connect(<<build_public_key_probe(NoKey)>>, FALSE)
    /\ client' = [Idle EXCEPT !.phase = "Probe", !.conn = opened + 1, !.polls = TRUE]
    /\ UNCHANGED <<spools, keys, faults>>

HangUp(k) == {<<k, "up">>, <<k, "down">>}

(* Mutant of Leave: the write side stays open. *)
LeaveHalf(k) ==
    /\ ended' = ended \cup {<<k, "down">>}
    /\ down' = [down EXCEPT ![k] = <<>>]

(* The client shuts both directions down before it does anything else; what it *)
(* has not read is lost.                                                       *)
Leave(k) ==
    /\ ended' = ended \cup HangUp(k)
    /\ down' = [down EXCEPT ![k] = <<>>]

(* reply_header_received: the Reply Header must verify with the key in use. *)
ClientReadsHeader ==
    LET k == client.conn
    IN /\ client.phase = "AwaitingReplyHeader"
       /\ down[k] # <<>>
       /\ IF Head(down[k]).key = client.key
          THEN /\ client' = [client EXCEPT !.phase = "AwaitingResponses"]
               /\ down' = [down EXCEPT ![k] = Tail(@)]
               /\ UNCHANGED <<server, up, ended, opened>>
          ELSE /\ Leave(k)
               /\ client' = IF client.retried THEN Finishing(client.group, {})
                            ELSE [client EXCEPT !.phase = "Recover"]
               /\ UNCHANGED <<server, up, opened>>
       /\ UNCHANGED <<spools, keys, faults>>

(* FailureAction::RecoverContinuity: ask for the successor of the key in use. *)
ProbeContinuity ==
    /\ client.phase = "Recover"
    /\ \/ /\ Connect(<<build_public_key_probe(client.key)>>, FALSE)
          /\ client' = [client EXCEPT !.phase = "Probe", !.conn = opened + 1]
       \/ /\ client' = Finishing(client.group, {})
          /\ UNCHANGED <<server, wires>>
    /\ UNCHANGED <<spools, keys, faults>>

(* parse_public_key_reply: signed by the key asked for, and no refusal. *)
Trusted(reply) == reply.accepted /\ (client.key = NoKey \/ reply.key = client.key)

(* The probe's reply must be signed by the key asked for, and carries the    *)
(* server's present one; the exchange then starts (again) under that key.    *)
ClientReadsKey ==
    LET k == client.conn
        reply == Head(down[k])
        first == client.key = NoKey
        group == IF first THEN Group ELSE client.group
    IN /\ client.phase = "Probe"
       /\ down[k] # <<>>
       /\ IF Trusted(reply) /\ (first \/ EffectiveKey = client.key)
          THEN /\ pin' = IF first THEN ObserveInitial(reply.current) ELSE Advance(reply.current)
               /\ \/ /\ Send(group, client.polls, resolve(pin', anchor), ~ first)
                     /\ copy' = Claimed(group)
                     /\ UNCHANGED <<stranded, faults>>
                  \/ first /\ ClaimFails
          ELSE /\ client' = Finishing(client.group, {})
               /\ UNCHANGED <<pin, copy, stranded, server, wires, faults>>
       /\ UNCHANGED <<stored, current, retired, anchor>>

Known(responses) ==
    LET outstanding == Outstanding(client.conn, client.group, client.polls)
    IN /\ \A n \in DOMAIN responses :
            /\ \E m \in DOMAIN outstanding : /\ outstanding[m].to = responses[n].to
                                             /\ outstanding[m].ident = responses[n].ident
            /\ \A r \in client.completed :
                   <<r.to, r.ident>> # <<responses[n].to, responses[n].ident>>
       /\ \A n, m \in DOMAIN responses : n # m => responses[n] # responses[m]

Complete(completed) ==
    Cardinality(completed) = Len(Outstanding(client.conn, client.group, client.polls))

(* The final Reply Bundle: one answer for every value the server returned. *)
FinalReply(k, answers) == <<Header(NoKey), Payload(<<k, "up", 0>>, <<>>, answers)>>

(* One payload of the reply: its responses are recorded and its values stored, *)
(* all of them unless the store fails after the first `done'.                  *)
ClientReadsPayload ==
    LET k == client.conn
        received == receive_payload(Head(down[k]))
        keepOpen == RequiresReturnBundle(client.group, client.polls)
        completed == client.completed
                         \cup {received.responses[n] : n \in DOMAIN received.responses}
        answers == client.answers \o
                       [n \in DOMAIN received.requests |->
                           Response(Head(down[k]).id, n,
                                    DispatchAnswer(received, received.requests[n]))]
        refused == received.error \/ ~ Known(received.responses)
        unexpected == ~ keepOpen /\ received.requests # <<>>
        Fails(kept) == /\ client' = Failed(kept)
                       /\ Leave(k)
                       /\ UNCHANGED up
    IN /\ client.phase = "AwaitingResponses"
       /\ down[k] # <<>>
       /\ \/ /\ refused \/ unexpected
             /\ Fails(IF refused THEN client.completed ELSE completed)
             /\ UNCHANGED <<stored, faults>>
          \/ /\ ~ refused /\ ~ unexpected
             /\ stored' = Dispatched(received, received.requests)
             /\ IF received.close \/ Complete(completed)
                THEN /\ client' = IF received.close THEN Failed(completed)
                                  ELSE Finishing(client.group, completed)
                     /\ up' = IF keepOpen /\ <<k, "up">> \notin ended
                              THEN [up EXCEPT ![k] = @ \o FinalReply(k, answers)] ELSE up
                     /\ Leave(k)
                ELSE /\ client' = [client EXCEPT !.completed = completed,
                                                 !.answers = answers]
                     /\ down' = [down EXCEPT ![k] = Tail(@)]
                     /\ UNCHANGED <<up, ended>>
             /\ UNCHANGED faults
          \/ /\ ~ refused /\ ~ unexpected
             /\ Fault
             /\ \E done \in 0 .. Len(received.requests) - 1 :
                    stored' = Dispatched(received, SubSeq(received.requests, 1, done))
             /\ Fails(completed)
       /\ UNCHANGED <<copy, stranded, server, opened, keys>>

(* The connection ends before the exchange is complete. The final Reply Bundle *)
(* that is still written after it reaches nobody.                             *)
ClientSeesEnd ==
    LET k == client.conn
    IN /\ client.phase \in {"Probe", "AwaitingReplyHeader", "AwaitingResponses"}
       /\ down[k] = <<>> /\ <<k, "down">> \in ended
       /\ client' = Failed(client.completed)
       /\ Leave(k)
       /\ UNCHANGED <<spools, server, up, opened, keys, faults>>

(* The read times out. *)
ClientTimesOut ==
    /\ client.phase \in {"Probe", "AwaitingReplyHeader", "AwaitingResponses"}
    /\ Fault
    /\ client' = Failed(client.completed)
    /\ Leave(client.conn)
    /\ UNCHANGED <<spools, server, up, opened, keys>>

Settles(verdict) ==
    CASE verdict = "Accepted" -> "Delivered"
      [] verdict = "Permanent" -> "Rejected"
      [] verdict = "Temporary" -> "Deferred"

(* Mutant of outcomes: the Polls' responses are counted with the copies'. *)
outcomesWithPolls(group, completed) ==
    LET sent == Ordered(group)
        requests == Outstanding(client.conn, group, client.polls)
        Answer(n) == {r \in completed : r.to = requests[n].to /\ r.ident = requests[n].ident}
    IN [n \in DOMAIN group |->
           LET position == CHOOSE m \in DOMAIN sent : sent[m] = group[n]
           IN IF Answer(position) = {} THEN "Deferred"
              ELSE Settles((CHOOSE r \in Answer(position) : TRUE).verdict)]

(* outcomes: the response to a copy's own request decides it; a copy without  *)
(* one is deferred. The n-th value sent is the n-th request that is no Poll.  *)
outcomes(group, completed) ==
    LET sent == Ordered(group)
        requests == SelectSeq(Outstanding(client.conn, group, client.polls),
                              LAMBDA r : r.value \in Items)
        Answer(n) == {r \in completed : r.to = requests[n].to /\ r.ident = requests[n].ident}
    IN [n \in DOMAIN group |->
           LET position == CHOOSE m \in DOMAIN sent : sent[m] = group[n]
           IN IF Answer(position) = {} THEN "Deferred"
              ELSE Settles((CHOOSE r \in Answer(position) : TRUE).verdict)]

(* finish_group: each copy's outcome in turn; a store error leaves the rest Active. *)
FinishGroup ==
    LET group == client.group
        results == outcomes(group, client.completed)
        Settled(done) == [i \in Copies |->
            IF \E n \in 1 .. done : group[n] = i
            THEN results[CHOOSE n \in 1 .. done : group[n] = i] ELSE copy[i]]
    IN /\ client.phase = "Finishing"
       /\ \/ /\ copy' = Settled(Len(group))
             /\ UNCHANGED <<stranded, faults>>
          \/ \E done \in 0 .. Len(group) - 1 :
                /\ Fault
                /\ copy' = Settled(done)
                /\ stranded' = stranded \cup {group[n] : n \in done + 1 .. Len(group)}
       /\ client' = Idle
       /\ UNCHANGED <<stored, server, wires, keys>>
-----------------------------------------------------------------------------
(* The server: server_exchange.rs, one thread per connection *)

poll_kinds(poll) ==
    CASE poll = "PollMessages" -> {"Message"}
      [] poll = "PollFiles" -> {"File"}
      [] poll = "PollFileRequests" -> {"FileRequest"}
      [] OTHER -> {}

(* claim_poll_snapshot for each Poll among the values, in their order. *)
poll_snapshot(values) ==
    LET due == Due(HeldQueue)
        Of(n) == SelectSeq(due, LAMBDA h : Kind[h] \in poll_kinds(values[n]))
        Upto[n \in 0 .. Len(values)] == IF n = 0 THEN <<>> ELSE Upto[n - 1] \o Of(n)
    IN Upto[Len(values)]

RequiresReturn(value) == value \notin Copies \/ IsFileRequest(value)

Ending(thread) == [thread EXCEPT !.phase = "Ending"]

(* What is written to a connection that the Client has left is lost. *)
Written(k, frames) ==
    IF <<k, "down">> \in ended THEN down ELSE [down EXCEPT ![k] = @ \o frames]

build_public_key_reply(signer) ==
    [type |-> "Key", key |-> signer, current |-> current, accepted |-> TRUE]

build_public_key_unavailable_reply ==
    [type |-> "Key", key |-> current, current |-> NoKey, accepted |-> FALSE]

(* public_key_response: the requested key, current or kept, vouches for the *)
(* current one; for any other there is only an unavailable reply.           *)
KeyReply(requested) ==
    IF requested \in {current} \cup retired THEN build_public_key_reply(requested)
    ELSE build_public_key_unavailable_reply

(* transaction: the first value decides between a key probe and a Bundle. *)
ServerStarts(k) ==
    /\ server[k].phase = "Start"
    /\ up[k] # <<>>
    /\ up' = [up EXCEPT ![k] = Tail(@)]
    /\ LET frame == Head(up[k])
           requested == IF frame.requested = NoKey THEN current ELSE frame.requested
       IN IF frame.type = "Header"
          THEN /\ server' = [server EXCEPT ![k].phase = "Respond"]
               /\ UNCHANGED down
          ELSE /\ server' = [server EXCEPT ![k] = Ending(@)]
               /\ down' = Written(k, <<KeyReply(requested)>>)
    /\ UNCHANGED <<spools, client, ended, opened, keys, faults>>

(* require_continuation: another Client Bundle only after a FileRequest or Poll. *)
ServerReadsHeader(k) ==
    /\ server[k].phase \in {"Respond", "Replies"}
    /\ up[k] # <<>> /\ Head(up[k]).type = "Header"
    /\ up' = [up EXCEPT ![k] = Tail(@)]
    /\ server' = [server EXCEPT ![k] =
           IF @.wait THEN [@ EXCEPT !.phase = "Replies", !.wait = FALSE, !.started = FALSE]
           ELSE Ending(@)]
    /\ UNCHANGED <<spools, client, down, ended, opened, keys, faults>>

(* The responses that find their hold, up to the first that does not. *)
Resolving(holds, responses) ==
    LET Answered(n) == {h \in holds : h.to = responses[n].to /\ h.ident = responses[n].ident}
        matched == {n \in DOMAIN responses : \A m \in 1 .. n : Answered(m) # {}}
    IN [all |-> matched = DOMAIN responses,
        pairs |-> {<<h, responses[n].verdict>> : <<h, n>> \in
                      {q \in holds \X matched : q[1] \in Answered(q[2])}}]

(* payload_responses and the loop around it: the Client's answers settle the *)
(* copies held for them, each request is stored or answers a Poll with what  *)
(* is held, and the replies go back in one payload. An error after some      *)
(* answers or some requests ends the connection; one on a returned value     *)
(* comes when the Poll's whole snapshot is claimed, but only the values up   *)
(* to it are among the holds.                                                *)
ServerReadsPayload(k) ==
    LET thread == server[k]
        frame == Head(up[k])
        received == receive_payload(frame)
        initial == thread.phase = "Respond"
        resolving == Resolving(thread.holds, received.responses)
        refused == \/ received.error
                   \/ initial /\ received.responses # <<>>
                   \/ ~ resolving.all
        settled == IF initial \/ received.error THEN {} ELSE resolving.pairs
        Left(pairs) == thread.holds \ {pair[1] : pair \in pairs}
        Taken(done) == IF received.valid THEN poll_snapshot(SubSeq(received.requests, 1, done))
                       ELSE <<>>
        Spool(pairs, claimed) == [i \in Copies |->
            IF \E pair \in pairs : pair[1].copy = i
            THEN Settles((CHOOSE pair \in pairs : pair[1].copy = i)[2])
            ELSE Claimed(claimed)[i]]
        id == <<k, "down", thread.written + 1>>
        Holds(claimed, to) == Left(settled) \cup {[copy |-> claimed[n], to |-> to, ident |-> n] :
                                                      n \in DOMAIN claimed}
        all == Len(received.requests)
        wait == thread.wait \/ (received.valid /\ \E n \in 1 .. all :
                                   RequiresReturn(received.requests[n]))
        replies == [n \in 1 .. all |-> Response(frame.id, n,
            IF received.valid /\ received.requests[n] \notin Copies THEN "Accepted"
            ELSE DispatchAnswer(received, received.requests[n]))]
        prefix == IF ~ thread.started /\ (initial \/ all > 0) THEN <<Header(current)>> ELSE <<>>
        body == IF all > 0 THEN <<Payload(id, Taken(all), replies)>> ELSE <<>>
        holds == Holds(Taken(all), id)
    IN /\ thread.phase \in {"Respond", "Replies"}
       /\ up[k] # <<>> /\ Head(up[k]).type = "Payload"
       /\ up' = [up EXCEPT ![k] = Tail(@)]
       /\ \/ /\ refused
             /\ copy' = Spool(settled, <<>>)
             /\ server' = [server EXCEPT ![k] = Ending([@ EXCEPT !.holds = Left(settled)])]
             /\ UNCHANGED <<stored, stranded, down, faults>>
          \/ /\ ~ refused
             /\ copy' = Spool(settled, Taken(all))
             /\ stored' = Dispatched(received, received.requests)
             /\ down' = Written(k, prefix \o body)
             /\ LET next == [thread EXCEPT !.holds = holds, !.wait = wait,
                                           !.written = @ + Len(body),
                                           !.started = @ \/ prefix # <<>>]
                IN server' = [server EXCEPT ![k] =
                       IF received.close \/ (~ initial /\ holds = {} /\ ~ wait)
                       THEN Ending(next) ELSE next]
             /\ UNCHANGED <<stranded, faults>>
          \/ /\ ~ refused
             /\ Fault
             /\ \E done \in 0 .. all - 1 :
                \E registered \in Len(Taken(done)) .. Len(Taken(done + 1)) :
                   LET claimed == Taken(IF registered = Len(Taken(done)) THEN done ELSE done + 1)
                       held == SubSeq(claimed, 1, registered)
                   IN /\ copy' = Spool(settled, claimed)
                      /\ stranded' = stranded \cup
                             {claimed[n] : n \in registered + 1 .. Len(claimed)}
                      /\ stored' = Dispatched(received, SubSeq(received.requests, 1, done))
                      /\ server' = [server EXCEPT ![k] =
                                       Ending([@ EXCEPT !.holds = Holds(held, <<k, "down", 0>>)])]
             /\ UNCHANGED down
          \/ \E pairs \in SUBSET settled :
                /\ pairs # settled
                /\ Fault
                /\ copy' = Spool(pairs, <<>>)
                /\ server' = [server EXCEPT ![k] = Ending([@ EXCEPT !.holds = Left(pairs)])]
                /\ UNCHANGED <<stored, stranded, down>>
       /\ UNCHANGED <<client, ended, opened, keys>>

(* The Client has finished sending. *)
ServerSeesEnd(k) ==
    /\ server[k].phase \in {"Start", "Respond", "Replies"}
    /\ up[k] = <<>> /\ <<k, "up">> \in ended
    /\ server' = [server EXCEPT ![k] = Ending(@)]
    /\ UNCHANGED <<spools, client, wires, keys, faults>>

(* The Client no longer reads, and a read or a write fails. *)
ServerLosesClient(k) ==
    /\ server[k].phase \in {"Start", "Respond", "Replies"}
    /\ <<k, "down">> \in ended
    /\ server' = [server EXCEPT ![k] = Ending(@)]
    /\ UNCHANGED <<spools, client, wires, keys, faults>>

(* release_holds: whatever is still held is deferred; a store error leaves the *)
(* rest Active. Then the connection closes.                                    *)
ServerEnds(k) ==
    LET Released(holds) == [i \in Copies |->
            IF \E h \in holds : h.copy = i THEN "Deferred" ELSE copy[i]]
    IN /\ server[k].phase = "Ending"
       /\ \/ /\ copy' = Released(server[k].holds)
             /\ UNCHANGED <<stranded, faults>>
          \/ \E released \in SUBSET server[k].holds :
                /\ released # server[k].holds
                /\ Fault
                /\ copy' = Released(released)
                /\ stranded' = stranded \cup {h.copy : h \in server[k].holds \ released}
       /\ server' = [server EXCEPT ![k] = NoThread]
       /\ ended' = ended \cup HangUp(k)
       /\ up' = [up EXCEPT ![k] = <<>>]
       /\ UNCHANGED <<stored, client, down, opened, keys>>
-----------------------------------------------------------------------------
(* What goes wrong *)

(* A connection breaks and what is in flight is lost; a part of it that still *)
(* arrives is read before the break.                                          *)
Cut(k) ==
    /\ k <= opened /\ ~ HangUp(k) \subseteq ended
    /\ Fault
    /\ up' = [up EXCEPT ![k] = <<>>]
    /\ down' = [down EXCEPT ![k] = <<>>]
    /\ ended' = ended \cup HangUp(k)
    /\ UNCHANGED <<spools, client, server, opened, keys>>

(* A payload arrives with a signature, or a Header hash, that does not match. *)
Damage(k) ==
    LET Damaged(frames, how) == <<[Head(frames) EXCEPT !.damage = how, !.id[2] = "damaged"]>>
                                    \o Tail(frames)
        Damageable(frames) == frames # <<>> /\ Head(frames).type = "Payload"
    IN /\ Fault
       /\ \E how \in {"signature", "header"} :
            \/ /\ Damageable(up[k])
               /\ up' = [up EXCEPT ![k] = Damaged(@, how)]
               /\ UNCHANGED down
            \/ /\ Damageable(down[k])
               /\ down' = [down EXCEPT ![k] = Damaged(@, how)]
               /\ UNCHANGED up
       /\ UNCHANGED <<spools, client, server, ended, opened, keys>>

Recovered(owner) == [i \in Copies |->
    IF i \in owner /\ copy[i] = "Active" THEN "Deferred" ELSE copy[i]]

(* The client's process is killed and started again, perhaps with a newer nodelist. *)
ClientRestarts ==
    /\ Fault
    /\ client' = Idle
    /\ copy' = Recovered(Items)
    /\ stranded' = stranded \ Items
    /\ IF client.conn = 0 THEN UNCHANGED <<ended, down>> ELSE Leave(client.conn)
    /\ anchor' \in {anchor, current}
    /\ UNCHANGED <<stored, server, up, opened, current, retired, pin>>

(* So is the server's, perhaps with a new key, keeping its old ones or not. One *)
(* that only listens, with no schedule of its own, recovers nothing.            *)
ServerRestarts ==
    /\ Fault
    /\ server' = [k \in Connections |-> NoThread]
    /\ \/ /\ copy' = Recovered(Held)
          /\ stranded' = stranded \ Held
       \/ /\ stranded' = stranded \cup {i \in Held : copy[i] = "Active"}
          /\ UNCHANGED copy
    /\ ended' = ended \cup UNION {HangUp(k) : k \in 1 .. opened}
    /\ up' = [k \in Connections |-> <<>>]
    /\ \/ UNCHANGED <<current, retired>>
       \/ /\ current < MaxKeys
          /\ current' = current + 1
          /\ retired' \in {retired \cup {current}, {}}
    /\ UNCHANGED <<stored, client, down, opened, pin, anchor>>

ClientStep ==
    ClientReadsHeader \/ ProbeContinuity \/ ClientReadsKey \/ ClientReadsPayload
        \/ ClientSeesEnd \/ FinishGroup

ServerStep(k) ==
    ServerStarts(k) \/ ServerReadsHeader(k) \/ ServerReadsPayload(k) \/ ServerSeesEnd(k)
        \/ ServerEnds(k)

Next ==
    \/ StartExchange
    \/ FirstContact
    \/ ClientStep
    \/ ClientTimesOut
    \/ ClientRestarts
    \/ ServerRestarts
    \/ \E k \in Connections : ServerStep(k) \/ ServerLosesClient(k) \/ Cut(k) \/ Damage(k)

Spec == Init /\ [][Next]_vars

ServerSteps == \E k \in Connections : ServerStep(k)

(* The driver thread runs, and so do the server threads; nothing has to be *)
(* dialled, and no time-out has to strike.                                 *)
FairSpec == Spec /\ WF_vars(ClientStep) /\ WF_vars(ServerSteps)
-----------------------------------------------------------------------------
(* The exchange keeps the promise of Handover: a copy is Delivered only when *)
(* the other node has stored the item, and Rejected only when it refused that *)
(* very item, whichever way it travelled, in whatever order it was sent and  *)
(* however the connection ended (outcome_for and resolve_hold act on an      *)
(* authenticated response, and dispatch answers after the item is stored);   *)
(* both are final; and an item with a duplicate identity is stored once,     *)
(* however often lost replies make its sender send it again.                 *)
Promise == INSTANCE Handover WITH
    Once <- Signed,
    Acceptable <- {i \in Copies : Verdict[i] = "Accepted"},
    Refused <- {i \in Copies : Verdict[i] = "Permanent"},
    state <- [i \in Copies |-> CASE copy[i] \in {"Queued", "Deferred"} -> "Waiting"
                                 [] copy[i] = "Active" -> "Tried"
                                 [] OTHER -> copy[i]]
ImplementsHandover == Promise!Spec

(* An Active copy belongs to exactly one exchange that will settle it: the     *)
(* client's group, or the holds of one server thread, even while the thread of *)
(* an abandoned connection lives on. The exceptions are the ones the code has: *)
(* an error between the claims of a group, on a value of a Poll's snapshot     *)
(* before its last, or while outcomes are written, and a start of a node that  *)
(* only listens. A copy they leave Active stays so until its node recovers.    *)
ActiveIsHeld ==
    LET holding(i) == {k \in Connections : \E h \in server[k].holds : h.copy = i}
        grouped(i) == \E n \in DOMAIN client.group : client.group[n] = i
    IN /\ \A i \in Items : copy[i] = "Active" <=> (grouped(i) /\ client.phase # "Idle") \/ i \in stranded
       /\ \A i \in Held : /\ Cardinality(holding(i)) <= 1
                           /\ copy[i] = "Active" <=> holding(i) # {} \/ i \in stranded

(* The pin changes only to a key the server has, and away from the key in      *)
(* effect only to a later one: no old or refused answer of a probe takes the   *)
(* client back.                                                                *)
PinAdvances ==
    [][pin' # pin => pin'.current <= current /\ EffectiveKey' > EffectiveKey]_vars

(* Every exchange ends and every hold is released, with no time-out needed:    *)
(* neither side waits for a frame the other will not send.                     *)
ExchangeEnds ==
    /\ []<>(client.phase = "Idle")
    /\ \A k \in Connections : []<>(server[k].phase = "Ended")
=============================================================================
