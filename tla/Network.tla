------------------------------ MODULE Network ------------------------------
(***************************************************************************)
(* Several TITH systems exchanging mail: what one submits or forwards is    *)
(* queued in its spool, and the next hop stores, relays or refuses it       *)
(* (tithd's accept.rs over the Submission, Items and Router modules).       *)
(*                                                                         *)
(* The spool and the inbound store are the sequences of jobs and records    *)
(* they hold; their claims and transactions are those of OutboundSpool and  *)
(* InboundSpool, the frames of an exchange those of Transfer.  An exchange  *)
(* here is one item and its answer, which may be lost.                      *)
(***************************************************************************)
EXTENDS Submission

CONSTANTS Scenarios,     \* records of the systems there are, by name, and of the
                         \* requests applications submit, each once
          Reroutes,      \* the reroutes an operator may ask for
          MaxLost,       \* answers that are lost
          MaxReroutes    \* reroutes that are made

VARIABLES systems,       \* name -> the system, as Submission has it, and its
                         \* local identity (local) and whether it listens
          spool,         \* system -> sequence of jobs
          inbound,       \* system -> sequence of accepted items
          result,        \* request -> the outcome of its submission
          lost, rerouted \* how many answers were lost; the items rerouted

vars == <<systems, spool, inbound, result, lost, rerouted>>

Names == DOMAIN systems
Local(s) == signer(systems[s], systems[s].local)

-----------------------------------------------------------------------------
(* Accepting an item (accept.rs).                                           *)

relay_rule(n, routes, peer, signer_, destination) ==
  Only({
  LET matches(selector, identity) == selector_matches(selector, identity, n.config, n.nodelist, keys)
      first == FirstThat(routes.relay, LAMBDA r :
                 /\ matches(r.from, peer) /\ matches(r.origin, signer_)
                 /\ matches(r.destination, destination))
  IN IF first = 0 THEN [action |-> "Deny", on_failure |-> None] ELSE routes.relay[first]
  : keys \in {AcceptanceKeys(n)}})

(* via_identities: a Via whose key is not known is left out.                *)
via_identities(n, item) ==
  Only({
  LET named == item_vias(item)
      known == SelectSeq(named, LAMBDA v : IsAnonymous(v.address) \/ KeyIn(keys, v.address) # NoKey)
  IN [i \in 1..Len(known) |->
        IF IsAnonymous(known[i].address) THEN known[i]
        ELSE Identity(known[i].address, keys[known[i].address])]
  : keys \in {AcceptanceKeys(n)}})

(* area_allowed: Receive-From names the peer. *)
area_allowed(n, v, peer) ==
  \E name \in DOMAIN n.config.peers :
    /\ n.config.peers[name].address = peer.address
    /\ IsAnonymous(peer.address) => n.config.peers[name].key = peer.key
    /\ name \in Area(n, n.local, v.area, v.kind = "File").receive_from

(* prepare_relay: the first check that fails refuses; what passes is a job. *)
prepare_relay(n, v, peer, request_identifier) ==
  Only({Only({Only({Only({Only({
  LET item   == forward_item(v.raw, signer(n, n.local), request_identifier, {})
      policies == failure_policies(n.config, routes, v.signed.signer, routed.next_hop, routed.rule,
                                   rule.on_failure, n.nodelist, keys)
      outcome == FirstFailure(<<Require(v.destination # NoIdentity, "Permanent"),
                                Require(v.signed # NoSigned, "Permanent"),
                                HasRoutes(n, n.local),
                                Require(rule.action = "Allow", "Permanent"),
                                Require(routed.outcome = "ok", "Permanent"),
                                Require(item # NotBuilt, "Permanent")>>)
  IN Built(outcome, Job("NetMail", v.destination.address, None, n.local, item,
                        <<Delivery(n.local, routed.next_hop, routed.passive, policies)>>, 0))
  : routed \in {route_netmail(n.config, routes, v.destination, vias, n.nodelist, keys)}})
  : vias \in {via_identities(n, v.raw)}})
  : rule \in {relay_rule(n, routes, peer, v.signed.signer, v.destination)}})
  : routes \in {routes_for(n, n.local)}})
  : keys \in {AcceptanceKeys(n)}})

(* Under which application and idempotency key a job is in the spool.       *)
Key(application, request, signed) ==
  [application |-> application, request |-> request, signed |-> signed]

(* Mutant of relay_identity: a relay is known by the bytes it would queue, new each time. *)
RelayKeyFromBytes(signed, count) == Key("tithd-relay", count, signed)

(* relay_identity *)
relay_identity(signed, count) == Key("tithd-relay", 0, signed)

Queued(job, key) ==
  [job EXCEPT !.deliveries = [i \in 1..Len(@) |-> @[i] @@ [state |-> "Queued"]]] @@ [key |-> key]

(* commit_batch with one identity: a key that is there already adds nothing. *)
Commit(jobs, job, key) ==
  IF \E i \in 1..Len(jobs) : jobs[i].key = key THEN jobs ELSE Append(jobs, Queued(job, key))

Effect(answer, jobs, stored) == [answer |-> answer, spool |-> jobs, inbound |-> stored]

(* Mutant of relay: an item the spool already has is taken for a conflict. *)
RelayRefusingAgain(n, v, peer, jobs, stored) ==
  Only({
  LET key == relay_identity(v.signed, Len(jobs))
  IN IF prepared.outcome # "ok" \/ \E i \in 1..Len(jobs) : jobs[i].key = key
       THEN Effect("Permanent", jobs, stored)
       ELSE Effect("Accepted", Commit(jobs, prepared.job, key), stored)
  : prepared \in {prepare_relay(n, v, peer, Len(jobs) + 1)}})

(* Acceptance::relay: an item relayed before is accepted again and adds no Job. *)
relay(n, v, peer, jobs, stored) ==
  Only({
    IF prepared.outcome # "ok" THEN Effect(prepared.outcome, jobs, stored)
    ELSE Effect("Accepted", Commit(jobs, prepared.job, relay_identity(v.signed, Len(jobs))), stored)
  : prepared \in {prepare_relay(n, v, peer, Len(jobs) + 1)}})

(* InboundStore::accept: a signed item is stored once. *)
Accept(n, v, peer, jobs, stored) ==
  LET duplicate == v.signed # NoSigned /\ \E i \in 1..Len(stored) : stored[i].signed = v.signed
      record    == [id |-> Len(stored) + 1, item |-> v.raw, peer |-> peer, local |-> n.local,
                    authentication |-> v.authentication, signed |-> v.signed, forwarded |-> FALSE]
  IN Effect("Accepted", jobs, IF duplicate THEN stored ELSE Append(stored, record))

(* dispatch, after receive_payload has validated the item.                  *)
dispatch(n, item, peer, jobs, stored) ==
  Only({Only({
     CASE ~v.valid -> Effect("Permanent", jobs, stored)
       [] v.valid /\ v.kind = "NetMail" /\ v.destination # signer(n, n.local) ->
            relay(n, v, peer, jobs, stored)
       [] v.valid /\ v.kind \in {"EchoMail", "File"} /\ v.area # None /\ ~area_allowed(n, v, peer) ->
            Effect("Permanent", jobs, stored)
       [] OTHER -> Accept(n, v, peer, jobs, stored)
  : v \in {validate_item(item, keys)}})
  : keys \in {AcceptanceKeys(n)}})

-----------------------------------------------------------------------------
Init ==
  /\ \E scenario \in Scenarios :
       /\ systems = scenario.systems
       /\ result = [r \in scenario.requests |-> None]
  /\ spool = [s \in Names |-> <<>>]
  /\ inbound = [s \in Names |-> <<>>]
  /\ lost = 0
  /\ rerouted = {}

(* submit with one request: the job of its kind, committed under the        *)
(* application's key.                                                       *)
build_job(s, r, request_identifier) ==
  CASE r.kind = "Message" -> build_message_job(systems[s], r.body, request_identifier)
    [] r.kind = "File" -> build_file_job(systems[s], r.body, request_identifier)
    [] r.kind = "FileRequest" -> build_file_request_job(systems[s], r.body, request_identifier)

Submit(r) ==
  LET s == r.system
  IN /\ result[r] = None
     /\ \E built \in {build_job(s, r, Len(spool[s]) + 1)} :
          /\ result' = [result EXCEPT ![r] = built.outcome]
          /\ spool' = IF built.outcome # "ok" THEN spool
                      ELSE [spool EXCEPT ![s] = Commit(@, built.job, Key("application", r.name, NoSigned))]
     /\ UNCHANGED <<systems, inbound, lost, rerouted>>

(* An application forwards an area item it has claimed: the job is queued   *)
(* and the record says so in one transaction.                               *)
Forward(s, i) ==
  LET record == inbound[s][i]
  IN /\ ~record.forwarded
     /\ \E built \in {build_forward_job(systems[s], record, Len(spool[s]) + 1)} :
          /\ built.outcome = "ok"
          /\ spool' = [spool EXCEPT ![s] = Commit(@, built.job, Key("forward", record.id, NoSigned))]
     /\ inbound' = [inbound EXCEPT ![s][i].forwarded = TRUE]
     /\ UNCHANGED <<systems, result, lost, rerouted>>

(* The two ends know each other's keys. *)
Knows(s, identity) ==
  IsAnonymous(identity.address) \/ PinnedKey(systems[s], identity.address) = identity.key

NextHop(copy) == Identity(copy.next_hop, copy.key)
Meets(s, t, copy) ==
  /\ same_system_as(Local(t), NextHop(copy)) /\ Knows(s, Local(t))
  /\ Knows(t, signer(systems[s], copy.local))

(* outcome_for and is_relay_delivery: a permanent refusal is RelayDenied    *)
(* where the next hop was to relay, and the copy's policy says what then.   *)
Settled(s, job, copy, answer) ==
  Only({Only({
  LET relayed == v.kind = "NetMail" /\ ~same_system_as(v.destination, NextHop(copy))
  IN CASE answer = "Accepted" -> "Delivered"
       [] answer = "Permanent" -> copy.policies[IF relayed THEN "RelayDenied" ELSE "Rejected"]
       [] answer = "Temporary" -> copy.state
  : v \in {validate_item(job.item, keys)}})
  : keys \in {AcceptanceKeys(systems[s])}})

(* One item of s is taken by t, numbered as the first of its Bundle, and s  *)
(* learns the answer or loses it.                                           *)
Transfer(s, j, c, t, answered) ==
  LET job    == spool[s][j]
      copy   == job.deliveries[c]
      me     == signer(systems[s], copy.local)
  IN /\ copy.state = "Queued" /\ Meets(s, t, copy)
     /\ answered \/ lost < MaxLost
     /\ \E effect \in {dispatch(systems[t], set_request_identifier(job.item, 1), me, spool[t], inbound[t])} :
          /\ spool' = [[spool EXCEPT ![t] = effect.spool] EXCEPT ![s][j].deliveries[c].state =
                         IF answered THEN Settled(s, job, copy, effect.answer) ELSE @]
          /\ inbound' = [inbound EXCEPT ![t] = effect.inbound]
     /\ lost' = IF answered THEN lost ELSE lost + 1
     /\ UNCHANGED <<systems, result, rerouted>>

(* s calls t, for a copy that may be sent ... *)
Deliver(s, j, c, t, answered) ==
  /\ systems[t].listens /\ spool[s][j].deliveries[c].mode = "Active"
  /\ Transfer(s, j, c, t, answered)

(* ... or t calls s and polls: mode and class do not matter then. *)
Poll(s, j, c, t, answered) == systems[s].listens /\ Transfer(s, j, c, t, answered)

(* An item is known by its Signature from end to end. *)
NoToken == NoSigned.signature
Token(item) == First(Values(item.children, "SIGNATURE"), NoToken)

(* reroute: the one copy of a NetMail that is not settled gets another next *)
(* hop, or goes again after it failed.                                      *)
Reroute(s, j, r) ==
  LET job == spool[s][j]
  IN /\ r.system = s /\ Cardinality(rerouted) < MaxReroutes
     /\ Len(job.deliveries) = 1 /\ job.deliveries[1].state \notin {"Delivered", "Cancelled"}
     /\ \E new \in {reroute_delivery(systems[s], job, r.hop, r.override)} :
          /\ new.outcome = "ok"
          /\ spool' = [spool EXCEPT ![s][j].deliveries = <<new.list[1] @@ [state |-> "Queued"]>>]
     /\ rerouted' = rerouted \cup {Token(job.item)}
     /\ UNCHANGED <<systems, inbound, result, lost>>

Next ==
  \/ \E r \in DOMAIN result : Submit(r)
  \/ \E s \in Names : \E i \in 1..Len(inbound[s]) : Forward(s, i)
  \/ \E s, t \in Names : \E j \in 1..Len(spool[s]) : \E c \in 1..Len(spool[s][j].deliveries) :
       \E answered \in BOOLEAN : Deliver(s, j, c, t, answered) \/ Poll(s, j, c, t, answered)
  \/ \E s \in Names : \E j \in 1..Len(spool[s]) : \E r \in Reroutes : Reroute(s, j, r)

Spec == Init /\ [][Next]_vars

-----------------------------------------------------------------------------
(* Properties.                                                              *)

JobOf(r) == CHOOSE job \in {spool[r.system][j] : j \in 1..Len(spool[r.system])} :
              job.key = Key("application", r.name, NoSigned)
Mail(kinds) == {r \in DOMAIN result : result[r] = "ok" /\ JobOf(r).kind \in kinds}

Arrived(s, token) == \E i \in 1..Len(inbound[s]) : Token(inbound[s][i].item) = token
Failed(token) ==
  \E s \in Names : \E j \in 1..Len(spool[s]) :
    /\ Token(spool[s][j].item) = token
    /\ \E c \in 1..Len(spool[s][j].deliveries) :
         spool[s][j].deliveries[c].state \in {"DeadLetter", "Discard"}

(* A NetMail does not have two fates: one that reached its destination is   *)
(* dead-lettered nowhere, however many systems relayed it and however many  *)
(* of their answers were lost.  (An operator who reroutes a copy whose      *)
(* answer was lost can send the item two ways.)                             *)
OneFate ==
  \A r \in Mail({"NetMail"}) :
    LET token == Token(JobOf(r).item)
    IN token \in rerouted \/ ~(Failed(token) /\ \E s \in Names : Arrived(s, token))

(* A system relays an item once, whichever way and however often it comes.  *)
RelayedOnce ==
  \A s \in Names : \A i, j \in 1..Len(spool[s]) :
    /\ spool[s][i].key.application = "tithd-relay" /\ spool[s][j].key.application = "tithd-relay"
    /\ Token(spool[s][i].item) = Token(spool[s][j].item)
    => i = j

(* Every item that is queued or stored anywhere still validates, can be     *)
(* read, has the signature some application asked for, and verifies: what   *)
(* building, relaying and forwarding do to the unsigned suffix leaves the   *)
(* rest alone.                                                              *)
IntactFor(n, item) ==
  Only({Only({
     /\ v.valid /\ Readable(item, keys)
     /\ v.kind # "FileRequest" =>
          /\ Authenticated(v.authentication)
          /\ \E r \in DOMAIN result : result[r] = "ok" /\ Token(JobOf(r).item) = Token(item)
  : v \in {validate_item(item, keys)}})
  : keys \in {AcceptanceKeys(n)}})
ItemsIntact ==
  \A s \in Names :
    /\ \A j \in 1..Len(spool[s]) : IntactFor(systems[s], spool[s][j].item)
    /\ \A i \in 1..Len(inbound[s]) : IntactFor(systems[s], inbound[s][i].item)

(* Nothing is left to do: every request is answered, no copy that could be  *)
(* exchanged waits, every area item that can be is forwarded.  As a request *)
(* is submitted, an item forwarded, relayed and stored, and a copy settled  *)
(* only once, fair schedules and applications lead there.                   *)
Reaches(s, copy, t) ==
  Meets(s, t, copy) /\ (systems[s].listens \/ (systems[t].listens /\ copy.mode = "Active"))
Quiet ==
  /\ \A r \in DOMAIN result : result[r] # None
  /\ \A s \in Names : \A j \in 1..Len(spool[s]) : \A c \in 1..Len(spool[s][j].deliveries) :
       spool[s][j].deliveries[c].state = "Queued" =>
         \A t \in Names : ~Reaches(s, spool[s][j].deliveries[c], t)
  /\ \A s \in Names : \A i \in 1..Len(inbound[s]) :
       inbound[s][i].forwarded \/ build_forward_job(systems[s], inbound[s][i], 1).outcome # "ok"

(* Every NetMail that was accepted for delivery has arrived or was dead-    *)
(* lettered when nothing is left to do: no hop says Accepted and drops it.  *)
NetMailResolved ==
  Quiet => \A r \in Mail({"NetMail"}) :
    LET job == JobOf(r)
    IN Failed(Token(job.item)) \/ \E s \in Names : Local(s).address = job.target /\ Arrived(s, Token(job.item))

(* The systems the Send-To links of an area lead to. *)
LinksFrom(s, area, file_area) ==
  LET n == systems[s]
      links == Area(n, n.local, area, file_area).send_to
  IN {t \in Names : \E i \in 1..Len(links) :
        same_system_as(Local(t), Identity(n.config.peers[links[i]].address, n.config.peers[links[i]].key))}
ReachedWithin(s, area, file_area) ==
  LET after[k \in Nat] == IF k = 0 THEN {s}
                          ELSE after[k - 1] \cup UNION {LinksFrom(t, area, file_area) : t \in after[k - 1]}
  IN after[Cardinality(Names)]

(* An area item has come to every system the links lead to when nothing is  *)
(* left to do: SeenBy and the incoming peer exclude only who has it or      *)
(* gets it.                                                                 *)
AreaSpreads ==
  Quiet => \A r \in Mail({"EchoMail", "File"}) :
    LET job == JobOf(r)
    IN job.area # None =>
         \A t \in ReachedWithin(r.system, job.area, job.kind = "File") \ {r.system} :
           Arrived(t, Token(job.item))

=============================================================================
