---------------------------- MODULE Submission ----------------------------
(***************************************************************************)
(* The submission engine of tithd (submission.rs): how a submitted Message, *)
(* File, FileRequest, Forward or Reroute becomes an outbound job.           *)
(*                                                                         *)
(* A system n has its configuration, its nodelist, its key pins and its     *)
(* signers (the local identities, by reference).  An outcome is "ok" or the *)
(* kind of BuildFailure; where several checks can fail, the first decides.  *)
(***************************************************************************)
EXTENDS Items

Ref(peer, a) == [peer |-> peer, address |-> a]
AtPeer(name) == Ref(name, NoAddr)
AtAddress(a) == Ref(None, a)
NoRef == Ref(None, NoAddr)

FirstFailure(outcomes) ==
  Only({
    IF failed = 0 THEN "ok" ELSE outcomes[failed]
  : failed \in {FirstThat(outcomes, LAMBDA o : o # "ok")}})
Require(condition, failure) == IF condition THEN "ok" ELSE failure

-----------------------------------------------------------------------------
(* Keys.                                                                    *)

ListedKeys(n) ==
  [a \in {e.address : e \in {x \in Entries(n.nodelist) : x.tith.key # NoKey}} |->
     public_key(n.nodelist, a)]

(* KeyPinStore::resolve: a pin stands while the nodelist still says what it *)
(* said when the pin was made.                                              *)
PinnedKey(n, a) ==
  LET listed == public_key(n.nodelist, a)
  IN IF a \notin DOMAIN n.pins THEN listed
     ELSE IF listed = NoKey \/ n.pins[a].anchor = listed THEN n.pins[a].current ELSE listed

(* Acceptance::public_key *)
AcceptanceKeys(n) ==
  LET known == {e.address : e \in Entries(n.nodelist)} \cup DOMAIN n.pins
  IN [a \in {x \in known : PinnedKey(n, x) # NoKey} |-> PinnedKey(n, a)]

PeerAddresses(n) == {n.config.peers[p].address : p \in DOMAIN n.config.peers}

(* SubmissionEngine::submit: the keys of the peers and of the addresses the *)
(* request names, read before the transaction.                              *)
effective_keys(n, named) ==
  [a \in {x \in PeerAddresses(n) \cup named : ~IsAnonymous(x) /\ PinnedKey(n, x) # NoKey} |->
     PinnedKey(n, a)]
key_lookup(n, effective) ==
  Only({
    [a \in DOMAIN effective \cup DOMAIN listed |->
       IF a \in DOMAIN effective THEN effective[a] ELSE listed[a]]
  : listed \in {ListedKeys(n)}})

(* resolve_identity_with *)
Resolved(outcome, identity) == [outcome |-> outcome, identity |-> identity]
resolve_identity_with(n, ref, effective) ==
  LET key(x) == IF x \in DOMAIN effective THEN effective[x] ELSE public_key(n.nodelist, x)
      known == ref.peer \in DOMAIN n.config.peers
      peer  == IF known THEN n.config.peers[ref.peer] ELSE NoPeer
      a     == IF ref.peer # None THEN peer.address ELSE ref.address
      found == CASE IsAnonymous(a) -> Resolved("ok", Identity(a, peer.key))
                 [] ~IsAnonymous(a) /\ key(a) # NoKey -> Resolved("ok", Identity(a, key(a)))
                 [] OTHER -> Resolved("Permanent", NoIdentity)
  IN IF \/ ref.peer # None /\ ~known
        \/ ref.peer = None /\ (a = NoAddr \/ IsAnonymous(a))
       THEN Resolved("Invalid", NoIdentity) ELSE found

has_usable_endpoint(n, ref) ==
  IF ref.peer # None
    THEN ref.peer \in DOMAIN n.config.peers /\ n.config.peers[ref.peer].endpoints > 0
    ELSE UsableEndpoints(n.nodelist, ref.address)

signer(n, ref) == IF ref \in DOMAIN n.signers THEN n.signers[ref] ELSE NoIdentity
SignerFor(n, ref) == Resolved(Require(ref \in DOMAIN n.signers, "Invalid"), signer(n, ref))

NoRoutes == [routes |-> <<>>, relay |-> <<>>, failures |-> <<>>, failure_default |-> "DeadLetter"]
routes_for(n, local) == IF local \in DOMAIN n.config.routes THEN n.config.routes[local] ELSE NoRoutes
HasRoutes(n, local) == Require(local \in DOMAIN n.config.routes, "Permanent")

-----------------------------------------------------------------------------
(* Deliveries.                                                              *)

Delivery(local, identity, passive, policies) ==
  [local |-> local, next_hop |-> identity.address,
   key |-> IF IsAnonymous(identity.address) THEN identity.key ELSE NoKey,
   mode |-> IF passive THEN "Passive" ELSE "Active", policies |-> policies]

convert_policies(configured, override) ==
  IF override = None THEN configured ELSE [kind \in DOMAIN configured |-> override]

Deliveries(outcome, list) == [outcome |-> outcome, list |-> list]

Area(n, local, name, file_area) ==
  LET found == IF local \notin DOMAIN n.config.areas THEN <<>>
               ELSE SelectSeq(n.config.areas[local], LAMBDA a : a.file_area = file_area /\ a.name = name)
  IN IF found = <<>> THEN [send_to |-> <<>>, receive_from |-> {}] ELSE found[1]

(* area_deliveries: a copy for every Send-To link, in their order.          *)
area_deliveries(n, local, name, file_area, effective) ==
  Only({Only({Only({
    LET copy(i) == Delivery(local, to[i].identity, n.config.peers[links[i]].endpoints = 0,
                            failure_policies(n.config, routes_for(n, local), signer(n, local),
                                             to[i].identity, 0, None, n.nodelist, keys))
        outcome == FirstFailure(<<Require(links # <<>>, "Permanent"), HasRoutes(n, local)>>
                                  \o [i \in 1..Len(links) |-> to[i].outcome])
    IN IF outcome = "ok" THEN Deliveries("ok", [i \in 1..Len(links) |-> copy(i)])
       ELSE Deliveries(outcome, <<>>)
  : keys \in {key_lookup(n, effective)}})
  : to \in {[i \in 1..Len(links) |-> resolve_identity_with(n, AtPeer(links[i]), effective)]}})
  : links \in {Area(n, local, name, file_area).send_to}})

(* direct_delivery: active exactly when there is an endpoint, unless a mode *)
(* is asked for.                                                            *)
direct_delivery(n, local, to, effective) ==
  Only({
  LET usable_ == has_usable_endpoint(n, to.ref)
      outcome == FirstFailure(<<target.outcome, Require(to.mode = "Active" => usable_, "Permanent"),
                                HasRoutes(n, local)>>)
      policies == failure_policies(n.config, routes_for(n, local), signer(n, local), target.identity,
                                   0, None, n.nodelist, key_lookup(n, effective))
  IN IF outcome # "ok" THEN Deliveries(outcome, <<>>)
     ELSE Deliveries("ok",
            <<Delivery(local, target.identity, to.mode = "Passive" \/ (to.mode = None /\ ~usable_),
                       convert_policies(policies, to.override))>>)
  : target \in {resolve_identity_with(n, to.ref, effective)}})

(* The copy of a NetMail: routed, or to the next hop the submission names.  *)
(* A submission is routed as an item that has been nowhere.                 *)
next_hop_delivery(n, local, destination, hop, override, keys, effective) ==
  Only({Only({
  LET target == IF hop.kind = "Route" THEN routed.next_hop ELSE named.identity
      outcome == FirstFailure(
        <<HasRoutes(n, local),
          IF hop.kind = "Route" THEN Require(routed.outcome = "ok", "Permanent")
          ELSE FirstFailure(<<Require(hop.kind = "Active" => has_usable_endpoint(n, hop.to), "Permanent"),
                              named.outcome>>)>>)
      policies == failure_policies(n.config, routes_for(n, local), signer(n, local), target,
                                   IF hop.kind = "Route" THEN routed.rule ELSE 0, None, n.nodelist, keys)
  IN IF outcome # "ok" THEN Deliveries(outcome, <<>>)
     ELSE Deliveries("ok", <<Delivery(local, target,
                                      IF hop.kind = "Route" THEN routed.passive ELSE hop.kind = "Passive",
                                      convert_policies(policies, override))>>)
  : named \in {resolve_identity_with(n, hop.to, effective)}})
  : routed \in {route_netmail(n.config, routes_for(n, local), destination, <<>>, n.nodelist, keys)}})

-----------------------------------------------------------------------------
(* Who an item is from.                                                     *)

Provenance(outcome, origin, identity) ==
  [outcome |-> outcome, origin |-> origin, signer |-> identity]

(* item_provenance: a local signer, for itself or as the SignedOrigin of an *)
(* address that has no key of its own.                                      *)
item_provenance(n, origin, signed_origin, effective) ==
  IF signed_origin = NoRef
    THEN Provenance(SignerFor(n, origin).outcome, signer(n, origin).address, signer(n, origin))
    ELSE Provenance(
           FirstFailure(<<Require(/\ origin.peer = None /\ origin.address # NoAddr
                                  /\ ~IsAnonymous(origin.address)
                                  /\ origin.address \notin DOMAIN effective, "Invalid"),
                          SignerFor(n, signed_origin).outcome>>),
           origin.address, signer(n, signed_origin))

(* retained_provenance: someone else's signature, carried by a legacy       *)
(* message.                                                                 *)
retained_provenance(m, effective) ==
  LET origin == m.origin.address
      signed == m.signed_origin.address
      inline == m.retained.key # NoKey
      own    == FirstFailure(<<Require(~inline, "Invalid"),
                               Require(origin \in DOMAIN effective, "Permanent")>>)
      other  == FirstFailure(<<Require(origin \notin DOMAIN effective, "Invalid"),
                               Require(signed # NoAddr /\ IsAnonymous(signed) = inline, "Invalid"),
                               Require(IsAnonymous(signed) \/ signed \in DOMAIN effective, "Permanent")>>)
      usable_ == m.origin.peer = None /\ origin # NoAddr /\ ~IsAnonymous(origin)
  IN IF ~usable_ THEN Provenance("Invalid", NoAddr, NoIdentity)
     ELSE IF m.signed_origin = NoRef THEN Provenance(own, origin, Identity(origin, KeyIn(effective, origin)))
     ELSE Provenance(other, origin,
                     Identity(signed, IF IsAnonymous(signed) THEN m.retained.key ELSE KeyIn(effective, signed)))

(* message_local_identity: the one asked for, the only one, or the only one *)
(* that could route or distribute the message.                              *)
message_local_identity(n, m, effective) ==
  Only({Only({
  LET able(ref) ==
        IF m.kind = "NetMail"
          THEN /\ ref \in DOMAIN n.config.routes
               /\ route_netmail(n.config, n.config.routes[ref], destination.identity, <<>>,
                                n.nodelist, keys).outcome = "ok"
          ELSE /\ ref \in DOMAIN n.config.areas
               /\ \E i \in 1..Len(n.config.areas[ref]) :
                    ~n.config.areas[ref][i].file_area /\ n.config.areas[ref][i].name = m.area
      candidates == IF Cardinality(DOMAIN n.signers) = 1 THEN DOMAIN n.signers
                    ELSE {ref \in DOMAIN n.signers : able(ref)}
      chosen == IF m.local # NoRef THEN m.local
                ELSE IF Cardinality(candidates) = 1 THEN CHOOSE ref \in candidates : TRUE ELSE NoRef
  IN [outcome |-> IF /\ m.local = NoRef /\ m.kind = "NetMail" /\ Cardinality(DOMAIN n.signers) # 1
                     /\ destination.outcome # "ok"
                    THEN destination.outcome ELSE SignerFor(n, chosen).outcome,
      local |-> chosen]
  : keys \in {key_lookup(n, effective)}})
  : destination \in {resolve_identity_with(n, m.destination, effective)}})

-----------------------------------------------------------------------------
(* ingest_source: what can be wrong with a file that is copied in.          *)
ingest_source(source, attachment) ==
  FirstFailure(<<Require(source.copied /\ source.path, "Invalid"),
                 Require(source.state # "missing", "Temporary"),
                 Require(source.state # "directory", "Invalid"),
                 Require(source.state # "changing", "Temporary"),
                 Require(source.expected, "Invalid"),
                 Require(source.filename = "generate" => attachment, "Invalid"),
                 Require(source.filename # "path", "Invalid")>>)

(* A generated name is unique to the job and the attachment's place.        *)
Ingested(source) == [filename |-> IF source.filename = "generate" THEN "plain" ELSE source.filename,
                     timestamp |-> source.timestamp, contents |-> source.contents,
                     metadata |-> source.metadata, area |-> None]
DistinctNames(sources) ==
  \A i, j \in 1..Len(sources) :
    i # j /\ sources[i].filename # "generate" => sources[i].filename # sources[j].filename

(* message_text: the last paragraph is ended and every line break is LF.    *)
message_text(text) == IF text \in {"unterminated", "cr"} THEN "terminated" ELSE text

-----------------------------------------------------------------------------
(* Jobs.  A job that is not built has only an outcome.                      *)

NoJob == [kind |-> None, target |-> NoAddr, area |-> None, local |-> NoRef, item |-> NotBuilt,
          deliveries |-> <<>>, forwards |-> 0]
Job(kind, target, area, local, item, deliveries, forwards) ==
  [kind |-> kind, target |-> target, area |-> area, local |-> local, item |-> item,
   deliveries |-> deliveries, forwards |-> forwards]
Built(outcome, job) == [outcome |-> outcome, job |-> IF outcome = "ok" THEN job ELSE NoJob]

(* The item a builder returned, if it validates. *)
Constructed(item, keys) == Require(item # NotBuilt /\ validate_item(item, keys).valid, "Invalid")

build_message_job(n, m, request_identifier) ==
  LET netmail  == m.kind = "NetMail"
      named    == {m.origin.address, m.signed_origin.address, m.destination.address} \ {NoAddr}
      retained == m.retained.signature # NoSigned.signature
      bare     == m.retained.key = NoKey /\ m.retained.vias = <<>> /\ m.retained.seen_by = {}
  IN
  Only({Only({Only({Only({Only({Only({
  LET me     == signer(n, local.local)
      before == FirstFailure(
        <<local.outcome, Require(retained \/ bare, "Invalid"), provenance.outcome>>
          \o [i \in 1..Len(m.sources) |-> ingest_source(m.sources[i], TRUE)]
          \o <<Require(DistinctNames(m.sources), "Invalid"),
               IF netmail THEN destination.outcome ELSE "ok",
               deliveries.outcome,
               Require(\A i \in 1..Len(m.kludges) : m.kludges[i] # "TITHSIG", "Invalid")>>)
      data == [destination |-> IF netmail THEN destination.identity ELSE NoIdentity,
               area |-> IF netmail THEN None ELSE m.area,
               timestamp |-> m.timestamp, subject |-> m.subject,
               text |-> IF retained THEN m.text ELSE message_text(m.text),
               attachments |-> [i \in 1..Len(m.sources) |-> Ingested(m.sources[i])],
               options |-> m.options, kludges |-> m.kludges]
      mine == IF netmail \/ IsAnonymous(me.address) THEN {} ELSE {me.address}
      suffix == [existing_vias |-> m.retained.vias, local_via |-> me,
                 request_identifier |-> request_identifier,
                 seen_by |-> IF retained THEN m.retained.seen_by ELSE mine]
  IN
  Only({
    Built(IF before # "ok" THEN before ELSE Constructed(item, keys),
          Job(m.kind, IF netmail THEN destination.identity.address ELSE NoAddr,
              data.area, local.local, item, deliveries.list, 0))
  : item \in {IF retained THEN build_retained_message(data, provenance, m.retained.signature, suffix)
              ELSE build_originated_message(data, provenance, provenance.signer.key, suffix)}})
  : deliveries \in {IF netmail THEN next_hop_delivery(n, local.local, destination.identity, m.next_hop, m.override, keys, effective)
                    ELSE area_deliveries(n, local.local, m.area, FALSE, effective)}})
  : destination \in {resolve_identity_with(n, m.destination, effective)}})
  : provenance \in {IF retained THEN retained_provenance(m, effective)
                    ELSE item_provenance(n, m.origin, m.signed_origin, effective)}})
  : local \in {message_local_identity(n, m, effective)}})
  : keys \in {key_lookup(n, effective)}})
  : effective \in {effective_keys(n, named)}})

(* build_file_job: to the links of a file area, or to one peer.             *)
build_file_job(n, f, request_identifier) ==
  LET local == IF f.signed_origin = NoRef THEN f.origin ELSE f.signed_origin
      data  == [Ingested(f.source) EXCEPT !.area = f.area]
  IN
  Only({Only({Only({
  LET me     == provenance.signer
      item   == build_originated_file(data, provenance, me.key, request_identifier,
                  IF f.area = None \/ IsAnonymous(me.address) THEN {} ELSE {me.address})
      before == FirstFailure(<<provenance.outcome, ingest_source(f.source, FALSE), deliveries.outcome>>)
  IN Built(IF before # "ok" THEN before ELSE Constructed(item, ListedKeys(n)),
           Job(IF f.area = None THEN "PeerFile" ELSE "File", deliveries.list[1].next_hop, f.area, local,
               item, deliveries.list, 0))
  : deliveries \in {IF f.area # None THEN area_deliveries(n, local, f.area, TRUE, effective)
                    ELSE direct_delivery(n, local, f.to, effective)}})
  : provenance \in {item_provenance(n, f.origin, f.signed_origin, effective)}})
  : effective \in {effective_keys(n, {f.origin.address, f.signed_origin.address} \ {NoAddr})}})

build_file_request_job(n, r, request_identifier) ==
  Only({
  LET item   == build_file_request(r.filename, r.newer_than, request_identifier)
      before == FirstFailure(<<SignerFor(n, r.origin).outcome, Require(r.filename # "path", "Invalid"),
                               deliveries.outcome>>)
  IN Built(IF before # "ok" THEN before ELSE Constructed(item, ListedKeys(n)),
           Job("FileRequest", deliveries.list[1].next_hop, None, r.origin, item, deliveries.list, 0))
  : deliveries \in {direct_delivery(n, r.origin, r.to, effective_keys(n, {}))}})

(* Mutant of ForwardTo: the whole net of the incoming peer is taken for the peer. *)
ForwardAbroad(deliveries, peer, seen) ==
  SelectSeq(deliveries, LAMBDA d : d.next_hop.net # peer.address.net /\ d.next_hop \notin seen)

(* The copies a forwarded item gets: none to where it came from, told by    *)
(* the address, and none to where it has been seen.                         *)
ForwardTo(deliveries, peer, seen) ==
  SelectSeq(deliveries, LAMBDA d : d.next_hop # peer.address /\ d.next_hop \notin seen)

(* build_forward_job: an inbound item that is claimed goes on to the links  *)
(* of its area, but not to where it came from or has been seen.             *)
build_forward_job(n, inbound, request_identifier) ==
  Only({Only({Only({Only({Only({
  LET me     == signer(n, inbound.local)
      copies == ForwardTo(deliveries.list, inbound.peer, seen)
      onward == seen \cup {a \in {me.address, inbound.peer.address} \cup
                                 {copies[i].next_hop : i \in 1..Len(copies)} : ~IsAnonymous(a)}
      before == FirstFailure(<<Require(Authenticated(inbound.authentication), "Invalid"),
                               SignerFor(n, inbound.local).outcome,
                               Require(validated.valid, "Invalid"),
                               Require(validated.kind \in {"EchoMail", "File"}, "Invalid"),
                               Require(validated.area # None, "Invalid"),
                               deliveries.outcome>>)
  IN
  Only({
    Built(IF before # "ok" THEN before ELSE Constructed(item, listed),
          Job(validated.kind, NoAddr, validated.area, inbound.local, item, copies, inbound.id))
  : item \in {forward_item(inbound.item, me, request_identifier, onward)}})
  : seen \in {SeenBy(inbound.item)}})
  : deliveries \in {area_deliveries(n, inbound.local, validated.area, validated.kind = "File", effective)}})
  : validated \in {validate_item(inbound.item, listed)}})
  : effective \in {effective_keys(n, {})}})
  : listed \in {ListedKeys(n)}})

(* reroute_delivery: the new copy of a NetMail, from the nodelist's keys.   *)
reroute_delivery(n, job, hop, override) ==
  Only({Only({
  LET outcome == FirstFailure(<<Require(job.kind = "NetMail", "Invalid"),
                                SignerFor(n, job.local).outcome,
                                Require(validated.valid /\ validated.destination # NoIdentity, "Invalid")>>)
      none    == [a \in {} |-> NoKey]
  IN IF outcome # "ok" THEN Deliveries(outcome, <<>>)
     ELSE next_hop_delivery(n, job.local, validated.destination, hop, override, listed, none)
  : validated \in {validate_item(job.item, listed)}})
  : listed \in {ListedKeys(n)}})

=============================================================================
