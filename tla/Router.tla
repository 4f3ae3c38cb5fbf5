------------------------------- MODULE Router -------------------------------
(***************************************************************************)
(* Route selection (tith-router): the next hop of a NetMail, the selectors  *)
(* the configuration writes rules with, and the failure policy of a copy.   *)
(*                                                                         *)
(* A nodelist is the sequence of records a reader returned; a resolver is a *)
(* function from addresses to keys.  A configuration gives each Peer by     *)
(* name, and each local identity its Routes block.                          *)
(***************************************************************************)
EXTENDS NodelistRecords

Identity(a, key) == [address |-> a, key |-> key]
NoIdentity == Identity(NoAddr, NoKey)

(* Identity::same_system_as: the key tells systems apart only where the     *)
(* address does not.                                                        *)
same_system_as(x, y) ==
  x.address = y.address /\ (IsAnonymous(x.address) => x.key = y.key)

KeyIn(keys, a) == IF a \in DOMAIN keys THEN keys[a] ELSE NoKey

peer_identity(peer, keys) ==
  LET key == IF IsAnonymous(peer.address) THEN peer.key ELSE KeyIn(keys, peer.address)
  IN IF key = NoKey THEN NoIdentity ELSE Identity(peer.address, key)

NoPeer == [address |-> NoAddr, key |-> NoKey, endpoints |-> 0, boss |-> None, hub |-> None,
           policy |-> "Nodelist"]

exact_peer(identity, config, keys) ==
  LET found == {name \in DOMAIN config.peers :
                  peer_identity(config.peers[name], keys) = identity}
  IN IF found = {} \/ identity = NoIdentity THEN NoPeer
     ELSE config.peers[CHOOSE name \in found : TRUE]

named_peer(name, config, keys) ==
  IF name \in DOMAIN config.peers THEN peer_identity(config.peers[name], keys) ELSE NoIdentity

UsableEndpoints(nodelist, a) ==
  LET endpoints == Lookup(nodelist, a).tith.endpoints
  IN \E i \in 1..Len(endpoints) : IsUsable(endpoints[i])

usable(identity, config, nodelist, keys) ==
  \/ exact_peer(identity, config, keys).endpoints > 0
  \/ UsableEndpoints(nodelist, identity.address)

-----------------------------------------------------------------------------
(* Candidates.  One is a next hop and whether the copy waits for a poll.    *)

Hop(identity, passive) == [next_hop |-> identity, passive |-> passive]
NoHop == Hop(NoIdentity, FALSE)

eligible_ancestor(identity, config, nodelist, keys) ==
  LET peer == exact_peer(identity, config, keys)
  IN IF identity # NoIdentity /\ (peer # NoPeer \/ usable(identity, config, nodelist, keys))
       THEN Hop(identity, peer # NoPeer /\ peer.endpoints = 0)
       ELSE NoHop

Keyword(nodelist, a) == Lookup(nodelist, a).keyword

(* The coordinator of a listed address that a method names.                 *)
Ancestor(nodelist, a, method) ==
  LET branch == Lookup(nodelist, a).branch
  IN CASE method.kind = "Boss"   -> IF a.point = 0 THEN NoAddr ELSE [a EXCEPT !.point = 0]
       [] method.kind = "Hub"    -> branch.hub
       [] method.kind = "Host"   -> branch.host
       [] method.kind = "Region" -> branch.region
       [] method.kind = "Zone"   -> branch.zone

(* Only an ancestor that is listed with a TITH service is a next hop.       *)
ListedIdentity(nodelist, keys, a) ==
  IF Lookup(nodelist, a).tith # NoService /\ KeyIn(keys, a) # NoKey
    THEN Identity(a, KeyIn(keys, a)) ELSE NoIdentity

candidate(method, destination, config, nodelist, keys) ==
  LET a == destination.address
      peer == exact_peer(destination, config, keys)
      when(condition, hop) == IF condition THEN hop ELSE NoHop
      ancestor(identity) == eligible_ancestor(identity, config, nodelist, keys)
  IN CASE method.kind = "Via" -> Hop(named_peer(method.name, config, keys), FALSE)
       [] method.kind = "Direct" /\ IsAnonymous(a) -> when(peer.endpoints > 0, Hop(destination, FALSE))
       [] method.kind = "Direct" /\ ~IsAnonymous(a) ->
            when(/\ Keyword(nodelist, a) \notin {"Private", "Hold", "Down"}
                 /\ usable(destination, config, nodelist, keys), Hop(destination, FALSE))
       [] method.kind = "Hold" -> when(Keyword(nodelist, a) # "Down", Hop(destination, TRUE))
       [] method.kind \in {"Boss", "Hub"} /\ IsAnonymous(a) ->
            ancestor(named_peer(IF method.kind = "Boss" THEN peer.boss ELSE peer.hub, config, keys))
       [] method.kind \in {"Boss", "Hub", "Host", "Region", "Zone"} /\ ~IsAnonymous(a) ->
            ancestor(ListedIdentity(nodelist, keys, Ancestor(nodelist, a, method)))
       [] OTHER -> NoHop

Method(kind) == [kind |-> kind, name |-> None]
ViaPeer(name) == [kind |-> "Via", name |-> name]

non_anonymous_defaults ==
  <<Method("Direct"), Method("Boss"), Method("Hub"), Method("Host"), Method("Region"),
    Method("Zone"), Method("Hold")>>
anonymous_defaults == <<Method("Boss"), Method("Hub"), Method("Direct"), Method("Hold")>>

-----------------------------------------------------------------------------
(* Selectors.                                                               *)

selector_matches(selector, identity, config, nodelist, keys) ==
  LET a == identity.address
      b == Lookup(nodelist, a).branch
      listed == Lookup(nodelist, a) # NoEntry
  IN CASE selector.kind = "All" -> TRUE
       [] selector.kind = "Address" -> a = selector.address
       [] selector.kind = "AddressPattern" -> AddressMatches(selector.pattern, a)
       [] selector.kind = "Peer" ->
            named_peer(selector.name, config, keys) = identity /\ identity # NoIdentity
       [] selector.kind = "Branch" -> listed /\ b[selector.level] = selector.root
       [] selector.kind = "Independent" ->
            /\ listed /\ b[selector.level] = selector.root
            /\ selector.level = "zone" => b.region = NoAddr
            /\ b.host = NoAddr /\ b.hub = NoAddr

(* RouteFailure and Commitment.  A rule of 0 is the default method list.    *)
Committed(hop, rule) == [outcome |-> "ok", next_hop |-> hop.next_hop, passive |-> hop.passive, rule |-> rule]
Unroutable == [outcome |-> "Unroutable", next_hop |-> NoIdentity, passive |-> FALSE, rule |-> 0]
Loop == [Unroutable EXCEPT !.outcome = "Loop"]

MethodsFor(rule, routes, destination) ==
  IF rule # 0 THEN routes.routes[rule].methods
  ELSE IF IsAnonymous(destination.address) THEN anonymous_defaults ELSE non_anonymous_defaults

(* Mutant of route_netmail: no look at where the item has been. *)
RouteWithoutLoopCheck(config, routes, destination, vias, nodelist, keys) ==
  Only({Only({
         LET first == FirstThat(hops, LAMBDA hop : hop.next_hop # NoIdentity)
         IN IF Keyword(nodelist, destination.address) = "Down" \/ first = 0 THEN Unroutable
            ELSE Committed(hops[first], rule)
  : hops \in {[i \in DOMAIN MethodsFor(rule, routes, destination)
              |-> candidate(MethodsFor(rule, routes, destination)[i], destination, config, nodelist, keys)]}})
  : rule \in {FirstThat(routes.routes,
              LAMBDA r : selector_matches(r.destination, destination, config, nodelist, keys))}})

(* route_netmail: a next hop that the item has already passed is a loop,    *)
(* and no later method is tried.                                            *)
route_netmail(config, routes, destination, vias, nodelist, keys) ==
  Only({
    IF commitment.outcome = "ok" /\ \E i \in 1..Len(vias) : same_system_as(vias[i], commitment.next_hop)
      THEN Loop ELSE commitment
  : commitment \in {RouteWithoutLoopCheck(config, routes, destination, vias, nodelist, keys)}})

(* failure_policies: the override of the Route that gave the methods, then  *)
(* that of the relay rule, then the first Failure line, then the default.   *)
failure_policies(config, routes, origin, destination, rule, relay_override, nodelist, keys) ==
  LET selected == IF rule # 0 /\ routes.routes[rule].on_failure # None
                    THEN routes.routes[rule].on_failure ELSE relay_override
      failure(kind) == FirstThat(routes.failures, LAMBDA f :
        /\ f.kind \in {"Any", kind}
        /\ selector_matches(f.origin, origin, config, nodelist, keys)
        /\ selector_matches(f.destination, destination, config, nodelist, keys))
  IN [kind \in {"RelayDenied", "Rejected"} |->
        IF selected # None THEN selected
        ELSE IF failure(kind) # 0 THEN routes.failures[failure(kind)].policy
        ELSE routes.failure_default]

=============================================================================
