----------------------------- MODULE MCNetwork -----------------------------
(* A local net: a Host, its Hub, a private node the Hub holds mail for, a   *)
(* node the Hub has no route for, and an anonymous point of the node.       *)
EXTENDS Network

At(net, node) == Addr(Domain, 1, net, node, 0)
HostAt == At(2, 0)
HubAt  == At(2, 3)
NodeAt == At(2, 4)
LeafAt == At(2, 5)
Nobody == Anonymous(Domain)

Line(keyword, number, key, port) ==
  [keyword |-> keyword, number |-> number, control |-> FALSE, fields |-> 11, phone |-> None,
   system |-> <<>>, pstn |-> <<>>, email |-> <<>>, other |-> <<>>, interests |-> 0, lead |-> 0,
   internet |-> <<[kind |-> "IIH", server |-> "server", port |-> port, key |-> key, canonical |-> TRUE]>>]

Lines == <<Line("Zone", 1, "kz", 1), Line("Host", 2, "kh", 1), Line("Hub", 3, "kb", 1),
           Line("Private", 4, "kn", 0), Line("Private", 5, "kl", 0)>>
List == ReadAll([segment |-> FALSE, initial |-> "Zone", zone |-> 0, net |-> 0], Lines).records

Peer(a, key, endpoints, boss) ==
  [address |-> a, key |-> key, endpoints |-> endpoints, boss |-> boss, hub |-> None, policy |-> "Nodelist"]
All == [kind |-> "All"]
To(a) == [kind |-> "Address", address |-> a]
Listed_ == [kind |-> "AddressPattern",
            pattern |-> parse_pattern([domain |-> AnyNumber, parts |-> << <<1, AnyNumber>> >>])]
BelowHub == [kind |-> "Branch", level |-> "hub", root |-> HubAt]
AllowAll == [from |-> All, origin |-> All, destination |-> All, action |-> "Allow", on_failure |-> None]
Block(rules, relays, failures) ==
  [routes |-> rules, relay |-> relays, failures |-> failures, failure_default |-> "DeadLetter"]

EchoArea(links) == [name |-> "echo", file_area |-> FALSE, send_to |-> links, receive_from |-> Range(links)]
FileArea(links) == [name |-> "files", file_area |-> TRUE, send_to |-> links, receive_from |-> Range(links)]

System(local, key, a, peers, block, areas, listens) ==
  [config |-> [peers |-> peers, routes |-> (local :> block), areas |-> (local :> areas)],
   nodelist |-> List, pins |-> <<>>, signers |-> (local :> Identity(a, key)),
   local |-> local, listens |-> listens]

Host == System(AtAddress(HostAt), "kh", HostAt,
          [hub |-> Peer(HubAt, NoKey, 1, None), node |-> Peer(NodeAt, NoKey, 0, None),
           point |-> Peer(Nobody, "kp", 0, "node")],
          Block(<<>>, <<>>, <<>>), <<EchoArea(<<"hub", "node">>), FileArea(<<"hub">>)>>, TRUE)
Hub == System(AtAddress(HubAt), "kb", HubAt,
          [host |-> Peer(HostAt, NoKey, 1, None), node |-> Peer(NodeAt, NoKey, 0, None)],
          Block(<<[destination |-> To(NodeAt), methods |-> <<Method("Direct"), Method("Hold")>>,
                   on_failure |-> None]>>, <<[AllowAll EXCEPT !.from = Listed_]>>,
                <<[kind |-> "RelayDenied", origin |-> All, destination |-> BelowHub, policy |-> "Discard"]>>),
          <<EchoArea(<<"host", "node">>), FileArea(<<"host", "node">>)>>, TRUE)
Node(peers, echo) ==
        System(AtAddress(NodeAt), "kn", NodeAt, peers,
          Block(<<>>, <<[AllowAll EXCEPT !.destination = [kind |-> "Peer", name |-> "point"]],
                        [AllowAll EXCEPT !.destination = To(LeafAt)]>>, <<>>),
          <<echo, FileArea(<<"hub">>)>>, TRUE)
NodePeers == [hub |-> Peer(HubAt, NoKey, 1, None), host |-> Peer(HostAt, NoKey, 1, None),
              point |-> Peer(Nobody, "kp", 0, None)]
Point(key) == System(AtPeer("me"), key, Nobody,
          [me |-> Peer(Nobody, key, 0, "boss"), boss |-> Peer(NodeAt, NoKey, 1, None)],
          Block(<<[destination |-> All, methods |-> <<ViaPeer("boss")>>, on_failure |-> None]>>, <<>>, <<>>),
          <<EchoArea(<<"boss">>)>>, FALSE)

MCSystems == [host |-> Host, hub |-> Hub, node |-> Node(NodePeers, EchoArea(<<"hub", "host", "point">>)),
              point |-> Point("kp")]

(* Two points of the node, and no one else. *)
TwoPoints == [node |-> Node([NodePeers EXCEPT !.hub = Peer(Nobody, "kq", 0, None)],
                            EchoArea(<<"hub", "point">>)),
              point |-> Point("kp"), other |-> Point("kq")]

LocalOf(system) ==
  CASE system = "host" -> AtAddress(HostAt)
    [] system = "hub" -> AtAddress(HubAt)
    [] system = "node" -> AtAddress(NodeAt)
    [] system = "point" -> AtPeer("me")

Source == [copied |-> TRUE, path |-> TRUE, state |-> "regular", expected |-> TRUE, filename |-> "generate",
           timestamp |-> "stamp", contents |-> "bytes", metadata |-> <<>>]
NoRetained == [signature |-> NoSigned.signature, key |-> NoKey, vias |-> <<>>, seen_by |-> {}]

Message(local, kind, destination, area) ==
  [local |-> NoRef, origin |-> local, signed_origin |-> NoRef, kind |-> kind, destination |-> destination,
   area |-> area, next_hop |-> [kind |-> "Route", to |-> NoRef], override |-> None, retained |-> NoRetained,
   timestamp |-> "stamp", subject |-> "good", text |-> "unterminated", sources |-> <<Source>>,
   options |-> <<>>, kludges |-> <<"good">>]
Request(name, system, kind, body) == [name |-> name, system |-> system, kind |-> kind, body |-> body]

NetMail(name, system, destination) ==
  Request(name, system, "Message", Message(LocalOf(system), "NetMail", destination, None))
Echo(name, system) == Request(name, system, "Message", Message(LocalOf(system), "EchoMail", NoRef, "echo"))
FileOut(name, system, area, to) ==
  Request(name, system, "File",
    [origin |-> LocalOf(system), signed_origin |-> NoRef, area |-> area,
     to |-> [ref |-> to, mode |-> None, override |-> None], source |-> [Source EXCEPT !.filename = "plain"]])
Ask(name, system, to) ==
  Request(name, system, "FileRequest",
    [origin |-> LocalOf(system), filename |-> "plain", newer_than |-> None,
     to |-> [ref |-> to, mode |-> None, override |-> None]])

(* A message of the Host's that comes to the Hub by a legacy route, with    *)
(* the signature the Host made.                                             *)
Retained ==
  LET m == [Message(AtAddress(HostAt), "NetMail", AtAddress(NodeAt), None)
              EXCEPT !.text = "terminated", !.sources = <<>>]
      data == [destination |-> Identity(NodeAt, "kn"), area |-> None, timestamp |-> m.timestamp,
               subject |-> m.subject, text |-> m.text, attachments |-> <<>>, options |-> m.options]
      from == Provenance("ok", HostAt, Identity(HostAt, "kh"))
  IN Request(1, "hub", "Message",
       [m EXCEPT !.retained.signature = Signature("kh", message_signed_children(data, from)),
                 !.retained.vias = <<Identity(HostAt, NoKey)>>])

In(net, requests) == [systems |-> net, requests |-> requests]
MCRequests ==
  {{NetMail(1, "host", AtAddress(NodeAt)), NetMail(2, "host", AtAddress(LeafAt))},
   {NetMail(1, "point", AtAddress(HostAt))},
   {NetMail(1, "host", AtPeer("point"))},
   {Retained}, {Echo(1, "host")}, {Echo(1, "point")},
   {FileOut(1, "node", "files", NoRef)},
   {Ask(1, "node", AtPeer("hub")), FileOut(2, "hub", None, AtPeer("node"))}}
MCScenarios == {In(MCSystems, requests) : requests \in MCRequests}
MCReroutes ==
  {[system |-> "host", hop |-> [kind |-> "Passive", to |-> AtPeer("node")], override |-> None],
   [system |-> "hub", hop |-> [kind |-> "Active", to |-> AtPeer("host")], override |-> "Discard"]}

PointScenarios == {In(TwoPoints, {Echo(1, "point")})}

=============================================================================
