----------------------------- MODULE MCNodelist -----------------------------
(* A distribution and two segments of domain 1, written from the lines      *)
(* below in every order.                                                    *)
EXTENDS Nodelist

L(keyword, number) ==
  [keyword |-> keyword, number |-> number, control |-> FALSE, fields |-> 11, phone |-> "good",
   system |-> <<>>, pstn |-> <<>>, internet |-> <<>>, email |-> <<>>, other |-> <<>>,
   interests |-> 0, lead |-> 0]

Flag(kind) == [kind |-> kind]
Net(kind, server, port, key) ==
  [kind |-> kind, server |-> server, port |-> port, key |-> key, canonical |-> TRUE]

(* An unpublished phone, a TITH service without endpoint and a default      *)
(* server: the service's endpoint is that server, but it has no port.       *)
Unlisted ==
  [L("Private", 2) EXCEPT !.phone = None,
     !.internet = <<Net("INA", "h1", 0, NoKey), Net("IIH", None, 0, "k1")>>]

(* The same service with a port of its own, twice over. *)
Reachable ==
  [L("Normal", 2) EXCEPT !.phone = None,
     !.internet = <<Net("INA", "h1", 0, NoKey), Net("IIH", None, 1, "k1"), Net("IIH", "h2", 2, "k1")>>]

Comment(lead) == [L("comment", 0) EXCEPT !.interests = 1, !.lead = lead]

MCLines ==
  {L("Zone", 1), L("Zone", 2), L("Zone", 0), L("Region", 3), L("Host", 4), L("Host", 5), L("Hub", 1),
   Reachable, Unlisted, Comment(0), Comment(1),
   [L("Down", 3) EXCEPT !.other = <<Flag("REC"), Flag("NC")>>]}

MCContexts ==
  {[segment |-> FALSE, initial |-> "Zone", zone |-> 0, net |-> 0],
   [segment |-> TRUE, initial |-> "WithinZone", zone |-> 1, net |-> 0],
   [segment |-> TRUE, initial |-> "WithinLocalNet", zone |-> 1, net |-> 4]}

=============================================================================
