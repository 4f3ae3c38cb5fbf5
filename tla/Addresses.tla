----------------------------- MODULE Addresses -----------------------------
(***************************************************************************)
(* The five-dimensional addresses of tith-wire: which ones exist, the       *)
(* order they sort in, the trimmed lists and collections that PATH, Via and *)
(* SeenBy are written in, and the patterns the configuration matches them   *)
(* with.                                                                    *)
(*                                                                         *)
(* A domain is a natural number standing for its rank among the domains in  *)
(* byte order; P2P is the rank of "p2p".  A written address is not a string *)
(* but what the string says: the domain when it is spelled out (NoDomain    *)
(* when it is not) and the sequence of its components, each the rank of its *)
(* prefix (# 0, : 1, / 2, . 3) and its number.                              *)
(***************************************************************************)
EXTENDS Integers, Sequences, FiniteSets

CONSTANTS P2P,        \* the rank of the domain "p2p"
          MaxNumber,  \* the largest zone, net and node: 32767
          MaxPoint    \* the largest point: 65535

ASSUME AddressBounds == /\ P2P \in Nat
                        /\ MaxNumber \in Nat \ {0}
                        /\ MaxPoint \in Nat

NoDomain == -1

(* The member of a set of one: Only({f(v) : v \in {e}}) is f(e), with e      *)
(* worked out once.                                                         *)
Only(set) == CHOOSE value \in set : TRUE

Addr(d, z, n, f, p) == [domain |-> d, zone |-> z, net |-> n, node |-> f, point |-> p]

(* Address::new: the only way to an Address. *)
ValidAddress(a) ==
  /\ a.domain = P2P => a.zone = -1
  /\ a.zone = -1 \/ a.zone \in 1..MaxNumber
  /\ IF a.zone = -1
       THEN a.net = -1 /\ a.node = -1 /\ a.point = 0
       ELSE a.net \in 1..MaxNumber /\ a.node \in 0..MaxNumber
  /\ a.point \in 0..MaxPoint

Address == {a \in [domain : Nat, zone : Int, net : Int, node : Int, point : Nat] :
              ValidAddress(a)}

Anonymous(d) == Addr(d, -1, -1, -1, 0)
IsAnonymous(a) == a.zone = -1

(* Ord for Address: domain, zone, net, node, point. *)
Before(a, b) ==
  \/ a.domain < b.domain
  \/ a.domain = b.domain /\ a.zone < b.zone
  \/ a.domain = b.domain /\ a.zone = b.zone /\ a.net < b.net
  \/ a.domain = b.domain /\ a.zone = b.zone /\ a.net = b.net /\ a.node < b.node
  \/ /\ a.domain = b.domain /\ a.zone = b.zone /\ a.net = b.net /\ a.node = b.node
     /\ a.point < b.point

-----------------------------------------------------------------------------
(* Writing.  DefaultNode is the node number that an address of that zone    *)
(* leaves out.                                                              *)

DefaultNode(zone) == IF zone = -1 THEN -1 ELSE 0

Written(d, parts) == [domain |-> d, parts |-> parts]

NetPart(a) == IF a.net # a.zone THEN << <<1, a.net>> >> ELSE <<>>
NodePart(a) == IF a.node # DefaultNode(a.zone) THEN << <<2, a.node>> >> ELSE <<>>
PointPart(a) == IF a.point # 0 THEN << <<3, a.point>> >> ELSE <<>>

(* Display for Address. *)
Canonical(a) ==
  Written(a.domain, << <<0, a.zone>> >> \o NetPart(a) \o NodePart(a) \o PointPart(a))

(* One element of format_trimmed_list: what a differs in from its           *)
(* predecessor, from the highest component that changed; in full where      *)
(* nothing changed.                                                         *)
TrimmedElement(prior, a) ==
  CASE prior.domain # a.domain -> Canonical(a)
    [] prior.domain = a.domain /\ prior.zone # a.zone ->
         Written(NoDomain, << <<0, a.zone>> >> \o NetPart(a) \o NodePart(a) \o PointPart(a))
    [] prior.domain = a.domain /\ prior.zone = a.zone /\ prior.net # a.net ->
         Written(NoDomain, << <<1, a.net>> >> \o NodePart(a) \o PointPart(a))
    [] /\ prior.domain = a.domain /\ prior.zone = a.zone /\ prior.net = a.net
       /\ prior.node # a.node ->
         Written(NoDomain, << <<2, a.node>> >> \o PointPart(a))
    [] /\ prior.domain = a.domain /\ prior.zone = a.zone /\ prior.net = a.net
       /\ prior.node = a.node /\ prior.point # a.point ->
         Written(NoDomain, << <<3, a.point>> >>)
    [] OTHER -> Canonical(a)

format_trimmed_list(written) ==
  Only({
    [i \in 1..Len(list) |->
       IF i = 1 THEN Canonical(list[1]) ELSE TrimmedElement(list[i - 1], list[i])]
  : list \in {written}})

(* sort and dedup of format_trimmed_collection: the ascending enumeration   *)
(* of the set.                                                              *)
SortedSet(addresses) ==
  Only({
    CHOOSE s \in [1..Cardinality(S) -> S] :
      \A i, j \in 1..Cardinality(S) : i < j => Before(s[i], s[j])
  : S \in {addresses}})

format_trimmed_collection(list) ==
  format_trimmed_list(SortedSet({list[i] : i \in 1..Len(list)}))

-----------------------------------------------------------------------------
(* Reading.  A reading that fails is Malformed.                             *)

Malformed == Addr(NoDomain, 0, 0, 0, 0)

Has(parts, k) == \E i \in 1..Len(parts) : parts[i][1] = k
Number(parts, k) == parts[CHOOSE i \in 1..Len(parts) : parts[i][1] = k][2]
InOrder(parts) == \A i, j \in 1..Len(parts) : i < j => parts[i][1] < parts[j][1]

Checked(a) == IF ValidAddress(a) THEN a ELSE Malformed

(* parse_number: no leading zero, hence no zero; -1 where it is allowed     *)
(* (everywhere but in a point).                                             *)
NoZero(parts) == \A i \in 1..Len(parts) : parts[i][2] # 0
PointUnsigned(parts) == Has(parts, 3) => Number(parts, 3) >= 0

(* FromStr for Address. *)
parse_address(e) ==
  LET zone == Number(e.parts, 0)
      net  == IF Has(e.parts, 1) THEN Number(e.parts, 1) ELSE zone
      node == IF Has(e.parts, 2) THEN Number(e.parts, 2) ELSE DefaultNode(zone)
      pt   == IF Has(e.parts, 3) THEN Number(e.parts, 3) ELSE 0
  IN IF /\ Has(e.parts, 0) /\ InOrder(e.parts)
        /\ NoZero(e.parts) /\ PointUnsigned(e.parts)
        /\ Has(e.parts, 1) => net # zone
       THEN Checked(Addr(e.domain, zone, net, node, pt))
       ELSE Malformed

(* parse_trimmed_element: an element without a domain takes from its        *)
(* predecessor every component above its first one, and a component that it *)
(* states resets the inherited ones below it.  The point alone is never     *)
(* inherited.                                                               *)
parse_trimmed_element(e, prior) ==
  LET p    == e.parts
      zone == IF Has(p, 0) THEN Number(p, 0) ELSE prior.zone
      net  == IF Has(p, 1) THEN Number(p, 1)
              ELSE IF Has(p, 0) THEN zone ELSE prior.net
      node == IF Has(p, 2) THEN Number(p, 2)
              ELSE IF Has(p, 0) \/ Has(p, 1) THEN DefaultNode(zone) ELSE prior.node
      pt   == IF Has(p, 3) THEN Number(p, 3) ELSE 0
  IN IF e.domain # NoDomain THEN parse_address(e)
     ELSE IF p # <<>> /\ InOrder(p) /\ PointUnsigned(p) /\ prior # Malformed
       THEN Checked(Addr(prior.domain, zone, net, node, pt))
       ELSE Malformed

(* expand_trimmed: the addresses of a written list, each read against the   *)
(* one before it; Malformed from the first element that cannot be read on.  *)
expand_trimmed(text) ==
  LET read[i \in 0..Len(text)] ==
        IF i = 0 THEN <<>>
        ELSE Only({
               Append(before,
                 IF i = 1 THEN parse_trimmed_element(text[1], Malformed)
                 ELSE IF before[i - 1] = Malformed THEN Malformed
                 ELSE parse_trimmed_element(text[i], before[i - 1]))
             : before \in {read[i - 1]}})
  IN read[Len(text)]

WellFormed(list) == \A i \in 1..Len(list) : list[i] # Malformed

(* parse_trimmed_list and parse_trimmed_collection accept what they would   *)
(* have written themselves, and nothing else.                               *)
AcceptsList(text) ==
  Only({
    WellFormed(list) /\ format_trimmed_list(list) = text
  : list \in {expand_trimmed(text)}})

AcceptsCollection(text) ==
  Only({
    WellFormed(list) /\ format_trimmed_collection(list) = text
  : list \in {expand_trimmed(text)}})

-----------------------------------------------------------------------------
(* AddressPattern: for each component anything, or a set of numbers (an     *)
(* exact number is a singleton, a list of ranges their union).              *)

AnyNumber == [any |-> TRUE, set |-> {}, wide |-> TRUE]
Exact(n) == [any |-> FALSE, set |-> {n}, wide |-> FALSE]
Listed(S) == [any |-> FALSE, set |-> S, wide |-> TRUE]

(* match_number: "*" matches every number except -1, so that a wildcard     *)
(* does not reach an anonymous address.                                     *)
match_number(pattern, value) ==
  IF pattern.any THEN value # -1 ELSE value \in pattern.set

match_domain(pattern, value) == pattern.any \/ value \in pattern.set

AddressMatches(pattern, a) ==
  /\ match_domain(pattern.domain, a.domain)
  /\ match_number(pattern.zone, a.zone)
  /\ match_number(pattern.net, a.net)
  /\ match_number(pattern.node, a.node)
  /\ match_number(pattern.point, a.point)

(* parse_number_pattern: numbers and ranges must lie within the component.  *)
InRange(pattern, k) ==
  pattern.any \/ pattern.set \subseteq (IF k = 4 THEN 0..MaxPoint ELSE -1..MaxNumber)

(* FromStr for AddressPattern.  A pattern text is the domain's pattern and  *)
(* the components it states (# 1, : 2, / 3, . 4), each a pattern that is    *)
(* `wide` when it is "*" or a list; what it leaves out matches anything.    *)
(* A text without anything wide is an address, not a pattern.               *)
ParsesAsPattern(text) ==
  /\ text.parts # <<>>
  /\ InOrder(text.parts)
  /\ \A i \in 1..Len(text.parts) : InRange(text.parts[i][2], text.parts[i][1])
  /\ text.domain.wide \/ \E i \in 1..Len(text.parts) : text.parts[i][2].wide

parse_pattern(text) ==
  LET part(k) == IF Has(text.parts, k) THEN Number(text.parts, k) ELSE AnyNumber
  IN [domain |-> text.domain, zone |-> part(1), net |-> part(2),
      node |-> part(3), point |-> part(4)]

=============================================================================
