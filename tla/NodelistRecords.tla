-------------------------- MODULE NodelistRecords --------------------------
(***************************************************************************)
(* The records of a TTS-5000 nodelist (tith-nodelist): the flag registries, *)
(* what a record's flags resolve to, and the validator that reader and      *)
(* writer share.                                                            *)
(*                                                                         *)
(* A line is a record of its fields: the keyword, the node number, whether  *)
(* the phone is empty, well formed or not, and the five flag lists.         *)
(* Names and places are left out: nothing is decided by them.  A flag is    *)
(* the record of what its text says; a text that says nothing a parser      *)
(* knows has the kind "malformed".                                          *)
(***************************************************************************)
EXTENDS Addresses, SequencesExt

CONSTANT Domain   \* the domain the list is for

(* The first place of a sequence that passes a test, or 0.                  *)
FirstThat(sequence, Test(_)) ==
  Only({Only({
    IF found = {} THEN 0 ELSE CHOOSE i \in found : \A j \in found : i <= j
  : found \in {{i \in 1..Len(s) : Test(s[i])}}})
  : s \in {sequence}})

None == "none"
NoKey == "nokey"
NoAddr == Malformed

Members == {"Normal", "Private", "Hold", "Down"}
Keywords == Members \cup {"Zone", "Region", "Host", "Hub"}

-----------------------------------------------------------------------------
(* Flags.  Every list is kept in registry order without duplicates.         *)

(* SystemFlag::order *)
SystemOrder(f) ==
  CASE f.kind = "CM"  -> 0
    [] f.kind = "LO"  -> 1
    [] f.kind = "MN"  -> 2
    [] f.kind = "ICM" -> 3
    [] f.kind = "FileRequest"  -> 10 + f.at
    [] f.kind = "MailPeriod"   -> 100 + f.at * 2 + (IF f.bell THEN 0 ELSE 1)
    [] f.kind = "OnlinePeriod" -> 1000 + f.at * 48 + f.end

Protocols == <<"INA", "IIH", "IBN", "IFC", "IFT", "ITN", "IVM", "IP", "INO4">>
EmailKinds == <<"IEM", "ITX", "IUC", "IMI", "ISE", "EVY", "EMA">>
OtherNames == <<"MO", "GUUCP", "PING", "TRACE", "ZEC", "REC", "NEC", "NC", "SDS",
                "SMH", "RPK", "NPK", "ENC", "CDP">>
PstnCount == 28

Position(names, name) == CHOOSE i \in 1..Len(names) : names[i] = name

(* registered_default_port: TITH (IIH) and IP have none. *)
DefaultPort(kind) ==
  CASE kind = "IBN" -> 24554
    [] kind = "IFC" -> 60179
    [] kind = "IFT" -> 21
    [] kind = "ITN" -> 23
    [] kind = "IVM" -> 3141
    [] OTHER -> 0

(* check_order: the order, given flag by flag, never falls and no flag      *)
(* occurs twice.                                                            *)
check_order(flags, order) ==
  \A i, j \in 1..Len(flags) :
    i < j => order[i] <= order[j] /\ flags[i] # flags[j]

NoneMalformed(flags) == \A i \in 1..Len(flags) : flags[i].kind # "malformed"

(* parse_system: besides, one mail period an hour. *)
parse_system(flags) ==
  /\ NoneMalformed(flags)
  /\ \A i, j \in 1..Len(flags) :
       /\ i # j /\ flags[i].kind = "MailPeriod" /\ flags[j].kind = "MailPeriod"
       => flags[i].at # flags[j].at
  /\ check_order(flags, [i \in DOMAIN flags |-> SystemOrder(flags[i])])

(* parse_pstn_isdn: a flag is its position in the registry. *)
parse_pstn_isdn(flags) ==
  /\ \A i \in 1..Len(flags) : flags[i] \in 1..PstnCount
  /\ check_order(flags, flags)

(* parse_internet: besides, a flag is spelled canonically and every IIH     *)
(* gives the same key.                                                      *)
parse_internet(flags) ==
  /\ NoneMalformed(flags)
  /\ \A i \in 1..Len(flags) : flags[i].canonical
  /\ check_order(flags, [i \in DOMAIN flags |-> Position(Protocols, flags[i].kind)])
  /\ \A i, j \in 1..Len(flags) :
       flags[i].kind = "IIH" /\ flags[j].kind = "IIH" => flags[i].key = flags[j].key

parse_email(flags) ==
  /\ NoneMalformed(flags)
  /\ check_order(flags, [i \in DOMAIN flags |-> Position(EmailKinds, flags[i].kind)])

(* parse_other: the assigned flags strictly in registry order, then the     *)
(* extensions strictly in byte order (an extension is its rank).            *)
parse_other(flags) ==
  /\ NoneMalformed(flags)
  /\ \A i, j \in 1..Len(flags) : i < j =>
       \/ /\ flags[i].kind # "extension" /\ flags[j].kind = "extension"
       \/ /\ flags[i].kind # "extension" /\ flags[j].kind # "extension"
          /\ Position(OtherNames, flags[i].kind) < Position(OtherNames, flags[j].kind)
       \/ /\ flags[i].kind = "extension" /\ flags[j].kind = "extension"
          /\ flags[i].rank < flags[j].rank

(* resolved_endpoints: an explicit server, or else every default server     *)
(* (INA); an explicit port, or else the protocol's.  Port 0 is no port.     *)
resolved_endpoints(f, defaults) ==
  LET port == IF f.port # 0 THEN f.port ELSE DefaultPort(f.kind)
  IN IF f.server # None THEN << [server |-> f.server, port |-> port] >>
     ELSE IF defaults = <<>> THEN << [server |-> None, port |-> port] >>
     ELSE [i \in 1..Len(defaults) |-> [server |-> defaults[i].server, port |-> port]]

resolved_services(flags) ==
  LET defaults == SelectSeq(flags, LAMBDA f : f.kind = "INA")
      offered  == SelectSeq(flags, LAMBDA f : f.kind \notin {"INA", "INO4"})
  IN [i \in 1..Len(offered) |->
        [protocol  |-> offered[i].kind, key |-> offered[i].key,
         endpoints |-> resolved_endpoints(offered[i], defaults)]]

IsUsable(endpoint) == endpoint.server # None /\ endpoint.port # 0

HasUsableEndpoint(services) ==
  \E i \in 1..Len(services) :
    \E j \in 1..Len(services[i].endpoints) : IsUsable(services[i].endpoints[j])

(* resolved_methods: a method without an address of its own takes every     *)
(* default address.                                                         *)
resolved_methods(flags) ==
  LET defaults == SelectSeq(flags, LAMBDA f : f.kind = "IEM" /\ f.address # None)
      methods(f) ==
        IF f.kind = "IEM"
          THEN IF f.address = None THEN << [method |-> "IEM", address |-> None] >> ELSE <<>>
        ELSE IF f.address # None \/ defaults = <<>>
          THEN << [method |-> f.kind, address |-> f.address] >>
        ELSE [i \in 1..Len(defaults) |-> [method |-> f.kind, address |-> defaults[i].address]]
  IN FlattenSeq([i \in 1..Len(flags) |-> methods(flags[i])])

(* The TithService of an entry: the endpoints of every IIH flag, and their  *)
(* one key.                                                                 *)
NoService == [key |-> NoKey, endpoints |-> <<>>]

TithService(flags) ==
  LET services == SelectSeq(resolved_services(flags), LAMBDA s : s.protocol = "IIH")
  IN IF services = <<>> THEN NoService
     ELSE [key |-> services[1].key,
           endpoints |-> FlattenSeq([i \in 1..Len(services) |-> services[i].endpoints])]

-----------------------------------------------------------------------------
(* The validator.  A context is a Zone, a Region or Host within a zone, or  *)
(* a Hub within a local net; `segment` is requires_data.                    *)

NoHierarchy == [zone |-> 0, region |-> NoAddr, host |-> NoAddr, hub |-> NoAddr]

(* A segment within a local net that does not know the net's Host. *)
NewValidatorWithoutHost(context) ==
  [initial   |-> context.initial,
   requires  |-> context.segment,
   first     |-> TRUE,
   hierarchy |-> IF context.initial = "Zone" THEN NoHierarchy
                 ELSE [NoHierarchy EXCEPT !.zone = context.zone],
   addresses |-> {},
   taken     |-> {}]

NewValidator(context) ==
  [initial   |-> context.initial,
   requires  |-> context.segment,
   first     |-> TRUE,
   hierarchy |->
     CASE context.initial = "Zone" -> NoHierarchy
       [] context.initial = "WithinZone" -> [NoHierarchy EXCEPT !.zone = context.zone]
       [] context.initial = "WithinLocalNet" ->
            [NoHierarchy EXCEPT !.zone = context.zone,
                                !.host = Addr(Domain, context.zone, context.net, 0, 0)],
   addresses |-> {},
   taken     |-> {}]   \* <<flag, zone or net>> for the flags that occur once

FirstKeyword(initial) ==
  CASE initial = "Zone" -> {"Zone"}
    [] initial = "WithinZone" -> {"Region", "Host"}
    [] initial = "WithinLocalNet" -> {"Hub"}

(* Mutant of Descend: a Region leaves the Host above it in force. *)
DescendKeepingHost(h, keyword, number) ==
  CASE keyword = "Zone" -> [NoHierarchy EXCEPT !.zone = number]
    [] keyword = "Region" -> [h EXCEPT !.region = Addr(Domain, h.zone, number, 0, 0), !.hub = NoAddr]
    [] keyword = "Host" -> [h EXCEPT !.host = Addr(Domain, h.zone, number, 0, 0), !.hub = NoAddr]
    [] keyword = "Hub" /\ h.host # NoAddr ->
         [h EXCEPT !.hub = Addr(Domain, h.host.zone, h.host.net, number, 0)]
    [] OTHER -> h

(* address_for: the hierarchy after a record, which changes before anything *)
(* else about the record is known to be right ...                           *)
Descend(h, keyword, number) ==
  CASE keyword = "Zone" -> [NoHierarchy EXCEPT !.zone = number]
    [] keyword = "Region" ->
         [h EXCEPT !.region = Addr(Domain, h.zone, number, 0, 0), !.host = NoAddr, !.hub = NoAddr]
    [] keyword = "Host" ->
         [h EXCEPT !.host = Addr(Domain, h.zone, number, 0, 0), !.hub = NoAddr]
    [] keyword = "Hub" /\ h.host # NoAddr ->
         [h EXCEPT !.hub = Addr(Domain, h.host.zone, h.host.net, number, 0)]
    [] OTHER -> h

(* ... and the address it gives the record.                                 *)
address_for(h, keyword, number) ==
  CASE keyword = "Zone" -> Addr(Domain, number, number, 0, 0)
    [] keyword \in {"Region", "Host"} -> Addr(Domain, h.zone, number, 0, 0)
    [] keyword = "Hub" -> Addr(Domain, h.host.zone, h.host.net, number, 0)
    [] keyword \in Members ->
         Addr(Domain, h.zone,
              IF h.host # NoAddr THEN h.host.net
              ELSE IF h.region # NoAddr THEN h.region.net ELSE h.zone,
              number, 0)

(* validate_flags: what each flag that occurs once is counted under; a      *)
(* region flag outside a region, or NC where it cannot be, is refused.      *)
OncePer(h, a, kind) ==
  CASE kind = "ZEC" -> <<kind, h.zone, h.zone>>
    [] kind \in {"REC", "RPK"} -> <<kind, h.zone, h.region.net>>
    [] kind \in {"NEC", "NPK", "NC"} -> <<kind, h.zone, a.net>>

Claims(h, a, flags) ==
  {OncePer(h, a, flags[i].kind) :
     i \in {j \in 1..Len(flags) : flags[j].kind \in {"ZEC", "REC", "RPK", "NEC", "NPK", "NC"}}}

Carries(flags, kind) == \E i \in 1..Len(flags) : flags[i].kind = kind

SystemFlagsAgree(flags) ==
  /\ Len(SelectSeq(flags, LAMBDA f : f.kind = "FileRequest")) <= 1
  /\ Carries(flags, "CM") =>
       \A kind \in {"ICM", "MailPeriod", "OnlinePeriod"} : ~Carries(flags, kind)

FlagsInPlace(v, keyword, a, other) ==
  LET h == v.hierarchy
  IN /\ Carries(other, "REC") \/ Carries(other, "RPK") => h.region # NoAddr
     /\ Carries(other, "NC") => h.host # NoAddr /\ keyword \in Members
     /\ Claims(h, a, other) \cap v.taken = {}

(* What the flags claim before the first one that cannot stand: the sets    *)
(* are filled one flag after the other.                                     *)
ClaimedBeforeRefusal(v, keyword, a, other) ==
  LET stands(n) == FlagsInPlace(v, keyword, a, SubSeq(other, 1, n))
      good == {n \in 0..Len(other) : stands(n)}
  IN Claims(v.hierarchy, a, SubSeq(other, 1, CHOOSE n \in good : \A k \in good : k <= n))

UsableContact(line) ==
  \/ line.phone # None
  \/ HasUsableEndpoint(resolved_services(line.internet))
  \/ \E i \in 1..Len(line.email) : line.email[i].address # None

BranchOf(h) == [zone |-> Addr(Domain, h.zone, h.zone, 0, 0),
                region |-> h.region, host |-> h.host, hub |-> h.hub]

NoEntry == [keyword |-> None, address |-> NoAddr, tith |-> NoService,
            branch |-> BranchOf(NoHierarchy), methods |-> <<>>]

ParsesFlags(line) ==
  /\ parse_system(line.system) /\ parse_pstn_isdn(line.pstn)
  /\ parse_internet(line.internet) /\ parse_email(line.email) /\ parse_other(line.other)

(* A check that can fail, and the validator a failure leaves behind.        *)
Check(holds, outcome, v) == [holds |-> holds, outcome |-> outcome, validator |-> v]

(* parse_data_line: the checks in the code's order.  A record that is       *)
(* refused has moved the validator as far as it got; "panic" is an expect() *)
(* of address_for.                                                          *)
parse_data_line(v, line) ==
  LET started == [v EXCEPT !.first = FALSE]
      moved   == [started EXCEPT !.hierarchy = Descend(v.hierarchy, line.keyword, line.number)]
      h       == moved.hierarchy
      address == address_for(h, line.keyword, line.number)
      listed  == [moved EXCEPT !.addresses = @ \cup {address}]
      flagged == [listed EXCEPT !.taken =
                    @ \cup ClaimedBeforeRefusal(listed, line.keyword, address, line.other)]
      checks  == <<
        Check(~line.control, "ControlCharacter", v),
        Check(line.fields = 11, "WrongFieldCount", v),
        Check(line.keyword \in Keywords, "InvalidKeyword", v),
        Check(v.first => line.keyword \in FirstKeyword(v.initial), "InvalidHierarchy", v),
        Check(line.number \in 1..MaxNumber, "InvalidNodeNumber", started),
        Check(line.keyword \in {"Zone", "Hub"} \/ v.hierarchy.zone # 0, "panic", started),
        Check(line.keyword = "Hub" => v.hierarchy.host # NoAddr, "InvalidHierarchy", started),
        Check(address \notin v.addresses, "DuplicateAddress", moved),
        Check(line.keyword = "Private" => h.host # NoAddr, "InvalidHierarchy", listed),
        Check(line.phone # "malformed", "InvalidPhone", listed),
        Check(ParsesFlags(line), "InvalidFlag", listed),
        Check(line.keyword \in {"Normal", "Private"} =>
                (line.keyword = "Private") # UsableContact(line), "PrivateContact", listed),
        Check(SystemFlagsAgree(line.system), "InvalidFlag", listed),
        Check(FlagsInPlace(listed, line.keyword, address, line.other), "InvalidFlag", flagged)>>
  IN Only({Only({
         IF failed = 0
           THEN [validator |-> flagged, outcome |-> "ok",
                 record |-> [keyword |-> line.keyword, address |-> address,
                             tith |-> TithService(line.internet), branch |-> BranchOf(h),
                             methods |-> resolved_methods(line.email)]]
           ELSE [validator |-> made[failed].validator, outcome |-> made[failed].outcome,
                 record |-> NoEntry]
       : failed \in {FirstThat(made, LAMBDA check : ~check.holds)}})
     : made \in {checks}})

(* parse_line: a comment is its interest letters and the rest; however it   *)
(* was put together, all letters up to the first other character are        *)
(* interests.                                                               *)
CommentRecord(line) == [keyword |-> "comment", interests |-> line.interests + line.lead, lead |-> 0]

parse_line(v, line) ==
  IF line.keyword # "comment" THEN parse_data_line(v, line)
  ELSE IF line.control
    THEN [validator |-> v, outcome |-> "ControlCharacter", record |-> NoEntry]
    ELSE [validator |-> v, outcome |-> "ok", record |-> CommentRecord(line)]

-----------------------------------------------------------------------------
(* What the list says once it is read: Nodelist::get and the KeyResolver.   *)

Entries(records) == {records[i] : i \in {j \in 1..Len(records) : records[j].keyword # "comment"}}

Lookup(records, a) ==
  LET found == {e \in Entries(records) : e.address = a}
  IN IF found = {} THEN NoEntry ELSE CHOOSE e \in found : TRUE

public_key(records, a) == Lookup(records, a).tith.key

(* Reading a whole sequence of lines in a context.                          *)
ReadAll(context, lines) ==
  LET read[i \in 0..Len(lines)] ==
        IF i = 0 THEN [validator |-> NewValidator(context), outcome |-> "ok", records |-> <<>>]
        ELSE Only({Only({
                 IF before.outcome # "ok" THEN before
                 ELSE [validator |-> result.validator, outcome |-> result.outcome,
                       records |-> IF result.outcome = "ok"
                                     THEN Append(before.records, result.record) ELSE before.records]
               : result \in {parse_line(before.validator, lines[i])}})
             : before \in {read[i - 1]}})
  IN read[Len(lines)]

=============================================================================
