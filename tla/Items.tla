------------------------------- MODULE Items -------------------------------
(***************************************************************************)
(* Messages, Files and FileRequests as tith-wire builds, validates, reads   *)
(* and forwards them.                                                       *)
(*                                                                         *)
(* An item is its outer type and the sequence of its children, a child a    *)
(* pair of type and value; "undefined" stands for every type that is_defined*)
(* does not know.  Addresses, keys, Vias and SeenBys are values of their    *)
(* own; a text or a number is the class that a check tells apart, "good"    *)
(* where none does and "bad" where it cannot be decoded.  A signature is    *)
(* the key it was made with and the children it covers: no one can make one *)
(* without the secret key.                                                  *)
(***************************************************************************)
EXTENDS Router

Item(type, children) == [type |-> type, children |-> children]
Types(children) == {children[i][1] : i \in 1..Len(children)}
Values(children, type) ==
  Only({
    [i \in 1..Len(those) |-> those[i][2]]
  : those \in {SelectSeq(children, LAMBDA c : c[1] = type)}})

Optional(type, value) == IF value = None THEN <<>> ELSE << <<type, value>> >>

(* The options of a Message and the metadata of a File, in the order they   *)
(* are written and read.                                                    *)
MessageOptions == <<"LEGACY_ATTRIBUTES", "TIMESTAMP_OFFSET", "TEAR_LINE", "ORIGIN_LINE",
                    "MESSAGE_ID", "REPLY_TO", "ORIGINAL_CHARACTER_SET">>
FileMetadata == <<"SHORT_DESCRIPTION", "LONG_DESCRIPTION_LINE", "TEAR_LINE", "MAGIC_WORD", "REPLACES">>

Chosen(order, options) ==
  Only({
    [i \in 1..Len(present) |-> <<present[i], options[present[i]]>>]
  : present \in {SelectSeq(order, LAMBDA type : type \in DOMAIN options)}})

-----------------------------------------------------------------------------
(* Building.  A builder that refuses its data returns NotBuilt.             *)

NotBuilt == Item("none", <<>>)
BuiltIf(condition, item) == IF condition THEN item ELSE NotBuilt

push_identity(type, identity) ==
  << <<type, identity.address>> >>
    \o (IF IsAnonymous(identity.address) THEN << <<"PUBLIC_KEY", identity.key>> >> ELSE <<>>)

(* push_provenance: SignedOrigin only where another address signs. *)
ProvenanceAllowed(provenance) ==
  provenance.origin = provenance.signer.address \/ ~IsAnonymous(provenance.origin)
push_provenance(provenance) ==
  IF provenance.origin = provenance.signer.address THEN push_identity("ORIGIN", provenance.signer)
  ELSE << <<"ORIGIN", provenance.origin>> >> \o push_identity("SIGNED_ORIGIN", provenance.signer)

via_value(identity) ==
  <<"VIA", Identity(identity.address, IF IsAnonymous(identity.address) THEN identity.key ELSE NoKey)>>

(* seen_by_value: one trimmed collection, nothing when it is empty.         *)
seen_by_value(addresses) ==
  IF addresses = {} THEN <<>> ELSE << <<"SEEN_BY", format_trimmed_list(SortedSet(addresses))>> >>
EachSeenBy(addresses) ==
  Only({[i \in 1..Len(list) |-> <<"SEEN_BY", <<Canonical(list[i])>> >>] : list \in {SortedSet(addresses)}})

(* push_filename, push_file_metadata *)
ProducibleFile(data) ==
  /\ data.filename \in {None, "plain"}
  /\ \A type \in DOMAIN data.metadata \cap {"SHORT_DESCRIPTION", "LONG_DESCRIPTION_LINE"} :
       data.metadata[type] # "newline"
FileStart(data) == Optional("FILENAME", data.filename) \o Optional("TIMESTAMP", data.timestamp)
                     \o << <<"CONTENTS", data.contents>> >>

(* The checks of validate_message_text, validate_legacy_attributes and      *)
(* validate_timestamp_offset, which producers and validators share.         *)
TextAllowed(text) == text \in {"empty", "terminated"}
OptionAllowed(type, value) ==
  /\ type = "LEGACY_ATTRIBUTES" => value = "signed"
  /\ type = "TIMESTAMP_OFFSET" => value = "nonzero"
EchoControl == {"TEAR_LINE", "ORIGIN_LINE"}

validate_originated_message_data(data) ==
  /\ (data.destination = NoIdentity) # (data.area = None)
  /\ \A type \in DOMAIN data.options : OptionAllowed(type, data.options[type])
  /\ data.area = None => DOMAIN data.options \cap EchoControl = {}
  /\ TextAllowed(data.text)

message_signed_children(data, provenance) ==
  push_provenance(provenance)
    \o (IF data.destination = NoIdentity THEN <<>> ELSE push_identity("DESTINATION", data.destination))
    \o << <<"TIMESTAMP", data.timestamp>>, <<"TO_USER_NAME", "good">>, <<"FROM_USER_NAME", "good">>,
          <<"SUBJECT", data.subject>>, <<"MESSAGE_TEXT", data.text>> >>
    \o Optional("AREA", data.area)
    \o [i \in 1..Len(data.attachments) |->
          <<"FILE", FileStart(data.attachments[i]) \o Chosen(FileMetadata, data.attachments[i].metadata)>>]
    \o Chosen(MessageOptions, data.options)

Signature(key, children) == [by |-> key, over |-> children]

(* finish_message *)
finish_message(data, signed, suffix) ==
  Item("MESSAGE",
       signed \o << <<"REQUEST_IDENTIFIER", suffix.request_identifier>> >>
         \o [i \in 1..Len(suffix.existing_vias) |-> via_value(suffix.existing_vias[i])]
         \o <<via_value(suffix.local_via)>>
         \o seen_by_value(suffix.seen_by)
         \o [i \in 1..Len(data.kludges) |-> <<"ADDITIONAL_KLUDGE_LINE", data.kludges[i]>>])

FinishAllowed(data, suffix) ==
  /\ \A i \in 1..Len(data.kludges) : data.kludges[i] # "controlA"
  /\ \A i \in 1..Len(suffix.existing_vias) :
       IsAnonymous(suffix.existing_vias[i].address) = (suffix.existing_vias[i].key # NoKey)

MessageAllowed(data, provenance, suffix) ==
  /\ validate_originated_message_data(data)
  /\ ProvenanceAllowed(provenance)
  /\ \A i \in 1..Len(data.attachments) : ProducibleFile(data.attachments[i])
  /\ FinishAllowed(data, suffix)

(* build_originated_message_for_delivery: secret is the key that signs.     *)
build_originated_message(data, provenance, secret, suffix) ==
  Only({
    BuiltIf(MessageAllowed(data, provenance, suffix),
            finish_message(data, Append(signed, <<"SIGNATURE", Signature(secret, signed)>>), suffix))
  : signed \in {message_signed_children(data, provenance)}})

(* build_retained_message: a signature made elsewhere, which must verify    *)
(* over the children rebuilt here.                                          *)
Verifies(signature, children, key) == signature.by = key /\ signature.over = children
build_retained_message(data, provenance, signature, suffix) ==
  Only({
    BuiltIf(/\ MessageAllowed(data, provenance, suffix)
            /\ Verifies(signature, signed, provenance.signer.key),
            finish_message(data, Append(signed, <<"SIGNATURE", signature>>), suffix))
  : signed \in {message_signed_children(data, provenance)}})

build_originated_file(data, provenance, secret, request_identifier, seen_by) ==
  Only({
     BuiltIf(ProducibleFile(data) /\ ProvenanceAllowed(provenance),
       Item("FILE", signed \o << <<"SIGNATURE", Signature(secret, signed)>>,
                                 <<"REQUEST_IDENTIFIER", request_identifier>> >>
         \o (IF data.area = None THEN <<>> ELSE <<via_value(provenance.signer)>> \o EachSeenBy(seen_by))))
  : signed \in {FileStart(data) \o Optional("AREA", data.area) \o push_provenance(provenance)
                \o Chosen(FileMetadata, data.metadata)}})

build_file_request(filename, newer_than, request_identifier) ==
  BuiltIf(filename = "plain",
    Item("FILE_REQUEST", << <<"FILENAME", filename>> >> \o Optional("TIMESTAMP", newer_than)
                           \o << <<"REQUEST_IDENTIFIER", request_identifier>> >>))

(* The children up to the Signature, and the routing suffix after it. *)
SignatureOf(children) == FirstThat(children, LAMBDA c : c[1] = "SIGNATURE")
SignedPart(item) == SubSeq(item.children, 1, SignatureOf(item.children))
SuffixPart(item, types) ==
  SelectSeq(SubSeq(item.children, SignatureOf(item.children) + 1, Len(item.children)),
            LAMBDA c : c[1] \in types)
SeenByPart(item, seen_by) == IF item.type = "MESSAGE" THEN seen_by_value(seen_by) ELSE EachSeenBy(seen_by)

(* A forward that keeps the identifier the item came with. *)
ForwardKeepingIdentifier(item, local, request_identifier, seen_by) ==
  BuiltIf(item.type \in {"MESSAGE", "FILE"} /\ SignatureOf(item.children) # 0,
    Item(item.type,
      SignedPart(item) \o << <<"REQUEST_IDENTIFIER", request_identifier>> >>
        \o SuffixPart(item, {"REQUEST_IDENTIFIER", "VIA", "undefined"}) \o <<via_value(local)>>
        \o SeenByPart(item, seen_by) \o SuffixPart(item, {"ADDITIONAL_KLUDGE_LINE"})))

(* forward_item: the signed part as it is, then the suffix rebuilt: the     *)
(* Vias (and what is undefined) that were there, the local Via, the new     *)
(* SeenBy, the kludges that were there.                                     *)
forward_item(item, local, request_identifier, seen_by) ==
  BuiltIf(item.type \in {"MESSAGE", "FILE"} /\ SignatureOf(item.children) # 0,
    Item(item.type,
      SignedPart(item) \o << <<"REQUEST_IDENTIFIER", request_identifier>> >>
        \o SuffixPart(item, {"VIA", "undefined"}) \o <<via_value(local)>>
        \o SeenByPart(item, seen_by) \o SuffixPart(item, {"ADDITIONAL_KLUDGE_LINE"})))

set_request_identifier(item, identifier) ==
  [item EXCEPT !.children = [i \in 1..Len(@) |->
     IF @[i][1] = "REQUEST_IDENTIFIER" THEN <<@[i][1], identifier>> ELSE @[i]]]

-----------------------------------------------------------------------------
(* Reading.  A grammar is the sequence of steps a Cursor makes over the     *)
(* defined children: take must find its type next, optional and repeated    *)
(* may.  As no type is asked for twice, the steps succeed exactly on the    *)
(* children that are in the grammar's order, with what must be there.       *)

Step(mode, type) == [mode |-> mode, type |-> type]
Takes(types) == [i \in 1..Len(types) |-> Step("take", types[i])]
Optionals(types) == [i \in 1..Len(types) |-> Step("optional", types[i])]
ProvenanceSteps == <<Step("take", "ORIGIN"), Step("optional", "SIGNED_ORIGIN")>>

(* parse_identity, conditional_public_key: an anonymous address is followed *)
(* at once by its PublicKey, and no other address is.                       *)
IdentityTypes == {"ORIGIN", "SIGNED_ORIGIN", "DESTINATION"}
KeysInPlace(children) ==
  \A i \in 1..Len(children) :
    /\ children[i][1] \in IdentityTypes =>
         IsAnonymous(children[i][2]) = (i < Len(children) /\ children[i + 1][1] = "PUBLIC_KEY")
    /\ children[i][1] = "PUBLIC_KEY" => i > 1 /\ children[i - 1][1] \in IdentityTypes

(* The steps over the children, and finish(): no defined child is left.     *)
Parses(children, grammar) ==
  Only({Only({Only({
    /\ \A i \in 1..Len(at) :
         /\ at[i] # 0
         /\ i > 1 => at[i - 1] < at[i] \/ (at[i - 1] = at[i] /\ steps[at[i]].mode = "repeated")
    /\ \A k \in 1..Len(steps) : steps[k].mode = "take" => \E i \in 1..Len(at) : at[i] = k
    /\ KeysInPlace(children)
  : at \in {[i \in 1..Len(defined) |-> FirstThat(steps, LAMBDA step : step.type = defined[i][1])]}})
  : defined \in {SelectSeq(children, LAMBDA c : c[1] \notin {"undefined", "PUBLIC_KEY"})}})
  : steps \in {grammar}})

(* validate_message_with *)
MessageGrammar ==
  ProvenanceSteps \o Optionals(<<"DESTINATION">>)
    \o Takes(<<"TIMESTAMP", "TO_USER_NAME", "FROM_USER_NAME", "SUBJECT", "MESSAGE_TEXT">>)
    \o <<Step("optional", "AREA"), Step("repeated", "FILE")>>
    \o Optionals(MessageOptions)
    \o <<Step("optional", "SIGNATURE"), Step("take", "REQUEST_IDENTIFIER"), Step("repeated", "VIA"),
         Step("optional", "SEEN_BY"), Step("repeated", "ADDITIONAL_KLUDGE_LINE")>>

FileHead == Optionals(<<"FILENAME", "TIMESTAMP">>) \o Takes(<<"CONTENTS">>)
FileMiddle == <<Step("optional", "SHORT_DESCRIPTION"), Step("repeated", "LONG_DESCRIPTION_LINE")>>
                \o Optionals(<<"TEAR_LINE", "MAGIC_WORD", "REPLACES">>)

(* validate_file_with, standalone or attached; read_attachment is stricter. *)
FileGrammar(standalone) ==
  FileHead \o Optionals(<<"AREA">>)
    \o (IF standalone THEN ProvenanceSteps ELSE <<>>) \o FileMiddle
    \o (IF standalone THEN <<Step("optional", "SIGNATURE"), Step("take", "REQUEST_IDENTIFIER")>> ELSE <<>>)
    \o <<Step("repeated", "VIA"), Step("repeated", "SEEN_BY")>>
AttachmentGrammar == FileHead \o FileMiddle

FileRequestGrammar == Takes(<<"FILENAME">>) \o Optionals(<<"TIMESTAMP">>) \o Takes(<<"REQUEST_IDENTIFIER">>)

(* What the checks on single values refuse, wherever they stand.            *)
ValueAllowed(c) ==
  /\ c[1] \in {"ORIGIN", "SIGNED_ORIGIN", "DESTINATION"} => c[2] # Malformed
  /\ c[1] = "VIA" => c[2].address # Malformed /\ IsAnonymous(c[2].address) = (c[2].key # NoKey)
  /\ c[1] = "SEEN_BY" => AcceptsCollection(c[2])
  /\ c[1] = "SIGNATURE" => c[2].by # NoKey
  /\ c[1] = "PUBLIC_KEY" => c[2] # NoKey
  /\ c[1] = "FILENAME" => c[2] \notin {"path", "bad"}
  /\ c[1] = "MESSAGE_TEXT" => TextAllowed(c[2])
  /\ c[1] \in {"SHORT_DESCRIPTION", "LONG_DESCRIPTION_LINE"} => c[2] \notin {"newline", "bad"}
  /\ c[1] = "ADDITIONAL_KLUDGE_LINE" => c[2] \notin {"controlA", "bad"}
  /\ c[1] \in {MessageOptions[i] : i \in 1..Len(MessageOptions)} \cup
              {"TIMESTAMP", "TO_USER_NAME", "FROM_USER_NAME", "SUBJECT", "AREA", "MAGIC_WORD", "REPLACES"}
       => c[2] # "bad" /\ OptionAllowed(c[1], c[2])
ValuesAllowed(children) == \A i \in 1..Len(children) : ValueAllowed(children[i])

ValidAttachment(children) ==
  /\ Parses(children, FileGrammar(FALSE)) /\ ValuesAllowed(children)
  /\ Types(children) \cap {"ORIGIN", "PUBLIC_KEY", "SIGNED_ORIGIN", "SIGNATURE",
                           "AREA", "VIA", "SEEN_BY"} = {}

-----------------------------------------------------------------------------
(* The identities an item names, and its authentication.                    *)

(* parse_identity: the inline key of an anonymous address, or the resolved. *)
IdentityAt(children, type, keys) ==
  Only({
    LET a == children[at][2]
    IN IF at = 0 THEN NoIdentity
       ELSE IF IsAnonymous(a) THEN Identity(a, children[at + 1][2])
       ELSE IF KeyIn(keys, a) = NoKey THEN NoIdentity ELSE Identity(a, KeyIn(keys, a))
  : at \in {FirstThat(children, LAMBDA c : c[1] = type)}})

(* parse_provenance: the Origin's own key where there is one; SignedOrigin  *)
(* only where there is none.                                                *)
EffectiveSigner(children, keys) ==
  Only({
    IF origin # NoIdentity THEN origin ELSE IdentityAt(children, "SIGNED_ORIGIN", keys)
  : origin \in {IdentityAt(children, "ORIGIN", keys)}})

(* item_authentication *)
Authentication(children, keys) ==
  Only({Only({
    LET valid  == Verifies(children[at][2], SubSeq(children, 1, at - 1), signer.key)
        origin == Values(children, "ORIGIN")[1] = signer.address
    IN CASE at = 0 -> "Unsigned"
         [] at # 0 /\ origin /\ valid -> "OriginValid"
         [] at # 0 /\ origin /\ ~valid -> "OriginInvalid"
         [] at # 0 /\ ~origin /\ valid -> "SignedOriginValid"
         [] at # 0 /\ ~origin /\ ~valid -> "SignedOriginInvalid"
  : signer \in {EffectiveSigner(children, keys)}})
  : at \in {SignatureOf(children)}})

Authenticated(authentication) == authentication \in {"OriginValid", "SignedOriginValid"}

NoSigned == [kind |-> None, signer |-> NoIdentity, signature |-> Signature(NoKey, <<>>)]
SignedItemIdentity(kind, children, keys) ==
  IF Authenticated(Authentication(children, keys))
    THEN [kind |-> kind, signer |-> EffectiveSigner(children, keys),
          signature |-> children[SignatureOf(children)][2]]
    ELSE NoSigned

Provable(children, keys) ==
  IF "SIGNATURE" \in Types(children) THEN EffectiveSigner(children, keys) # NoIdentity
  ELSE "SIGNED_ORIGIN" \notin Types(children)

Invalid == [valid |-> FALSE, kind |-> None, request_identifier |-> 0, signed |-> NoSigned,
            authentication |-> None, destination |-> NoIdentity, area |-> None, raw |-> NotBuilt]

ValidMessage(children, keys) ==
  /\ Len(children) > 0 /\ children[1][1] = "ORIGIN"
  /\ Parses(children, MessageGrammar) /\ ValuesAllowed(children)
  /\ ("DESTINATION" \in Types(children)) # ("AREA" \in Types(children))
  /\ "DESTINATION" \in Types(children) =>
       /\ IdentityAt(children, "DESTINATION", keys) # NoIdentity
       /\ Types(children) \cap EchoControl = {}
  /\ \A i \in 1..Len(children) : children[i][1] = "FILE" => ValidAttachment(children[i][2])
  /\ "VIA" \in Types(children)
  /\ Provable(children, keys)

ValidFile(children, keys) ==
  /\ Parses(children, FileGrammar(TRUE)) /\ ValuesAllowed(children)
  /\ IF "AREA" \in Types(children) THEN {"VIA", "SEEN_BY"} \subseteq Types(children)
     ELSE {"VIA", "SEEN_BY"} \cap Types(children) = {}
  /\ Provable(children, keys)

ValidFileRequest(children) == Parses(children, FileRequestGrammar) /\ ValuesAllowed(children)

First(values, default) == IF values = <<>> THEN default ELSE values[1]

(* validate_item on the values that carry mail. *)
validate_item(item, keys) ==
  LET c == item.children
      validated(kind, signedKind, authentication) ==
        [valid |-> TRUE, kind |-> kind,
         request_identifier |-> Values(c, "REQUEST_IDENTIFIER")[1],
         signed |-> IF signedKind = None THEN NoSigned ELSE SignedItemIdentity(signedKind, c, keys),
         authentication |-> authentication,
         destination |-> IdentityAt(c, "DESTINATION", keys),
         area |-> First(Values(c, "AREA"), None), raw |-> item]
  IN CASE item.type = "MESSAGE" /\ ValidMessage(c, keys) ->
            validated(IF "DESTINATION" \in Types(c) THEN "NetMail" ELSE "EchoMail", "Message",
                      Authentication(c, keys))
       [] item.type = "FILE" /\ ValidFile(c, keys) -> validated("File", "File", Authentication(c, keys))
       [] item.type = "FILE_REQUEST" /\ ValidFileRequest(c) -> validated("FileRequest", None, "Transport")
       [] OTHER -> Invalid

item_vias(item) == Values(item.children, "VIA")

(* seen_by_addresses over every SeenBy of an item. *)
SeenBy(item) ==
  UNION {LET list == expand_trimmed(Values(item.children, "SEEN_BY")[i])
         IN {list[j] : j \in 1..Len(list)} : i \in 1..Len(Values(item.children, "SEEN_BY"))}

(* read_message, read_standalone_file and read_file_request: whether an     *)
(* item can be taken apart for a legacy converter.  They ask less of most   *)
(* values, and read an attachment by a grammar of their own.                *)
ReadableValue(c) ==
  /\ c[1] \in {"ORIGIN", "SIGNED_ORIGIN", "DESTINATION"} => c[2] # Malformed
  /\ c[1] = "VIA" => c[2].address # Malformed /\ IsAnonymous(c[2].address) = (c[2].key # NoKey)
  /\ c[1] = "SEEN_BY" => AcceptsCollection(c[2])
  /\ c[1] = "SIGNATURE" => c[2].by # NoKey
Readable(item, keys) ==
  LET c == item.children
  IN /\ \A i \in 1..Len(c) : ReadableValue(c[i])
     /\ CASE item.type = "MESSAGE" ->
               /\ Parses(c, MessageGrammar) /\ "VIA" \in Types(c)
               /\ "DESTINATION" \in Types(c) => IdentityAt(c, "DESTINATION", keys) # NoIdentity
               /\ \A i \in 1..Len(c) : c[i][1] = "FILE" => Parses(c[i][2], AttachmentGrammar)
          [] item.type = "FILE" -> Parses(c, FileGrammar(TRUE))
          [] item.type = "FILE_REQUEST" -> Parses(c, FileRequestGrammar)

=============================================================================
