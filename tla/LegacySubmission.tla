-------------------------- MODULE LegacySubmission --------------------------
(***************************************************************************)
(* How the scanners turn a legacy object into a Submit request              *)
(* (tith/src/netmail/submission.rs, tith-message-legacy, tith-bso).         *)
(*                                                                         *)
(* A message has its MSGID ("ours" when its origin is the local identity),  *)
(* the state of its TITHSIG controls, whether its destination resolves,     *)
(* its DateTime in seconds, the offsets of its TZUTC controls, and the      *)
(* FileSpecs of its Subject.  A request is a sequence of jobs; the text of  *)
(* a job, which its digest is taken of, is the record itself.               *)
(***************************************************************************)
EXTENDS Integers, Sequences, SequencesExt

(* Disposition::required_feature: what the service must advertise.          *)
required_feature(disposition) == IF disposition = "Keep" THEN {} ELSE {disposition}

Attachment(name, disposition) == [name |-> name, disposition |-> disposition]

(* binkley_directive: "~" and "!" mark an entry that is already processed.  *)
Directive(mark) ==
  CASE mark = "#" -> "Truncate"
    [] mark \in {"^", "-"} -> "Delete"
    [] OTHER -> "Keep"
IsProcessed(mark) == mark \in {"~", "!"}

binkley_directives(specs) ==
  LET pending == SelectSeq(specs, LAMBDA spec : ~IsProcessed(spec.mark))
  IN [i \in DOMAIN pending |-> Attachment(pending[i].name, Directive(pending[i].mark))]

(* attachments: under the FLAGS reading a mark is a part of the filename,   *)
(* and KFS or TFS covers every file.                                        *)
FlagDisposition(flags) ==
  IF "KFS" \in flags THEN "Delete" ELSE IF "TFS" \in flags THEN "Truncate" ELSE "Keep"
attachments(message, style) ==
  CASE ~message.attached -> <<>>
    [] message.attached /\ style = "Binkley" -> binkley_directives(message.specs)
    [] OTHER -> [i \in DOMAIN message.specs |->
                   Attachment(message.specs[i].name, FlagDisposition(message.flags))]
FlagsConflict(message, style) ==
  message.attached /\ style = "Flags" /\ {"KFS", "TFS"} \subseteq message.flags

requests_kill(message) == message.kill \/ "K/S" \in message.flags

-----------------------------------------------------------------------------
(* legacy_timestamp.  NoOffset is an absent or a malformed offset, in       *)
(* seconds east of UTC.                                                     *)

NoOffset == 1000000
MaxOffset == 99 * 3600 + 59 * 60
Representable(offset) == offset % 60 = 0 /\ offset <= MaxOffset /\ -offset <= MaxOffset

legacy_offset(message, configured) ==
  IF message.offsets = <<>> THEN configured ELSE message.offsets[1]
TimestampCheck(message, configured) ==
  IF /\ \A i \in DOMAIN message.offsets : message.offsets[i] = message.offsets[1]
     /\ legacy_offset(message, configured) # NoOffset
     /\ Representable(legacy_offset(message, configured))
     /\ message.date - legacy_offset(message, configured) >= 0
    THEN "ok" ELSE "Timestamp"
legacy_timestamp(message, configured) == message.date - legacy_offset(message, configured)

-----------------------------------------------------------------------------
(* The builders.  A context has the origin's style, features, configured    *)
(* offset, the files that are there, and the fallback key.                  *)

Built(outcome, operation, jobs) == [outcome |-> outcome, operation |-> operation, jobs |-> jobs]
Require(condition, failure) == IF condition THEN "ok" ELSE failure
FirstFailure(outcomes) ==
  LET failed == SelectInSeq(outcomes, LAMBDA o : o # "ok")
  IN IF failed = 0 THEN "ok" ELSE outcomes[failed]

(* push_attachments: the file must be there, and what is to happen to it    *)
(* must be in the service's power.                                          *)
AttachmentCheck(attachment, context) ==
  FirstFailure(<<Require(attachment.name \in context.files, "MissingAttachment"),
                 Require(required_feature(attachment.disposition) \subseteq context.features,
                         "MissingFeature")>>)
push_attachments(list, context) ==
  FirstFailure([i \in DOMAIN list |-> AttachmentCheck(list[i], context)])

RetainedCheck(message) == Require(message.retained # "broken", "Retained")
(* Mail of another origin is in transit, and is not signed for.             *)
OriginCheck(message) ==
  Require(message.retained # "none" \/ message.msgid \in {"ours", "none"}, "NotLocalOrigin")
DestinationCheck(message) == Require(message.destination, "Destination")
(* retained_origin: the Origin of a retained signature is that of MSGID.    *)
RetainedOriginCheck(message) ==
  Require(message.retained = "valid" => message.msgid # "none", "Retained")

(* Mutant of idempotency_key: the MSGID is not looked at. *)
FallbackAlways(message, context) == context.fallback
(* StoredMessage::idempotency_key, or the key of this attempt.              *)
idempotency_key(message, context) ==
  IF message.msgid # "none" THEN <<"msgid", message.id>> ELSE context.fallback

Job(key, kind, of, to, files, when) ==
  [key |-> key, kind |-> kind, of |-> of, to |-> to, files |-> files, when |-> when]
MessageJob(message, kind, list, context) ==
  Job(idempotency_key(message, context), kind, message.id,
      IF kind = "EchoMail" THEN message.area ELSE "destination", list,
      legacy_timestamp(message, context.offset))

(* build: one stored message is one NetMail job.                            *)
build(message, context) ==
  LET list == attachments(message, context.style)
      outcome == FirstFailure(
        <<RetainedCheck(message), DestinationCheck(message), OriginCheck(message),
          Require(~FlagsConflict(message, context.style), "Attach"),
          TimestampCheck(message, context.offset), RetainedOriginCheck(message),
          push_attachments(list, context)>>)
  IN Built(outcome, "Submit", <<MessageJob(message, "NetMail", list, context)>>)

(* build_packed: a packed message has the attachments correlation gave it,  *)
(* and one with an AREA line is EchoMail.                                   *)
build_packed(message, list, context) ==
  LET echo == message.area # "none"
      outcome == FirstFailure(
        <<RetainedCheck(message), OriginCheck(message), TimestampCheck(message, context.offset),
          RetainedOriginCheck(message),
          IF echo THEN "ok" ELSE DestinationCheck(message), push_attachments(list, context)>>)
  IN Built(outcome, IF echo THEN "Submit-Items" ELSE "Submit",
           <<MessageJob(message, IF echo THEN "EchoMail" ELSE "NetMail", list, context)>>)

(* build_peer_files: one job for every entry, keyed by its position.        *)
build_peer_files(entries, hold, context) ==
  Built(push_attachments(entries, context), "Submit-Items",
        [i \in DOMAIN entries |->
           Job(<<"peer-file", context.fallback, i>>, "Peer-File", entries[i].name,
               IF hold THEN "Passive" ELSE "endpoint", <<entries[i]>>, 0)])

(* build_file_requests *)
build_file_requests(actions, hold, context) ==
  Built("ok", "Submit-Items",
        [i \in DOMAIN actions |->
           Job(<<"file-request", context.fallback, i>>, "FileRequest", actions[i].name,
               IF hold THEN "Passive" ELSE "endpoint", <<>>, actions[i].newer)])

-----------------------------------------------------------------------------
(* The service, seen from a scanner: commit_batch commits all of a request  *)
(* or nothing, and an idempotency key stands for one job.                   *)

Conflicts(accepted, jobs) ==
  \E i \in DOMAIN jobs : \E job \in accepted : job.key = jobs[i].key /\ job # jobs[i]
Accept(accepted, jobs) == accepted \cup {jobs[i] : i \in DOMAIN jobs}

=============================================================================
