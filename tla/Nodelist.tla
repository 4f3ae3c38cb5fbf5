------------------------------ MODULE Nodelist ------------------------------
(***************************************************************************)
(* Producing and reading a nodelist: the streaming writer and the streaming *)
(* reader of tith-nodelist, each with a validator of its own.               *)
(***************************************************************************)
EXTENDS NodelistRecords

CONSTANTS Lines,     \* the lines a producer may try to write
          Contexts,  \* the initial contexts of a segment or distribution
          AppKeys,   \* the keys of anonymous applications that ask to be listed
          MaxLines,  \* bound: the lines of one file
          MaxRefusals \* bound: the refusals a producer goes on after

VARIABLES writer,    \* NodelistWriter: its validator, and whether it is open
          file,      \* the lines written, in order
          returned,  \* the Entry each accepted data line returned, in order
          refused,   \* how many lines the writer has refused
          reader,    \* NodelistReader on the finished file
          panicked   \* did an expect() of the validator fail

vars == <<writer, file, returned, refused, reader, panicked>>

-----------------------------------------------------------------------------
(* The writer.  A context is chosen, lines are offered in any order, and    *)
(* every refusal is returned to the caller, who may go on.                  *)

Init ==
  /\ \E c \in Contexts : writer = [open |-> TRUE, context |-> c, validator |-> NewValidator(c)]
  /\ file = <<>>
  /\ returned = <<>>
  /\ refused = 0
  /\ reader = [open |-> FALSE, at |-> 0, done |-> FALSE, outcome |-> None,
               validator |-> writer.validator, records |-> <<>>]
  /\ panicked = FALSE

Writing == writer.open /\ ~panicked /\ Len(file) < MaxLines

Refuse(v) ==
  /\ refused < MaxRefusals
  /\ writer' = [writer EXCEPT !.validator = v]
  /\ refused' = refused + 1
  /\ UNCHANGED <<file, returned, reader>>

(* validate_comment *)
CommentWellFormed(line) == line.lead = 0

(* NodelistWriter::write_comment *)
WriteComment(line) ==
  LET result == parse_line(writer.validator, line)
  IN /\ Writing
     /\ line.keyword = "comment"
     /\ UNCHANGED panicked
     /\ IF CommentWellFormed(line) /\ result.outcome = "ok"
          THEN /\ file' = Append(file, line)
               /\ returned' = Append(returned, [keyword |-> "comment", interests |-> line.interests,
                                                lead |-> line.lead])
               /\ UNCHANGED <<writer, refused, reader>>
          ELSE Refuse(writer.validator)

(* NodelistWriter::write_entry, validate_publication_source: a first        *)
(* publication for an anonymous application must list that application's    *)
(* key.  Writing the line may fail after the validator has accepted it.     *)
WriteEntry(line, source) ==
  LET result == parse_data_line(writer.validator, line)
  IN /\ Writing
     /\ line.keyword # "comment"
     /\ panicked' = (result.outcome = "panic")
     /\ \/ /\ result.outcome = "ok"
           /\ source = NoKey \/ result.record.tith.key = source
           /\ writer' = [writer EXCEPT !.validator = result.validator]
           /\ file' = Append(file, line)
           /\ returned' = Append(returned, result.record)
           /\ UNCHANGED <<refused, reader>>
        \/ Refuse(result.validator)

(* NodelistWriter::finish: a segment must have data.  The file is then read *)
(* from its start, in the context it was written for.                       *)
Finish ==
  /\ writer.open /\ ~panicked
  /\ ~(writer.validator.requires /\ writer.validator.first)
  /\ writer' = [writer EXCEPT !.open = FALSE]
  /\ reader' = [reader EXCEPT !.open = TRUE, !.validator = NewValidator(writer.context)]
  /\ UNCHANGED <<file, returned, refused, panicked>>

(* ReaderState::next: the reader stops at the end and at the first error;   *)
(* a segment without data is an error.                                      *)
ReadNext ==
  LET result == parse_line(reader.validator, file[reader.at + 1])
      empty  == reader.validator.requires /\ reader.validator.first
  IN /\ reader.open /\ ~reader.done
     /\ UNCHANGED <<writer, file, returned, refused, panicked>>
     /\ IF reader.at = Len(file)
          THEN reader' = [reader EXCEPT !.done = TRUE,
                            !.outcome = IF empty THEN "InvalidHierarchy" ELSE "ok"]
          ELSE reader' = [reader EXCEPT
                            !.at = @ + 1,
                            !.validator = result.validator,
                            !.done = result.outcome # "ok",
                            !.outcome = result.outcome,
                            !.records = IF result.outcome = "ok"
                                          THEN Append(@, result.record) ELSE @]

Next ==
  \/ \E line \in Lines : WriteComment(line)
  \/ \E line \in Lines, source \in AppKeys \cup {NoKey} : WriteEntry(line, source)
  \/ Finish
  \/ ReadNext

Spec == Init /\ [][Next]_vars

-----------------------------------------------------------------------------
(* Properties.                                                              *)

NodelistTypeOK ==
  /\ writer.context \in Contexts
  /\ Len(file) \in 0..MaxLines
  /\ Len(returned) = Len(file)
  /\ refused \in 0..MaxRefusals /\ panicked \in BOOLEAN
  /\ reader.at \in 0..Len(file)
  /\ reader.outcome = "ok" => reader.done \/ Len(reader.records) = reader.at

(* A finished file reads back, in the context it was written for, as        *)
(* exactly the records the writer returned.  It need not: a refused record  *)
(* has already moved the writer's hierarchy or claimed its address and      *)
(* flags (parse_data_line, validate_publication_source), so a producer that *)
(* goes on after a refusal is told addresses that no reader will find.      *)
ReadBack ==
  reader.done => reader.outcome = "ok" /\ reader.records = returned

(* Every ancestor that an entry's branch names is in the entry's own zone,  *)
(* is the record of that keyword nearest above it in the file (or was       *)
(* supplied with the segment), and agrees with the entry's address: the     *)
(* router walks a branch without looking at keywords again                  *)
(* (address_for, Branch).  A line the writer refused, which has moved the   *)
(* writer's hierarchy, leaves no trace in what a reader builds.             *)
NearestAbove(records, i, keyword) ==
  LET above == {j \in 1..i : records[j].keyword = keyword}
  IN records[CHOOSE j \in above : \A k \in above : k <= j].address

BranchesAreReal ==
  LET records == reader.records
      context == writer.context
      supplied == IF context.initial = "WithinLocalNet"
                    THEN {Addr(Domain, context.zone, context.net, 0, 0)} ELSE {}
      listed(i, keyword, a) ==
        \/ a \in supplied
        \/ /\ \E j \in 1..i : records[j].keyword = keyword
           /\ a = NearestAbove(records, i, keyword)
  IN \A i \in 1..Len(records) : records[i].keyword # "comment" =>
       LET e == records[i]
           b == e.branch
       IN /\ \A a \in {b.region, b.host, b.hub} \ {NoAddr} : a.zone = e.address.zone
          /\ b.zone.zone = e.address.zone
          /\ b.region # NoAddr => listed(i, "Region", b.region)
          /\ b.host # NoAddr => listed(i, "Host", b.host) /\ e.address.net = b.host.net
          /\ b.hub # NoAddr => listed(i, "Hub", b.hub) /\ b.hub.net = b.host.net

(* A part of a distribution read as a segment in the context its place in   *)
(* the distribution gives it has the same addresses and services as in the  *)
(* distribution, and is refused only over REC and RPK, which count within a *)
(* region that a Host or Hub segment does not know                          *)
(* (SegmentContext, Validator::new, validate_flags).                        *)
PartEnd(i) ==
  LET ends == CASE file[i].keyword = "Region" -> {"Zone", "Region"}
                [] file[i].keyword = "Host" -> {"Zone", "Region", "Host"}
                [] file[i].keyword = "Hub" -> {"Zone", "Region", "Host", "Hub"}
      stops == {j \in i + 1..Len(file) : file[j].keyword \in ends}
  IN IF stops = {} THEN Len(file) ELSE (CHOOSE j \in stops : \A k \in stops : j <= k) - 1

PartContext(i) ==
  LET h == reader.records[i].branch
  IN IF file[i].keyword = "Hub"
       THEN [segment |-> TRUE, initial |-> "WithinLocalNet", zone |-> h.zone.zone, net |-> h.host.net]
       ELSE [segment |-> TRUE, initial |-> "WithinZone", zone |-> h.zone.zone, net |-> 0]

SegmentsAgree ==
  (reader.done /\ reader.outcome = "ok") =>
    \A i \in 1..Len(file) : file[i].keyword \in {"Region", "Host", "Hub"} =>
      LET part == SubSeq(file, i, PartEnd(i))
          read == ReadAll(PartContext(i), part)
      IN /\ \A k \in 1..Len(read.records) :
              part[k].keyword # "comment" =>
                /\ read.records[k].address = reader.records[i + k - 1].address
                /\ read.records[k].tith = reader.records[i + k - 1].tith
         /\ \/ read.outcome = "ok"
            \/ LET next == part[Len(read.records) + 1]
               IN Carries(next.other, "REC") \/ Carries(next.other, "RPK")

(* address_for and parse_data_line take it that a Region, a Host and a      *)
(* member follow an active Zone: their expect() never fails.                *)
RegionFollowsZone == ~panicked

=============================================================================
