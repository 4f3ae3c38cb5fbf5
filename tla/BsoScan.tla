------------------------------- MODULE BsoScan -------------------------------
(***************************************************************************)
(* `tith bso scan' (tith/src/bso.rs, bso/correlate.rs, tith-bso): scanners  *)
(* submit what a tosser leaves for one node in a Binkley style outbound.    *)
(*                                                                         *)
(* The node's flow files are in the directories Roots, which all map to its *)
(* address: the bare root, and the root with the suffix of its zone.  A     *)
(* flow file is <<directory, kind, flavour>>; its lines are the messages of *)
(* a packet, the entries of a reference or the actions of a request list.   *)
(***************************************************************************)
EXTENDS LegacySubmission, FiniteSets, TLC

CONSTANTS
  Scanners,
  Roots,          \* the directories of the node, in path order
  Flavours,       \* in processing order
  Mail,           \* the messages, by id
  Garbled,        \* the ids of messages that are cut short or no messages at all
  Regimes,        \* [crew, tosses, mishaps]: the scanners that run, what the tosser
                  \* will write, and how many crashes, lost requests or answers
  Tics,           \* the files with a TIC beside them
  IncludeHold, HasDomain, Features, Present, Style, Offset

VARIABLES
  regime,         \* which does not change
  flow,           \* the flow files that exist: their lines and generation
  hold,           \* the .hld of each directory: "none", "future", "past"
  bsy,            \* the .bsy of each directory: a lock file, or NoLock
  lock,           \* the lock files: who has the OS lock, and whether it is stale
  scan, jobs, tossed, minted, generation, crashes, faults, torn

vars == <<regime, flow, hold, bsy, lock, scan, jobs, tossed, minted, generation, crashes, faults, torn>>

Dirs == ToSet(Roots)
FlowFiles == {<<d, kind, f>> : d \in Dirs, kind \in {"packet", "reference"}, f \in ToSet(Flavours)}
               \cup {<<d, "request", "Normal">> : d \in Dirs}
Dir(file) == file[1]
Kind(file) == file[2]
Flavour(file) == file[3]
NoFlow == <<"none", "none", "none">>

NoLock == 0
Locks == 1..(Cardinality(Dirs) + Cardinality(Scanners))
FreeLock == [owner |-> "none", stale |-> FALSE]
Unused == Locks \ (Range(bsy) \cup {scan[s].lock : s \in Scanners})

-----------------------------------------------------------------------------
(* flow_files: by flavour, references after the rest, then by path.         *)

InDirs(kind, flavour) == [i \in DOMAIN Roots |-> <<Roots[i], kind, flavour>>]
Mixed(flavour) ==
  FlattenSeq([i \in DOMAIN Roots |->
    IF flavour = "Normal" THEN <<<<Roots[i], "packet", flavour>>, <<Roots[i], "request", flavour>>>>
                          ELSE <<<<Roots[i], "packet", flavour>>>>])
Ordered == FlattenSeq([i \in DOMAIN Flavours |-> Mixed(Flavours[i]) \o InDirs("reference", Flavours[i])])
flow_files == SelectSeq(Ordered, LAMBDA file : file \in DOMAIN flow)

(* matching_reference *)
matching_reference(files, file) ==
  LET i == SelectInSeq(files, LAMBDA g : Kind(g) = "reference" /\ Flavour(g) = Flavour(file))
  IN IF i = 0 THEN NoFlow ELSE files[i]

(* parse_reference: the processed lines are skipped.                        *)
parse_reference(lines) == SelectSeq(lines, LAMBDA line : ~IsProcessed(line.mark))
as_attachment(line) == Attachment(line.name, Directive(line.mark))

(* correlate: every FileSpec of a file attach takes the first entry of its  *)
(* name that is still free, so the r-th wish for a name the r-th entry.     *)
Rank(list, i) == Cardinality({j \in 1..(i - 1) : list[j].name = list[i].name})
Wishes(mail) ==
  FlattenSeq([i \in DOMAIN mail |->
    IF ~Mail[mail[i]].attached THEN <<>>
    ELSE [j \in DOMAIN Mail[mail[i]].specs |-> [by |-> i, name |-> Mail[mail[i]].specs[j].name]]])
Wanted(mail) ==
  LET wishes == Wishes(mail)
  IN [w \in DOMAIN wishes |-> [by |-> wishes[w].by, name |-> wishes[w].name, rank |-> Rank(wishes, w)]]
Takes(wish, entries) ==
  {k \in DOMAIN entries : entries[k].name = wish.name /\ Rank(entries, k) = wish.rank}
Owned(wanted, entries, i) ==
  LET mine == SelectSeq(wanted, LAMBDA wish : wish.by = i /\ Takes(wish, entries) # {})
  IN [w \in DOMAIN mine |-> entries[CHOOSE k \in Takes(mine[w], entries) : TRUE]]
Correlated(mail, wanted, entries) ==
  [i \in DOMAIN mail |-> [mail |-> mail[i], lines |-> Owned(wanted, entries, i)]]

(* What nobody wants is unclaimed, unless a TIC makes it a distribution.    *)
EveryEntry(wanted, entries) == SelectSeq(entries, LAMBDA entry : entry.name \notin Tics)
Unclaimed(wanted, entries) ==
  LET left == {k \in DOMAIN entries : \A w \in DOMAIN wanted : k \notin Takes(wanted[w], entries)}
      indexes == SelectSeq([k \in DOMAIN entries |-> k], LAMBDA k : k \in left /\ entries[k].name \notin Tics)
  IN [i \in DOMAIN indexes |-> entries[indexes[i]]]

-----------------------------------------------------------------------------
(* Scanners.                                                                *)

Idle == [pc |-> "idle", files |-> <<>>, done |-> 0, dir |-> Roots[1], lock |-> NoLock,
         reference |-> NoFlow, entries |-> <<>>, todo |-> <<>>, rest |-> <<>>, consumed |-> {}, all |-> TRUE]
File(s) == scan[s].files[scan[s].done + 1]

At(s, pc) == scan[s].pc = pc
Goto(s, pc) == scan' = [scan EXCEPT ![s].pc = pc]
Set(s, record) == scan' = [scan EXCEPT ![s] = record]
(* The next file of node, with nothing kept of the last one.                *)
Onward(s) ==
  Set(s, [Idle EXCEPT !.pc = "work", !.files = scan[s].files, !.done = scan[s].done + 1,
                      !.dir = scan[s].dir, !.lock = scan[s].lock])
(* An error leaves node: the lock is dropped.                               *)
Fail(s) == Goto(s, "release")

SameLocks == UNCHANGED <<bsy, lock>>
SameWorld == UNCHANGED <<regime, hold, tossed, crashes, torn>>
SameFlow == UNCHANGED <<flow, generation>>
SameService == UNCHANGED <<jobs, minted, faults>>
Still == SameLocks /\ SameWorld /\ SameFlow /\ SameService

(* flow_files is read before the lock is taken.                             *)
List(s) ==
  /\ At(s, "idle") /\ s \in regime.crew /\ DOMAIN flow # {}
  /\ \E files \in {flow_files} :
       Set(s, [Idle EXCEPT !.pc = "held", !.files = files, !.dir = Dir(files[1])])
  /\ Still

(* held: a hold that has run out is deleted, unless another scanner has     *)
(* deleted it meanwhile, which is an error of the node.                     *)
Held(s) ==
  /\ At(s, "held")
  /\ CASE hold[scan[s].dir] = "future" -> Set(s, Idle)
       [] hold[scan[s].dir] = "past"   -> Goto(s, "unhold")
       [] hold[scan[s].dir] = "none"   -> Goto(s, "take")
  /\ Still
Unhold(s) ==
  /\ At(s, "unhold")
  /\ IF hold[scan[s].dir] = "none" THEN Set(s, Idle) ELSE Goto(s, "take")
  /\ hold' = [hold EXCEPT ![scan[s].dir] = "none"]
  /\ UNCHANGED <<regime, tossed, crashes, torn>> /\ SameLocks /\ SameFlow /\ SameService

(* BusyLock::take *)
Take(s) ==
  LET d == scan[s].dir
  IN /\ At(s, "take") /\ bsy[d] = NoLock
     /\ \E l \in Unused :
          /\ \A k \in Unused : l <= k
          /\ bsy' = [bsy EXCEPT ![d] = l]
          /\ lock' = [lock EXCEPT ![l] = [owner |-> s, stale |-> FALSE]]
          /\ scan' = [scan EXCEPT ![s].pc = "work", ![s].lock = l]
     /\ SameWorld /\ SameFlow /\ SameService
(* Mutant of OpenBusy: a stale lock is respected too. *)
RespectBusy(s) == At(s, "take") /\ bsy[scan[s].dir] # NoLock /\ Set(s, Idle) /\ Still
(* The file is there: a fresh one is respected, a stale one is opened.      *)
OpenBusy(s) ==
  LET d == scan[s].dir
  IN /\ At(s, "take") /\ bsy[d] # NoLock
     /\ IF lock[bsy[d]].stale THEN scan' = [scan EXCEPT ![s].pc = "reclaim", ![s].lock = bsy[d]]
                              ELSE Set(s, Idle)
     /\ Still
Reclaim(s) ==
  LET l == scan[s].lock
  IN /\ At(s, "reclaim")
     /\ IF lock[l].owner = "none" /\ lock[l].stale
          THEN lock' = [lock EXCEPT ![l] = [owner |-> s, stale |-> FALSE]] /\ Goto(s, "confirm")
          ELSE Set(s, Idle) /\ UNCHANGED lock
     /\ UNCHANGED bsy /\ SameWorld /\ SameFlow /\ SameService

(* Mutant of Confirm: the .bsy is not compared with the file that was locked. *)
ConfirmBlindly(s) ==
  At(s, "confirm") /\ Goto(s, "work") /\ Still
(* The lock of a file that is no longer the .bsy is worth nothing.          *)
Confirm(s) ==
  LET l == scan[s].lock
      current == bsy[scan[s].dir] = l
  IN /\ At(s, "confirm")
     /\ IF current THEN Goto(s, "work") /\ UNCHANGED lock
                   ELSE Set(s, Idle) /\ lock' = [lock EXCEPT ![l] = FreeLock]
     /\ UNCHANGED bsy /\ SameWorld /\ SameFlow /\ SameService
(* Drop removes the file only if it is still the one that was locked, and   *)
(* unlocks it.  Whoever has the removed file open sees its old age.         *)
Release(s) ==
  LET d == scan[s].dir  l == scan[s].lock
  IN /\ \/ At(s, "release")
        \/ At(s, "work") /\ scan[s].done = Len(scan[s].files)
     /\ bsy' = IF bsy[d] = l THEN [bsy EXCEPT ![d] = NoLock] ELSE bsy
     /\ lock' = [lock EXCEPT ![l].owner = "none"]
     /\ Set(s, Idle)
     /\ SameWorld /\ SameFlow /\ SameService

(* node: hold files wait for a poll, and a reference goes with its packet.  *)
Skipped(files, file) ==
  \/ Flavour(file) = "Hold" /\ ~IncludeHold
  \/ /\ Kind(file) = "reference"
     /\ \E i \in DOMAIN files : Kind(files[i]) = "packet" /\ Flavour(files[i]) = Flavour(file)
Turn(s, kind) ==
  /\ At(s, "work") /\ scan[s].done < Len(scan[s].files)
  /\ Kind(File(s)) = kind /\ ~Skipped(scan[s].files, File(s))
Skip(s) ==
  /\ At(s, "work") /\ scan[s].done < Len(scan[s].files)
  /\ Skipped(scan[s].files, File(s))
  /\ Onward(s)
  /\ Still

-----------------------------------------------------------------------------
(* packet and lone_reference.                                               *)

(* Packet::parse: one message that does not parse spoils the packet.        *)
Unparsable(file) ==
  file \in DOMAIN flow /\ Kind(file) = "packet" /\ ToSet(flow[file].lines) \cap Garbled # {}

(* A packet or reference that cannot be read, or does not parse, ends node, *)
(* and with it the turn of every file after it.                             *)
ReadPacket(s) ==
  /\ Turn(s, "packet")
  /\ \E reference \in {matching_reference(scan[s].files, File(s))} :
       IF \/ File(s) \notin DOMAIN flow \/ Unparsable(File(s))
          \/ reference \notin DOMAIN flow \cup {NoFlow} THEN Fail(s)
       ELSE \E entries \in {IF reference = NoFlow THEN <<>> ELSE parse_reference(flow[reference].lines)},
               wanted \in {Wanted(flow[File(s)].lines)} :
              scan' = [scan EXCEPT ![s].pc = "submit", ![s].reference = reference, ![s].entries = entries,
                                   ![s].todo = Correlated(flow[File(s)].lines, wanted, entries),
                                   ![s].rest = Unclaimed(wanted, entries)]
  /\ Still
ReadReference(s) ==
  /\ Turn(s, "reference")
  /\ IF File(s) \notin DOMAIN flow THEN Fail(s)
     ELSE \E entries \in {parse_reference(flow[File(s)].lines)} :
            scan' = [scan EXCEPT ![s].pc = "submit", ![s].reference = File(s), ![s].entries = entries,
                                 ![s].rest = Unclaimed(<<>>, entries)]
  /\ Still

(* generation_key: a file that is rewritten gets other keys.                *)
generation_key(file) == <<"bso", flow[file].generation>>
Context(fallback) ==
  [style |-> Style, features |-> Features, files |-> Present, offset |-> Offset, fallback |-> fallback]
Committed(request) == request.outcome = "ok" /\ ~Conflicts(jobs, request.jobs)

(* commit, where the service may also fail, and where its answer may be     *)
(* lost although the jobs are accepted.                                     *)
Commit(request, committed) ==
  \/ /\ committed = Committed(request)
     /\ jobs' = IF committed THEN Accept(jobs, request.jobs) ELSE jobs
     /\ UNCHANGED faults
  \/ /\ ~committed /\ request.outcome = "ok" /\ crashes + faults < regime.mishaps
     /\ faults' = faults + 1
     /\ \/ jobs' = jobs
        \/ Committed(request) /\ jobs' = Accept(jobs, request.jobs)

submit_message(owned) ==
  build_packed(Mail[owned.mail], [i \in DOMAIN owned.lines |-> as_attachment(owned.lines[i])],
               Context(<<"generated", minted>>))
SubmitMessage(s) ==
  /\ At(s, "submit") /\ scan[s].todo # <<>>
  /\ \E committed \in BOOLEAN :
       /\ Commit(submit_message(Head(scan[s].todo)), committed)
       /\ scan' = [scan EXCEPT ![s].todo = Tail(@), ![s].all = @ /\ committed,
                    ![s].consumed = IF committed THEN @ \cup ToSet(Head(scan[s].todo).lines) ELSE @]
  /\ minted' = IF Mail[Head(scan[s].todo).mail].msgid = "none" THEN minted + 1 ELSE minted
  /\ SameLocks /\ SameWorld /\ SameFlow

(* unclaimed_entries: one batch of what no message owns and no TIC names.   *)
NothingUnclaimed(s) ==
  /\ At(s, "submit") /\ scan[s].todo = <<>>
  /\ scan[s].rest = <<>> \/ ~HasDomain \/ File(s) \notin DOMAIN flow
  /\ Goto(s, "remove")
  /\ Still
SubmitUnclaimed(s) ==
  /\ At(s, "submit") /\ scan[s].todo = <<>> /\ scan[s].rest # <<>> /\ HasDomain
  /\ File(s) \in DOMAIN flow
  /\ \E committed \in BOOLEAN :
       /\ Commit(build_peer_files([i \in DOMAIN scan[s].rest |-> as_attachment(scan[s].rest[i])],
                                  Flavour(File(s)) = "Hold", Context(generation_key(File(s)))), committed)
       /\ scan' = [scan EXCEPT ![s].pc = "remove",
                    ![s].consumed = IF committed THEN @ \cup ToSet(scan[s].rest) ELSE @]
  /\ SameLocks /\ SameWorld /\ SameFlow /\ UNCHANGED minted

Without(file) == [other \in DOMAIN flow \ {file} |-> flow[other]]
Rewritten(file, lines) ==
  [other \in DOMAIN flow \cup {file} |->
     IF other = file THEN [lines |-> lines, generation |-> generation + 1] ELSE flow[other]]

(* Mutant of RemovePacket: a packet goes although a message of it failed. *)
RemovePacketAlways(s) ==
  /\ At(s, "remove")
  /\ Goto(s, "rewrite") /\ flow' = IF Kind(File(s)) = "packet" THEN Without(File(s)) ELSE flow
  /\ UNCHANGED generation /\ SameLocks /\ SameWorld /\ SameService
RemovePacket(s) ==
  /\ At(s, "remove")
  /\ IF Kind(File(s)) # "packet" \/ ~scan[s].all THEN Goto(s, "rewrite") /\ UNCHANGED flow
     ELSE IF File(s) \notin DOMAIN flow THEN Fail(s) /\ UNCHANGED flow
     ELSE Goto(s, "rewrite") /\ flow' = Without(File(s))
  /\ UNCHANGED generation /\ SameLocks /\ SameWorld /\ SameService

(* rewrite_reference: what was read and not consumed is written back; a     *)
(* file with nothing left is deleted.                                       *)
Keep(s) == SelectSeq(scan[s].entries, LAMBDA line : line \notin scan[s].consumed)
Rewrite(s) ==
  /\ At(s, "rewrite")
  /\ IF scan[s].reference = NoFlow \/ scan[s].consumed = {} THEN Onward(s) /\ SameFlow
     ELSE IF Keep(s) = <<>>
       THEN Onward(s) /\ flow' = Without(scan[s].reference) /\ UNCHANGED generation
       ELSE Goto(s, "refill") /\ flow' = Rewritten(scan[s].reference, <<>>) /\ generation' = generation + 1
  /\ SameLocks /\ SameWorld /\ SameService
Refill(s) ==
  /\ At(s, "refill")
  /\ flow' = Rewritten(scan[s].reference, Keep(s)) /\ generation' = generation + 1
  /\ Onward(s)
  /\ SameLocks /\ SameWorld /\ SameService

-----------------------------------------------------------------------------
(* request_list.  A field of an action is a mark and a value: "!" marks a   *)
(* password, "+" and "-" a time; "bad" a value that does not parse.         *)

Marked(action, marks) == {i \in DOMAIN action.fields : action.fields[i].mark \in marks}
unsupported(action) ==
  LET passwords == Marked(action, {"!"})
      times == Marked(action, {"+", "-"})
  IN \/ ~action.plain
     \/ Cardinality(passwords) > 1 \/ Cardinality(times) > 1
     \/ \E p \in passwords, t \in times : t < p
     \/ \E i \in DOMAIN action.fields : action.fields[i].mark \notin {"!", "+"} \/ action.fields[i].value = "bad"
Actions(lines) == SelectSeq(lines, LAMBDA action : ~unsupported(action))
newer_than(action) ==
  LET times == Marked(action, {"+"})
  IN IF times = {} THEN "any" ELSE action.fields[CHOOSE i \in times : TRUE].value
AsRequest(action) == [name |-> action.name, newer |-> newer_than(action)]

ReadRequest(s) ==
  /\ Turn(s, "request")
  /\ IF File(s) \notin DOMAIN flow THEN Fail(s)
     ELSE \E actions \in {Actions(flow[File(s)].lines)} :
            IF actions = <<>> \/ ~HasDomain THEN Onward(s)
            ELSE scan' = [scan EXCEPT ![s].pc = "ask", ![s].reference = File(s), ![s].rest = actions,
                                      ![s].entries = flow[File(s)].lines]
  /\ Still
Ask(s) ==
  /\ At(s, "ask")
  /\ IF File(s) \notin DOMAIN flow THEN Fail(s) /\ SameService
     ELSE \E committed \in BOOLEAN :
            /\ Commit(build_file_requests([i \in DOMAIN scan[s].rest |-> AsRequest(scan[s].rest[i])],
                                          FALSE, Context(generation_key(File(s)))), committed)
            /\ IF committed THEN scan' = [scan EXCEPT ![s].pc = "rewrite", ![s].consumed = ToSet(scan[s].rest)]
                            ELSE Onward(s)
            /\ UNCHANGED minted
  /\ SameLocks /\ SameWorld /\ SameFlow

-----------------------------------------------------------------------------
(* The environment.  The tosser works under the .bsy of its own directory.  *)

LinesOf(file) == IF file \in DOMAIN flow THEN flow[file].lines ELSE <<>>
Written(toss) ==
  LET more == (<<toss.dir, "packet", toss.flavour>> :> toss.mail)
                @@ (<<toss.dir, "reference", toss.flavour>> :> toss.entries)
                @@ (<<toss.dir, "request", "Normal">> :> toss.actions)
      touched == {file \in DOMAIN more : more[file] # <<>>}
  IN [file \in DOMAIN flow \cup touched |->
        IF file \in touched THEN [lines |-> LinesOf(file) \o more[file], generation |-> generation + 1]
        ELSE flow[file]]
Tosses == UNION {r.tosses : r \in Regimes}
Toss(toss) ==
  /\ toss \in regime.tosses \ tossed /\ bsy[toss.dir] = NoLock
  /\ flow' = Written(toss) /\ generation' = generation + 1
  /\ tossed' = tossed \cup {toss}
  /\ UNCHANGED <<regime, hold, bsy, lock, scan, jobs, minted, crashes, faults, torn>>

(* The system unlocks the files of a process that dies.                     *)
Crash(s) ==
  /\ ~At(s, "idle") /\ crashes + faults < regime.mishaps
  /\ crashes' = crashes + 1
  /\ lock' = [l \in Locks |-> IF lock[l].owner = s THEN [lock[l] EXCEPT !.owner = "none"] ELSE lock[l]]
  /\ torn' = torn \cup ({"rewrite", "refill"} \cap {scan[s].pc})
  /\ Set(s, Idle)
  /\ UNCHANGED <<regime, flow, hold, bsy, jobs, tossed, minted, generation, faults>>

Age(d) ==
  /\ bsy[d] # NoLock /\ ~lock[bsy[d]].stale
  /\ lock' = [lock EXCEPT ![bsy[d]].stale = TRUE]
  /\ UNCHANGED <<regime, flow, hold, bsy, scan, jobs, tossed, minted, generation, crashes, faults, torn>>
HoldExpires(d) ==
  /\ hold[d] = "future"
  /\ hold' = [hold EXCEPT ![d] = "past"]
  /\ UNCHANGED <<regime, flow, bsy, lock, scan, jobs, tossed, minted, generation, crashes, faults, torn>>

(* Every directory is on hold at first; a hold that is gone does not return. *)
Init ==
  /\ regime \in Regimes
  /\ flow = [file \in {} |-> [lines |-> <<>>, generation |-> 0]]
  /\ hold = [d \in Dirs |-> "future"]
  /\ bsy = [d \in Dirs |-> NoLock] /\ lock = [l \in Locks |-> FreeLock]
  /\ scan = [s \in Scanners |-> Idle]
  /\ jobs = {} /\ tossed = {} /\ minted = 0 /\ generation = 0
  /\ crashes = 0 /\ faults = 0 /\ torn = {}

Work(s) ==
  \/ Held(s) \/ Unhold(s) \/ Take(s) \/ OpenBusy(s) \/ Reclaim(s) \/ Confirm(s) \/ Release(s) \/ Skip(s)
  \/ ReadPacket(s) \/ ReadReference(s) \/ SubmitMessage(s) \/ NothingUnclaimed(s) \/ SubmitUnclaimed(s)
  \/ RemovePacket(s) \/ Rewrite(s) \/ Refill(s) \/ ReadRequest(s) \/ Ask(s)
Next ==
  \/ \E s \in Scanners : List(s) \/ Work(s) \/ Crash(s)
  \/ \E toss \in Tosses : Toss(toss)
  \/ \E d \in Dirs : Age(d) \/ HoldExpires(d)

Spec == Init /\ [][Next]_vars

(* Scans are started again and again and go on; holds and locks grow old.   *)
FairSpec ==
  /\ Spec
  /\ \A s \in Scanners : WF_vars(List(s) \/ Work(s))
  /\ \A d \in Dirs : WF_vars(Age(d)) /\ WF_vars(HoldExpires(d))

-----------------------------------------------------------------------------
Working(s) == scan[s].pc \notin {"idle", "held", "unhold", "take", "reclaim", "confirm"}
Accepted(m) == {job \in jobs : job.kind \in {"NetMail", "EchoMail"} /\ job.of = m}
Carrying(name) == {job \in jobs : \E i \in DOMAIN job.files : job.files[i].name = name}
Asked(name) == {job \in jobs : job.kind = "FileRequest" /\ job.of = name}

TypeOK ==
  /\ DOMAIN flow \subseteq FlowFiles
  /\ \A d \in Dirs : bsy[d] \in Locks \cup {NoLock} /\ hold[d] \in {"none", "future", "past"}
  /\ \A s \in Scanners : scan[s].done \in 0..Len(scan[s].files)

(* BusyLock: two scanners never work in one directory, however a stale lock *)
(* is reclaimed while its owner finishes.                                   *)
Mutex == \A s, t \in Scanners : s # t /\ Working(s) /\ Working(t) => scan[s].dir # scan[t].dir

(* packet, lone_reference and request_list: a message, an entry or an       *)
(* action leaves its flow file only when the service has a job for it; only *)
(* a crash in the middle of a rewrite can cost an entry.                    *)
NothingLost ==
  \A toss \in tossed :
    /\ \A i \in DOMAIN toss.mail :
         \/ toss.mail[i] \in ToSet(LinesOf(<<toss.dir, "packet", toss.flavour>>))
         \/ Accepted(toss.mail[i]) # {}
    /\ \A i \in DOMAIN toss.entries :
         \/ IsProcessed(toss.entries[i].mark) \/ Carrying(toss.entries[i].name) # {}
         \/ toss.entries[i] \in ToSet(LinesOf(<<toss.dir, "reference", toss.flavour>>))
         \/ "refill" \in torn \/ \E s \in Scanners : At(s, "refill")
    /\ \A i \in DOMAIN toss.actions :
         \/ toss.actions[i] \in ToSet(LinesOf(<<toss.dir, "request", "Normal">>))
         \/ Asked(toss.actions[i].name) # {}
         \/ "refill" \in torn \/ \E s \in Scanners : At(s, "refill")

(* A message with a MSGID gives one job.  A file goes out once, unless a    *)
(* scanner crashed or an answer was lost.                                   *)
SentOnce ==
  \A toss \in tossed :
    /\ \A i \in DOMAIN toss.mail :
         Mail[toss.mail[i]].msgid # "none" => Cardinality(Accepted(toss.mail[i])) <= 1
    /\ \A i \in DOMAIN toss.entries :
         crashes + faults = 0 => Cardinality(Carrying(toss.entries[i].name)) <= 1

(* Every message, action and entry that is to be sent and has no TIC is     *)
(* submitted in the end, whatever holds, locks and mishaps come between.    *)
(* What can prevent it: a crash in the middle of a rewrite; a packet of the *)
(* node that does not parse, which ends every pass at its place (packet,    *)
(* node); and an entry whose file is missing, or whose directive needs a    *)
(* feature the service lacks, which fails the batch of its whole reference  *)
(* and the message it is attached to (build_peer_files, build_packed).      *)
Submittable(m) == build_packed(Mail[m], <<>>, Context(<<"generated", 0>>)).outcome = "ok"
Starved(file) ==
  \E i, j \in DOMAIN Ordered : i <= j /\ Ordered[j] = file /\ Unparsable(Ordered[i])
Impeded(reference) ==
  \E line \in ToSet(LinesOf(reference)) :
    /\ ~IsProcessed(line.mark) /\ line.name \notin Tics
    /\ AttachmentCheck(as_attachment(line), Context(<<"generated", 0>>)) # "ok"
Gone(toss) ==
  LET packet == <<toss.dir, "packet", toss.flavour>>
      reference == <<toss.dir, "reference", toss.flavour>>
      request == <<toss.dir, "request", "Normal">>
  IN /\ \A m \in ToSet(toss.mail) :
          \/ Accepted(m) # {}
          \/ Starved(packet)
          \/ ~Submittable(m)
          \/ Mail[m].attached /\ Impeded(reference)
     /\ \A entry \in ToSet(toss.entries) :
          \/ Carrying(entry.name) # {}
          \/ IsProcessed(entry.mark) \/ entry.name \in Tics
          \/ Starved(reference) \/ Impeded(reference) \/ "refill" \in torn
     /\ \A action \in ToSet(toss.actions) :
          Asked(action.name) # {} \/ unsupported(action) \/ Starved(request) \/ "refill" \in torn
EverythingLeaves == []<>(\A toss \in tossed : Gone(toss))

(* packet: "Section 3.1: the packet is deleted after its information is     *)
(* transferred.  Committed is that point; anything short of it leaves       *)
(* everything alone."                                                       *)
PacketRetires == []<>(\A toss \in tossed : <<toss.dir, "packet", toss.flavour>> \notin DOMAIN flow)

=============================================================================
