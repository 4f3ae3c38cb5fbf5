----------------------------- MODULE NetmailScan -----------------------------
(***************************************************************************)
(* `tith netmail scan' (tith/src/netmail.rs): scanners take the stored      *)
(* messages of a directory, submit them and mark or remove them, while the  *)
(* legacy software adds messages and other scanners run.                    *)
(*                                                                         *)
(* A name is <<n, depth>>: n.msg with depth claim suffixes.  Names are hard *)
(* links, so several may name one file; every system call is one step.      *)
(***************************************************************************)
EXTENDS LegacySubmission, FiniteSets

CONSTANTS
  Scanners,
  Letters,        \* the messages the legacy software will store, by id
  MaxNumber,      \* message numbers are 1..MaxNumber (code: u32): enough for every copy
  MaxPosted,      \* the legacy software uses numbers up to MaxPosted
  MaxFiles,       \* files that exist at a time
  MaxDepth,       \* no claim has more than MaxDepth suffixes
  Regimes,        \* what runs where: records of links, crew, patience, crashes
  KillSent,       \* --kill-sent
  Features, Present, Style, Offset,
  MaxFaults       \* requests or answers that are lost, or temporary failures

VARIABLES
  regime,         \* links: the filesystem has hard links; crew: the scanners that run;
                  \* patience: no claim is stale while its scanner lives; crashes: how many
  fs,             \* the names of the directory and the contents of its files
  scan,           \* the scanners
  jobs,           \* the jobs the service has accepted
  stored,         \* the messages the legacy software has written
  minted,         \* how many keys were generated
  crashes, faults

vars == <<regime, fs, scan, jobs, stored, minted, crashes, faults>>

Names == (1..MaxNumber) \X (0..MaxDepth)
Files == 1..MaxFiles
NoFile == 0
NoName == <<0, 0>>

Blank == [letter |-> "none", sent |-> FALSE]
Copy(m, sent) == [letter |-> m, sent |-> sent]

Number(n) == <<n, 0>>
Claimed(name) == <<name[1], name[2] + 1>>
(* Mutant of original_name: the claim suffix is kept. *)
WholeName(name) == name
(* original_name: one claim suffix less than the name a claim was taken of. *)
original_name(name) == <<name[1], name[2] - 1>>

-----------------------------------------------------------------------------
(* The filesystem: the names there are, each with its file.                 *)

Exists(name) == name \in DOMAIN fs.name
Contents(name) == fs.file[fs.name[name]]
FreshFile == CHOOSE f \in Files : f \notin Range(fs.name) \cup {scan[s].file : s \in Scanners}

Named(name, f) ==
  [other \in DOMAIN fs.name \cup {name} |-> IF other = name THEN f ELSE fs.name[other]]
hard_link(from, to) == [fs EXCEPT !.name = Named(to, fs.name[from])]
remove_file(name) ==
  \* a file without a name is never read again
  LET rest == [other \in DOMAIN fs.name \ {name} |-> fs.name[other]]
  IN [name |-> rest,
      file |-> IF fs.name[name] \in Range(rest) THEN fs.file
               ELSE [fs.file EXCEPT ![fs.name[name]] = Blank]]
create_new(name) == [name |-> Named(name, FreshFile), file |-> [fs.file EXCEPT ![FreshFile] = Blank]]
write_file(f, contents) == [fs EXCEPT !.file[f] = contents]

-----------------------------------------------------------------------------
(* Scanners.                                                                *)

Idle == [pc |-> "idle", phase |-> "main", queue |-> <<>>, path |-> NoName, claimed |-> NoName,
         preferred |-> NoName, bytes |-> Blank, try |-> 0, file |-> NoFile]

Before(x, y) == x[1] < y[1] \/ (x[1] = y[1] /\ x[2] < y[2])
Sorted(names) == SetToSortSeq(names, Before)

stored_messages == Sorted({name \in DOMAIN fs.name : name[2] = 0})
abandoned_claims == {name \in DOMAIN fs.name : name[2] \in 1..(MaxDepth - 1)}
IsHeld(name) ==
  \E s \in Scanners : scan[s].pc \notin {"idle", "next"} /\ name \in {scan[s].claimed, Claimed(scan[s].path)}
Unheld == {name \in abandoned_claims : ~IsHeld(name)}

At(s, pc) == scan[s].pc = pc
Goto(s, pc) == scan' = [scan EXCEPT ![s].pc = pc]
(* The rest of sweep: the next path, with nothing kept of the last one.     *)
Return(s) ==
  scan' = [scan EXCEPT ![s] = [Idle EXCEPT !.pc = "next", !.phase = scan[s].phase, !.queue = scan[s].queue]]
Files_(f) == fs' = f
Same == UNCHANGED <<regime, jobs, stored, minted, crashes, faults>>

Begin(s) ==
  /\ At(s, "idle") /\ s \in regime.crew
  /\ scan' = [scan EXCEPT ![s] = [Idle EXCEPT !.pc = "next", !.queue = stored_messages]]
  /\ Same /\ UNCHANGED fs

NextPath(s) ==
  /\ At(s, "next") /\ scan[s].queue # <<>>
  /\ scan' = [scan EXCEPT ![s].pc = "claim", ![s].path = Head(scan[s].queue), ![s].queue = Tail(scan[s].queue)]
  /\ Same /\ UNCHANGED fs

(* abandoned_claims: age decides, so any claim may be old enough.           *)
RecoverStale(s, stale) ==
  /\ At(s, "next") /\ scan[s].queue = <<>> /\ scan[s].phase = "main"
  /\ scan' = [scan EXCEPT ![s].phase = "recover", ![s].queue = Sorted(stale)]
  /\ Same /\ UNCHANGED fs
Recover(s) == \E stale \in SUBSET (IF regime.patience THEN Unheld ELSE abandoned_claims) : RecoverStale(s, stale)
RecoverAll(s) == RecoverStale(s, Unheld)

End(s) ==
  /\ At(s, "next") /\ scan[s].queue = <<>> /\ scan[s].phase = "recover"
  /\ scan' = [scan EXCEPT ![s] = Idle]
  /\ Same /\ UNCHANGED fs

(* claim: the existence of the claim's name is the gate.                    *)
ClaimLink(s) ==
  LET path == scan[s].path
      free == Exists(path) /\ ~Exists(Claimed(path))
  IN /\ At(s, "claim") /\ regime.links
     /\ IF free THEN Files_(hard_link(path, Claimed(path))) /\ Goto(s, "unlink")
                ELSE UNCHANGED fs /\ Return(s)
     /\ Same
ClaimCreate(s) ==
  LET path == scan[s].path
      free == Exists(path) /\ ~Exists(Claimed(path))
  IN /\ At(s, "claim") /\ ~regime.links
     /\ IF free THEN /\ Files_(create_new(Claimed(path)))
                     /\ scan' = [scan EXCEPT ![s].pc = "copy", ![s].file = FreshFile]
                ELSE UNCHANGED fs /\ Return(s)
     /\ Same
ClaimCopy(s) ==
  LET path == scan[s].path
  IN /\ At(s, "copy")
     /\ IF Exists(path) THEN /\ Files_(write_file(scan[s].file, Contents(path)))
                             /\ scan' = [scan EXCEPT ![s].pc = "unlink", ![s].file = NoFile]
        ELSE /\ Files_(IF Exists(Claimed(path)) THEN remove_file(Claimed(path)) ELSE fs)
             /\ Return(s)
     /\ Same
ClaimUnlink(s) ==
  LET path == scan[s].path
      preferred == IF scan[s].phase = "main" THEN path ELSE original_name(path)
  IN /\ At(s, "unlink")
     /\ IF Exists(path)
          THEN /\ Files_(remove_file(path))
               /\ scan' = [scan EXCEPT ![s].pc = "read", ![s].claimed = Claimed(path),
                                       ![s].preferred = preferred]
          ELSE UNCHANGED fs /\ Return(s)
     /\ Same

(* deliver, up to the submission: what does not parse and what was already  *)
(* sent goes back.                                                          *)
AfterRead(contents) == IF contents = Blank \/ contents.sent THEN "place" ELSE "submit"
Read(s) ==
  LET contents == Contents(scan[s].claimed)
  IN /\ At(s, "read")
     /\ IF Exists(scan[s].claimed)
          THEN scan' = [scan EXCEPT ![s].pc = AfterRead(contents), ![s].bytes = contents]
          ELSE Return(s)
     /\ Same /\ UNCHANGED fs

Context(fallback) ==
  [style |-> Style, features |-> Features, files |-> Present, offset |-> Offset, fallback |-> fallback]
(* submit: the request of this attempt, with a new fallback key.            *)
Request(s) == build(Letters[scan[s].bytes.letter], Context(<<"generated", minted>>))

AfterSubmit(s, committed) == IF committed THEN "retire" ELSE "place"

Submit(s) ==
  /\ At(s, "submit")
  /\ \E request \in {Request(s)} :
       /\ \E committed \in {request.outcome = "ok" /\ ~Conflicts(jobs, request.jobs)} :
            /\ jobs' = IF committed THEN Accept(jobs, request.jobs) ELSE jobs
            /\ Goto(s, AfterSubmit(s, committed))
       /\ minted' = IF \E i \in DOMAIN request.jobs : request.jobs[i].key[1] = "generated"
                    THEN minted + 1 ELSE minted
  /\ UNCHANGED <<regime, fs, stored, crashes, faults>>

(* The request or its answer is lost, or the service cannot serve it now.   *)
SubmitFails(s) ==
  /\ At(s, "submit") /\ faults < MaxFaults
  /\ \E request \in {Request(s)} :
       /\ request.outcome = "ok"
       /\ \/ jobs' = jobs
          \/ ~Conflicts(jobs, request.jobs) /\ jobs' = Accept(jobs, request.jobs)
       /\ minted' = IF \E i \in DOMAIN request.jobs : request.jobs[i].key[1] = "generated"
                    THEN minted + 1 ELSE minted
  /\ faults' = faults + 1
  /\ Goto(s, AfterSubmit(s, FALSE))
  /\ UNCHANGED <<regime, fs, stored, crashes>>

(* deliver, after a Committed result: the message is killed, or written     *)
(* with its Sent bit and published.                                         *)
Kills(s) == KillSent \/ requests_kill(Letters[scan[s].bytes.letter])
Retire(s) ==
  LET claimed == scan[s].claimed
  IN /\ At(s, "retire")
     /\ IF Kills(s) THEN /\ Files_(IF Exists(claimed) THEN remove_file(claimed) ELSE fs)
                         /\ Return(s)
        ELSE /\ Files_(IF Exists(claimed) THEN write_file(fs.name[claimed], Blank)
                       ELSE create_new(claimed))
             /\ scan' = [scan EXCEPT ![s].pc = "fill",
                           ![s].file = IF Exists(claimed) THEN fs.name[claimed] ELSE FreshFile]
     /\ Same
Fill(s) ==
  /\ At(s, "fill")
  /\ Files_(write_file(scan[s].file, Copy(scan[s].bytes.letter, TRUE)))
  /\ scan' = [scan EXCEPT ![s].pc = "place", ![s].file = NoFile]
  /\ Same

(* publish and place: the first name that is free, the old one preferred.   *)
Candidate(s) == IF scan[s].try = 0 THEN scan[s].preferred ELSE Number(scan[s].try)
(* Mutant of Place: one name is tried, and taken for placed. *)
PlaceOver(s) ==
  /\ At(s, "place") /\ Exists(scan[s].claimed)
  /\ Files_(hard_link(scan[s].claimed, scan[s].preferred)) /\ Goto(s, "drop")
  /\ Same
Place(s) ==
  LET claimed == scan[s].claimed
  IN /\ At(s, "place") /\ scan[s].try <= MaxNumber
     /\ IF Exists(Candidate(s))
          THEN UNCHANGED fs /\ scan' = [scan EXCEPT ![s].try = @ + 1]
        ELSE IF regime.links /\ Exists(claimed)
          THEN Files_(hard_link(claimed, Candidate(s))) /\ Goto(s, "drop")
        ELSE /\ Files_(create_new(Candidate(s)))
             /\ scan' = [scan EXCEPT ![s].pc = "fillplace", ![s].file = FreshFile]
     /\ Same
PlaceCopy(s) ==
  LET claimed == scan[s].claimed
  IN /\ At(s, "fillplace")
     /\ IF Exists(claimed)
          THEN /\ Files_(write_file(scan[s].file, Contents(claimed)))
               /\ scan' = [scan EXCEPT ![s].pc = "drop", ![s].file = NoFile]
          ELSE UNCHANGED fs /\ Return(s)
     /\ Same
Drop(s) ==
  LET claimed == scan[s].claimed
  IN /\ At(s, "drop")
     /\ Files_(IF Exists(claimed) THEN remove_file(claimed) ELSE fs)
     /\ Return(s)
     /\ Same

-----------------------------------------------------------------------------
(* The environment.                                                         *)

Post(m, n) ==
  /\ m \notin stored /\ ~Exists(Number(n))
  /\ fs' = [name |-> Named(Number(n), FreshFile), file |-> [fs.file EXCEPT ![FreshFile] = Copy(m, FALSE)]]
  /\ stored' = stored \cup {m}
  /\ UNCHANGED <<regime, scan, jobs, minted, crashes, faults>>

Crash(s) ==
  /\ scan[s].pc \notin {"idle", "next"} /\ crashes < regime.crashes
  /\ crashes' = crashes + 1
  /\ scan' = [scan EXCEPT ![s] = Idle]
  /\ UNCHANGED <<regime, fs, jobs, stored, minted, faults>>

Init ==
  /\ regime \in Regimes
  /\ fs = [name |-> [name \in {} |-> NoFile], file |-> [f \in Files |-> Blank]]
  /\ scan = [s \in Scanners |-> Idle]
  /\ jobs = {} /\ stored = {} /\ minted = 0 /\ crashes = 0 /\ faults = 0

Work(s) ==
  \/ NextPath(s) \/ ClaimLink(s) \/ ClaimCreate(s) \/ ClaimCopy(s) \/ ClaimUnlink(s) \/ Read(s)
  \/ Submit(s) \/ SubmitFails(s) \/ Retire(s) \/ Fill(s) \/ Place(s)
  \/ PlaceCopy(s) \/ Drop(s)
Next ==
  \/ \E s \in Scanners : Begin(s) \/ Recover(s) \/ End(s) \/ Work(s) \/ Crash(s)
  \/ \E m \in DOMAIN Letters, n \in 1..MaxPosted : Post(m, n)

Spec == Init /\ [][Next]_vars

(* A scanner that started goes on, scans are started again and again, and a *)
(* claim nobody holds is old enough at last.                                *)
FairSpec ==
  /\ Spec
  /\ \A s \in Scanners : /\ WF_vars(Begin(s)) /\ WF_vars(Work(s)) /\ WF_vars(End(s))
                         /\ SF_vars(RecoverAll(s))

-----------------------------------------------------------------------------
Accepted(m) == {job \in jobs : job.of = m}
Holding(m) == {name \in DOMAIN fs.name : Contents(name).letter = m}

TypeOK ==
  /\ DOMAIN fs.name \subseteq Names /\ Range(fs.name) \subseteq Files
  /\ \A s \in Scanners : scan[s].file \in Files \cup {NoFile} /\ scan[s].try \in 0..(MaxNumber + 1)
  /\ \A job \in jobs : job.of \in stored

(* No message is lost: until its job is accepted, a stored message is in    *)
(* the directory, unsent, under its own name or under a claim.              *)
NothingLost ==
  \A m \in stored : Accepted(m) # {} \/ \E name \in Holding(m) : ~Contents(name).sent

(* Only what was accepted is marked: a Sent bit stands for a job.           *)
SentIsAccepted ==
  \A name \in DOMAIN fs.name : Contents(name).sent => Accepted(Contents(name).letter) # {}

(* A message with a MSGID gives one job, however often it is submitted; one *)
(* without gives a second only after a crash or a lost answer.              *)
SubmittedOnce ==
  \A m \in stored :
    Letters[m].msgid # "none" \/ crashes + faults = 0 => Cardinality(Accepted(m)) <= 1

(* deliver and sweep come to an end with every message that can be built:   *)
(* it is accepted, no claim of it is left, and no copy waits unsent.        *)
Settled(m) == Accepted(m) # {} /\ \A name \in Holding(m) : name[2] = 0 /\ Contents(name).sent
Buildable(m) == build(Letters[m], Context(<<"generated", 0>>)).outcome = "ok"
EveryMessageSettles == \A m \in {m \in DOMAIN Letters : Buildable(m)} : m \in stored ~> Settled(m)

=============================================================================
