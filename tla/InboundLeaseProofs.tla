-------------------------- MODULE InboundLeaseProofs --------------------------
(***************************************************************************)
(* Proof that the inbound spool honours a claim until the time its         *)
(* consumer was told, whatever other threads, kills and late readings of   *)
(* the clock do.                                                           *)
(***************************************************************************)
EXTENDS InboundSpoolProofs

(***************************************************************************)
(* A promise to honour a claim until a time is kept: the claim is open and *)
(* expires no earlier, or it has ended, by its consumer or after that time.*)
(***************************************************************************)
Kept(id, token, until) ==
    /\ Open(id, token) => until <= records[id].expires
    /\ token \in DOMAIN resolved => resolved[token].completed \/ until <= now

Promises ==
    /\ \A l \in leases : Kept(l.id, l.token, l.until)
    /\ \A c \in Connections : Exports(c) => Kept(conn[c].id, conn[c].token, conn[c].until)

(***************************************************************************)
(* A renewal does not shorten a claim: while its only request is served,   *)
(* the claim expires no later than Duration after the request arrived.     *)
(***************************************************************************)
Renewals ==
    /\ \A id \in DOMAIN records :
           records[id].state = "Claimed" => records[id].expires <= now + Duration
    /\ \A c \in Connections :
           conn[c].phase \in {"Asked", "Ready"} /\ Open(conn[c].id, conn[c].token) =>
               records[conn[c].id].expires <= conn[c].asOf + Duration
    /\ \A c, d \in Connections : Controls(c) /\ About(d, conn[c].token) => c = d

LInv == IInv /\ Promises /\ Renewals
-----------------------------------------------------------------------------
(***************************************************************************)
(* LeaseHonoured.  What a step does to the promises: they stay kept, and   *)
(* no claim becomes open or expires later, except the one a Renew asks for.*)
(***************************************************************************)
OpenNext(id, token) == records'[id].state = "Claimed" /\ records'[id].token = token

KeptNext(id, token, until) ==
    /\ OpenNext(id, token) => until <= records'[id].expires
    /\ token \in DOMAIN resolved' => resolved'[token].completed \/ until <= now'

StillKept ==
    \A id \in DOMAIN records, token \in Tokens, until \in Clock :
        Granted(id, token) /\ Kept(id, token, until) => KeptNext(id, token, until)

NotLonger ==
    \A id \in DOMAIN records, token \in Tokens :
        Granted(id, token) /\ OpenNext(id, token) =>
            /\ Open(id, token)
            /\ records'[id].expires \in Clock
            /\ records'[id].expires <= records[id].expires

Bounded ==
    \A id \in DOMAIN records' :
        records'[id].state = "Claimed" => records'[id].expires <= now' + Duration

(* A granted claim is of an item that has a record. *)
LEMMA GrantedRecords ==
    ASSUME IInv, NEW id, NEW token, Granted(id, token)
    PROVE  id \in DOMAIN records /\ token \in Tokens
BY DEF IInv, TablesAgree, TypeOK, Mapping, Granted

(* A claimed item has an expiration. *)
LEMMA ExpiryTypes ==
    ASSUME IInv, NEW id \in DOMAIN records, records[id].state = "Claimed"
    PROVE  records[id].expires \in Clock
BY ZenonT(40) DEF IInv, TypeOK, TablesAgree, Record

(* No table changes. *)
LEMMA QuietTables ==
    ASSUME LInv, UNCHANGED <<records, resolved>>, now' \in Clock, now <= now'
    PROVE  StillKept /\ NotLonger /\ Bounded
<1>1. IInv /\ now \in Clock /\ Duration \in Nat
  BY Zenon, InboundAssumption DEF LInv, IInv, TypeOK
<1>2. StillKept
  BY <1>1, TimeTypes DEF Clock, StillKept, Kept, KeptNext, Open, OpenNext
<1>3. ASSUME NEW id \in DOMAIN records, records[id].state = "Claimed"
      PROVE  /\ records[id].expires \in Clock
             /\ records[id].expires <= records[id].expires
             /\ records[id].expires <= now' + Duration
  <2>1. records[id].expires \in Clock /\ records[id].expires <= now + Duration
    BY ZenonT(40), <1>1, <1>3, ExpiryTypes DEF LInv, Renewals
  <2> QED
    BY <2>1, <1>1, TimeTypes DEF Clock
<1> QED
  BY Zenon, <1>2, <1>3 DEF NotLonger, Bounded, Open, OpenNext

(* Claims end, by their consumer or because they have run out. *)
LEMMA EndsPromises ==
    ASSUME LInv, NEW ids \in SUBSET DOMAIN records, \A id \in ids : records[id].state = "Claimed",
           NEW new, NEW completed \in BOOLEAN, Ends(ids, new, completed), now' = now,
           \A id \in ids : new[id].state # "Claimed",
           completed \/ \A id \in ids : records[id].expires <= now
    PROVE  StillKept /\ NotLonger /\ Bounded
<1>1. IInv /\ TypeOK /\ TablesAgree /\ now \in Clock
  BY Zenon DEF LInv, IInv, TypeOK
<1>2. \A id \in DOMAIN records : \A token \in Tokens : OpenNext(id, token) =>
         id \notin ids /\ records'[id] = records[id] /\ Open(id, token)
  BY Zenon DEF Ends, Open, OpenNext
<1>3. ASSUME NEW id \in DOMAIN records, NEW token \in Tokens, NEW until \in Clock,
             Granted(id, token), Kept(id, token, until)
      PROVE  KeptNext(id, token, until)
  <2>1. OpenNext(id, token) => until <= records'[id].expires
    BY ZenonT(40), <1>2, <1>3 DEF Kept
  <2>2. ASSUME token \in DOMAIN resolved' PROVE resolved'[token].completed \/ until <= now'
    <3>1. CASE token \in DOMAIN resolved
      BY Zenon, <3>1, <1>3 DEF Kept, Ends
    <3>2. CASE token \notin DOMAIN resolved
      <4>1. PICK i \in ids : token = records[i].token
        BY <2>2, <3>2 DEF Ends
      <4>2. PICK k \in DOMAIN mappings : mappings[k].id = id /\ mappings[k].token = token
        BY Zenon, <1>3 DEF Granted
      <4>3. /\ KeyOf(records[i]) \in DOMAIN mappings
            /\ mappings[KeyOf(records[i])].id = i
            /\ mappings[KeyOf(records[i])].token = records[i].token
        BY Zenon, <1>1, OpenClaims
      <4>4. KeyOf(records[i]) = k
        <5>1. \A x, y \in DOMAIN mappings : mappings[x].token = mappings[y].token => x = y
          BY Zenon, <1>1 DEF TablesAgree
        <5> QED
          BY Zenon, <4>1, <4>2, <4>3, <5>1
      <4>5. id = i
        BY Zenon, <4>2, <4>3, <4>4
      <4>6. until <= records[id].expires /\ records[id].expires \in Clock
        BY Zenon, <1>1, <1>3, <4>1, <4>5, ExpiryTypes DEF Kept, Open
      <4>7. resolved'[token].completed = completed
        <5>1. resolved'[token] = [id |-> i, state |-> new[i].state, completed |-> completed]
          BY Zenon, <4>1 DEF Ends
        <5> QED
          BY <5>1
      <4> QED
        BY SMTT(60), <1>1, <4>5, <4>6, <4>7, TimeTypes DEF Clock
    <3> QED
      BY ZenonT(40), <3>1, <3>2
  <2> QED
    BY ZenonT(40), <2>1, <2>2 DEF KeptNext
<1>4. NotLonger
  <2> SUFFICES ASSUME NEW id \in DOMAIN records, NEW token \in Tokens, OpenNext(id, token)
               PROVE  /\ Open(id, token) /\ records'[id].expires \in Clock
                      /\ records'[id].expires <= records[id].expires
    BY Zenon DEF NotLonger
  <2>1. Open(id, token) /\ records'[id] = records[id]
    BY Zenon, <1>2
  <2>2. records[id].expires \in Clock
    BY Zenon, <1>1, <2>1, ExpiryTypes DEF Open
  <2> QED
    BY <2>1, <2>2, TimeTypes DEF Clock
<1>5. Bounded
  BY Zenon DEF Bounded, Ends, LInv, Renewals
<1> QED
  BY ZenonT(40), <1>3, <1>4, <1>5 DEF StillKept

(* A refresh by a time that has been breaks no promise. *)
LEMMA RefreshPromises ==
    ASSUME LInv, NEW asOf \in Clock, asOf <= now, RefreshExpirations(asOf), now' = now
    PROVE  StillKept /\ NotLonger /\ Bounded
<1>1. IInv
  BY Zenon DEF LInv
<1>2. PICK new : /\ \A id \in Expired(asOf) : new[id].state = "Available"
                 /\ Ends(Expired(asOf), new, FALSE)
  BY Zenon, <1>1, RefreshEnds
<1>3. ASSUME NEW id \in Expired(asOf)
      PROVE  id \in DOMAIN records /\ records[id].state = "Claimed" /\ records[id].expires <= now
  <2>1. id \in DOMAIN records /\ records[id].state = "Claimed" /\ records[id].expires <= asOf
    BY Zenon DEF Expired
  <2>2. records[id].expires \in Clock /\ now \in Clock
    BY ZenonT(40), <1>1, <2>1, ExpiryTypes DEF IInv, TypeOK
  <2> QED
    BY <2>1, <2>2, TimeTypes DEF Clock
<1> HIDE DEF Expired
<1> QED
  BY Zenon, <1>2, <1>3, EndsPromises

(* The phases that serve a request about a claim are those of Controlling. *)
LEMMA ControllingPhase ==
    ASSUME NEW s \in Thread, s.phase \in {"Asked", "Ready", "Resolved"}
    PROVE  s \in Controlling
BY DEF Thread, Idle, Claiming, Exporting

(* A thread moves on. *)
LEMMA HonourStep ==
    ASSUME LInv, IInv', StillKept, Bounded, now' = now,
           NEW c \in Connections, NEW s, s \in Thread, conn' = [conn EXCEPT ![c] = s],
           \A l \in leases' : l \in leases \/ KeptNext(l.id, l.token, l.until),
           s \in Exporting => KeptNext(s.id, s.token, s.until),
           \A d \in Connections \ {c} :
               conn[d].phase \in {"Asked", "Ready"} /\ OpenNext(conn[d].id, conn[d].token) =>
                   records'[conn[d].id].expires <= conn[d].asOf + Duration,
           s.phase \in {"Asked", "Ready"} /\ OpenNext(s.id, s.token) =>
               records'[s.id].expires <= s.asOf + Duration,
           s \in Controlling =>
               \/ Controls(c) /\ s.token = conn[c].token
               \/ \A d \in Connections : ~ About(d, s.token)
    PROVE  LInv'
<1>1. IInv /\ Promises /\ Renewals
  BY ZenonT(40) DEF LInv
<1>2. conn'[c] = s /\ \A d \in Connections : d # c => conn'[d] = conn[d]
  BY Zenon, <1>1 DEF IInv, TypeOK
<1>3. \A l \in leases' : KeptNext(l.id, l.token, l.until)
  <2> SUFFICES ASSUME NEW l \in leases PROVE KeptNext(l.id, l.token, l.until)
    BY ZenonT(40)
  <2>1. l.id \in DOMAIN records /\ l.token \in Tokens /\ l.until \in Clock /\ Granted(l.id, l.token)
    BY Zenon, <1>1, GrantedRecords DEF IInv, TypeOK, Lease, Leased
  <2> QED
    BY Zenon, <1>1, <2>1 DEF StillKept, Promises
<1>4. ASSUME NEW d \in Connections, Exports(d)'
      PROVE  KeptNext(conn'[d].id, conn'[d].token, conn'[d].until)
  <2>1. CASE d = c
    BY <1>2, <1>4, <2>1 DEF Exports, Thread, Idle, Claiming, Controlling
  <2>2. CASE d # c
    <3>1. conn'[d] = conn[d] /\ Exports(d)
      BY ZenonT(40), <1>2, <1>4, <2>2 DEF Exports
    <3>2. conn[d].until \in Clock /\ Granted(conn[d].id, conn[d].token)
      BY ZenonT(40), <1>1, <3>1, PhaseTypes DEF Exporting, IInv, Threads
    <3>3. conn[d].id \in DOMAIN records /\ conn[d].token \in Tokens
      BY ZenonT(40), <1>1, <3>2, GrantedRecords
    <3> QED
      BY ZenonT(40), <1>1, <3>1, <3>2, <3>3 DEF StillKept, Promises
  <2> QED
    BY Zenon, <2>1, <2>2
<1>5. Promises'
  BY ZenonT(40), <1>3, <1>4 DEF Promises, Kept, KeptNext, Open, OpenNext
<1>6. ASSUME NEW d \in Connections, conn'[d].phase \in {"Asked", "Ready"},
             OpenNext(conn'[d].id, conn'[d].token)
      PROVE  records'[conn'[d].id].expires <= conn'[d].asOf + Duration
  BY ZenonT(40), <1>2, <1>6
<1>7. ASSUME NEW d \in Connections, NEW e \in Connections, Controls(d)', About(e, conn[d].token)'
      PROVE  d = e
  <2>1. \A x \in Connections : Controls(x) <=> About(x, conn[x].token)
    BY Zenon DEF Controls, About
  <2>2. CASE d # c /\ e # c
    BY <1>1, <1>2, <1>7, <2>2 DEF Renewals, Controls, About
  <2>3. CASE d = c /\ e # c
    <3>1. s \in Controlling
      BY ZenonT(40), <1>2, <1>7, <2>3, ControllingPhase DEF Controls
    <3>2. About(e, s.token)
      BY Zenon, <1>2, <1>7, <2>3 DEF About
    <3> QED
      BY ZenonT(40), <1>1, <2>3, <3>1, <3>2 DEF Renewals
  <2>4. CASE d # c /\ e = c
    <3>1. s \in Controlling /\ s.token = conn[d].token
      BY ZenonT(40), <1>2, <1>7, <2>4, ControllingPhase DEF About
    <3>2. About(d, s.token)
      BY ZenonT(40), <1>2, <1>7, <2>4, <3>1 DEF Controls, About
    <3> QED
      BY Zenon, <1>1, <2>4, <3>1, <3>2 DEF Renewals
  <2> QED
    BY Zenon, <2>2, <2>3, <2>4
<1>8. Renewals'
  BY ZenonT(40), <1>6, <1>7 DEF Renewals, Bounded, Open, OpenNext, Controls, About
<1> QED
  BY ZenonT(40), <1>5, <1>8 DEF LInv

(* A request that is served stays within its time when no claim gets longer. *)
LEMMA StillRequested ==
    ASSUME LInv, NotLonger, NEW d \in Connections,
           conn[d].phase \in {"Asked", "Ready"}, OpenNext(conn[d].id, conn[d].token)
    PROVE  records'[conn[d].id].expires <= conn[d].asOf + Duration
<1>1. IInv
  BY Zenon DEF LInv
<1>2. conn[d] \in Controlling /\ Granted(conn[d].id, conn[d].token)
  BY Zenon, <1>1, PhaseTypes DEF Controls, IInv, Threads
<1>3. conn[d].id \in DOMAIN records /\ conn[d].token \in Tokens
  BY Zenon, <1>1, <1>2, GrantedRecords
<1>4. /\ Open(conn[d].id, conn[d].token) /\ records'[conn[d].id].expires \in Clock
      /\ records'[conn[d].id].expires <= records[conn[d].id].expires
  BY Zenon, <1>2, <1>3 DEF NotLonger
<1>5. records[conn[d].id].expires <= conn[d].asOf + Duration
  BY Zenon, <1>4 DEF LInv, Renewals
<1>6. records[conn[d].id].expires \in Clock /\ conn[d].asOf \in Clock
  BY Zenon, <1>1, <1>2, <1>3, <1>4, ExpiryTypes DEF Open, Controlling
<1> QED
  BY SMTT(60), <1>4, <1>5, <1>6, TimeTypes DEF Clock

(* A thread moves on while the tables stay. *)
LEMMA QuietStep ==
    ASSUME LInv, IInv', UNCHANGED <<records, resolved, leases, now>>,
           NEW c \in Connections, NEW s, s \in Thread, conn' = [conn EXCEPT ![c] = s],
           s \in Exporting => Kept(s.id, s.token, s.until),
           s.phase \notin {"Asked", "Ready"},
           s \in Controlling => Controls(c) /\ s.token = conn[c].token
    PROVE  LInv'
<1>1. StillKept /\ Bounded
  BY QuietTables DEF LInv, IInv, TypeOK, Clock
<1>2. s \in Exporting => KeptNext(s.id, s.token, s.until)
  BY ZenonT(40) DEF Kept, KeptNext, Open, OpenNext
<1>3. \A d \in Connections \ {c} :
         conn[d].phase \in {"Asked", "Ready"} /\ OpenNext(conn[d].id, conn[d].token) =>
             records'[conn[d].id].expires <= conn[d].asOf + Duration
  BY Zenon DEF LInv, Renewals, Open, OpenNext
<1> QED
  BY ZenonT(40), <1>1, <1>2, <1>3, HonourStep

(* accept touches no claim. *)
LEMMA AcceptHonours ==
    ASSUME LInv, IInv', NEW item \in Items, NEW id \in InboundIds, NEW application \in Applications,
           NEW received \in 0 .. MaxTime, Accept(item, id, application, received)
    PROVE  LInv'
<1>1. UNCHANGED <<mappings, resolved, conn, leases, now>>
  BY Zenon DEF Accept, told
<1>2. /\ DOMAIN records' = DOMAIN records \cup {id}
      /\ \A i \in DOMAIN records : records'[i] = records[i]
      /\ records'[id].state = "Available"
  BY ZenonT(40) DEF Accept, Put, NewRecord
<1>3. Promises'
  <2>1. \A l \in leases : l.id \in DOMAIN records
    BY Zenon, GrantedRecords DEF LInv, IInv, Leased
  <2>2. \A c \in Connections : Exports(c) => conn[c].id \in DOMAIN records
    BY ZenonT(40), GrantedRecords DEF LInv, IInv, Threads
  <2> QED
    BY ZenonT(40), <1>1, <1>2, <2>1, <2>2 DEF LInv, Promises, Kept, Open, Exports
<1>4. Renewals'
  <2>1. \A c \in Connections : Controls(c) => conn[c].id \in DOMAIN records
    BY ZenonT(40), GrantedRecords DEF LInv, IInv, Threads
  <2> QED
    BY ZenonT(40), <1>1, <1>2, <2>1 DEF LInv, Renewals, Open, Controls, About
<1> QED
  BY Zenon, <1>3, <1>4 DEF LInv

(* claim refreshes the expirations. *)
LEMMA BeginClaimHonours ==
    ASSUME LInv, IInv', NEW c \in Connections, NEW asOf \in Clock, BeginClaim(c, asOf)
    PROVE  LInv'
<1> DEFINE s == [conn[c] EXCEPT !.phase = "Refreshed", !.asOf = asOf]
<1>1. IInv /\ asOf <= now /\ RefreshExpirations(asOf) /\ now' = now /\ leases' = leases
      /\ conn' = [conn EXCEPT ![c] = s]
  BY Zenon DEF LInv, BeginClaim, Reads, Goto, told
<1>2. s \in Claiming /\ s.phase = "Refreshed"
  BY ZenonT(40), <1>1, PhaseTypes DEF BeginClaim, At, Claiming
<1> HIDE DEF s
<1>3. StillKept /\ NotLonger /\ Bounded
  BY Zenon, <1>1, RefreshPromises
<1>4. \A d \in Connections \ {c} :
         conn[d].phase \in {"Asked", "Ready"} /\ OpenNext(conn[d].id, conn[d].token) =>
             records'[conn[d].id].expires <= conn[d].asOf + Duration
  BY Zenon, <1>1, <1>3, StillRequested
<1>5. s \in Thread /\ s \notin Exporting /\ s \notin Controlling
  BY Zenon, <1>2 DEF Thread, Exporting, Controlling, Claiming
<1> QED
  BY Zenon, <1>1, <1>2, <1>3, <1>4, <1>5, HonourStep

(* A thread is done. *)
LEMMA IdleStep ==
    ASSUME LInv, IInv', UNCHANGED <<records, resolved, leases, now>>,
           NEW c \in Connections, conn' = [conn EXCEPT ![c] = Idle]
    PROVE  LInv'
<1>1. Idle \in Thread /\ Idle \notin Exporting /\ Idle \notin Controlling /\ Idle.phase = "Idle"
  BY Zenon DEF Thread, Idle, Exporting, Controlling
<1> QED
  BY Zenon, <1>1, QuietStep

(* A Claim that has not selected an item yet promises nothing. *)
LEMMA ClaimingHonours ==
    ASSUME LInv, IInv', NEW c \in Connections,
           \/ \E application \in Applications, key \in ClaimKeys : ArriveClaim(c, application, key)
           \/ \E wait \in BOOLEAN : EmptyClaim(c, wait)
    PROVE  LInv'
<1>1. UNCHANGED <<records, resolved, leases, now>>
  BY Zenon DEF ArriveClaim, EmptyClaim, tables, told
<1>2. conn' \in [Connections -> Thread]
  BY Zenon DEF IInv, TypeOK, Thread
<1>3. \E s : conn' = [conn EXCEPT ![c] = s] /\ s.phase \in {"Arrived", "Idle"}
  <2>1. CASE \E wait \in BOOLEAN : EmptyClaim(c, wait)
    <3>1. conn[c] \in Claiming
      BY Zenon, <2>1, PhaseTypes DEF EmptyClaim, At, LInv
    <3>2. [conn[c] EXCEPT !.phase = "Arrived"].phase = "Arrived" /\ Idle.phase = "Idle"
      BY Zenon, <3>1 DEF Claiming, Idle
    <3> QED
      BY Zenon, <2>1, <3>2 DEF EmptyClaim, Advance, Goto
  <2>2. CASE \E application \in Applications, key \in ClaimKeys : ArriveClaim(c, application, key)
    <3>1. PICK application \in Applications, key \in ClaimKeys : ArriveClaim(c, application, key)
      BY Zenon, <2>2
    <3> DEFINE s == [phase |-> "Arrived", application |-> application, key |-> key, asOf |-> now]
    <3>2. conn' = [conn EXCEPT ![c] = s] /\ s.phase = "Arrived"
      BY Zenon, <3>1 DEF ArriveClaim, Goto
    <3> QED
      BY Zenon, <3>2
  <2> QED
    BY Zenon, <2>1, <2>2
<1>4. PICK s : conn' = [conn EXCEPT ![c] = s] /\ s.phase \in {"Arrived", "Idle"}
  BY ZenonT(40), <1>3
<1>5. s \in Thread /\ s \notin Exporting /\ s \notin Controlling
  BY Zenon, <1>2, <1>4 DEF LInv, IInv, TypeOK, Exporting, Controlling
<1> QED
  BY Zenon, <1>1, <1>4, <1>5, QuietStep

(* A repeated Claim promises what the record has. *)
LEMMA RepeatClaimHonours ==
    ASSUME LInv, IInv', NEW c \in Connections, RepeatClaim(c)
    PROVE  LInv'
<1>1. UNCHANGED <<records, resolved, leases, now>> /\ IInv
  BY Zenon DEF RepeatClaim, tables, told, LInv
<1>2. CASE conn' = [conn EXCEPT ![c] = Idle]
  BY Zenon, <1>1, <1>2, IdleStep
<1>3. ASSUME NEW id \in DOMAIN records, NEW token \in Tokens, Open(id, token), Granted(id, token),
             conn' = [conn EXCEPT ![c] = [phase |-> "Granted", id |-> id, token |-> token,
                                          until |-> records[id].expires, asOf |-> conn[c].asOf]]
      PROVE  LInv'
  <2> DEFINE s == [phase |-> "Granted", id |-> id, token |-> token,
                   until |-> records[id].expires, asOf |-> conn[c].asOf]
  <2>1. records[id].expires \in Clock /\ token \notin DOMAIN resolved
    BY ZenonT(40), <1>1, <1>3, ExpiryTypes, OpenClaims DEF Open, IInv
  <2>2. Kept(id, token, records[id].expires)
    BY SMTT(60), <2>1, TimeTypes DEF Clock, Kept
  <2>3. conn'[c] = s /\ conn'[c] \in Thread
    BY Zenon, <1>1, <1>3 DEF IInv, TypeOK, Thread
  <2>4. s.phase = "Granted" /\ s.id = id /\ s.token = token /\ s.until = records[id].expires
    BY Zenon
  <2>5. s \notin Controlling
    BY Zenon DEF Controlling
  <2> HIDE DEF s
  <2> QED
    BY ZenonT(40), <1>1, <1>3, <2>2, <2>3, <2>4, <2>5, QuietStep DEF s
<1> QED
  BY Zenon, <1>1, <1>2, <1>3, RepeatGrants

(* A new claim has a token nobody was promised anything for. *)
LEMMA TakeClaimHonours ==
    ASSUME LInv, IInv', NEW c \in Connections, NEW id \in InboundIds, NEW token \in Tokens,
           TakeClaim(c, id, token)
    PROVE  LInv'
<1> DEFINE until == conn[c].asOf + Duration
           s == [phase |-> "Granted", id |-> id, token |-> token, until |-> until,
                 asOf |-> conn[c].asOf]
<1>1. IInv
  BY Zenon DEF LInv
<1>2. /\ id \in DOMAIN records /\ records[id].state # "Claimed"
      /\ DOMAIN records' = DOMAIN records
      /\ \A i \in DOMAIN records : i # id => records'[i] = records[i]
      /\ records'[id].state = "Claimed" /\ records'[id].token = token
      /\ records'[id].expires = until
      /\ token \notin DOMAIN resolved /\ \A i \in InboundIds : ~ Granted(i, token)
  BY ZenonT(40), <1>1, TakeClaimTables
<1>3. /\ conn' = [conn EXCEPT ![c] = s]
      /\ UNCHANGED <<resolved, leases, now>>
  BY Zenon DEF TakeClaim, Grant, Goto, told
<1>4. /\ s.phase = "Granted" /\ s.id = id /\ s.token = token /\ s.until = until
      /\ s \notin Controlling /\ s \in Thread
  <2>1. conn'[c] \in Thread /\ conn'[c] = s
    BY Zenon, <1>1, <1>3 DEF IInv, TypeOK, Thread
  <2> QED
    BY ZenonT(40), <2>1 DEF Controlling
<1>5. until \in Clock /\ until <= now + Duration /\ DOMAIN records \subseteq InboundIds
  <2>1. conn[c] \in Claiming /\ conn[c].asOf <= now /\ conn[c].asOf <= MaxTime /\ now \in Nat
    BY Zenon, <1>1, PhaseTypes DEF TakeClaim, At, IInv, Threads
  <2> QED
    BY SMTT(60), <1>1, <2>1, InboundAssumption DEF Claiming, Clock, IInv, TypeOK
<1> HIDE DEF s, until
<1>6. ASSUME NEW i \in DOMAIN records, NEW t \in Tokens, Granted(i, t)
      PROVE  OpenNext(i, t) => Open(i, t) /\ records'[i] = records[i]
  BY Zenon, <1>2, <1>5, <1>6 DEF OpenNext, Open
<1>7. StillKept
  BY ZenonT(40), <1>3, <1>6 DEF StillKept, Kept, KeptNext
<1>8. Bounded
  BY ZenonT(40), <1>2, <1>3, <1>5 DEF Bounded, LInv, Renewals
<1>9. KeptNext(id, token, until)
  <2>1. until <= until
    BY <1>5, TimeTypes DEF Clock
  <2> QED
    BY Zenon, <1>2, <1>3, <2>1 DEF KeptNext
<1>10. ASSUME NEW d \in Connections \ {c}, conn[d].phase \in {"Asked", "Ready"},
             OpenNext(conn[d].id, conn[d].token)
       PROVE  records'[conn[d].id].expires <= conn[d].asOf + Duration
  <2>1. Granted(conn[d].id, conn[d].token)
    BY ZenonT(40), <1>1, <1>10 DEF IInv, Threads, Controls
  <2>2. conn[d].id \in DOMAIN records /\ conn[d].token \in Tokens
    BY Zenon, <1>1, <2>1, GrantedRecords
  <2> QED
    BY ZenonT(40), <1>6, <1>10, <2>1, <2>2 DEF LInv, Renewals
<1> QED
  BY Zenon, <1>3, <1>4, <1>7, <1>8, <1>9, <1>10, HonourStep

(* What an exporting thread promises does not depend on its phase. *)
LEMMA ExportingHonours ==
    ASSUME LInv, IInv', NEW c \in Connections,
           ClearExports(c) \/ (\E asOf \in Clock : ReadPayload(c, asOf)) \/ CreateTemporary(c)
               \/ FailExport(c)
    PROVE  LInv'
<1>1. UNCHANGED <<records, resolved, leases, now>> /\ IInv
  BY ZenonT(40) DEF ClearExports, ReadPayload, CreateTemporary, FailExport, tables, told, LInv
<1>2. Exports(c)
  BY Zenon DEF ClearExports, ReadPayload, CreateTemporary, FailExport, At, Exports
<1>3. \/ conn' = [conn EXCEPT ![c] = Idle]
      \/ \E phase \in {"Cleared", "Checked", "Writing"} :
             conn' = [conn EXCEPT ![c] = [conn[c] EXCEPT !.phase = phase]]
  BY Zenon DEF ClearExports, ReadPayload, CreateTemporary, FailExport, Advance, Goto
<1>4. CASE conn' = [conn EXCEPT ![c] = Idle]
  BY Zenon, <1>1, <1>4, IdleStep
<1>5. ASSUME NEW phase \in {"Cleared", "Checked", "Writing"},
             conn' = [conn EXCEPT ![c] = [conn[c] EXCEPT !.phase = phase]]
      PROVE  LInv'
  <2> DEFINE s == [conn[c] EXCEPT !.phase = phase]
  <2>1. /\ s \in Exporting /\ s \in Thread /\ s.phase = phase
        /\ s.id = conn[c].id /\ s.token = conn[c].token /\ s.until = conn[c].until
    BY ZenonT(40), <1>1, <1>2, ExportAdvances DEF Thread
  <2> HIDE DEF s
  <2>2. Kept(s.id, s.token, s.until)
    BY Zenon, <1>2, <2>1 DEF LInv, Promises
  <2>3. s \notin Controlling
    BY Zenon, <2>1 DEF Exporting, Controlling
  <2> QED
    BY Zenon, <1>1, <1>5, <2>1, <2>2, <2>3, QuietStep DEF s
<1> QED
  BY Zenon, <1>3, <1>4, <1>5

(* The consumer is told what its thread was promised. *)
LEMMA TellHonours ==
    ASSUME LInv, IInv', NEW c \in Connections, FindExport(c) \/ PublishExport(c)
    PROVE  LInv'
<1>1. UNCHANGED <<records, resolved, now>> /\ conn' = [conn EXCEPT ![c] = Idle] /\ Tell(c)
  BY Zenon DEF FindExport, PublishExport, tables, Goto
<1>2. Exports(c) /\ Promises /\ now \in Clock
  BY Zenon DEF FindExport, PublishExport, At, Exports, LInv, IInv, TypeOK
<1> DEFINE l == [id |-> conn[c].id, token |-> conn[c].token, until |-> conn[c].until]
<1>3. leases' = leases \cup {l}
  BY Zenon, <1>1 DEF Tell
<1>4. Kept(l.id, l.token, l.until)
  BY ZenonT(40), <1>2 DEF Promises
<1> HIDE DEF l
<1>5. KeptNext(l.id, l.token, l.until)
  BY Zenon, <1>1, <1>4 DEF Kept, KeptNext, Open, OpenNext
<1>6. StillKept /\ NotLonger /\ Bounded
  BY SMTT(60), <1>1, <1>2, QuietTables, TimeTypes DEF Clock
<1>7. \A d \in Connections \ {c} :
         conn[d].phase \in {"Asked", "Ready"} /\ OpenNext(conn[d].id, conn[d].token) =>
             records'[conn[d].id].expires <= conn[d].asOf + Duration
  BY Zenon, <1>6, StillRequested
<1>8. Idle \in Thread /\ Idle \notin Exporting /\ Idle \notin Controlling /\ Idle.phase = "Idle"
  BY Zenon DEF Thread, Idle, Exporting, Controlling
<1> QED
  BY ZenonT(40), <1>1, <1>3, <1>5, <1>6, <1>7, <1>8, HonourStep

(* A request about a claim has been answered. *)
LEMMA ResolvedStep ==
    ASSUME LInv, IInv', NEW c \in Connections, conn[c].phase = "Ready", Advance(c, "Resolved"),
           UNCHANGED <<leases, now>>,
           UNCHANGED <<records, resolved>> \/ (StillKept /\ NotLonger /\ Bounded)
    PROVE  LInv'
<1> DEFINE s == [conn[c] EXCEPT !.phase = "Resolved"]
<1>1. IInv /\ now \in Clock /\ conn' = [conn EXCEPT ![c] = s]
  BY Zenon DEF LInv, IInv, TypeOK, Advance, Goto
<1>2. StillKept /\ NotLonger /\ Bounded
  BY <1>1, QuietTables, TimeTypes DEF Clock
<1>3. conn[c] \in Controlling /\ Controls(c)
  BY Zenon, <1>1, PhaseTypes DEF Controls
<1>4. s \in Controlling /\ s.phase = "Resolved" /\ s.token = conn[c].token
  BY Zenon, <1>3 DEF Controlling
<1> HIDE DEF s
<1>5. \A d \in Connections \ {c} :
         conn[d].phase \in {"Asked", "Ready"} /\ OpenNext(conn[d].id, conn[d].token) =>
             records'[conn[d].id].expires <= conn[d].asOf + Duration
  BY Zenon, <1>2, StillRequested
<1>6. s \in Thread /\ s \notin Exporting
  BY Zenon, <1>4 DEF Thread, Controlling, Exporting
<1> QED
  BY ZenonT(40), <1>1, <1>2, <1>3, <1>4, <1>5, <1>6, HonourStep

(* A step outside the threads, which stay or are lost. *)
LEMMA ServeStep ==
    ASSUME LInv, IInv', StillKept, NotLonger, Bounded, UNCHANGED leases,
           conn' = conn \/ conn' = [c \in Connections |-> Idle]
    PROVE  LInv'
<1>1. IInv /\ Promises /\ Renewals
  BY Zenon DEF LInv
<1>2. \A l \in leases' : KeptNext(l.id, l.token, l.until)
  <2> SUFFICES ASSUME NEW l \in leases PROVE KeptNext(l.id, l.token, l.until)
    BY Zenon
  <2>1. l.id \in DOMAIN records /\ l.token \in Tokens /\ l.until \in Clock /\ Granted(l.id, l.token)
    BY Zenon, <1>1, GrantedRecords DEF IInv, TypeOK, Lease, Leased
  <2> QED
    BY Zenon, <1>1, <2>1 DEF StillKept, Promises
<1>3. ASSUME NEW d \in Connections, Exports(d)'
      PROVE  KeptNext(conn'[d].id, conn'[d].token, conn'[d].until)
  <2>1. conn' = conn /\ Exports(d)
    BY <1>3 DEF Exports, Idle
  <2>2. conn[d].until \in Clock /\ Granted(conn[d].id, conn[d].token)
    BY Zenon, <1>1, <2>1, PhaseTypes DEF Exporting, IInv, Threads
  <2>3. conn[d].id \in DOMAIN records /\ conn[d].token \in Tokens
    BY Zenon, <1>1, <2>2, GrantedRecords
  <2> QED
    BY Zenon, <1>1, <2>1, <2>2, <2>3 DEF StillKept, Promises
<1>4. Promises'
  BY Zenon, <1>2, <1>3 DEF Promises, Kept, KeptNext, Open, OpenNext
<1>5. ASSUME NEW d \in Connections, conn'[d].phase \in {"Asked", "Ready"},
             OpenNext(conn'[d].id, conn'[d].token)
      PROVE  records'[conn'[d].id].expires <= conn'[d].asOf + Duration
  <2>1. conn' = conn
    BY <1>5 DEF Idle
  <2> QED
    BY Zenon, <1>5, <2>1, StillRequested
<1>6. ASSUME NEW d \in Connections, NEW e \in Connections, Controls(d)', About(e, conn[d].token)'
      PROVE  d = e
  <2>1. conn' = conn
    BY <1>6 DEF Idle, Controls
  <2> QED
    BY Zenon, <1>1, <1>6, <2>1 DEF Renewals, Controls, About
<1>7. Renewals'
  BY Zenon, <1>5, <1>6 DEF Renewals, Bounded, Open, OpenNext, Controls, About
<1> QED
  BY Zenon, <1>4, <1>7 DEF LInv

(* A result is told, or a request refused: what is left is to clean up. *)
LEMMA AnsweredHonours ==
    ASSUME LInv, IInv', NEW c \in Connections,
           RepeatResult(c) \/ (\E asOf \in Clock : RefuseStale(c, asOf)) \/ RemoveExport(c)
    PROVE  LInv'
<1>1. UNCHANGED <<records, resolved, leases, now>> /\ IInv
  BY Zenon DEF RepeatResult, RefuseStale, RemoveExport, tables, told, LInv
<1>2. CASE conn' = [conn EXCEPT ![c] = Idle]
  BY ZenonT(40), <1>1, <1>2, IdleStep
<1>3. CASE RepeatResult(c)
  BY Zenon, <1>1, <1>3, ResolvedStep DEF RepeatResult, At
<1> QED
  BY Zenon, <1>2, <1>3 DEF RefuseStale, RemoveExport, Goto

(* A claim its consumer resolves is no longer promised. *)
LEMMA ResolveHonours ==
    ASSUME LInv, IInv', NEW c \in Connections, NEW asOf \in Clock, At(c, "Ready"),
           NEW new \in Results(conn[c].id, asOf), Resolve(c, new, asOf)
    PROVE  LInv'
<1>1. IInv
  BY Zenon DEF LInv
<1>2. conn[c].id \in DOMAIN records /\ Open(conn[c].id, conn[c].token) /\ new.state # "Claimed"
  BY ZenonT(40), <1>1, ResolveEnds
<1>3. PICK row : row[conn[c].id] = new /\ Ends({conn[c].id}, row, TRUE)
  BY ZenonT(40), <1>1, ResolveEnds
<1>4. now' = now /\ leases' = leases /\ Advance(c, "Resolved") /\ conn[c].phase = "Ready"
  BY ZenonT(40) DEF Resolve, At
<1> DEFINE id == conn[c].id
<1> HIDE DEF id
<1>5. {id} \in SUBSET DOMAIN records
      /\ \A i \in {id} : records[i].state = "Claimed" /\ row[i].state # "Claimed"
  BY ZenonT(40), <1>2, <1>3 DEF Open, id
<1>6. StillKept /\ NotLonger /\ Bounded
  BY ZenonT(40), <1>3, <1>4, <1>5, EndsPromises DEF id
<1> QED
  BY Zenon, <1>4, <1>6, ResolvedStep

(* No other request about the token is served. *)
LEMMA AskHonours ==
    ASSUME ~ Overlap, LInv, IInv', NEW c \in Connections, NEW lease \in leases, Ask(c, lease)
    PROVE  LInv'
<1> DEFINE s == [phase |-> "Asked", id |-> lease.id, token |-> lease.token, asOf |-> now]
<1>1. /\ UNCHANGED <<records, resolved, leases, now>> /\ IInv
      /\ conn' = [conn EXCEPT ![c] = s]
      /\ \A d \in Connections : ~ About(d, lease.token)
  BY Zenon DEF Ask, Goto, tables, told, LInv
<1>2. /\ s.phase = "Asked" /\ s.id = lease.id /\ s.token = lease.token /\ s.asOf = now
      /\ s \notin Exporting /\ s \in Thread
  <2>1. conn'[c] \in Thread /\ conn'[c] = s
    BY ZenonT(40), <1>1 DEF IInv, TypeOK, Thread
  <2> QED
    BY Zenon, <2>1 DEF Exporting
<1> HIDE DEF s
<1>3. StillKept /\ NotLonger /\ Bounded
  BY SMTT(60), <1>1, QuietTables, TimeTypes DEF Clock, IInv, TypeOK
<1>4. \A d \in Connections \ {c} :
         conn[d].phase \in {"Asked", "Ready"} /\ OpenNext(conn[d].id, conn[d].token) =>
             records'[conn[d].id].expires <= conn[d].asOf + Duration
  BY ZenonT(40), <1>3, StillRequested
<1>5. OpenNext(s.id, s.token) => records'[s.id].expires <= s.asOf + Duration
  <2>1. lease.id \in DOMAIN records
    BY Zenon, <1>1, GrantedRecords DEF IInv, Leased
  <2> QED
    BY ZenonT(40), <1>1, <1>2, <2>1 DEF LInv, Renewals, OpenNext
<1> QED
  BY ZenonT(40), <1>1, <1>2, <1>3, <1>4, <1>5, HonourStep

(* dispatch_inner refreshes the expirations. *)
LEMMA DispatchHonours ==
    ASSUME LInv, IInv', NEW c \in Connections, NEW asOf \in Clock, Dispatch(c, asOf)
    PROVE  LInv'
<1> DEFINE s == [conn[c] EXCEPT !.phase = "Ready", !.asOf = asOf]
<1>1. /\ IInv /\ asOf <= now /\ conn[c].asOf <= asOf /\ RefreshExpirations(asOf)
      /\ now' = now /\ leases' = leases /\ conn' = [conn EXCEPT ![c] = s]
      /\ conn[c].phase = "Asked"
  BY Zenon DEF LInv, Dispatch, At, Reads, Goto, told
<1>2. conn[c] \in Controlling /\ Controls(c)
  BY Zenon, <1>1, PhaseTypes DEF Controls
<1>3. /\ s.phase = "Ready" /\ s.id = conn[c].id /\ s.token = conn[c].token /\ s.asOf = asOf
      /\ s \in Controlling
  BY ZenonT(40), <1>2 DEF Controlling
<1> HIDE DEF s
<1>4. StillKept /\ NotLonger /\ Bounded
  BY Zenon, <1>1, RefreshPromises
<1>5. \A d \in Connections :
         conn[d].phase \in {"Asked", "Ready"} /\ OpenNext(conn[d].id, conn[d].token) =>
             records'[conn[d].id].expires <= conn[d].asOf + Duration
  BY Zenon, <1>4, StillRequested
<1>6. OpenNext(s.id, s.token) => records'[s.id].expires <= s.asOf + Duration
  <2> SUFFICES ASSUME OpenNext(conn[c].id, conn[c].token)
               PROVE  records'[conn[c].id].expires <= asOf + Duration
    BY Zenon, <1>3
  <2>1. records'[conn[c].id].expires <= conn[c].asOf + Duration
    BY Zenon, <1>1, <1>5
  <2>2. records'[conn[c].id].expires \in Clock
    BY Zenon, <1>1, <1>2, <1>4, GrantedRecords DEF NotLonger, IInv, Threads
  <2> QED
    BY SMTT(60), <1>1, <1>2, <2>1, <2>2, TimeTypes DEF Clock, Controlling
<1>7. s \in Thread /\ s \notin Exporting
  BY Zenon, <1>3 DEF Thread, Controlling, Exporting
<1> QED
  BY ZenonT(40), <1>1, <1>2, <1>3, <1>4, <1>5, <1>6, <1>7, HonourStep

(* A request that only refreshes. *)
LEMMA OtherRequestHonours ==
    ASSUME LInv, IInv', NEW asOf \in Clock, OtherRequest(asOf)
    PROVE  LInv'
<1>1. StillKept /\ NotLonger /\ Bounded
  BY Zenon, RefreshPromises DEF OtherRequest
<1>2. UNCHANGED <<conn, leases>>
  BY Zenon DEF OtherRequest, told
<1> QED
  BY Zenon, <1>1, <1>2, ServeStep

(* A renewal, the only request about its token, makes the claim no shorter. *)
LEMMA RenewHonours ==
    ASSUME LInv, IInv', NEW c \in Connections, NEW asOf \in Clock, NEW heard \in BOOLEAN,
           Renew(c, asOf, heard)
    PROVE  LInv'
<1> DEFINE id == conn[c].id
           token == conn[c].token
           until == asOf + Duration
           l == [id |-> id, token |-> token, until |-> until]
<1>1. IInv /\ now \in Clock
  BY Zenon DEF LInv, IInv, TypeOK
<1>2. /\ id \in DOMAIN records /\ Open(id, token)
      /\ DOMAIN records' = DOMAIN records
      /\ records'[id].state = "Claimed" /\ records'[id].token = token
      /\ records'[id].expires = until /\ until \in Clock
      /\ \A i \in DOMAIN records : i # id => records'[i] = records[i]
  BY ZenonT(40), <1>1, RenewTables
<1>3. /\ conn[c].phase = "Ready" /\ conn[c].asOf <= asOf /\ asOf <= now
      /\ UNCHANGED <<mappings, resolved, now>>
      /\ leases' \subseteq leases \cup {l} /\ conn' = [conn EXCEPT ![c] = Idle]
  BY Zenon DEF Renew, At, Reads, Goto
<1>4. conn[c] \in Controlling /\ Controls(c)
  BY Zenon, <1>1, <1>3, PhaseTypes DEF Controls
<1>5. records[id].expires \in Clock /\ records[id].expires <= until /\ until <= now + Duration
  <2>1. records[id].expires \in Clock
    BY Zenon, <1>1, <1>2, ExpiryTypes DEF Open
  <2>2. records[id].expires <= conn[c].asOf + Duration
    BY ZenonT(40), <1>2, <1>3 DEF LInv, Renewals
  <2>3. conn[c].asOf \in Clock /\ conn[c].asOf <= asOf /\ asOf <= now
    BY Zenon, <1>3, <1>4 DEF Controlling
  <2> QED
    BY SMTT(60), <1>1, <2>1, <2>2, <2>3, TimeTypes DEF Clock
<1>6. token \notin DOMAIN resolved
  BY ZenonT(40), <1>1, <1>2, OpenClaims DEF Open, IInv
<1>7. l.id = id /\ l.token = token /\ l.until = until
  BY Zenon
<1> HIDE DEF l, until, id, token
<1>8. StillKept
  <2> SUFFICES ASSUME NEW i \in DOMAIN records, NEW t \in Tokens, NEW u \in Clock, Kept(i, t, u)
               PROVE  KeptNext(i, t, u)
    BY Zenon DEF StillKept
  <2>1. CASE i = id /\ t = token
    <3>1. u <= records[id].expires
      BY ZenonT(40), <1>2, <2>1 DEF Kept
    <3>2. u <= until
      <4>1. until \in Clock /\ records[id].expires \in Clock /\ records[id].expires <= until
        BY Zenon, <1>2, <1>5
      <4> QED
        BY <3>1, <4>1, TimeTypes DEF Clock
    <3> QED
      BY ZenonT(40), <1>2, <1>3, <1>6, <2>1, <3>2 DEF KeptNext
  <2>2. CASE i # id
    BY Zenon, <1>2, <1>3, <2>2 DEF Kept, KeptNext, Open, OpenNext
  <2>3. CASE i = id /\ t # token
    BY Zenon, <1>2, <1>3, <2>3 DEF Kept, KeptNext, OpenNext
  <2> QED
    BY Zenon, <2>1, <2>2, <2>3
<1>9. Bounded
  BY ZenonT(40), <1>2, <1>3, <1>5 DEF Bounded, LInv, Renewals
<1>10. KeptNext(l.id, l.token, l.until)
  <2>1. until \in Clock /\ until <= until
    BY <1>2, TimeTypes DEF Clock
  <2> QED
    BY ZenonT(40), <1>2, <1>3, <1>6, <1>7, <2>1 DEF KeptNext
<1>11. ASSUME NEW d \in Connections \ {c}, conn[d].phase \in {"Asked", "Ready"},
              OpenNext(conn[d].id, conn[d].token)
       PROVE  records'[conn[d].id].expires <= conn[d].asOf + Duration
  <2>1. conn[d].token # token
    BY ZenonT(40), <1>4, <1>11 DEF LInv, Renewals, About, token
  <2>2. conn[d].id # id
    BY ZenonT(40), <1>2, <1>11, <2>1 DEF OpenNext
  <2>3. conn[d].id \in DOMAIN records
    BY ZenonT(40), <1>1, <1>11, GrantedRecords DEF IInv, Threads, Controls
  <2> QED
    BY ZenonT(40), <1>2, <1>11, <2>2, <2>3 DEF LInv, Renewals, Open, OpenNext
<1>12. Idle \in Thread /\ Idle \notin Exporting /\ Idle \notin Controlling /\ Idle.phase = "Idle"
  BY Zenon DEF Thread, Idle, Exporting, Controlling
<1>13. \A x \in leases' : x \in leases \/ KeptNext(x.id, x.token, x.until)
  BY Zenon, <1>3, <1>10
<1> QED
  BY ZenonT(40), <1>3, <1>8, <1>9, <1>11, <1>12, <1>13, HonourStep

(* A forwarded item keeps its claim. *)
LEMMA ForwardHonours ==
    ASSUME LInv, IInv', NEW lease \in leases, Forward(lease)
    PROVE  LInv'
<1>1. IInv
  BY Zenon DEF LInv
<1>2. /\ DOMAIN records' = DOMAIN records
      /\ \A i \in DOMAIN records : /\ records'[i].state = records[i].state
                                   /\ records'[i].token = records[i].token
                                   /\ records'[i].expires = records[i].expires
  BY Zenon, <1>1, ForwardTables
<1>3. UNCHANGED <<resolved, conn, leases, now>>
  BY Zenon DEF Forward, told
<1>4. \A i \in DOMAIN records : records[i].state = "Claimed" =>
         records[i].expires \in Clock /\ records[i].expires <= records[i].expires
  BY <1>1, ExpiryTypes, TimeTypes DEF Clock
<1>5. StillKept /\ Bounded
  BY ZenonT(40), <1>2, <1>3 DEF StillKept, Kept, KeptNext, Open, OpenNext, Bounded, LInv, Renewals
<1>6. NotLonger
  BY Zenon, <1>2, <1>4 DEF NotLonger, Open, OpenNext
<1> QED
  BY Zenon, <1>3, <1>5, <1>6, ServeStep

(* Kills, starts and the clock end no claim. *)
LEMMA ServiceHonours ==
    ASSUME LInv, IInv', Kill \/ (\E kind \in {"Mail", "Ipc"} : Start(kind)) \/ Tick
    PROVE  LInv'
<1>1. UNCHANGED <<records, resolved, leases>>
  BY Zenon DEF Kill, Start, Tick, tables, told
<1>2. now' \in Clock /\ now <= now'
  BY InboundAssumption DEF Kill, Start, Tick, LInv, IInv, TypeOK, Clock
<1>3. StillKept /\ NotLonger /\ Bounded
  BY Zenon, <1>1, <1>2, QuietTables
<1>4. conn' = conn \/ conn' = [c \in Connections |-> Idle]
  BY Zenon DEF Kill, Start, Tick
<1> QED
  BY Zenon, <1>1, <1>3, <1>4, ServeStep

(* Every step keeps the promises. *)
LEMMA NextHonours ==
    ASSUME ~ Overlap, LInv, [Next]_vars PROVE LInv'
<1>1. IInv'
  BY Zenon, NextKeeps DEF LInv
<1>2. CASE AcceptItem
  BY Zenon, <1>1, <1>2, AcceptHonours DEF AcceptItem
<1>3. ASSUME NEW c \in Connections, ClaimRequest(c) PROVE LInv'
  BY ZenonT(40), <1>1, <1>3, ClaimingHonours, BeginClaimHonours, RepeatClaimHonours, TakeClaimHonours,
     ExportingHonours, TellHonours DEF ClaimRequest
<1>4. ASSUME NEW c \in Connections, ControlRequest(c) PROVE LInv'
  BY Zenon, <1>1, <1>4, AskHonours, DispatchHonours, RenewHonours, ResolveHonours, AnsweredHonours
     DEF ControlRequest
<1>5. ASSUME NEW asOf \in Clock, OtherRequest(asOf) PROVE LInv'
  BY Zenon, <1>1, <1>5, OtherRequestHonours
<1>6. ASSUME NEW lease \in leases, Forward(lease) PROVE LInv'
  BY Zenon, <1>1, <1>6, ForwardHonours
<1>7. CASE Kill \/ (\E kind \in {"Mail", "Ipc"} : Start(kind)) \/ Tick
  BY Zenon, <1>1, <1>7, ServiceHonours
<1>8. CASE UNCHANGED vars
  <2>1. UNCHANGED <<records, resolved, leases, conn, now>> /\ now \in Clock
    BY Zenon, <1>8 DEF vars, tables, told, LInv, IInv, TypeOK
  <2>2. StillKept /\ NotLonger /\ Bounded
    BY <2>1, QuietTables, TimeTypes DEF Clock
  <2> QED
    BY Zenon, <1>1, <2>1, <2>2, ServeStep
<1> QED
  BY Zenon, <1>2, <1>3, <1>4, <1>5, <1>6, <1>7, <1>8 DEF Next

(***************************************************************************)
(* Until the Claim-Expires a consumer was told, the item is Claimed under  *)
(* its token or was resolved by it: no thread with an old reading of the   *)
(* clock, no repeated Claim, no lost renewal and no kill ends the claim    *)
(* early.  A consumer that repeats a Renew while the first is served may   *)
(* shorten its own claim, so requests about one token do not overlap.      *)
(***************************************************************************)
THEOREM LeasesHonoured == ASSUME ~ Overlap PROVE Spec => []LeaseHonoured
<1>1. Init => LInv
  <2> SUFFICES ASSUME Init PROVE LInv
    BY Zenon
  <2>1. Promises /\ Renewals
    BY Zenon DEF Init, Promises, Renewals, Exports, Controls, EmptyTable, Idle
  <2> QED
    BY Zenon, <2>1, Initially DEF LInv
<1>2. LInv /\ [Next]_vars => LInv'
  BY Zenon, NextHonours
<1>3. LInv => LeaseHonoured
  <2> SUFFICES ASSUME LInv, NEW l \in leases, now < l.until
               PROVE  \/ Open(l.id, l.token)
                      \/ l.token \in DOMAIN resolved /\ resolved[l.token].completed
    BY Zenon DEF LeaseHonoured, Open
  <2>1. Granted(l.id, l.token) /\ Kept(l.id, l.token, l.until) /\ l.until \in Clock /\ now \in Clock
    BY Zenon DEF LInv, IInv, Leased, Promises, TypeOK, Lease
  <2>2. PICK k \in DOMAIN mappings : mappings[k].id = l.id /\ mappings[k].token = l.token
    BY Zenon, <2>1 DEF Granted
  <2>3. CASE mappings[k].outcome = "None"
    <3>1. records[l.id].state = "Claimed" /\ KeyOf(records[l.id]) = k /\ l.id \in DOMAIN records
      BY ZenonT(40), <2>2, <2>3 DEF LInv, IInv, TablesAgree
    <3>2. mappings[k].token = records[l.id].token
      BY Zenon, <3>1, OpenClaims DEF LInv, IInv
    <3> QED
      BY Zenon, <2>2, <3>1, <3>2 DEF Open
  <2>4. CASE mappings[k].outcome # "None"
    <3>1. l.token \in DOMAIN resolved
      BY ZenonT(40), <2>2, <2>4 DEF LInv, IInv, TablesAgree
    <3> QED
      BY SMTT(60), <2>1, <3>1, TimeTypes DEF Clock, Kept
  <2> QED
    BY ZenonT(40), <2>3, <2>4
<1> QED
  BY <1>1, <1>2, <1>3, PTL DEF Spec
=============================================================================
