-------------------------- MODULE InboundSpoolProofs --------------------------
(***************************************************************************)
(* Proofs about the inbound spool, for any items, consumers, connections   *)
(* and times: the tables agree, an item has one record, a token has one    *)
(* outcome, and what is durable is not undone.                             *)
(***************************************************************************)
EXTENDS InboundSpool, TLAPS

(***************************************************************************)
(* What the threads of the IPC service know.  They act by a time that has  *)
(* been, and a Claim by one that a new claim may date from.  The claim     *)
(* they export or were asked about was granted: a ClaimKey has its token.  *)
(***************************************************************************)
Granted(id, token) ==
    \E k \in DOMAIN mappings : mappings[k].id = id /\ mappings[k].token = token

GrantedNext(id, token) ==
    \E k \in DOMAIN mappings' : mappings'[k].id = id /\ mappings'[k].token = token

Exports(c) == conn[c].phase \in {"Granted", "Cleared", "Checked", "Writing"}
Controls(c) == conn[c].phase \in {"Asked", "Ready", "Resolved"}

Threads ==
    \A c \in Connections :
        /\ conn[c].phase # "Idle" => conn[c].asOf <= now
        /\ conn[c].phase \in {"Arrived", "Refreshed"} => conn[c].asOf <= MaxTime
        /\ Exports(c) \/ Controls(c) => Granted(conn[c].id, conn[c].token)

Leased == \A l \in leases : Granted(l.id, l.token)

(* A signed item is registered under the record that holds it. *)
Registered ==
    \A id \in DOMAIN records :
        payloads[id] \in Signed =>
            payloads[id] \in DOMAIN duplicates /\ duplicates[payloads[id]] = id

(* What a consumer was told of a token is what RESOLVED_TOKENS has. *)
Remembered ==
    \A o \in outcomes : o.token \in DOMAIN resolved /\ resolved[o.token].state = o.state

IInv == TypeOK /\ TablesAgree /\ Threads /\ Leased /\ Registered /\ Remembered

(* The claim of an item under a token has not ended. *)
Open(id, token) == records[id].state = "Claimed" /\ records[id].token = token
-----------------------------------------------------------------------------
(* The bounds of the clock are natural numbers. *)
LEMMA TimeTypes == Duration \in Nat /\ MaxTime \in Nat
BY Zenon, InboundAssumption

(***************************************************************************)
(* What no step undoes: a mapping keeps its item and its token, a resolved *)
(* token its resolution, and a record that is Consumed or Rejected stays.  *)
(***************************************************************************)
Durable ==
    /\ \A k \in DOMAIN mappings :
           /\ k \in DOMAIN mappings'
           /\ mappings'[k].id = mappings[k].id
           /\ mappings'[k].token = mappings[k].token
           /\ mappings[k].outcome # "None" => mappings'[k] = mappings[k]
    /\ \A t \in DOMAIN resolved : t \in DOMAIN resolved' /\ resolved'[t] = resolved[t]
    /\ \A id \in DOMAIN records :
           records[id].state \in Terminal => records'[id] = records[id]

(* A claim that was granted stays so. *)
LEMMA GrantedStays ==
    ASSUME Durable, NEW id, NEW token, Granted(id, token)
    PROVE  GrantedNext(id, token)
BY Zenon DEF Durable, Granted, GrantedNext

(* The tables stay as they are, whatever the thread does. *)
LEMMA TablesStay ==
    ASSUME IInv, UNCHANGED tables
    PROVE  TablesAgree' /\ Registered' /\ Durable
BY DEF IInv, tables, TablesAgree, Registered, Durable, KeyOf

(***************************************************************************)
(* EndClaims, row by row: the claims of `ids' end, each under its own      *)
(* ClaimKey and its own token; no other row changes.                       *)
(***************************************************************************)
Ends(ids, new, completed) ==
    /\ DOMAIN records' = DOMAIN records
    /\ \A id \in DOMAIN records : records'[id] = IF id \in ids THEN new[id] ELSE records[id]
    /\ DOMAIN mappings' = DOMAIN mappings
    /\ \A k \in DOMAIN mappings :
           mappings'[k] =
               IF mappings[k].outcome = "None" /\ mappings[k].id \in ids
               THEN [id |-> mappings[k].id, token |-> mappings[k].token,
                     outcome |-> new[mappings[k].id].state]
               ELSE mappings[k]
    /\ DOMAIN resolved' = DOMAIN resolved \cup {records[id].token : id \in ids}
    /\ \A t \in DOMAIN resolved : resolved'[t] = resolved[t]
    /\ \A id \in ids :
           resolved'[records[id].token] =
               [id |-> id, state |-> new[id].state, completed |-> completed]
    /\ records' \in [DOMAIN records -> Record]
    /\ mappings' \in [DOMAIN mappings -> Mapping]
    /\ resolved' \in [DOMAIN resolved' -> Resolution]

(* The open claims have distinct ClaimKeys and distinct, unresolved tokens. *)
LEMMA OpenClaims ==
    ASSUME TypeOK, TablesAgree, NEW i \in DOMAIN records, records[i].state = "Claimed"
    PROVE  /\ KeyOf(records[i]) \in DOMAIN mappings
           /\ mappings[KeyOf(records[i])].id = i
           /\ mappings[KeyOf(records[i])].token = records[i].token
           /\ mappings[KeyOf(records[i])].outcome = "None"
           /\ records[i].token \in Tokens \ DOMAIN resolved
           /\ \A k \in DOMAIN records :
                  records[k].state = "Claimed"
                      /\ (KeyOf(records[k]) = KeyOf(records[i]) \/ records[k].token = records[i].token)
                  => k = i
<1> DEFINE K == KeyOf(records[i])
<1>1. /\ K \in DOMAIN mappings
      /\ mappings[K] = [id |-> i, token |-> records[i].token, outcome |-> "None"]
  BY Zenon DEF TablesAgree
<1>2. mappings[K].id = i /\ mappings[K].token = records[i].token /\ mappings[K].outcome = "None"
  BY <1>1
<1>3. mappings[K].token \in Tokens /\ mappings[K].token \notin DOMAIN resolved
  <2> HIDE DEF K
  <2>1. mappings[K] \in Mapping
    BY Zenon, <1>1 DEF TypeOK
  <2> QED
    BY Zenon, <1>1, <1>2, <2>1 DEF TablesAgree, Mapping
<1>4. ASSUME NEW k \in DOMAIN records, records[k].state = "Claimed",
             KeyOf(records[k]) = K \/ records[k].token = records[i].token
      PROVE  k = i
  <2> DEFINE L == KeyOf(records[k])
  <2>1. /\ L \in DOMAIN mappings
        /\ mappings[L] = [id |-> k, token |-> records[k].token, outcome |-> "None"]
    BY Zenon, <1>4 DEF TablesAgree
  <2>2. mappings[L].id = k /\ mappings[L].token = records[k].token
    BY <2>1
  <2> HIDE DEF K, L
  <2>3. L = K
    BY ZenonT(40), <1>1, <1>2, <1>4, <2>1, <2>2 DEF TablesAgree, L
  <2> QED
    BY Zenon, <2>2, <2>3, <1>2
<1> QED
  BY Zenon, <1>1, <1>2, <1>3, <1>4

(* EndClaims writes those rows. *)
LEMMA EndClaimsEnds ==
    ASSUME TypeOK, TablesAgree, NEW ids \in SUBSET DOMAIN records,
           \A id \in ids : records[id].state = "Claimed",
           NEW new \in [ids -> Record], NEW completed \in BOOLEAN, EndClaims(new, completed)
    PROVE  Ends(ids, new, completed)
<1> DEFINE Of(k) == CHOOSE id \in ids : KeyOf(records[id]) = k
           By(t) == CHOOSE id \in ids : records[id].token = t
           Keys == {KeyOf(records[id]) : id \in ids}
           Toks == {records[id].token : id \in ids}
           NewM == [k \in Keys |-> [id |-> Of(k), token |-> records[Of(k)].token,
                                    outcome |-> new[Of(k)].state]]
           NewR == [t \in Toks |-> [id |-> By(t), state |-> new[By(t)].state,
                                     completed |-> completed]]
<1>0. DOMAIN new = ids
  BY Zenon
<1>1. /\ records' = Put(records, new)
      /\ mappings' = Put(mappings, NewM)
      /\ resolved' = Put(resolved, NewR)
  BY Zenon, <1>0 DEF EndClaims
<1>2. \A id \in ids : Of(KeyOf(records[id])) = id /\ By(records[id].token) = id
  BY ZenonT(40), OpenClaims
<1>3. Keys \subseteq DOMAIN mappings /\ Toks \subseteq Tokens \ DOMAIN resolved
  BY OpenClaims
<1> HIDE DEF Of, By
<1>4. ASSUME NEW id \in ids
      PROVE  NewM[KeyOf(records[id])] = [id |-> id, token |-> records[id].token,
                                         outcome |-> new[id].state]
  <2> DEFINE K == KeyOf(records[id])
  <2>1. K \in Keys /\ Of(K) = id
    BY Zenon, <1>2
  <2> HIDE DEF K
  <2>2. NewM[K] = [id |-> Of(K), token |-> records[Of(K)].token, outcome |-> new[Of(K)].state]
    BY Zenon, <2>1
  <2> QED
    BY Zenon, <2>1, <2>2 DEF K
<1>5. ASSUME NEW id \in ids
      PROVE  NewR[records[id].token] = [id |-> id, state |-> new[id].state,
                                        completed |-> completed]
  <2> DEFINE T == records[id].token
  <2>1. T \in Toks /\ By(T) = id
    BY Zenon, <1>2
  <2> HIDE DEF T
  <2>2. NewR[T] = [id |-> By(T), state |-> new[By(T)].state, completed |-> completed]
    BY Zenon, <2>1
  <2> QED
    BY Zenon, <2>1, <2>2 DEF T
<1>6. DOMAIN NewM = Keys /\ DOMAIN NewR = Toks
  BY Zenon
<1> HIDE DEF NewM, NewR
<1>7. /\ DOMAIN records' = DOMAIN records
      /\ \A id \in DOMAIN records : records'[id] = IF id \in ids THEN new[id] ELSE records[id]
  BY Zenon, <1>0, <1>1 DEF Put
<1>8. DOMAIN mappings' = DOMAIN mappings
  BY Zenon, <1>1, <1>3, <1>6 DEF Put
<1>9. ASSUME NEW k \in DOMAIN mappings
      PROVE  mappings'[k] =
               IF mappings[k].outcome = "None" /\ mappings[k].id \in ids
               THEN [id |-> mappings[k].id, token |-> mappings[k].token,
                     outcome |-> new[mappings[k].id].state]
               ELSE mappings[k]
  <2>1. CASE k \in Keys
    <3>1. PICK id \in ids : k = KeyOf(records[id])
      BY Zenon, <2>1
    <3>2. mappings[k].id = id /\ mappings[k].token = records[id].token /\ mappings[k].outcome = "None"
      BY Zenon, <3>1, OpenClaims
    <3>3. mappings'[k] = NewM[k]
      BY Zenon, <1>1, <1>6, <2>1 DEF Put
    <3> QED
      BY Zenon, <3>1, <3>2, <3>3, <1>4
  <2>2. CASE k \notin Keys
    <3>1. ~ (mappings[k].outcome = "None" /\ mappings[k].id \in ids)
      BY Zenon, <2>2 DEF TablesAgree
    <3>2. mappings'[k] = mappings[k]
      BY Zenon, <1>1, <1>6, <2>2 DEF Put
    <3> QED
      BY Zenon, <3>1, <3>2
  <2> QED
    BY Zenon, <2>1, <2>2
<1>10. /\ DOMAIN resolved' = DOMAIN resolved \cup Toks
       /\ \A t \in DOMAIN resolved : resolved'[t] = resolved[t]
       /\ \A t \in Toks : resolved'[t] = NewR[t]
  BY Zenon, <1>1, <1>3, <1>6 DEF Put
<1>11. records' \in [DOMAIN records -> Record]
  <2>1. records' = [id \in DOMAIN records |-> records'[id]]
    BY Zenon, <1>1, <1>7 DEF Put
  <2> QED
    BY Zenon, <2>1, <1>7 DEF TypeOK
<1>12. mappings' \in [DOMAIN mappings -> Mapping]
  <2>1. mappings' = [k \in DOMAIN mappings |-> mappings'[k]]
    BY Zenon, <1>1, <1>8 DEF Put
  <2>2. ASSUME NEW k \in DOMAIN mappings PROVE mappings'[k] \in Mapping
    <3>1. mappings[k] \in Mapping
      BY Zenon DEF TypeOK
    <3>2. mappings[k].id \in ids => new[mappings[k].id].state \in States
      BY Zenon DEF Record
    <3>3. CASE mappings[k].outcome = "None" /\ mappings[k].id \in ids
      <4>1. mappings'[k] = [id |-> mappings[k].id, token |-> mappings[k].token,
                            outcome |-> new[mappings[k].id].state]
        BY Zenon, <1>9, <3>3
      <4> QED
        BY <4>1, <3>1, <3>2, <3>3 DEF Mapping
    <3>4. CASE ~ (mappings[k].outcome = "None" /\ mappings[k].id \in ids)
      BY Zenon, <1>9, <3>1, <3>4
    <3> QED
      BY Zenon, <3>3, <3>4
  <2> QED
    BY Zenon, <2>1, <2>2
<1>13. resolved' \in [DOMAIN resolved' -> Resolution]
  <2>1. resolved' = [t \in DOMAIN resolved' |-> resolved'[t]]
    BY Zenon, <1>1, <1>10 DEF Put
  <2>2. ASSUME NEW t \in DOMAIN resolved' PROVE resolved'[t] \in Resolution
    <3>1. CASE t \in DOMAIN resolved
      BY Zenon, <3>1, <1>10 DEF TypeOK
    <3>2. CASE t \in Toks
      <4>1. PICK id \in ids : t = records[id].token
        BY Zenon, <3>2
      <4>2. resolved'[t] = [id |-> id, state |-> new[id].state, completed |-> completed]
        BY Zenon, <4>1, <3>2, <1>5, <1>10
      <4>3. id \in InboundIds /\ new[id].state \in States
        BY Zenon DEF TypeOK, Record
      <4> QED
        BY <4>2, <4>3 DEF Resolution
    <3> QED
      BY Zenon, <3>1, <3>2, <1>10
  <2> QED
    BY Zenon, <2>1, <2>2
<1> QED
  BY <1>5, <1>7, <1>8, <1>9, <1>10, <1>11, <1>12, <1>13 DEF Ends
-----------------------------------------------------------------------------
(* The typing of the tables apart from that of the files and the threads. *)
TableTypes ==
    /\ DOMAIN records \subseteq InboundIds
    /\ records \in [DOMAIN records -> Record]
    /\ payloads \in [DOMAIN records -> Items]
    /\ DOMAIN duplicates \subseteq Signed
    /\ duplicates \in [DOMAIN duplicates -> DOMAIN records]
    /\ DOMAIN mappings \subseteq Applications \X ClaimKeys
    /\ mappings \in [DOMAIN mappings -> Mapping]
    /\ DOMAIN resolved \subseteq Tokens
    /\ resolved \in [DOMAIN resolved -> Resolution]

Thread == {Idle} \cup Claiming \cup Exporting \cup Controlling

OtherTypes ==
    /\ service \in {"Down", "Mail", "Ipc"}
    /\ exports \subseteq InboundIds \X Tokens
    /\ temporaries \subseteq InboundIds \X Tokens
    /\ conn \in [Connections -> Thread]
    /\ leases \subseteq Lease
    /\ outcomes \subseteq [token : Tokens, state : States]
    /\ now \in Clock

(* TypeOK is the two together. *)
LEMMA Typing == TypeOK <=> TableTypes /\ OtherTypes
BY Zenon DEF TypeOK, TableTypes, OtherTypes, Thread

(* Tables that stay keep their types. *)
LEMMA TableTypesStay == ASSUME TypeOK, UNCHANGED tables PROVE TableTypes'
BY Zenon DEF TypeOK, TableTypes, tables

(* A claim that ends leaves tables that agree. *)
LEMMA EndsKeeps ==
    ASSUME IInv, NEW ids \in SUBSET DOMAIN records,
           \A id \in ids : records[id].state = "Claimed",
           NEW new \in [ids -> Record], NEW completed \in BOOLEAN,
           \A id \in ids : new[id].state # "Claimed" /\ new[id].expires = NoTime,
           Ends(ids, new, completed), UNCHANGED <<payloads, duplicates>>
    PROVE  TableTypes' /\ TablesAgree' /\ Registered' /\ Durable
<1>1. TypeOK /\ TablesAgree /\ Registered
  BY Zenon DEF IInv
<1>2. \A id \in ids : /\ KeyOf(records[id]) \in DOMAIN mappings
                      /\ mappings[KeyOf(records[id])].id = id
                      /\ mappings[KeyOf(records[id])].token = records[id].token
                      /\ mappings[KeyOf(records[id])].outcome = "None"
                      /\ records[id].token \in Tokens \ DOMAIN resolved
  BY Zenon, <1>1, OpenClaims
<1>3. TableTypes'
  BY <1>1, <1>2 DEF Ends, TypeOK, TableTypes
<1>4. Durable
  BY DEF Ends, Durable, Terminal
<1>5. Registered'
  BY Zenon, <1>1 DEF Ends, Registered
<1>6. ASSUME NEW id \in DOMAIN records'
      PROVE  /\ (records'[id].state = "Claimed") <=> (records'[id].expires # NoTime)
             /\ records'[id].state = "Claimed" =>
                  /\ KeyOf(records'[id]) \in DOMAIN mappings'
                  /\ mappings'[KeyOf(records'[id])] =
                         [id |-> id, token |-> records'[id].token, outcome |-> "None"]
  <2>1. CASE id \in ids
    BY <2>1 DEF Ends
  <2>2. CASE id \notin ids
    <3>1. records'[id] = records[id] /\ id \in DOMAIN records
      BY Zenon, <2>2 DEF Ends
    <3>2. (records[id].state = "Claimed") <=> (records[id].expires # NoTime)
      BY Zenon, <1>1, <3>1 DEF TablesAgree
    <3>3. ASSUME records[id].state = "Claimed"
          PROVE  /\ KeyOf(records[id]) \in DOMAIN mappings'
                 /\ mappings'[KeyOf(records[id])] =
                        [id |-> id, token |-> records[id].token, outcome |-> "None"]
      <4> DEFINE K == KeyOf(records[id])
      <4>1. K \in DOMAIN mappings /\ mappings[K].id = id
            /\ mappings[K] = [id |-> id, token |-> records[id].token, outcome |-> "None"]
        BY Zenon, <1>1, <3>1, <3>3, OpenClaims DEF TablesAgree
      <4> HIDE DEF K
      <4>2. K \in DOMAIN mappings' /\ mappings'[K] = mappings[K]
        BY Zenon, <4>1, <2>2 DEF Ends
      <4> QED
        BY Zenon, <4>1, <4>2 DEF K
    <3> QED
      BY Zenon, <3>1, <3>2, <3>3
  <2> QED
    BY Zenon, <2>1, <2>2
<1>7. ASSUME NEW k \in DOMAIN mappings'
      PROVE  /\ mappings'[k].id \in DOMAIN records'
             /\ mappings'[k].outcome = "None" =>
                    /\ mappings'[k].token \notin DOMAIN resolved'
                    /\ records'[mappings'[k].id].state = "Claimed"
                    /\ KeyOf(records'[mappings'[k].id]) = k
             /\ mappings'[k].outcome # "None" =>
                    /\ mappings'[k].token \in DOMAIN resolved'
                    /\ resolved'[mappings'[k].token].id = mappings'[k].id
                    /\ resolved'[mappings'[k].token].state = mappings'[k].outcome
  <2>1. k \in DOMAIN mappings /\ mappings[k].id \in DOMAIN records
        /\ mappings'[k].id = mappings[k].id /\ mappings'[k].token = mappings[k].token
        /\ DOMAIN records' = DOMAIN records
    BY SMTT(60), <1>1 DEF Ends, TablesAgree
  <2>2. CASE mappings[k].outcome = "None" /\ mappings[k].id \in ids
    <3> DEFINE i == mappings[k].id
    <3>1. KeyOf(records[i]) = k
      BY Zenon, <1>1, <2>1, <2>2 DEF TablesAgree
    <3>2. records[i].token = mappings[k].token
      BY ZenonT(40), <1>2, <2>2, <3>1
    <3>3. mappings'[k].outcome = new[i].state /\ new[i].state # "None"
      BY SMTT(60), <2>1, <2>2 DEF Ends, Record, States
    <3>4. mappings[k].token \in DOMAIN resolved'
          /\ resolved'[mappings[k].token] = [id |-> i, state |-> new[i].state, completed |-> completed]
      BY <2>2, <3>2 DEF Ends
    <3> QED
      BY <2>1, <3>3, <3>4
  <2>3. CASE mappings[k].outcome = "None" /\ mappings[k].id \notin ids
    <3>1. mappings'[k] = mappings[k] /\ records'[mappings[k].id] = records[mappings[k].id]
      BY Zenon, <2>1, <2>3 DEF Ends
    <3>2. /\ mappings[k].token \notin DOMAIN resolved
          /\ records[mappings[k].id].state = "Claimed"
          /\ KeyOf(records[mappings[k].id]) = k
      BY Zenon, <1>1, <2>1, <2>3 DEF TablesAgree
    <3>3. ASSUME NEW id \in ids, records[id].token = mappings[k].token PROVE FALSE
      <4>1. KeyOf(records[id]) = k
        BY <1>1, <1>2, <2>1, <3>3 DEF TablesAgree
      <4> QED
        BY Zenon, <4>1, <1>2, <2>3
    <3>4. mappings[k].token \notin DOMAIN resolved'
      BY Zenon, <3>2, <3>3 DEF Ends
    <3> QED
      BY Zenon, <2>1, <2>3, <3>1, <3>2, <3>4
  <2>4. CASE mappings[k].outcome # "None"
    <3>1. mappings'[k] = mappings[k]
      BY Zenon, <2>1, <2>4 DEF Ends
    <3>2. /\ mappings[k].token \in DOMAIN resolved
          /\ resolved[mappings[k].token].id = mappings[k].id
          /\ resolved[mappings[k].token].state = mappings[k].outcome
      BY Zenon, <1>1, <2>1, <2>4 DEF TablesAgree
    <3> QED
      BY Zenon, <2>1, <2>4, <3>1, <3>2 DEF Ends
  <2> QED
    BY Zenon, <2>2, <2>3, <2>4
<1>8. \A k, l \in DOMAIN mappings' : mappings'[k].token = mappings'[l].token => k = l
  BY ZenonT(40), <1>1, <1>4 DEF Durable, TablesAgree, Ends
<1>9. DOMAIN resolved' \subseteq {mappings'[k].token : k \in DOMAIN mappings'}
  <2>1. ASSUME NEW t \in DOMAIN resolved' PROVE \E k \in DOMAIN mappings : mappings[k].token = t
    BY <1>1, <1>2, <2>1 DEF Ends, TablesAgree
  <2> QED
    BY <2>1, <1>4 DEF Durable
<1>10. TablesAgree'
  BY Zenon, <1>6, <1>7, <1>8, <1>9 DEF TablesAgree, KeyOf
<1> QED
  BY Zenon, <1>3, <1>4, <1>5, <1>10

(* accept registers a signed item together with its record. *)
LEMMA AcceptTables ==
    ASSUME IInv, NEW item \in Items, NEW id \in InboundIds, NEW application \in Applications,
           NEW received \in 0 .. MaxTime, Accept(item, id, application, received)
    PROVE  TableTypes' /\ TablesAgree' /\ Registered' /\ Durable
<1>1. TypeOK /\ TablesAgree /\ Registered
  BY Zenon DEF IInv
<1>2. id \notin DOMAIN records /\ item \notin DOMAIN duplicates
      /\ UNCHANGED <<mappings, resolved>>
  BY Zenon DEF Accept
<1>3. /\ DOMAIN records' = DOMAIN records \cup {id}
      /\ records' = [i \in DOMAIN records \cup {id} |->
                        IF i = id THEN NewRecord(application, received) ELSE records[i]]
  BY Zenon DEF Accept, Put
<1>4. /\ DOMAIN payloads' = DOMAIN payloads \cup {id}
      /\ payloads' = [i \in DOMAIN payloads \cup {id} |-> IF i = id THEN item ELSE payloads[i]]
  BY Zenon DEF Accept, Put
<1>5. item \in Signed =>
        /\ DOMAIN duplicates' = DOMAIN duplicates \cup {item}
        /\ duplicates' = [x \in DOMAIN duplicates \cup {item} |->
                             IF x = item THEN id ELSE duplicates[x]]
  BY Zenon DEF Accept, Put, Identity
<1>6. item \notin Signed => duplicates' = duplicates
  <2> SUFFICES ASSUME item \notin Signed PROVE duplicates' = duplicates
    BY Zenon
  <2>1. duplicates' = [x \in DOMAIN duplicates |-> duplicates[x]]
    BY Zenon DEF Accept, Put, Identity, EmptyTable
  <2> QED
    BY Zenon, <2>1, <1>1 DEF TypeOK
<1>7. NewRecord(application, received) \in Record
  BY InboundAssumption DEF NewRecord, Record, Clock, States, NoTime
<1>8. TableTypes'
  <2>1. DOMAIN records' \subseteq InboundIds /\ records' \in [DOMAIN records' -> Record]
    BY Zenon, <1>1, <1>3, <1>7 DEF TypeOK
  <2>2. payloads' \in [DOMAIN records' -> Items]
    BY Zenon, <1>1, <1>3, <1>4 DEF TypeOK
  <2>3. DOMAIN duplicates' \subseteq Signed /\ duplicates' \in [DOMAIN duplicates' -> DOMAIN records']
    BY Zenon, <1>1, <1>3, <1>5, <1>6 DEF TypeOK
  <2> QED
    BY Zenon, <1>1, <1>2, <2>1, <2>2, <2>3 DEF TypeOK, TableTypes
<1>9. Registered'
  <2> SUFFICES ASSUME NEW i \in DOMAIN records', payloads'[i] \in Signed
               PROVE  payloads'[i] \in DOMAIN duplicates' /\ duplicates'[payloads'[i]] = i
    BY Zenon DEF Registered
  <2>1. CASE i = id
    BY Zenon, <2>1, <1>1, <1>3, <1>4, <1>5 DEF TypeOK
  <2>2. CASE i # id
    <3>1. i \in DOMAIN records /\ payloads'[i] = payloads[i]
      BY Zenon, <2>2, <1>1, <1>3, <1>4 DEF TypeOK
    <3>2. payloads[i] \in DOMAIN duplicates /\ duplicates[payloads[i]] = i
      BY Zenon, <3>1, <1>1 DEF Registered
    <3> QED
      BY Zenon, <3>1, <3>2, <1>2, <1>5, <1>6
  <2> QED
    BY Zenon, <2>1, <2>2
<1>10. Durable
  BY Zenon, <1>2, <1>3 DEF Durable
<1>11. \A i \in DOMAIN records : i # id /\ records'[i] = records[i] /\ i \in DOMAIN records'
  BY Zenon, <1>2, <1>3
<1>12. records'[id].state = "Available" /\ records'[id].expires = NoTime
  BY ZenonT(40), <1>3 DEF NewRecord
<1>13. TablesAgree'
  BY <1>1, <1>2, <1>3, <1>11, <1>12 DEF TablesAgree, KeyOf
<1> QED
  BY Zenon, <1>8, <1>9, <1>10, <1>13

(* refresh_expirations ends the claims that have run out. *)
LEMMA RefreshEnds ==
    ASSUME IInv, NEW asOf \in Clock, RefreshExpirations(asOf)
    PROVE  /\ \E new \in [Expired(asOf) -> Record] :
                  /\ \A id \in Expired(asOf) : new[id].state = "Available" /\ new[id].expires = NoTime
                  /\ Ends(Expired(asOf), new, FALSE)
           /\ TableTypes' /\ TablesAgree' /\ Registered' /\ Durable
<1> DEFINE ids == Expired(asOf)
           new == [id \in ids |-> Ended(records[id], "Available", records[id].expires)]
<1>1. TypeOK /\ TablesAgree
  BY Zenon DEF IInv
<1>2. ids \in SUBSET DOMAIN records /\ \A id \in ids : records[id].state = "Claimed"
  BY Zenon DEF Expired
<1>3. ASSUME NEW id \in ids
      PROVE  /\ Ended(records[id], "Available", records[id].expires) \in Record
             /\ Ended(records[id], "Available", records[id].expires).state = "Available"
             /\ Ended(records[id], "Available", records[id].expires).expires = NoTime
  <2>1. records[id] \in Record
    BY Zenon, <1>1, <1>2 DEF TypeOK
  <2>2. records[id].expires # NoTime
    BY Zenon, <1>1, <1>2 DEF TablesAgree
  <2>3. records[id].expires \in Clock
    BY Zenon, <2>1, <2>2 DEF Record
  <2> QED
    BY Zenon, <2>1, <2>3 DEF Ended, Record, States
<1>4. /\ new \in [ids -> Record]
      /\ \A id \in ids : new[id].state = "Available" /\ new[id].expires = NoTime
  BY Zenon, <1>3
<1>5. EndClaims(new, FALSE) /\ UNCHANGED <<payloads, duplicates>>
  BY Zenon DEF RefreshExpirations
<1> HIDE DEF new, ids
<1>6. Ends(ids, new, FALSE)
  BY Zenon, <1>1, <1>2, <1>4, <1>5, EndClaimsEnds
<1>7. TableTypes' /\ TablesAgree' /\ Registered' /\ Durable
  BY Zenon, <1>2, <1>4, <1>5, <1>6, EndsKeeps
<1> QED
  BY Zenon, <1>4, <1>6, <1>7 DEF ids

(* resolve ends one claim, by a result its consumer asked for. *)
LEMMA ResolveEnds ==
    ASSUME IInv, NEW c \in Connections, NEW asOf \in Clock, At(c, "Ready"),
           NEW new \in Results(conn[c].id, asOf), Resolve(c, new, asOf)
    PROVE  /\ conn[c].id \in DOMAIN records /\ Open(conn[c].id, conn[c].token)
           /\ new.state \in States /\ new.state # "Claimed"
           /\ \E row \in [{conn[c].id} -> Record] :
                  row[conn[c].id] = new /\ Ends({conn[c].id}, row, TRUE)
           /\ TableTypes' /\ TablesAgree' /\ Registered' /\ Durable
<1> DEFINE id == conn[c].id
           row == [x \in {id} |-> new]
<1>1. TypeOK /\ TablesAgree /\ Threads
  BY Zenon DEF IInv
<1>2. id \in DOMAIN records
  BY Zenon, <1>1 DEF At, Threads, Controls, Granted, TablesAgree
<1>3. Open(id, conn[c].token)
  BY Zenon DEF Resolve, Current, Open
<1>4. records[id] \in Record /\ asOf \in Clock
  BY Zenon, <1>1, <1>2 DEF TypeOK
<1>5. new \in Record /\ new.state \in States /\ new.state # "Claimed" /\ new.expires = NoTime
  <2>1. PICK s \in States \ {"Claimed"}, e \in Clock : new = Ended(records[id], s, e)
    BY Zenon, <1>4 DEF Results, Terminal, States, Record
  <2> QED
    BY Zenon, <2>1, <1>4 DEF Ended, Record
<1>6. row \in [{id} -> Record] /\ row[id] = new
  BY Zenon, <1>5
<1>7. EndClaims(row, TRUE) /\ UNCHANGED <<payloads, duplicates>>
  BY Zenon DEF Resolve
<1>8. {id} \in SUBSET DOMAIN records /\ \A i \in {id} : records[i].state = "Claimed"
  BY Zenon, <1>2, <1>3 DEF Open
<1> HIDE DEF row, id
<1>9. Ends({id}, row, TRUE)
  BY Zenon, <1>1, <1>6, <1>7, <1>8, EndClaimsEnds
<1>10. TableTypes' /\ TablesAgree' /\ Registered' /\ Durable
  BY Zenon, <1>5, <1>6, <1>7, <1>8, <1>9, EndsKeeps
<1> QED
  BY Zenon, <1>2, <1>3, <1>5, <1>6, <1>9, <1>10 DEF id

(* claim takes an item under a new ClaimKey with a new token. *)
LEMMA TakeClaimTables ==
    ASSUME IInv, NEW c \in Connections, NEW id \in InboundIds, NEW token \in Tokens,
           TakeClaim(c, id, token)
    PROVE  /\ id \in DOMAIN records /\ records[id].state # "Claimed"
           /\ DOMAIN records' = DOMAIN records
           /\ \A i \in DOMAIN records : i # id => records'[i] = records[i]
           /\ records'[id].state = "Claimed" /\ records'[id].token = token
           /\ records'[id].expires = conn[c].asOf + Duration
           /\ token \notin DOMAIN resolved /\ \A i \in InboundIds : ~ Granted(i, token)
           /\ GrantedNext(id, token)
           /\ TableTypes' /\ TablesAgree' /\ Registered' /\ Durable
<1> DEFINE K == MappingKey(c)
           M == [id |-> id, token |-> token, outcome |-> "None"]
           until == conn[c].asOf + Duration
<1>1. TypeOK /\ TablesAgree /\ Threads /\ Registered
  BY Zenon DEF IInv
<1>2. conn[c] \in Claiming /\ conn[c].phase = "Refreshed"
  <2>1. conn[c].phase = "Refreshed"
    BY Zenon DEF TakeClaim, At
  <2>2. conn[c] \in {Idle} \cup Claiming \cup Exporting \cup Controlling
    BY Zenon, <1>1 DEF TypeOK
  <2> QED
    BY <2>1, <2>2 DEF Idle, Exporting, Controlling
<1>3. K \in Applications \X ClaimKeys /\ K \notin DOMAIN mappings
      /\ K = <<conn[c].application, conn[c].key>>
  BY Zenon, <1>2 DEF TakeClaim, Mapped, MappingKey, Claiming
<1>4. until \in Clock /\ until # NoTime
  BY <1>1, <1>2, InboundAssumption DEF Threads, Claiming, Clock, NoTime
<1>5. /\ id \in DOMAIN records /\ records[id].state # "Claimed"
      /\ records[id].state \notin Terminal
      /\ records[id].application = conn[c].application
  BY Zenon DEF TakeClaim, EligibleItems, Claimable, Terminal
<1>6. token \notin {mappings[k].token : k \in DOMAIN mappings}
  BY Zenon DEF TakeClaim, FreshTokens
<1>7. token \notin DOMAIN resolved /\ \A i \in InboundIds : ~ Granted(i, token)
  BY Zenon, <1>1, <1>6 DEF TablesAgree, Granted
<1>8. /\ mappings' = [k \in DOMAIN mappings \cup {K} |-> IF k = K THEN M ELSE mappings[k]]
      /\ DOMAIN mappings' = DOMAIN mappings \cup {K}
      /\ UNCHANGED <<payloads, duplicates, resolved>>
  BY Zenon DEF TakeClaim, Put
<1>9. M \in Mapping /\ M.id = id /\ M.token = token /\ M.outcome = "None"
  BY Zenon DEF Mapping
<1>10. records[id] \in Record
  BY Zenon, <1>1, <1>5 DEF TypeOK
<1>11. PICK r \in Record :
         /\ records' = [records EXCEPT ![id] = r]
         /\ r.state = "Claimed" /\ r.key = conn[c].key /\ r.token = token
         /\ r.expires = until /\ r.application = records[id].application
  <2> DEFINE r == [[[[records[id] EXCEPT !.state = "Claimed"] EXCEPT !.key = conn[c].key]
                       EXCEPT !.token = token] EXCEPT !.expires = until]
  <2>1. r \in Record /\ r.state = "Claimed" /\ r.key = conn[c].key /\ r.token = token
        /\ r.expires = until /\ r.application = records[id].application
    BY Zenon, <1>2, <1>4, <1>10 DEF Record, States, Claiming
  <2>2. records' = [records EXCEPT ![id] = r]
    BY ZenonT(40), <1>1, <1>5 DEF TakeClaim, TypeOK
  <2> QED
    BY Zenon, <2>1, <2>2
<1>12. /\ DOMAIN records' = DOMAIN records
       /\ records'[id] = r
       /\ \A i \in DOMAIN records : i # id => records'[i] = records[i]
       /\ records' \in [DOMAIN records -> Record]
  BY Zenon, <1>1, <1>5, <1>11 DEF TypeOK
<1> HIDE DEF K, M, until
<1>13. TableTypes'
  <2>1. mappings' \in [DOMAIN mappings' -> Mapping]
    BY Zenon, <1>1, <1>8, <1>9 DEF TypeOK
  <2> QED
    BY Zenon, <1>1, <1>3, <1>8, <1>12, <2>1 DEF TypeOK, TableTypes
<1>14. Durable
  BY Zenon, <1>3, <1>5, <1>8, <1>12 DEF Durable
<1>15. Registered'
  BY Zenon, <1>1, <1>8, <1>12 DEF Registered
<1>16. KeyOf(records'[id]) = K /\ mappings'[K] = M /\ K \in DOMAIN mappings'
  BY Zenon, <1>3, <1>5, <1>8, <1>11, <1>12 DEF KeyOf
<1>17. GrantedNext(id, token)
  BY Zenon, <1>9, <1>16 DEF GrantedNext
<1>18. ASSUME NEW i \in DOMAIN records'
       PROVE  /\ (records'[i].state = "Claimed") <=> (records'[i].expires # NoTime)
              /\ records'[i].state = "Claimed" =>
                  /\ KeyOf(records'[i]) \in DOMAIN mappings'
                  /\ mappings'[KeyOf(records'[i])] =
                         [id |-> i, token |-> records'[i].token, outcome |-> "None"]
  <2>1. CASE i = id
    BY Zenon, <2>1, <1>4, <1>11, <1>12, <1>16 DEF M
  <2>2. CASE i # id
    <3>1. records'[i] = records[i] /\ i \in DOMAIN records
      BY Zenon, <2>2, <1>12
    <3>2. \A k \in DOMAIN mappings : k \in DOMAIN mappings' /\ mappings'[k] = mappings[k]
      BY Zenon, <1>3, <1>8
    <3> QED
      BY <1>1, <3>1, <3>2 DEF TablesAgree
  <2> QED
    BY Zenon, <2>1, <2>2
<1>19. ASSUME NEW k \in DOMAIN mappings'
       PROVE  /\ mappings'[k].id \in DOMAIN records'
              /\ mappings'[k].outcome = "None" =>
                    /\ mappings'[k].token \notin DOMAIN resolved'
                    /\ records'[mappings'[k].id].state = "Claimed"
                    /\ KeyOf(records'[mappings'[k].id]) = k
              /\ mappings'[k].outcome # "None" =>
                    /\ mappings'[k].token \in DOMAIN resolved'
                    /\ resolved'[mappings'[k].token].id = mappings'[k].id
                    /\ resolved'[mappings'[k].token].state = mappings'[k].outcome
  <2>1. CASE k = K
    BY ZenonT(40), <2>1, <1>5, <1>7, <1>8, <1>9, <1>11, <1>12, <1>16
  <2>2. CASE k # K
    <3>1. k \in DOMAIN mappings /\ mappings'[k] = mappings[k] /\ mappings[k].id \in DOMAIN records
      BY Zenon, <2>2, <1>1, <1>8 DEF TablesAgree
    <3>2. mappings[k].outcome = "None" => mappings[k].id # id
      BY ZenonT(40), <3>1, <1>1, <1>5 DEF TablesAgree
    <3> QED
      BY <3>1, <3>2, <1>1, <1>8, <1>12 DEF TablesAgree
  <2> QED
    BY Zenon, <2>1, <2>2
<1>20. \A k, l \in DOMAIN mappings' : mappings'[k].token = mappings'[l].token => k = l
  <2>1. \A k \in DOMAIN mappings : k # K /\ mappings'[k] = mappings[k] /\ mappings[k].token # token
    BY Zenon, <1>3, <1>6, <1>8
  <2>2. mappings'[K].token = token
    BY Zenon, <1>9, <1>16
  <2>3. \A k, l \in DOMAIN mappings : mappings[k].token = mappings[l].token => k = l
    BY Zenon, <1>1 DEF TablesAgree
  <2> QED
    BY Zenon, <1>8, <2>1, <2>2, <2>3
<1>21. DOMAIN resolved' \subseteq {mappings'[k].token : k \in DOMAIN mappings'}
  <2>1. ASSUME NEW t \in DOMAIN resolved' PROVE \E k \in DOMAIN mappings : mappings[k].token = t
    BY ZenonT(90), <1>1, <1>8, <2>1 DEF TablesAgree
  <2> QED
    BY ZenonT(40), <2>1, <1>14 DEF Durable
<1>22. TablesAgree'
  BY Zenon, <1>18, <1>19, <1>20, <1>21 DEF TablesAgree, KeyOf
<1> QED
  BY Zenon, <1>5, <1>7, <1>11, <1>12, <1>13, <1>14, <1>15, <1>17, <1>22 DEF until

(* renew and commit_batch change the expiration of a claim or mark it. *)
LEMMA TouchTables ==
    ASSUME IInv, NEW id \in DOMAIN records, records[id].state = "Claimed", NEW r \in Record,
           r.state = "Claimed", r.token = records[id].token, KeyOf(r) = KeyOf(records[id]),
           r.expires # NoTime, records' = [records EXCEPT ![id] = r],
           UNCHANGED <<payloads, duplicates, mappings, resolved>>
    PROVE  TableTypes' /\ TablesAgree' /\ Registered' /\ Durable
<1>1. TypeOK /\ TablesAgree /\ Registered
  BY Zenon DEF IInv
<1>2. /\ DOMAIN records' = DOMAIN records
      /\ records'[id] = r
      /\ \A i \in DOMAIN records : i # id => records'[i] = records[i]
      /\ records' \in [DOMAIN records -> Record]
  BY Zenon, <1>1 DEF TypeOK
<1>3. \A i \in DOMAIN records :
         /\ records'[i].state = records[i].state
         /\ records'[i].token = records[i].token
         /\ KeyOf(records'[i]) = KeyOf(records[i])
         /\ (records'[i].expires # NoTime) <=> (records[i].expires # NoTime)
  BY ZenonT(40), <1>1, <1>2 DEF TablesAgree
<1>4. TableTypes'
  BY Zenon, <1>1, <1>2 DEF TypeOK, TableTypes
<1>5. Registered' /\ Durable
  BY Zenon, <1>1, <1>2 DEF Registered, Durable, Terminal
<1>6. TablesAgree'
  BY <1>1, <1>2, <1>3 DEF TablesAgree
<1> QED
  BY Zenon, <1>4, <1>5, <1>6
-----------------------------------------------------------------------------
(* What a thread knows in each phase. *)
LEMMA PhaseTypes ==
    ASSUME IInv, NEW c \in Connections
    PROVE  /\ conn[c] \in Thread
           /\ conn[c].phase \in {"Arrived", "Refreshed"} => conn[c] \in Claiming
           /\ Exports(c) => conn[c] \in Exporting
           /\ Controls(c) => conn[c] \in Controlling
           /\ now \in Nat
<1>1. conn[c] \in Thread /\ now \in Nat
  BY InboundAssumption DEF IInv, TypeOK, Thread, Clock
<1> QED
  BY <1>1 DEF Thread, Idle, Claiming, Exporting, Controlling, Exports, Controls

(* A thread that is not idle keeps the clock it read. *)
LEMMA AsOfTypes ==
    ASSUME IInv, NEW c \in Connections, conn[c].phase # "Idle"
    PROVE  conn[c].asOf \in Clock
<1>1. conn[c] \in {Idle} \cup Claiming \cup Exporting \cup Controlling
  BY Zenon, PhaseTypes DEF Thread
<1>2. conn[c] # Idle
  BY DEF Idle
<1>3. CASE conn[c] \in Claiming
  BY Zenon, <1>3 DEF Claiming
<1>4. CASE conn[c] \in Exporting
  BY Zenon, <1>4 DEF Exporting
<1>5. CASE conn[c] \in Controlling
  BY Zenon, <1>5 DEF Controlling
<1> QED
  BY Zenon, <1>1, <1>2, <1>3, <1>4, <1>5

Fits(s) ==
    /\ s \in Thread
    /\ s.phase # "Idle" => s.asOf <= now
    /\ s.phase \in {"Arrived", "Refreshed"} => s.asOf <= MaxTime

(* A step of one thread that keeps the tables in agreement. *)
LEMMA StepKeeps ==
    ASSUME IInv, TableTypes', TablesAgree', Registered', Durable, UNCHANGED <<service, now>>,
           exports' \subseteq InboundIds \X Tokens, temporaries' \subseteq InboundIds \X Tokens,
           NEW c \in Connections, NEW s, Fits(s), conn' = [conn EXCEPT ![c] = s],
           s \in Exporting \cup Controlling => GrantedNext(s.id, s.token),
           leases' \subseteq Lease, \A l \in leases' : l \in leases \/ Granted(l.id, l.token),
           outcomes' \subseteq [token : Tokens, state : States],
           \A o \in outcomes' :
               o \in outcomes \/ (o.token \in DOMAIN resolved' /\ resolved'[o.token].state = o.state)
    PROVE  IInv'
<1>1. OtherTypes'
  BY Zenon, Typing DEF IInv, OtherTypes, Fits
<1>2. TypeOK'
  BY Zenon, <1>1 DEF TypeOK, TableTypes, OtherTypes, Thread
<1>3. Threads'
  <2> SUFFICES ASSUME NEW d \in Connections
               PROVE  /\ conn'[d].phase # "Idle" => conn'[d].asOf <= now
                      /\ conn'[d].phase \in {"Arrived", "Refreshed"} => conn'[d].asOf <= MaxTime
                      /\ (Exports(d) \/ Controls(d))' => GrantedNext(conn'[d].id, conn'[d].token)
    BY Zenon DEF Threads, Granted, GrantedNext, Exports, Controls
  <2>1. CASE d = c
    <3>1. conn'[d] = s
      BY Zenon, <2>1 DEF IInv, TypeOK
    <3>2. (Exports(d) \/ Controls(d))' => s \in Exporting \cup Controlling
      BY <3>1 DEF Exports, Controls, Fits, Thread, Idle, Claiming
    <3> QED
      BY Zenon, <3>1, <3>2 DEF Fits
  <2>2. CASE d # c
    <3>1. conn'[d] = conn[d]
      BY Zenon, <2>2 DEF IInv, TypeOK
    <3>2. (Exports(d) \/ Controls(d))' => Granted(conn[d].id, conn[d].token)
      BY ZenonT(40), <3>1 DEF IInv, Threads, Exports, Controls
    <3>3. (Exports(d) \/ Controls(d))' => GrantedNext(conn'[d].id, conn'[d].token)
      BY Zenon, <3>1, <3>2, GrantedStays
    <3> QED
      BY Zenon, <3>1, <3>3 DEF IInv, Threads
  <2> QED
    BY Zenon, <2>1, <2>2
<1>4. Leased'
  BY DEF IInv, Leased, Durable, Granted
<1>5. Remembered'
  BY Zenon DEF IInv, Remembered, Durable
<1> QED
  BY Zenon, <1>2, <1>3, <1>4, <1>5 DEF IInv

(* A step of one thread that only moves it on, and touches files. *)
LEMMA MoveKeeps ==
    ASSUME IInv, UNCHANGED <<service, tables, told, now>>,
           exports' \subseteq InboundIds \X Tokens, temporaries' \subseteq InboundIds \X Tokens,
           NEW c \in Connections, NEW s, Fits(s), conn' = [conn EXCEPT ![c] = s],
           s \in Exporting \cup Controlling => Granted(s.id, s.token)
    PROVE  IInv' /\ Durable
<1>1. TablesAgree' /\ Registered' /\ Durable
  BY Zenon, TablesStay
<1>2. TableTypes'
  BY Zenon, TableTypesStay DEF IInv
<1>3. s \in Exporting \cup Controlling => GrantedNext(s.id, s.token)
  BY Zenon, <1>1, GrantedStays
<1>4. leases' = leases /\ outcomes' = outcomes
      /\ leases \subseteq Lease /\ outcomes \subseteq [token : Tokens, state : States]
  BY Zenon DEF IInv, TypeOK, told
<1> QED
  BY Zenon, <1>1, <1>2, <1>3, <1>4, StepKeeps
-----------------------------------------------------------------------------
(***************************************************************************)
(* The actions, one lemma each.                                            *)
(***************************************************************************)
LEMMA Initially == Init => IInv
<1> SUFFICES ASSUME Init PROVE IInv
  BY Zenon
<1>1. TypeOK
  BY InboundAssumption DEF Init, TypeOK, EmptyTable, Clock, Idle
<1>2. TablesAgree /\ Threads /\ Leased /\ Registered /\ Remembered
  BY Zenon DEF Init, TablesAgree, Threads, Leased, Registered, Remembered, EmptyTable, Idle,
         Exports, Controls
<1> QED
  BY Zenon, <1>1, <1>2 DEF IInv

(* accept *)
LEMMA AcceptKeeps ==
    ASSUME IInv, NEW item \in Items, NEW id \in InboundIds, NEW application \in Applications,
           NEW received \in 0 .. MaxTime, Accept(item, id, application, received)
    PROVE  IInv' /\ Durable
<1>1. TableTypes' /\ TablesAgree' /\ Registered' /\ Durable
  BY Zenon, AcceptTables
<1>2. UNCHANGED <<service, mappings, resolved, files, conn, told, now>>
  BY Zenon DEF Accept
<1>3. TypeOK'
  BY Zenon, <1>1, <1>2 DEF IInv, TypeOK, TableTypes, files, told
<1>4. Threads' /\ Leased' /\ Remembered'
  BY ZenonT(40), <1>2 DEF IInv, Threads, Leased, Remembered, Granted, Exports, Controls, told
<1> QED
  BY Zenon, <1>1, <1>3, <1>4 DEF IInv

(* A Claim-Inbound arrives. *)
LEMMA ArriveClaimKeeps ==
    ASSUME IInv, NEW c \in Connections, NEW application \in Applications, NEW key \in ClaimKeys,
           ArriveClaim(c, application, key)
    PROVE  IInv' /\ Durable
<1> DEFINE s == [phase |-> "Arrived", application |-> application, key |-> key, asOf |-> now]
<1>1. s \in Claiming /\ s \notin Exporting \cup Controlling /\ Fits(s)
  BY PhaseTypes DEF ArriveClaim, IInv, TypeOK, Claiming, Exporting, Controlling, Fits, Thread
<1>2. /\ conn' = [conn EXCEPT ![c] = s]
      /\ UNCHANGED <<service, tables, told, now>> /\ UNCHANGED files
  BY Zenon DEF ArriveClaim, Goto
<1> HIDE DEF s
<1> QED
  BY Zenon, <1>1, <1>2, MoveKeeps DEF IInv, TypeOK, files

(* claim refreshes the expirations. *)
LEMMA BeginClaimKeeps ==
    ASSUME IInv, NEW c \in Connections, NEW asOf \in Clock, BeginClaim(c, asOf)
    PROVE  IInv' /\ Durable
<1> DEFINE s == [conn[c] EXCEPT !.phase = "Refreshed", !.asOf = asOf]
<1>1. conn[c] \in Claiming
  BY Zenon, PhaseTypes DEF BeginClaim, At
<1>2. s \in Claiming /\ s \notin Exporting \cup Controlling /\ Fits(s)
  BY Zenon, <1>1 DEF BeginClaim, Reads, Claiming, Exporting, Controlling, Fits, Thread
<1>3. TableTypes' /\ TablesAgree' /\ Registered' /\ Durable
  BY ZenonT(40), RefreshEnds DEF BeginClaim
<1>4. conn' = [conn EXCEPT ![c] = s] /\ UNCHANGED <<service, files, told, now>>
  BY Zenon DEF BeginClaim, Goto
<1> HIDE DEF s
<1> QED
  BY Zenon, <1>2, <1>3, <1>4, StepKeeps DEF IInv, TypeOK, files, told

(* A repeated Claim is granted what its ClaimKey selected. *)
LEMMA RepeatGrants ==
    ASSUME IInv, NEW c \in Connections, RepeatClaim(c)
    PROVE  \/ conn' = [conn EXCEPT ![c] = Idle]
           \/ \E id \in DOMAIN records, token \in Tokens :
                  /\ Open(id, token) /\ Granted(id, token)
                  /\ conn' = [conn EXCEPT ![c] = [phase |-> "Granted", id |-> id, token |-> token,
                                                  until |-> records[id].expires,
                                                  asOf |-> conn[c].asOf]]
<1> DEFINE k == MappingKey(c)
<1>1. k \in DOMAIN mappings
  BY Zenon DEF RepeatClaim, Mapped
<1> HIDE DEF k
<1>2. mappings[k].id \in DOMAIN records /\ mappings[k].token \in Tokens
      /\ Granted(mappings[k].id, mappings[k].token)
  BY Zenon, <1>1 DEF IInv, TypeOK, Mapping, TablesAgree, Granted
<1>3. CASE mappings[k].outcome = "None" /\ Current(mappings[k].id, mappings[k].token, conn[c].asOf)
  BY Zenon, <1>2, <1>3 DEF RepeatClaim, Grant, Goto, Current, Open, k
<1>4. CASE ~ (mappings[k].outcome = "None" /\ Current(mappings[k].id, mappings[k].token, conn[c].asOf))
  BY Zenon, <1>4 DEF RepeatClaim, Goto, k
<1> QED
  BY Zenon, <1>3, <1>4

(* An idle thread knows nothing. *)
LEMMA IdleFits == Fits(Idle) /\ Idle \notin Exporting \cup Controlling /\ Idle.phase = "Idle"
BY Zenon DEF Fits, Thread, Idle, Exporting, Controlling

(* claim answers a ClaimKey it knows. *)
LEMMA RepeatClaimKeeps ==
    ASSUME IInv, NEW c \in Connections, RepeatClaim(c)
    PROVE  IInv' /\ Durable
<1>1. UNCHANGED <<service, tables, told, now>> /\ UNCHANGED files
  BY Zenon DEF RepeatClaim
<1>2. CASE conn' = [conn EXCEPT ![c] = Idle]
  BY Zenon, <1>1, <1>2, IdleFits, MoveKeeps DEF IInv, TypeOK, files
<1>3. ASSUME NEW id \in DOMAIN records, NEW token \in Tokens, Open(id, token), Granted(id, token),
             conn' = [conn EXCEPT ![c] = [phase |-> "Granted", id |-> id, token |-> token,
                                          until |-> records[id].expires, asOf |-> conn[c].asOf]]
      PROVE  IInv' /\ Durable
  <2> DEFINE s == [phase |-> "Granted", id |-> id, token |-> token,
                   until |-> records[id].expires, asOf |-> conn[c].asOf]
  <2>1. conn[c] \in Claiming /\ conn[c].asOf <= now
    BY Zenon, PhaseTypes DEF RepeatClaim, At, IInv, Threads
  <2>2. records[id].expires \in Clock
    BY Zenon, <1>3 DEF IInv, TypeOK, TablesAgree, Open, Record
  <2>3. s \in Exporting /\ Fits(s) /\ s.id = id /\ s.token = token
    BY Zenon, <2>1, <2>2 DEF IInv, TypeOK, Claiming, Exporting, Fits, Thread
  <2> HIDE DEF s
  <2> QED
    BY ZenonT(40), <1>1, <1>3, <2>3, MoveKeeps DEF IInv, TypeOK, files, s
<1> QED
  BY Zenon, <1>2, <1>3, RepeatGrants

(* claim selects an item. *)
LEMMA TakeClaimKeeps ==
    ASSUME IInv, NEW c \in Connections, NEW id \in InboundIds, NEW token \in Tokens,
           TakeClaim(c, id, token)
    PROVE  IInv' /\ Durable
<1> DEFINE s == [phase |-> "Granted", id |-> id, token |-> token,
                 until |-> conn[c].asOf + Duration, asOf |-> conn[c].asOf]
<1>1. TableTypes' /\ TablesAgree' /\ Registered' /\ Durable /\ GrantedNext(id, token)
  BY Zenon, TakeClaimTables
<1>2. conn[c] \in Claiming /\ conn[c].asOf <= now /\ conn[c].asOf <= MaxTime
  BY Zenon, PhaseTypes DEF TakeClaim, At, IInv, Threads
<1>3. s \in Exporting /\ Fits(s) /\ s.id = id /\ s.token = token
  <2>0. conn[c].asOf \in Clock
    BY Zenon, <1>2 DEF Claiming
  <2>1. conn[c].asOf + Duration \in Clock
    BY <1>2, <2>0, TimeTypes DEF Clock
  <2>2. s \in Exporting /\ s.phase = "Granted" /\ s.asOf = conn[c].asOf
    BY Zenon, <2>0, <2>1 DEF Exporting
  <2> QED
    BY ZenonT(40), <1>2, <2>2 DEF Fits, Thread
<1>4. conn' = [conn EXCEPT ![c] = s] /\ UNCHANGED <<service, files, told, now>>
  BY Zenon DEF TakeClaim, Grant, Goto
<1> HIDE DEF s
<1> QED
  BY Zenon, <1>1, <1>3, <1>4, StepKeeps DEF IInv, TypeOK, files, told

(* claim finds nothing eligible. *)
LEMMA EmptyClaimKeeps ==
    ASSUME IInv, NEW c \in Connections, NEW wait \in BOOLEAN, EmptyClaim(c, wait)
    PROVE  IInv' /\ Durable
<1>1. UNCHANGED <<service, tables, told, now>> /\ UNCHANGED files
  BY Zenon DEF EmptyClaim
<1>2. CASE ~ wait
  <2>1. conn' = [conn EXCEPT ![c] = Idle]
    BY Zenon, <1>2 DEF EmptyClaim, Goto
  <2> QED
    BY Zenon, <1>1, <2>1, IdleFits, MoveKeeps DEF IInv, TypeOK, files
<1>3. CASE wait
  <2> DEFINE s == [conn[c] EXCEPT !.phase = "Arrived"]
  <2>1. conn[c] \in Claiming /\ conn[c].asOf <= now /\ conn[c].asOf <= MaxTime
    BY Zenon, PhaseTypes DEF EmptyClaim, At, IInv, Threads
  <2>2. s \in Claiming /\ s \notin Exporting \cup Controlling /\ Fits(s)
    BY Zenon, <2>1 DEF Claiming, Exporting, Controlling, Fits, Thread
  <2>3. conn' = [conn EXCEPT ![c] = s]
    BY Zenon, <1>3 DEF EmptyClaim, Advance, Goto
  <2> HIDE DEF s
  <2> QED
    BY Zenon, <1>1, <2>2, <2>3, MoveKeeps DEF IInv, TypeOK, files
<1> QED
  BY Zenon, <1>2, <1>3

(* An exporting thread goes on with the claim it was granted. *)
LEMMA ExportAdvances ==
    ASSUME IInv, NEW c \in Connections, Exports(c),
           NEW phase \in {"Cleared", "Checked", "Writing"}
    PROVE  LET s == [conn[c] EXCEPT !.phase = phase]
           IN /\ s \in Exporting /\ Fits(s) /\ s.phase = phase
              /\ s.id = conn[c].id /\ s.token = conn[c].token /\ s.until = conn[c].until
              /\ Granted(s.id, s.token)
<1>1. conn[c] \in Exporting /\ conn[c].asOf <= now /\ Granted(conn[c].id, conn[c].token)
  BY Zenon, PhaseTypes DEF IInv, Threads, Exports
<1> DEFINE s == [conn[c] EXCEPT !.phase = phase]
<1>2. /\ s \in Exporting /\ s.phase = phase /\ s.asOf = conn[c].asOf
      /\ s.id = conn[c].id /\ s.token = conn[c].token /\ s.until = conn[c].until
  BY Zenon, <1>1 DEF Exporting
<1> HIDE DEF s
<1>3. Fits(s) /\ Granted(s.id, s.token)
  BY Zenon, <1>1, <1>2 DEF Fits, Thread
<1> QED
  BY Zenon, <1>2, <1>3 DEF s

(* remove_other_exports *)
LEMMA ClearExportsKeeps ==
    ASSUME IInv, NEW c \in Connections, ClearExports(c)
    PROVE  IInv' /\ Durable
<1> DEFINE s == [conn[c] EXCEPT !.phase = "Cleared"]
<1>1. s \in Exporting /\ Fits(s) /\ Granted(s.id, s.token)
  BY Zenon, ExportAdvances DEF ClearExports, At, Exports
<1>2. /\ conn' = [conn EXCEPT ![c] = s] /\ UNCHANGED <<service, tables, told, now>>
      /\ exports' \subseteq exports /\ temporaries' = temporaries
  BY Zenon DEF ClearExports, Advance, Goto
<1> HIDE DEF s
<1> QED
  BY Zenon, <1>1, <1>2, MoveKeeps DEF IInv, TypeOK

(* claimed_payload *)
LEMMA ReadPayloadKeeps ==
    ASSUME IInv, NEW c \in Connections, NEW asOf \in Clock, ReadPayload(c, asOf)
    PROVE  IInv' /\ Durable
<1> DEFINE s == [conn[c] EXCEPT !.phase = "Checked"]
<1>1. s \in Exporting /\ Fits(s) /\ Granted(s.id, s.token)
  BY Zenon, ExportAdvances DEF ReadPayload, At, Exports
<1>2. /\ conn' = [conn EXCEPT ![c] = s] \/ conn' = [conn EXCEPT ![c] = Idle]
      /\ UNCHANGED <<service, tables, told, now>> /\ UNCHANGED files
  BY Zenon DEF ReadPayload, Advance, Goto
<1> HIDE DEF s
<1>3. CASE conn' = [conn EXCEPT ![c] = s]
  BY Zenon, <1>1, <1>2, <1>3, MoveKeeps DEF IInv, TypeOK, files
<1>4. CASE conn' = [conn EXCEPT ![c] = Idle]
  BY Zenon, <1>2, <1>4, IdleFits, MoveKeeps DEF IInv, TypeOK, files
<1> QED
  BY Zenon, <1>2, <1>3, <1>4

(* The consumer is told of the claim its thread exported. *)
LEMMA TellKeeps ==
    ASSUME IInv, NEW c \in Connections, Exports(c), Tell(c), Goto(c, Idle),
           exports' \subseteq InboundIds \X Tokens, temporaries' \subseteq InboundIds \X Tokens,
           UNCHANGED <<service, tables, outcomes, now>>
    PROVE  IInv' /\ Durable
<1> DEFINE l == [id |-> conn[c].id, token |-> conn[c].token, until |-> conn[c].until]
<1>1. conn[c] \in Exporting /\ Granted(conn[c].id, conn[c].token)
  BY Zenon, PhaseTypes DEF IInv, Threads
<1>2. leases' = leases \cup {l} /\ conn' = [conn EXCEPT ![c] = Idle]
  BY Zenon DEF Tell, Goto
<1>3. l \in Lease /\ l.id = conn[c].id /\ l.token = conn[c].token
  BY Zenon, <1>1 DEF Exporting, Lease
<1> HIDE DEF l
<1>4. leases' \subseteq Lease /\ \A x \in leases' : x \in leases \/ Granted(x.id, x.token)
  BY Zenon, <1>1, <1>2, <1>3 DEF IInv, TypeOK
<1>5. TablesAgree' /\ Registered' /\ Durable /\ TableTypes'
  BY Zenon, TablesStay, TableTypesStay DEF IInv
<1> QED
  BY Zenon, <1>2, <1>4, <1>5, IdleFits, StepKeeps DEF IInv, TypeOK

(* export_payload uses a file that is there. *)
LEMMA FindExportKeeps ==
    ASSUME IInv, NEW c \in Connections, FindExport(c)
    PROVE  IInv' /\ Durable
BY Zenon, TellKeeps DEF FindExport, At, Exports, IInv, TypeOK, files

(* The file a thread works on is named for its claim. *)
LEMMA FileTypes ==
    ASSUME IInv, NEW c \in Connections, Exports(c) \/ Controls(c)
    PROVE  File(c) \in InboundIds \X Tokens
BY Zenon, PhaseTypes DEF File, Exporting, Controlling

(* export_payload creates its temporary file. *)
LEMMA CreateTemporaryKeeps ==
    ASSUME IInv, NEW c \in Connections, CreateTemporary(c)
    PROVE  IInv' /\ Durable
<1> DEFINE s == [conn[c] EXCEPT !.phase = "Writing"]
<1>1. s \in Exporting /\ Fits(s) /\ Granted(s.id, s.token)
  BY Zenon, ExportAdvances DEF CreateTemporary, At, Exports
<1>2. /\ conn' = [conn EXCEPT ![c] = s] \/ conn' = [conn EXCEPT ![c] = Idle]
      /\ UNCHANGED <<service, tables, told, now>> /\ UNCHANGED exports
      /\ temporaries' = temporaries \cup {File(c)}
  BY Zenon DEF CreateTemporary, Advance, Goto
<1>3. temporaries' \subseteq InboundIds \X Tokens /\ exports' \subseteq InboundIds \X Tokens
  BY ZenonT(40), <1>2, FileTypes DEF CreateTemporary, At, Exports, IInv, TypeOK
<1> HIDE DEF s
<1>4. CASE conn' = [conn EXCEPT ![c] = s]
  BY Zenon, <1>1, <1>2, <1>3, <1>4, MoveKeeps
<1>5. CASE conn' = [conn EXCEPT ![c] = Idle]
  BY ZenonT(40), <1>2, <1>3, <1>5, IdleFits, MoveKeeps
<1> QED
  BY Zenon, <1>2, <1>4, <1>5

(* export_payload renames it. *)
LEMMA PublishExportKeeps ==
    ASSUME IInv, NEW c \in Connections, PublishExport(c)
    PROVE  IInv' /\ Durable
<1>1. exports' \subseteq InboundIds \X Tokens /\ temporaries' \subseteq InboundIds \X Tokens
  BY Zenon, FileTypes DEF PublishExport, At, Exports, IInv, TypeOK
<1> QED
  BY Zenon, <1>1, TellKeeps DEF PublishExport, At, Exports

(* export_payload fails. *)
LEMMA FailExportKeeps ==
    ASSUME IInv, NEW c \in Connections, FailExport(c)
    PROVE  IInv' /\ Durable
BY Zenon, IdleFits, MoveKeeps DEF FailExport, Goto, IInv, TypeOK, files

(* A request about a claim arrives. *)
LEMMA AskKeeps ==
    ASSUME IInv, NEW c \in Connections, NEW lease \in leases, Ask(c, lease)
    PROVE  IInv' /\ Durable
<1> DEFINE s == [phase |-> "Asked", id |-> lease.id, token |-> lease.token, asOf |-> now]
<1>1. lease \in Lease /\ Granted(lease.id, lease.token) /\ now \in Clock
  BY Zenon DEF IInv, TypeOK, Leased
<1>2. s \in Controlling /\ Fits(s) /\ s.id = lease.id /\ s.token = lease.token
  <2>1. s \in Controlling /\ s.phase = "Asked" /\ s.asOf = now
    BY Zenon, <1>1 DEF Lease, Controlling
  <2> QED
    BY <1>1, <2>1, TimeTypes DEF Clock, Fits, Thread
<1>3. /\ conn' = [conn EXCEPT ![c] = s]
      /\ UNCHANGED <<service, tables, told, now>> /\ UNCHANGED files
  BY Zenon DEF Ask, Goto
<1> HIDE DEF s
<1> QED
  BY Zenon, <1>1, <1>2, <1>3, MoveKeeps DEF IInv, TypeOK, files

(* dispatch_inner refreshes the expirations. *)
LEMMA DispatchKeeps ==
    ASSUME IInv, NEW c \in Connections, NEW asOf \in Clock, Dispatch(c, asOf)
    PROVE  IInv' /\ Durable
<1> DEFINE s == [conn[c] EXCEPT !.phase = "Ready", !.asOf = asOf]
<1>1. conn[c] \in Controlling /\ Granted(conn[c].id, conn[c].token)
  BY Zenon, PhaseTypes DEF Dispatch, At, Controls, IInv, Threads
<1>2. s \in Controlling /\ Fits(s) /\ s.id = conn[c].id /\ s.token = conn[c].token
  BY Zenon, <1>1 DEF Dispatch, Reads, Controlling, Fits, Thread
<1>3. TableTypes' /\ TablesAgree' /\ Registered' /\ Durable
  BY Zenon, RefreshEnds DEF Dispatch
<1>4. conn' = [conn EXCEPT ![c] = s] /\ UNCHANGED <<service, files, told, now>>
  BY Zenon DEF Dispatch, Goto
<1> HIDE DEF s
<1>5. GrantedNext(s.id, s.token)
  BY Zenon, <1>1, <1>2, <1>3, GrantedStays
<1> QED
  BY Zenon, <1>2, <1>3, <1>4, <1>5, StepKeeps DEF IInv, TypeOK, files, told

(* A request that only refreshes. *)
LEMMA OtherRequestKeeps ==
    ASSUME IInv, NEW asOf \in Clock, OtherRequest(asOf)
    PROVE  IInv' /\ Durable
<1>1. TableTypes' /\ TablesAgree' /\ Registered' /\ Durable
  BY ZenonT(40), RefreshEnds DEF OtherRequest
<1>2. UNCHANGED <<service, files, conn, told, now>>
  BY Zenon DEF OtherRequest
<1>3. TypeOK'
  BY ZenonT(40), <1>1, <1>2 DEF IInv, TypeOK, TableTypes, files, told
<1>4. Threads' /\ Leased' /\ Remembered'
  BY <1>1, <1>2 DEF IInv, Threads, Leased, Remembered, Granted, Durable, Exports, Controls, told
<1> QED
  BY Zenon, <1>1, <1>3, <1>4 DEF IInv

(* renew and commit_batch write the record of a claim that is current. *)
LEMMA RenewTables ==
    ASSUME IInv, NEW c \in Connections, NEW asOf \in Clock, NEW heard \in BOOLEAN,
           Renew(c, asOf, heard)
    PROVE  /\ conn[c].id \in DOMAIN records /\ Open(conn[c].id, conn[c].token)
           /\ DOMAIN records' = DOMAIN records
           /\ records'[conn[c].id].state = "Claimed"
           /\ records'[conn[c].id].token = conn[c].token
           /\ records'[conn[c].id].expires = asOf + Duration
           /\ asOf + Duration \in Clock
           /\ \A i \in DOMAIN records : i # conn[c].id => records'[i] = records[i]
           /\ TableTypes' /\ TablesAgree' /\ Registered' /\ Durable
<1> DEFINE id == conn[c].id
           until == asOf + Duration
           r == [records[id] EXCEPT !.expires = until]
<1>1. id \in DOMAIN records
  BY Zenon DEF Renew, At, IInv, Threads, Controls, Granted, TablesAgree
<1>2. Open(id, conn[c].token) /\ records[id] \in Record
  BY Zenon, <1>1 DEF Renew, Current, Open, IInv, TypeOK
<1>3. until \in Clock /\ until # NoTime
  BY InboundAssumption DEF Renew, Clock, NoTime
<1>4. /\ r \in Record /\ r.state = records[id].state /\ r.token = records[id].token
      /\ r.expires = until /\ KeyOf(r) = KeyOf(records[id])
  BY Zenon, <1>2, <1>3 DEF Record, KeyOf
<1>5. records' = [records EXCEPT ![id] = r] /\ UNCHANGED <<payloads, duplicates, mappings, resolved>>
  BY Zenon, <1>1 DEF Renew, IInv, TypeOK
<1> HIDE DEF id, until, r
<1>6. TableTypes' /\ TablesAgree' /\ Registered' /\ Durable
  BY Zenon, <1>1, <1>2, <1>3, <1>4, <1>5, TouchTables DEF Open
<1>7. /\ DOMAIN records' = DOMAIN records /\ records'[id] = r
      /\ \A i \in DOMAIN records : i # id => records'[i] = records[i]
  BY Zenon, <1>1, <1>5 DEF IInv, TypeOK
<1> QED
  BY Zenon, <1>1, <1>2, <1>3, <1>4, <1>6, <1>7 DEF id, until, Open

(* renew *)
LEMMA RenewKeeps ==
    ASSUME IInv, NEW c \in Connections, NEW asOf \in Clock, NEW heard \in BOOLEAN,
           Renew(c, asOf, heard)
    PROVE  IInv' /\ Durable
<1> DEFINE l == [id |-> conn[c].id, token |-> conn[c].token, until |-> asOf + Duration]
<1>1. conn[c] \in Controlling /\ Granted(conn[c].id, conn[c].token)
  BY Zenon, PhaseTypes DEF Renew, At, Controls, IInv, Threads
<1>2. TableTypes' /\ TablesAgree' /\ Registered' /\ Durable /\ asOf + Duration \in Clock
  BY Zenon, RenewTables
<1>3. l \in Lease /\ l.id = conn[c].id /\ l.token = conn[c].token
  BY Zenon, <1>1, <1>2 DEF Controlling, Lease
<1>4. /\ leases' \subseteq leases \cup {l} /\ conn' = [conn EXCEPT ![c] = Idle]
      /\ UNCHANGED <<service, files, outcomes, now>>
  BY Zenon DEF Renew, Goto
<1> HIDE DEF l
<1>5. leases' \subseteq Lease /\ \A x \in leases' : x \in leases \/ Granted(x.id, x.token)
  BY Zenon, <1>1, <1>3, <1>4 DEF IInv, TypeOK
<1> QED
  BY ZenonT(40), <1>2, <1>4, <1>5, IdleFits, StepKeeps DEF IInv, TypeOK, files

(* The consumer is told the outcome of its token. *)
LEMMA ResultKeeps ==
    ASSUME IInv, TableTypes', TablesAgree', Registered', Durable,
           NEW c \in Connections, conn[c].phase = "Ready",
           NEW state \in States, conn[c].token \in DOMAIN resolved',
           resolved'[conn[c].token].state = state,
           outcomes' = outcomes \cup {[token |-> conn[c].token, state |-> state]},
           Advance(c, "Resolved"), UNCHANGED <<service, files, leases, now>>
    PROVE  IInv'
<1> DEFINE s == [conn[c] EXCEPT !.phase = "Resolved"]
           o == [token |-> conn[c].token, state |-> state]
<1>1. conn[c] \in Controlling /\ Granted(conn[c].id, conn[c].token) /\ conn[c].asOf <= now
  BY Zenon, PhaseTypes DEF Controls, IInv, Threads
<1>2. s \in Controlling /\ Fits(s) /\ s.id = conn[c].id /\ s.token = conn[c].token
  BY Zenon, <1>1 DEF Controlling, Fits, Thread
<1>3. conn' = [conn EXCEPT ![c] = s]
  BY Zenon DEF Advance, Goto
<1>4. o \in [token : Tokens, state : States] /\ o.token = conn[c].token /\ o.state = state
  BY ZenonT(40), <1>1 DEF Controlling
<1> HIDE DEF s, o
<1>5. GrantedNext(s.id, s.token)
  BY Zenon, <1>1, <1>2, GrantedStays
<1>6. /\ outcomes' \subseteq [token : Tokens, state : States]
      /\ \A x \in outcomes' :
             x \in outcomes \/ (x.token \in DOMAIN resolved' /\ resolved'[x.token].state = x.state)
  BY Zenon, <1>4 DEF o, IInv, TypeOK
<1> QED
  BY ZenonT(40), <1>2, <1>3, <1>5, <1>6, StepKeeps DEF IInv, TypeOK, files

(* resolve *)
LEMMA ResolveKeeps ==
    ASSUME IInv, NEW c \in Connections, NEW asOf \in Clock, At(c, "Ready"),
           NEW new \in Results(conn[c].id, asOf), Resolve(c, new, asOf)
    PROVE  IInv' /\ Durable
<1>1. /\ TableTypes' /\ TablesAgree' /\ Registered' /\ Durable
      /\ Open(conn[c].id, conn[c].token) /\ new.state \in States
  BY ZenonT(40), ResolveEnds
<1>2. PICK row : row[conn[c].id] = new /\ Ends({conn[c].id}, row, TRUE)
  BY ZenonT(40), ResolveEnds
<1>3. conn[c].token \in DOMAIN resolved' /\ resolved'[conn[c].token].state = new.state
  <2>1. /\ records[conn[c].id].token \in DOMAIN resolved'
        /\ resolved'[records[conn[c].id].token] = [id |-> conn[c].id, state |-> new.state, completed |-> TRUE]
    BY Zenon, <1>2 DEF Ends
  <2>2. records[conn[c].id].token = conn[c].token
    BY Zenon, <1>1 DEF Open
  <2> QED
    BY <2>1, <2>2
<1> QED
  BY ZenonT(40), <1>1, <1>3, ResultKeeps DEF Resolve, At

(* resolve answers a token it has resolved. *)
LEMMA RepeatResultKeeps ==
    ASSUME IInv, NEW c \in Connections, RepeatResult(c)
    PROVE  IInv' /\ Durable
<1>1. TableTypes' /\ TablesAgree' /\ Registered' /\ Durable
  BY ZenonT(40), TablesStay, TableTypesStay DEF RepeatResult, IInv
<1>2. /\ conn[c].token \in DOMAIN resolved'
      /\ resolved'[conn[c].token].state = KnownResult(c) /\ KnownResult(c) \in States
  BY Zenon DEF RepeatResult, tables, KnownResult, IInv, TypeOK, Resolution
<1> QED
  BY Zenon, <1>1, <1>2, ResultKeeps DEF RepeatResult, At

(* renew and resolve refuse a claim that has ended. *)
LEMMA RefuseStaleKeeps ==
    ASSUME IInv, NEW c \in Connections, NEW asOf \in Clock, RefuseStale(c, asOf)
    PROVE  IInv' /\ Durable
BY Zenon, IdleFits, MoveKeeps DEF RefuseStale, Goto, IInv, TypeOK, files

(* remove_export *)
LEMMA RemoveExportKeeps ==
    ASSUME IInv, NEW c \in Connections, RemoveExport(c)
    PROVE  IInv' /\ Durable
<1>1. exports' \subseteq exports /\ temporaries' = temporaries
  BY Zenon DEF RemoveExport
<1> QED
  BY ZenonT(40), <1>1, IdleFits, MoveKeeps DEF RemoveExport, Goto, IInv, TypeOK

(* commit_batch marks a claimed item as forwarded. *)
LEMMA ForwardTables ==
    ASSUME IInv, NEW lease \in leases, Forward(lease)
    PROVE  /\ TableTypes' /\ TablesAgree' /\ Registered' /\ Durable
           /\ DOMAIN records' = DOMAIN records
           /\ \A i \in DOMAIN records : /\ records'[i].state = records[i].state
                                        /\ records'[i].token = records[i].token
                                        /\ records'[i].expires = records[i].expires
<1> DEFINE id == lease.id
           r == [records[id] EXCEPT !.forwarded = TRUE]
<1>1. id \in DOMAIN records
  BY ZenonT(40) DEF IInv, Leased, Granted, TablesAgree
<1>2. records[id].state = "Claimed" /\ records[id] \in Record
  BY Zenon, <1>1 DEF Forward, Current, IInv, TypeOK
<1>3. records[id].expires # NoTime
  BY Zenon, <1>1, <1>2 DEF IInv, TablesAgree
<1>4. /\ r \in Record /\ r.state = records[id].state /\ r.token = records[id].token
      /\ r.expires = records[id].expires /\ KeyOf(r) = KeyOf(records[id])
  BY Zenon, <1>2 DEF Record, KeyOf
<1>5. records' = [records EXCEPT ![id] = r] /\ UNCHANGED <<payloads, duplicates, mappings, resolved>>
  BY Zenon, <1>1 DEF Forward, IInv, TypeOK
<1> HIDE DEF id, r
<1>6. TableTypes' /\ TablesAgree' /\ Registered' /\ Durable
  BY ZenonT(40), <1>1, <1>2, <1>3, <1>4, <1>5, TouchTables
<1>7. /\ DOMAIN records' = DOMAIN records /\ records'[id] = r
      /\ \A i \in DOMAIN records : i # id => records'[i] = records[i]
  BY Zenon, <1>1, <1>5 DEF IInv, TypeOK
<1> QED
  BY Zenon, <1>4, <1>6, <1>7

(* commit_batch for a Forward Job. *)
LEMMA ForwardKeeps ==
    ASSUME IInv, NEW lease \in leases, Forward(lease)
    PROVE  IInv' /\ Durable
<1>1. TableTypes' /\ TablesAgree' /\ Registered' /\ Durable
  BY Zenon, ForwardTables
<1>2. UNCHANGED <<service, mappings, resolved, files, conn, told, now>>
  BY Zenon DEF Forward
<1>3. TypeOK'
  BY Zenon, <1>1, <1>2 DEF IInv, TypeOK, TableTypes, files, told
<1>4. Threads' /\ Leased' /\ Remembered'
  BY Zenon, <1>2 DEF IInv, Threads, Leased, Remembered, Granted, Exports, Controls, told
<1> QED
  BY Zenon, <1>1, <1>3, <1>4 DEF IInv

(* A kill loses the threads, a start and the clock change no table. *)
LEMMA ServiceKeeps ==
    ASSUME IInv, Kill \/ (\E kind \in {"Mail", "Ipc"} : Start(kind)) \/ Tick
    PROVE  IInv' /\ Durable
<1>1. UNCHANGED <<tables, files, told>>
  BY Zenon DEF Kill, Start, Tick
<1>2. TablesAgree' /\ Registered' /\ Durable /\ TableTypes'
  BY Zenon, <1>1, TablesStay, TableTypesStay DEF IInv
<1>3. conn' = [c \in Connections |-> Idle] \/ conn' = conn
  BY Zenon DEF Kill, Start, Tick
<1>4. now \in Clock /\ now' \in Clock /\ now <= now' /\ service' \in {"Down", "Mail", "Ipc"}
  BY InboundAssumption DEF Kill, Start, Tick, IInv, TypeOK, Clock
<1>5. conn' \in [Connections -> Thread]
  BY Zenon, <1>3 DEF Thread, IInv, TypeOK
<1>6. TypeOK'
  BY Zenon, <1>1, <1>2, <1>4, <1>5 DEF IInv, TypeOK, TableTypes, files, told, Thread
<1>7. Threads'
  <2>1. CASE conn' = [c \in Connections |-> Idle]
    BY Zenon, <2>1 DEF Threads, Idle, Exports, Controls
  <2>2. CASE conn' = conn
    <3>1. ASSUME NEW c \in Connections, conn[c].phase # "Idle" PROVE conn[c].asOf <= now'
      <4>1. conn[c].asOf \in Clock
        BY Zenon, <3>1, AsOfTypes
      <4>2. conn[c].asOf <= now
        BY Zenon, <3>1 DEF IInv, Threads
      <4> QED
        BY <4>1, <4>2, <1>4, TimeTypes DEF Clock
    <3> QED
      BY ZenonT(40), <2>2, <3>1, <1>1 DEF IInv, Threads, Granted, Exports, Controls, tables
  <2> QED
    BY Zenon, <1>3, <2>1, <2>2
<1>8. Leased' /\ Remembered'
  BY Zenon, <1>1 DEF IInv, Leased, Remembered, Granted, tables, told
<1> QED
  BY Zenon, <1>2, <1>6, <1>7, <1>8 DEF IInv
-----------------------------------------------------------------------------
(* Every step keeps the invariant and undoes nothing durable. *)
LEMMA NextKeeps == ASSUME IInv, [Next]_vars PROVE IInv' /\ Durable
<1>1. CASE AcceptItem
  BY Zenon, <1>1, AcceptKeeps DEF AcceptItem
<1>2. ASSUME NEW c \in Connections, ClaimRequest(c) PROVE IInv' /\ Durable
  BY Zenon, <1>2, ArriveClaimKeeps, BeginClaimKeeps, RepeatClaimKeeps, TakeClaimKeeps, EmptyClaimKeeps,
     ClearExportsKeeps, ReadPayloadKeeps, FindExportKeeps, CreateTemporaryKeeps,
     PublishExportKeeps, FailExportKeeps DEF ClaimRequest
<1>3. ASSUME NEW c \in Connections, ControlRequest(c) PROVE IInv' /\ Durable
  BY Zenon, <1>3, AskKeeps, DispatchKeeps, RenewKeeps, ResolveKeeps, RepeatResultKeeps,
     RefuseStaleKeeps, RemoveExportKeeps DEF ControlRequest
<1>4. ASSUME NEW asOf \in Clock, OtherRequest(asOf) PROVE IInv' /\ Durable
  BY Zenon, <1>4, OtherRequestKeeps
<1>5. ASSUME NEW lease \in leases, Forward(lease) PROVE IInv' /\ Durable
  BY Zenon, <1>5, ForwardKeeps
<1>6. CASE Kill \/ (\E kind \in {"Mail", "Ipc"} : Start(kind)) \/ Tick
  BY Zenon, <1>6, ServiceKeeps
<1>7. CASE UNCHANGED vars
  <2>1. UNCHANGED tables /\ UNCHANGED <<service, files, conn, told, now>>
    BY Zenon, <1>7 DEF vars
  <2>2. TablesAgree' /\ Registered' /\ Durable /\ TableTypes'
    BY Zenon, <2>1, TablesStay, TableTypesStay DEF IInv
  <2>3. TypeOK' /\ Threads' /\ Leased' /\ Remembered'
    BY ZenonT(40), <2>1, <2>2 DEF IInv, TypeOK, TableTypes, files, told, tables, Threads, Leased, Remembered,
                      Granted, Exports, Controls
  <2> QED
    BY Zenon, <2>2, <2>3 DEF IInv
<1> QED
  BY Zenon, <1>1, <1>2, <1>3, <1>4, <1>5, <1>6, <1>7 DEF Next

(* The invariant holds in every state the services reach. *)
THEOREM Invariance == Spec => []IInv
<1>1. Init => IInv
  BY Zenon, Initially
<1>2. IInv /\ [Next]_vars => IInv'
  BY Zenon, NextKeeps
<1> QED
  BY <1>1, <1>2, PTL DEF Spec

(***************************************************************************)
(* RECORDS, CLAIM_KEYS and RESOLVED_TOKENS agree after every transaction   *)
(* of claim, renew, resolve, refresh_expirations and commit_batch, through *)
(* every interleaving of the IPC threads and every kill.                   *)
(***************************************************************************)
THEOREM TablesAlwaysAgree == Spec => []TablesAgree
<1>1. IInv => TablesAgree
  BY Zenon DEF IInv
<1> QED
  BY <1>1, Invariance, PTL

(* accept gives a retransmitted signed item no second record. *)
THEOREM NoSecondRecord == Spec => []OneRecordPerItem
<1>1. IInv => OneRecordPerItem
  BY Zenon DEF IInv, Registered, OneRecordPerItem
<1> QED
  BY <1>1, Invariance, PTL

(* Whoever repeats a result operation with a token is told the outcome that
   token had the first time. *)
THEOREM OutcomeIsStable == Spec => []TokenHasOneOutcome
<1>1. IInv => TokenHasOneOutcome
  BY Zenon DEF IInv, Remembered, TokenHasOneOutcome
<1> QED
  BY <1>1, Invariance, PTL

(* A ClaimKey keeps the item and the token it selected, and its outcome. *)
THEOREM KeysStick == Spec => KeySticks
<1>1. IInv /\ [Next]_vars =>
        [\A k \in DOMAIN mappings :
           /\ k \in DOMAIN mappings'
           /\ mappings'[k].id = mappings[k].id
           /\ mappings'[k].token = mappings[k].token
           /\ mappings[k].outcome # "None" => mappings'[k] = mappings[k]]_vars
  BY Zenon, NextKeeps DEF Durable
<1> QED
  BY <1>1, Invariance, PTL DEF Spec, KeySticks

(* A record that is Consumed or Rejected never changes again. *)
THEOREM TerminalStays == Spec => TerminalIsFinal
<1>1. IInv /\ [Next]_vars =>
        [\A id \in DOMAIN records :
           records[id].state \in Terminal => records'[id] = records[id]]_vars
  BY Zenon, NextKeeps DEF Durable
<1> QED
  BY <1>1, Invariance, PTL DEF Spec, TerminalIsFinal
=============================================================================
