---------------------------- MODULE FileIpcProofs ----------------------------
(***************************************************************************)
(* Proofs about the filesystem binding, for any clients and tokens and any  *)
(* number of kills.                                                         *)
(***************************************************************************)
EXTENDS FileIpc, TLAPS

Cleaning == {"cleanup", "unresult", "unack"}
Claiming == {"claims", "unlink"}
Answering == {"answers", "temporary", "result", "untemporary"}
Holding == {"unresult", "unack", "unlink", "temporary", "result", "untemporary"}
Waiting == {"tidy", "wait", "read", "acknowledge"}

Types ==
  /\ requests \in [Tokens -> Requests \cup {None}]
  /\ claimed \in [Tokens -> Requests \cup {None}]
  /\ results \in [Tokens -> Responses \cup {None}]
  /\ acknowledgements \in SUBSET Tokens
  /\ private \in SUBSET Tokens
  /\ executed \in [Tokens -> Nat]
  /\ starts \in Nat
  /\ client \in [Clients -> [pc : {"idle", "draft", "publish", "finish"} \cup Waiting,
                             token : Tokens \cup {NoToken}, request : Requests \cup {None},
                             result : Responses \cup {None}]]
  /\ service \in [pc : {"down"} \cup Cleaning \cup Claiming \cup Answering, todo : SUBSET Tokens,
                  token : Tokens \cup {NoToken}, response : Responses \cup {None}]

(* The service works on a listing that is still true of the directories. *)
Listing ==
  /\ service.pc \in Cleaning => service.todo \subseteq acknowledgements
  /\ service.pc \in Claiming => \A t \in service.todo : requests[t] # None
  /\ service.pc \in Answering => \A t \in service.todo : claimed[t] # None
  /\ service.pc \in Holding => service.token \in service.todo
  /\ service.pc \in {"unresult", "unack"} => claimed[service.token] = None
  /\ service.pc = "unack" => results[service.token] = None
  /\ service.pc \in {"temporary", "result"} =>
       service.response \in Responses /\ service.response.of \in {claimed[service.token], Invalid}

(* The two links a killed service may leave are to one file. *)
Twins == \A t \in Tokens : requests[t] # None /\ claimed[t] # None => requests[t] = claimed[t]

(* A result answers the claimed request, unless its cleanup has begun. *)
Results ==
  \A t \in Tokens : results[t] # None =>
    \/ claimed[t] # None /\ results[t].of \in {claimed[t], Invalid}
    \/ /\ claimed[t] = None /\ t \in acknowledgements
       /\ service.pc = "down" \/ (service.pc \in Cleaning /\ t \in service.todo)

(* The files of a token that a client holds are its own. *)
Own(c) ==
  LET t == client[c].token r == client[c].request
  IN /\ t \in Tokens /\ r \in Requests
     /\ client[c].pc \in {"draft", "publish"} =>
          requests[t] = None /\ claimed[t] = None /\ results[t] = None /\ t \notin acknowledgements
     /\ client[c].pc \in Waiting =>
          requests[t] \in {None, r} /\ claimed[t] \in {None, r} /\ t \notin acknowledgements
     /\ client[c].pc \in {"read", "acknowledge", "finish"} => client[c].result.of \in {r, Invalid}
Owners ==
  /\ \A c \in Clients : client[c].pc # "idle" => Own(c)
  /\ \A c, d \in Clients :
       c # d /\ client[c].pc # "idle" /\ client[d].pc # "idle" => client[c].token # client[d].token

IInv == Types /\ Listing /\ Twins /\ Results /\ Owners

(* What is executed and what may still be: a request that waits, a claimed  *)
(* request without a result.  A kill allows one execution more.             *)
One(b) == IF b THEN 1 ELSE 0
Owed(t) ==
  One(requests[t] # None)
    + One(/\ claimed[t] # None /\ results[t] = None
          /\ ~(service.pc \in {"temporary", "result"} /\ service.token = t))
Allowed(t) == starts + One(service.pc = "down") + One(service.pc = "unlink" /\ service.token = t)
Budget ==
  /\ service.pc # "down" => starts >= 1
  /\ \A t \in Tokens : executed[t] + Owed(t) <= Allowed(t)
(* A request is published for an operation that was not executed. *)
Unexecuted == \A c \in Clients : client[c].pc \in {"draft", "publish"} => executed[client[c].token] = 0
ExecutedPerStart == \A t \in Tokens : executed[t] <= starts
EInv == IInv /\ Budget /\ Unexecuted /\ ExecutedPerStart

-----------------------------------------------------------------------------
USE DEF carriers, counters, Runs, Mine, Proceed, Leave, Resting, Is, Current, To, List, Done, Down,
        Cleaning, Claiming, Answering, Holding, Waiting

(* The binding starts with empty directories and no process. *)
LEMMA Initially == Init => IInv /\ Budget /\ Unexecuted /\ ExecutedPerStart
<1> SUFFICES ASSUME Init PROVE IInv /\ Budget /\ Unexecuted /\ ExecutedPerStart
  BY Zenon
<1>1. Types
  BY Zenon DEF Init, Types
<1>2. Listing /\ Twins /\ Results /\ Owners
  BY Zenon DEF Init, Listing, Twins, Results, Owners
<1>3. Budget /\ Unexecuted /\ ExecutedPerStart
  BY DEF Init, Budget, Unexecuted, ExecutedPerStart, Owed, Allowed, One
<1> QED
  BY Zenon, <1>1, <1>2, <1>3 DEF IInv

(* unused_token: a client begins. *)
LEMMA BeginKeeps ==
  ASSUME IInv, NEW c \in Clients, NEW r \in Requests, NEW t \in Tokens, Begin(c, r, t) PROVE IInv'
<1>1. Types'
  BY Zenon DEF Begin, unused_token, Own, IInv, Types, Responses
<1>2. Listing'
  BY Zenon DEF Begin, unused_token, Own, IInv, Types, Listing
<1>3. Twins'
  BY Zenon DEF Begin, unused_token, Own, IInv, Types, Twins
<1>4. Results'
  BY Zenon DEF Begin, unused_token, Own, IInv, Types, Results
<1>5. Owners'
  BY DEF Begin, unused_token, Own, IInv, Types, Owners
<1> QED
  BY Zenon, <1>1, <1>2, <1>3, <1>4, <1>5 DEF IInv

(* A client writes its temporary request. *)
LEMMA DraftRequestKeeps ==
  ASSUME IInv, NEW c \in Clients, DraftRequest(c) PROVE IInv'
<1>1. Types'
  BY SMTT(60) DEF DraftRequest, Draft, IInv, Types, Responses
<1>2. Listing'
  BY Zenon DEF DraftRequest, Draft, IInv, Types, Listing
<1>3. Twins'
  BY Zenon DEF DraftRequest, Draft, IInv, Types, Twins
<1>4. Results'
  BY Zenon DEF DraftRequest, Draft, IInv, Types, Results
<1>5. Owners'
  BY SMTT(60) DEF DraftRequest, Draft, IInv, Types, Owners, Own
<1> QED
  BY Zenon, <1>1, <1>2, <1>3, <1>4, <1>5 DEF IInv

(* A client links its request under a free token. *)
LEMMA PublishRequestKeeps ==
  ASSUME IInv, NEW c \in Clients, PublishRequest(c) PROVE IInv'
<1>1. Types'
  BY SMTT(60) DEF PublishRequest, IInv, Types, Responses
<1>2. Listing'
  BY ZenonT(40) DEF PublishRequest, IInv, Types, Listing
<1>3. Twins'
  BY DEF PublishRequest, IInv, Types, Twins, Owners, Own
<1>4. Results'
  BY Zenon DEF PublishRequest, IInv, Types, Results
<1>5. Owners'
  BY SMTT(60) DEF PublishRequest, IInv, Types, Owners, Own
<1> QED
  BY Zenon, <1>1, <1>2, <1>3, <1>4, <1>5 DEF IInv

(* A client removes its temporary request. *)
LEMMA TidyKeeps ==
  ASSUME IInv, NEW c \in Clients, Tidy(c) PROVE IInv'
<1>1. Types'
  BY SMTT(60) DEF Tidy, IInv, Types, Responses
<1>2. Listing'
  BY Zenon DEF Tidy, IInv, Types, Listing
<1>3. Twins'
  BY Zenon DEF Tidy, IInv, Types, Twins
<1>4. Results'
  BY Zenon DEF Tidy, IInv, Types, Results
<1>5. Owners'
  BY DEF Tidy, IInv, Types, Owners, Own
<1> QED
  BY Zenon, <1>1, <1>2, <1>3, <1>4, <1>5 DEF IInv

(* A client reads its result: the token is its own, so the result is. *)
LEMMA ReadResultKeeps ==
  ASSUME IInv, NEW c \in Clients, ReadResult(c) PROVE IInv'
<1>0. Own(c)
  BY Zenon DEF ReadResult, IInv, Owners
<1>1. Types'
  <2>1. results[client[c].token] \in Responses \cup {None}
    BY Zenon, <1>0 DEF IInv, Types, Own
  <2>2. client[c] \in [pc : {"idle", "draft", "publish", "finish"} \cup Waiting,
                      token : Tokens \cup {NoToken}, request : Requests \cup {None},
                      result : Responses \cup {None}]
    BY Zenon DEF IInv, Types
  <2>3. client' = [client EXCEPT ![c] = [client[c] EXCEPT !.pc = "read", !.result = results[client[c].token]]]
    BY Zenon DEF ReadResult, IInv, Types
  <2> QED
    BY SMTT(60), <2>1, <2>2, <2>3 DEF ReadResult, IInv, Types
<1>2. Listing'
  BY Zenon DEF ReadResult, IInv, Types, Listing
<1>3. Twins'
  BY Zenon DEF ReadResult, IInv, Types, Twins
<1>4. Results'
  BY ZenonT(40) DEF ReadResult, IInv, Types, Results
<1>5. Owners'
  <2> DEFINE t == client[c].token
  <2>1. /\ client[c].pc = "wait" /\ results[t] # None
        /\ client' = [client EXCEPT ![c].pc = "read", ![c].result = results[t]]
        /\ UNCHANGED <<requests, claimed, results, acknowledgements>>
    BY Zenon DEF ReadResult
  <2>2. results[t].of \in {client[c].request, Invalid}
    BY Zenon, <1>0, <2>1 DEF IInv, Results, Own
  <2>3. client'[c] = [client[c] EXCEPT !.pc = "read", !.result = results[t]]
    BY Zenon, <2>1 DEF IInv, Types
  <2>4. \A d \in Clients : d # c => client'[d] = client[d]
    BY Zenon, <2>1 DEF IInv, Types
  <2>5. /\ client'[c].token = client[c].token /\ client'[c].request = client[c].request
        /\ client'[c].pc = "read" /\ client'[c].result = results[t]
    BY <2>3 DEF IInv, Types
  <2>6. Own(c)'
    BY <1>0, <2>1, <2>2, <2>5 DEF Own
  <2>7. ASSUME NEW d \in Clients, d # c, client'[d].pc # "idle" PROVE Own(d)'
    <3>1. client'[d] = client[d] /\ Own(d)
      BY Zenon, <2>4, <2>7 DEF IInv, Owners
    <3>2. UNCHANGED <<requests, claimed, results, acknowledgements>>
      BY Zenon, <2>1
    <3> QED
      BY <3>1, <3>2 DEF Own
  <2>8. \A d \in Clients : client'[d].token = client[d].token /\ (client'[d].pc # "idle" => client[d].pc # "idle")
    BY Zenon, <2>1, <2>4, <2>5
  <2>9. \A d, e \in Clients :
           d # e /\ client'[d].pc # "idle" /\ client'[e].pc # "idle" => client'[d].token # client'[e].token
    BY Zenon, <2>8 DEF IInv, Owners
  <2> QED
    BY Zenon, <2>6, <2>7, <2>9 DEF Owners
<1> QED
  BY Zenon, <1>1, <1>2, <1>3, <1>4, <1>5 DEF IInv

(* A client writes its temporary acknowledgement. *)
LEMMA DraftAckKeeps ==
  ASSUME IInv, NEW c \in Clients, DraftAck(c) PROVE IInv'
<1>1. Types'
  BY SMTT(60) DEF DraftAck, Draft, IInv, Types, Responses
<1>2. Listing'
  BY Zenon DEF DraftAck, Draft, IInv, Types, Listing
<1>3. Twins'
  BY Zenon DEF DraftAck, Draft, IInv, Types, Twins
<1>4. Results'
  BY Zenon DEF DraftAck, Draft, IInv, Types, Results
<1>5. Owners'
  BY SMTT(60) DEF DraftAck, Draft, IInv, Types, Owners, Own
<1> QED
  BY Zenon, <1>1, <1>2, <1>3, <1>4, <1>5 DEF IInv

(* A client links its acknowledgement. *)
LEMMA PublishAckKeeps ==
  ASSUME IInv, NEW c \in Clients, PublishAck(c) PROVE IInv'
<1>0. Own(c)
  BY Zenon DEF PublishAck, IInv, Owners
<1>1. Types'
  BY SMTT(60), <1>0 DEF PublishAck, IInv, Types, Own
<1>2. Listing'
  BY Zenon DEF PublishAck, IInv, Types, Listing
<1>3. Twins'
  BY Zenon DEF PublishAck, IInv, Types, Twins
<1>4. Results'
  BY ZenonT(40) DEF PublishAck, IInv, Types, Results
<1>5. Owners'
  BY SMTT(60) DEF PublishAck, IInv, Types, Listing, Twins, Results, Owners, Own
<1> QED
  BY Zenon, <1>1, <1>2, <1>3, <1>4, <1>5 DEF IInv

(* A client ends its transaction. *)
LEMMA FinishKeeps ==
  ASSUME IInv, NEW c \in Clients, Finish(c) PROVE IInv'
<1>1. Types'
  BY Zenon DEF Finish, IInv, Types, Responses
<1>2. Listing'
  BY Zenon DEF Finish, IInv, Types, Listing
<1>3. Twins'
  BY Zenon DEF Finish, IInv, Types, Twins
<1>4. Results'
  BY Zenon DEF Finish, IInv, Types, Results
<1>5. Owners'
  BY DEF Finish, IInv, Types, Owners, Own
<1> QED
  BY Zenon, <1>1, <1>2, <1>3, <1>4, <1>5 DEF IInv

(* A killed client leaves its files to the service. *)
LEMMA LoseClientKeeps ==
  ASSUME IInv, NEW c \in Clients, LoseClient(c) PROVE IInv'
<1>1. Types'
  BY Zenon DEF LoseClient, IInv, Types, Responses
<1>2. Listing'
  BY Zenon DEF LoseClient, IInv, Types, Listing
<1>3. Twins'
  BY Zenon DEF LoseClient, IInv, Types, Twins
<1>4. Results'
  BY Zenon DEF LoseClient, IInv, Types, Results
<1>5. Owners'
  BY DEF LoseClient, IInv, Types, Owners, Own
<1> QED
  BY Zenon, <1>1, <1>2, <1>3, <1>4, <1>5 DEF IInv

(* The service begins with a listing of the acknowledgements. *)
LEMMA StartKeeps ==
  ASSUME IInv, Start PROVE IInv'
<1>1. Types'
  BY DEF Start, IInv, Types, Responses
<1>2. Listing'
  BY Zenon DEF Start, IInv, Types, Listing
<1>3. Twins'
  BY Zenon DEF Start, IInv, Types, Twins
<1>4. Results'
  BY Zenon DEF Start, IInv, Types, Results
<1>5. Owners'
  BY ZenonT(40) DEF Start, IInv, Types, Owners, Own
<1> QED
  BY Zenon, <1>1, <1>2, <1>3, <1>4, <1>5 DEF IInv

(* The result goes after the claimed request. *)
LEMMA CleanupResultKeeps ==
  ASSUME IInv, CleanupResult PROVE IInv'
<1>1. Types'
  BY Zenon DEF CleanupResult, IInv, Types, Responses
<1>2. Listing'
  BY Zenon DEF CleanupResult, IInv, Types, Listing
<1>3. Twins'
  BY Zenon DEF CleanupResult, IInv, Types, Twins
<1>4. Results'
  BY Zenon DEF CleanupResult, IInv, Types, Results
<1>5. Owners'
  BY ZenonT(40) DEF CleanupResult, IInv, Types, Owners, Own
<1> QED
  BY Zenon, <1>1, <1>2, <1>3, <1>4, <1>5 DEF IInv

(* The acknowledgement goes last, when nothing else is left. *)
LEMMA CleanupAckKeeps ==
  ASSUME IInv, CleanupAck PROVE IInv'
<1>1. Types'
  BY Zenon DEF CleanupAck, IInv, Types, Responses
<1>2. Listing'
  BY Zenon DEF CleanupAck, IInv, Types, Listing
<1>3. Twins'
  BY Zenon DEF CleanupAck, IInv, Types, Twins
<1>4. Results'
  BY Zenon DEF CleanupAck, IInv, Types, Results, Listing
<1>5. Owners'
  BY Zenon DEF CleanupAck, IInv, Types, Owners, Own
<1> QED
  BY Zenon, <1>1, <1>2, <1>3, <1>4, <1>5 DEF IInv

(* The requests are listed when no cleanup is under way. *)
LEMMA ListRequestsKeeps ==
  ASSUME IInv, ListRequests PROVE IInv'
<1>1. Types'
  BY Zenon DEF ListRequests, Files, IInv, Types, Responses
<1>2. Listing'
  BY Zenon DEF ListRequests, Files, IInv, Types, Listing
<1>3. Twins'
  BY Zenon DEF ListRequests, Files, IInv, Types, Twins
<1>4. Results'
  BY Zenon DEF ListRequests, Files, IInv, Types, Results
<1>5. Owners'
  BY ZenonT(40) DEF ListRequests, Files, IInv, Types, Owners, Own
<1> QED
  BY Zenon, <1>1, <1>2, <1>3, <1>4, <1>5 DEF IInv

(* The request loses its first name. *)
LEMMA UnlinkKeeps ==
  ASSUME IInv, Unlink PROVE IInv'
<1>1. Types'
  BY Zenon DEF Unlink, IInv, Types, Responses
<1>2. Listing'
  BY Zenon DEF Unlink, IInv, Types, Listing
<1>3. Twins'
  BY Zenon DEF Unlink, IInv, Types, Twins
<1>4. Results'
  BY Zenon DEF Unlink, IInv, Types, Results
<1>5. Owners'
  BY ZenonT(40) DEF Unlink, IInv, Types, Owners, Own
<1> QED
  BY Zenon, <1>1, <1>2, <1>3, <1>4, <1>5 DEF IInv

(* The claimed requests are listed. *)
LEMMA ListClaimedKeeps ==
  ASSUME IInv, ListClaimed PROVE IInv'
<1>1. Types'
  BY Zenon DEF ListClaimed, Files, IInv, Types, Responses
<1>2. Listing'
  BY Zenon DEF ListClaimed, Files, IInv, Types, Listing
<1>3. Twins'
  BY Zenon DEF ListClaimed, Files, IInv, Types, Twins
<1>4. Results'
  BY Zenon DEF ListClaimed, Files, IInv, Types, Results
<1>5. Owners'
  BY ZenonT(40) DEF ListClaimed, Files, IInv, Types, Owners, Own
<1> QED
  BY Zenon, <1>1, <1>2, <1>3, <1>4, <1>5 DEF IInv

(* The temporary result is made, or ends the service. *)
LEMMA TemporaryKeeps ==
  ASSUME IInv, Temporary PROVE IInv'
<1>1. Types'
  BY DEF Temporary, IInv, Types, Listing, Responses
<1>2. Listing'
  BY DEF Temporary, IInv, Types, Listing
<1>3. Twins'
  BY Zenon DEF Temporary, IInv, Types, Twins
<1>4. Results'
  BY Zenon DEF Temporary, IInv, Types, Results
<1>5. Owners'
  BY ZenonT(40) DEF Temporary, IInv, Types, Owners, Own
<1> QED
  BY Zenon, <1>1, <1>2, <1>3, <1>4, <1>5 DEF IInv

(* The result is linked while its request is claimed. *)
LEMMA PublishResultKeeps ==
  ASSUME IInv, PublishResult PROVE IInv'
<1>1. Types'
  BY Zenon DEF PublishResult, IInv, Types, Responses
<1>2. Listing'
  BY Zenon DEF PublishResult, IInv, Types, Listing
<1>3. Twins'
  BY Zenon DEF PublishResult, IInv, Types, Twins
<1>4. Results'
  BY ZenonT(40) DEF PublishResult, IInv, Types, Results, Listing
<1>5. Owners'
  BY DEF PublishResult, IInv, Types, Owners, Listing, Own
<1> QED
  BY Zenon, <1>1, <1>2, <1>3, <1>4, <1>5 DEF IInv

(* The temporary result is removed. *)
LEMMA RemoveTemporaryKeeps ==
  ASSUME IInv, RemoveTemporary PROVE IInv'
<1>1. Types'
  BY Zenon DEF RemoveTemporary, IInv, Types, Responses
<1>2. Listing'
  BY Zenon DEF RemoveTemporary, IInv, Types, Listing
<1>3. Twins'
  BY Zenon DEF RemoveTemporary, IInv, Types, Twins
<1>4. Results'
  BY Zenon DEF RemoveTemporary, IInv, Types, Results
<1>5. Owners'
  BY Zenon DEF RemoveTemporary, IInv, Types, Owners, Own
<1> QED
  BY Zenon, <1>1, <1>2, <1>3, <1>4, <1>5 DEF IInv

(* The next pass lists the acknowledgements. *)
LEMMA AgainKeeps ==
  ASSUME IInv, Again PROVE IInv'
<1>1. Types'
  BY Zenon DEF Again, IInv, Types, Responses
<1>2. Listing'
  BY Zenon DEF Again, IInv, Types, Listing
<1>3. Twins'
  BY Zenon DEF Again, IInv, Types, Twins
<1>4. Results'
  BY Zenon DEF Again, IInv, Types, Results
<1>5. Owners'
  BY ZenonT(40) DEF Again, IInv, Types, Owners, Own
<1> QED
  BY Zenon, <1>1, <1>2, <1>3, <1>4, <1>5 DEF IInv

(* A killed service leaves the directories as they are. *)
LEMMA KillKeeps ==
  ASSUME IInv, Kill PROVE IInv'
<1>1. Types'
  BY Zenon DEF Kill, IInv, Types, Responses
<1>2. Listing'
  BY Zenon DEF Kill, IInv, Types, Listing
<1>3. Twins'
  BY Zenon DEF Kill, IInv, Types, Twins
<1>4. Results'
  BY Zenon DEF Kill, IInv, Types, Results
<1>5. Owners'
  BY Zenon DEF Kill, IInv, Types, Owners, Own
<1> QED
  BY Zenon, <1>1, <1>2, <1>3, <1>4, <1>5 DEF IInv

(* The claimed request of an acknowledged token goes first. *)
LEMMA CleanupKeeps ==
  ASSUME IInv, NEW t \in Tokens, Cleanup(t) PROVE IInv'
<1>1. Types'
  BY Zenon DEF Cleanup, IInv, Types, Responses
<1>2. Listing'
  BY Zenon DEF Cleanup, IInv, Types, Listing
<1>3. Twins'
  BY Zenon DEF Cleanup, IInv, Types, Twins
<1>4. Results'
  BY DEF Cleanup, IInv, Types, Results, Listing
<1>5. Owners'
  BY ZenonT(40) DEF Cleanup, IInv, Types, Owners, Own
<1> QED
  BY Zenon, <1>1, <1>2, <1>3, <1>4, <1>5 DEF IInv

(* A request is linked under its second name, which no result has. *)
LEMMA ClaimKeeps ==
  ASSUME IInv, NEW t \in Tokens, Claim(t) PROVE IInv'
<1>1. Types'
  BY DEF Claim, IInv, Types, Responses
<1>2. Listing'
  BY DEF Claim, IInv, Types, Listing
<1>3. Twins'
  BY ZenonT(40) DEF Claim, IInv, Types, Twins
<1>4. Results'
  BY Zenon DEF Claim, IInv, Types, Results
<1>5. Owners'
  BY DEF Claim, IInv, Types, Owners, Own
<1> QED
  BY Zenon, <1>1, <1>2, <1>3, <1>4, <1>5 DEF IInv

(* A token with a result is passed over. *)
LEMMA AnsweredKeeps ==
  ASSUME IInv, NEW t \in Tokens, Answered(t) PROVE IInv'
<1>1. Types'
  BY Zenon DEF Answered, IInv, Types, Responses
<1>2. Listing'
  BY Zenon DEF Answered, IInv, Types, Listing
<1>3. Twins'
  BY Zenon DEF Answered, IInv, Types, Twins
<1>4. Results'
  BY Zenon DEF Answered, IInv, Types, Results
<1>5. Owners'
  BY ZenonT(40) DEF Answered, IInv, Types, Owners, Own
<1> QED
  BY Zenon, <1>1, <1>2, <1>3, <1>4, <1>5 DEF IInv

(* A claimed request is executed. *)
LEMMA ProcessRequestKeeps ==
  ASSUME IInv, NEW t \in Tokens, ProcessRequest(t) PROVE IInv'
<1>1. Types'
  BY SMTT(60) DEF ProcessRequest, Response, IInv, Types, Listing, Responses
<1>2. Listing'
  BY DEF ProcessRequest, Response, Responses, IInv, Types, Listing
<1>3. Twins'
  BY Zenon DEF ProcessRequest, Response, IInv, Types, Twins
<1>4. Results'
  BY Zenon DEF ProcessRequest, Response, IInv, Types, Results
<1>5. Owners'
  BY ZenonT(40) DEF ProcessRequest, Response, IInv, Types, Owners, Own
<1> QED
  BY Zenon, <1>1, <1>2, <1>3, <1>4, <1>5 DEF IInv

(* A claimed request that cannot be read is answered Invalid. *)
LEMMA ReadFailsKeeps ==
  ASSUME IInv, NEW t \in Tokens, ReadFails(t) PROVE IInv'
<1>1. Types'
  BY Zenon DEF ReadFails, Response, IInv, Types, Responses
<1>2. Listing'
  BY Zenon DEF ReadFails, Response, Responses, IInv, Types, Listing
<1>3. Twins'
  BY Zenon DEF ReadFails, Response, IInv, Types, Twins
<1>4. Results'
  BY Zenon DEF ReadFails, Response, IInv, Types, Results
<1>5. Owners'
  BY ZenonT(40) DEF ReadFails, Response, IInv, Types, Owners, Own
<1> QED
  BY Zenon, <1>1, <1>2, <1>3, <1>4, <1>5 DEF IInv


(* Every step keeps the files of a token together. *)
LEMMA Inductive == IInv /\ [Next]_vars => IInv'
<1> SUFFICES ASSUME IInv, [Next]_vars PROVE IInv'
  BY Zenon
<1>1. CASE \E c \in Clients : Transact(c)
  BY Zenon, <1>1, DraftRequestKeeps, PublishRequestKeeps, TidyKeeps, ReadResultKeeps, DraftAckKeeps, PublishAckKeeps, FinishKeeps DEF Transact
<1>2. CASE \E c \in Clients : LoseClient(c)
  BY Zenon, <1>2, LoseClientKeeps
<1>3. CASE \E c \in Clients, r \in Requests, t \in Tokens : Begin(c, r, t)
  BY Zenon, <1>3, BeginKeeps
<1>4. CASE Serve
  BY Zenon, <1>4, StartKeeps, CleanupResultKeeps, CleanupAckKeeps, ListRequestsKeeps, UnlinkKeeps,
     ListClaimedKeeps, TemporaryKeeps, PublishResultKeeps, RemoveTemporaryKeeps, AgainKeeps,
     CleanupKeeps, ClaimKeeps, AnsweredKeeps, ProcessRequestKeeps, ReadFailsKeeps DEF Serve
<1>5. CASE Kill
  BY Zenon, <1>5, KillKeeps
<1>6. CASE UNCHANGED vars
  <2>1. Types' /\ Listing' /\ Twins'
    BY Zenon, <1>6 DEF vars, IInv, Types, Listing, Twins
  <2>2. Results' /\ Owners'
    BY Zenon, <1>6 DEF vars, IInv, Results, Owners, Own
  <2> QED
    BY Zenon, <2>1, <2>2 DEF IInv
<1> QED
  BY Zenon, <1>1, <1>2, <1>3, <1>4, <1>5, <1>6 DEF Next

(* The files of a token belong together in every state of the binding. *)
LEMMA Invariance == Spec => []IInv
  BY Initially, Inductive, PTL DEF Spec

(* transact, process_once: whatever is killed, and however often a token is *)
(* used again, a client reads the answer to its own request.                *)
THEOREM AnswersMatchAlways == Spec => []AnswersMatch
<1>1. IInv => AnswersMatch
  BY Zenon DEF IInv, Owners, Own, AnswersMatch
<1> QED
  BY <1>1, Invariance, PTL

(* cleanup_acknowledged, publish_result: a result that is not acknowledged  *)
(* is neither removed nor replaced.                                         *)
THEOREM ResultsAreRetained == Spec => RetainedUntilAcknowledged
<1> DEFINE Retained == \A t \in Tokens :
             results[t] # None /\ t \notin acknowledgements => results'[t] = results[t]
<1>1. IInv /\ [Next]_vars => Retained \/ UNCHANGED vars
  <2> SUFFICES ASSUME IInv, Next PROVE Retained
    BY Zenon DEF vars
  <2>1. CASE CleanupResult
    BY Zenon, <2>1 DEF CleanupResult, IInv, Types, Listing
  <2>2. CASE PublishResult
    BY Zenon, <2>2 DEF PublishResult, IInv, Types
  <2>3. CASE ~CleanupResult /\ ~PublishResult
    <3>1. results' = results
      BY ZenonT(40), <2>3 DEF Next, Transact, Serve, Begin, LoseClient, Kill, DraftRequest, DraftAck, Draft, PublishRequest,
         PublishAck, Tidy, ReadResult, Finish, Start, Cleanup, CleanupAck, ListRequests, Claim, Unlink,
         ListClaimed, Answered, ProcessRequest, ReadFails, Temporary, RemoveTemporary, Again
    <3> QED
      BY Zenon, <3>1
  <2> QED
    BY Zenon, <2>1, <2>2, <2>3
<1> QED
  BY <1>1, Invariance, PTL DEF Spec, RetainedUntilAcknowledged

(* Every step spends no more executions than the starts of the service and  *)
(* the requests still waiting allow.                                        *)
LEMMA BudgetKept == EInv /\ [Next]_vars => EInv'
<1> SUFFICES ASSUME EInv, [Next]_vars PROVE Budget' /\ Unexecuted' /\ ExecutedPerStart'
  BY ZenonT(40), Inductive DEF EInv
<1> USE DEF EInv, IInv, Types, Budget, Owed, Allowed, One, Unexecuted, ExecutedPerStart
<1>1. ASSUME NEW c \in Clients, NEW r \in Requests, NEW t \in Tokens, Begin(c, r, t)
      PROVE Budget' /\ Unexecuted' /\ ExecutedPerStart'
  BY SMTT(60), <1>1 DEF Begin, unused_token, Owners, Own
<1>2. ASSUME NEW c \in Clients, DraftRequest(c) PROVE Budget' /\ Unexecuted' /\ ExecutedPerStart'
  BY SMTT(60), <1>2 DEF DraftRequest, Draft, Owners, Own
<1>3. ASSUME NEW c \in Clients, PublishRequest(c) PROVE Budget' /\ Unexecuted' /\ ExecutedPerStart'
  BY <1>3 DEF PublishRequest, Owners, Own
<1>4. ASSUME NEW c \in Clients, Tidy(c) PROVE Budget' /\ Unexecuted' /\ ExecutedPerStart'
  BY SMTT(60), <1>4 DEF Tidy, Owners, Own
<1>5. ASSUME NEW c \in Clients, ReadResult(c) PROVE Budget' /\ Unexecuted' /\ ExecutedPerStart'
  BY SMTT(60), <1>5 DEF ReadResult, Owners, Own
<1>6. ASSUME NEW c \in Clients, DraftAck(c) PROVE Budget' /\ Unexecuted' /\ ExecutedPerStart'
  BY SMTT(60), <1>6 DEF DraftAck, Draft, Owners, Own
<1>7. ASSUME NEW c \in Clients, PublishAck(c) PROVE Budget' /\ Unexecuted' /\ ExecutedPerStart'
  BY SMTT(60), <1>7 DEF PublishAck, Owners, Own
<1>8. ASSUME NEW c \in Clients, Finish(c) PROVE Budget' /\ Unexecuted' /\ ExecutedPerStart'
  BY SMTT(60), <1>8 DEF Finish, Owners, Own
<1>9. ASSUME NEW c \in Clients, LoseClient(c) PROVE Budget' /\ Unexecuted' /\ ExecutedPerStart'
  BY SMTT(60), <1>9 DEF LoseClient, Owners, Own
<1>10. CASE Start
  BY <1>10 DEF Start, Listing
<1>11. CASE CleanupResult
  BY Zenon, <1>11 DEF CleanupResult, Listing
<1>12. CASE CleanupAck
  BY Zenon, <1>12 DEF CleanupAck, Listing
<1>13. CASE ListRequests
  BY Zenon, <1>13 DEF ListRequests, Listing
<1>14. CASE Unlink
  BY <1>14 DEF Unlink, Listing
<1>15. CASE ListClaimed
  BY Zenon, <1>15 DEF ListClaimed, Listing
<1>16. CASE Temporary
  BY <1>16 DEF Temporary, Listing
<1>17. CASE PublishResult
  BY ZenonT(40), <1>17, NoneIsNoFile DEF PublishResult, Listing
<1>18. CASE RemoveTemporary
  BY Zenon, <1>18 DEF RemoveTemporary, Listing
<1>19. CASE Again
  BY Zenon, <1>19 DEF Again, Listing
<1>20. CASE Kill
  BY SMTT(60), <1>20 DEF Kill, Listing
<1>21. ASSUME NEW t \in Tokens, Cleanup(t) PROVE Budget' /\ Unexecuted' /\ ExecutedPerStart'
  BY SMTT(60), <1>21 DEF Cleanup, Listing, Owners, Own
<1>22. ASSUME NEW t \in Tokens, Claim(t) PROVE Budget' /\ Unexecuted' /\ ExecutedPerStart'
  BY SMTT(60), <1>22 DEF Claim, Listing, Owners, Own
<1>23. ASSUME NEW t \in Tokens, Answered(t) PROVE Budget' /\ Unexecuted' /\ ExecutedPerStart'
  BY ZenonT(40), <1>23 DEF Answered, Listing, Owners, Own
<1>24. ASSUME NEW t \in Tokens, ProcessRequest(t) PROVE Budget' /\ Unexecuted' /\ ExecutedPerStart'
  BY SMTT(60), <1>24 DEF ProcessRequest, Response, Listing, Owners, Own
<1>25. ASSUME NEW t \in Tokens, ReadFails(t) PROVE Budget' /\ Unexecuted' /\ ExecutedPerStart'
  BY <1>25 DEF ReadFails, Response, Listing, Owners, Own
<1>26. CASE UNCHANGED vars
  BY ZenonT(40), <1>26 DEF vars
<1> QED
  BY Zenon, <1>1, <1>2, <1>3, <1>4, <1>5, <1>6, <1>7, <1>8, <1>9, <1>10, <1>11, <1>12, <1>13, <1>14, <1>15, <1>16, <1>17, <1>18, <1>19, <1>20, <1>21, <1>22, <1>23, <1>24, <1>25, <1>26 DEF Next, Transact, Serve

(* process_once: however often the service is killed, the operation of a    *)
(* token is executed no more often than the service was started.            *)
THEOREM ExecutedPerStartAlways == Spec => []ExecutedPerStart
<1>1. Init => EInv
  BY Zenon, Initially DEF EInv
<1>2. EInv => ExecutedPerStart
  BY Zenon DEF EInv
<1> QED
  BY <1>1, <1>2, BudgetKept, PTL DEF Spec

(* A service that is not killed was started once at most, and leaves no     *)
(* temporary result: so nothing but a kill ends it.                         *)
Unkilled ==
  kills = 0 =>
    /\ starts \in {0, 1}
    /\ service.pc = "down" => starts = 0
    /\ private \subseteq IF service.pc \in {"result", "untemporary"} THEN {service.token} ELSE {}
KInv == kills \in Nat /\ starts \in Nat /\ Unkilled

(* Every step keeps an unkilled service free of leftovers. *)
LEMMA UnkilledKept == KInv /\ [Next]_vars => KInv'
<1> SUFFICES ASSUME KInv, [Next]_vars PROVE KInv'
  BY Zenon
<1> USE DEF KInv, Unkilled
<1>1. CASE Start
  BY <1>1 DEF Start
<1>2. CASE Temporary
  BY <1>2 DEF Temporary
<1>3. CASE PublishResult
  BY Zenon, <1>3 DEF PublishResult
<1>4. CASE RemoveTemporary
  BY Zenon, <1>4 DEF RemoveTemporary
<1>5. CASE Kill
  BY <1>5 DEF Kill
<1>6. CASE service' = service /\ private' = private /\ starts' = starts /\ kills' = kills
  BY Zenon, <1>6
<1> DEFINE Elsewhere == /\ service.pc \notin {"down", "result", "untemporary"}
                        /\ service'.pc \notin {"down", "result", "untemporary"}
                        /\ private' = private /\ starts' = starts /\ kills' = kills
<1>7. CASE Elsewhere
  BY Zenon, <1>7
<1>8. ASSUME NEW c \in Clients, Transact(c)
      PROVE service' = service /\ private' = private /\ starts' = starts /\ kills' = kills
  BY Zenon, <1>8 DEF Transact, DraftRequest, DraftAck, Draft, PublishRequest, PublishAck, Tidy, ReadResult, Finish
<1>9. ASSUME NEW c \in Clients,
             LoseClient(c) \/ \E r \in Requests, t \in Tokens : Begin(c, r, t)
      PROVE service' = service /\ private' = private /\ starts' = starts /\ kills' = kills
  BY Zenon, <1>9 DEF LoseClient, Begin
<1>10. ASSUME CleanupResult \/ CleanupAck \/ ListRequests \/ Unlink \/ ListClaimed \/ Again
       PROVE Elsewhere
  BY <1>10 DEF CleanupResult, CleanupAck, ListRequests, Unlink, ListClaimed, Again
<1>11. ASSUME NEW t \in Tokens,
              Cleanup(t) \/ Claim(t) \/ Answered(t) \/ ProcessRequest(t) \/ ReadFails(t)
       PROVE Elsewhere
  BY <1>11 DEF Cleanup, Claim, Answered, ProcessRequest, ReadFails
<1>12. CASE UNCHANGED vars
  BY Zenon, <1>6, <1>12 DEF vars
<1> HIDE DEF Elsewhere, KInv
<1> QED
  BY ZenonT(40), <1>1, <1>2, <1>3, <1>4, <1>5, <1>6, <1>7, <1>8, <1>9, <1>10, <1>11, <1>12 DEF Next, Serve

(* process_once: a service that is not killed executes the operation of a   *)
(* token once, for any clients and tokens.                                  *)
THEOREM ExecutedOnceAlways == Spec => []ExecutedOnce
<1>1. Init => EInv /\ KInv
  <2>1. Init => KInv
    BY DEF KInv, Unkilled, Init
  <2> QED
    BY Zenon, <2>1, Initially DEF EInv
<1>2. ASSUME EInv, KInv, kills = 0, NEW t \in Tokens PROVE executed[t] <= 1
  <2>1. executed[t] \in Nat /\ executed[t] <= starts
    BY Zenon, <1>2 DEF EInv, IInv, Types, ExecutedPerStart
  <2>2. starts \in {0, 1}
    BY Zenon, <1>2 DEF KInv, Unkilled
  <2> QED
    BY <2>1, <2>2
<1>3. EInv /\ KInv => ExecutedOnce
  BY Zenon, <1>2 DEF ExecutedOnce
<1> QED
  BY <1>1, <1>3, BudgetKept, UnkilledKept, PTL DEF Spec

=============================================================================
