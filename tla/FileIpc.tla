------------------------------- MODULE FileIpc -------------------------------
(***************************************************************************)
(* The filesystem binding of the IPC service: FilesystemBinding::transact   *)
(* (tith-submit/src/filesystem.rs) and process_once                         *)
(* (tithd/src/filesystem.rs).                                               *)
(*                                                                         *)
(* requests, claimed and results give every token the contents of its file, *)
(* or None; a published file is never written again, so two links to it are *)
(* two equal values.  A process may be killed between any two steps; the    *)
(* filesystem itself does not forget.                                       *)
(***************************************************************************)
EXTENDS Naturals

CONSTANTS
  Tokens, Clients, Requests,
  None, Invalid,      \* no file; what a request that cannot be read is answered
  MaxTransactions,    \* transactions of all the clients
  MaxStarts,          \* starts of the service
  MaxKills,           \* kills of the service
  MaxLosses,          \* clients killed
  MaxFaults           \* reads that fail

Responses == [of : Requests \cup {Invalid}, execution : Nat]

ASSUME NoneIsNoFile == None \notin Responses

VARIABLES
  requests, claimed, results, acknowledgements,
  private,            \* the temporary results of the service that exist
  drafts,             \* the temporary files of the clients that exist
  client, service,
  executed,           \* how often the operation of a token was executed
  begun, starts, kills, losses, faults

vars == <<requests, claimed, results, acknowledgements, private, drafts, client, service, executed,
          begun, starts, kills, losses, faults>>
carriers == <<requests, claimed, results, acknowledgements>>
counters == <<begun, starts, kills, losses, faults>>

NoToken == "no token"
Resting == [pc |-> "idle", token |-> NoToken, request |-> None, result |-> None]
Down == [pc |-> "down", todo |-> {}, token |-> NoToken, response |-> None]

(* transaction_files *)
Files(directory) == {t \in Tokens : directory[t] # None}

-----------------------------------------------------------------------------
(* A client: transact.                                                      *)

Runs(c, pc) == client[c].pc = pc
Mine(c) == client[c].token
Proceed(c, pc) == client' = [client EXCEPT ![c].pc = pc]
(* An error, or the end of the transaction.                                 *)
Leave(c) == client' = [client EXCEPT ![c] = Resting]

(* Mutant of unused_token: only the requests are looked at. *)
UnusedRequest(t) ==
  /\ requests[t] = None
  /\ \A c \in Clients : client[c].pc = "idle" \/ client[c].token # t
(* unused_token: 128 random bits that no file has, and that no other client *)
(* has drawn.                                                               *)
unused_token(t) ==
  /\ requests[t] = None /\ claimed[t] = None /\ results[t] = None /\ t \notin acknowledgements
  /\ \A c \in Clients : client[c].pc = "idle" \/ client[c].token # t

Begin(c, r, t) ==
  /\ Runs(c, "idle") /\ begun < MaxTransactions /\ unused_token(t)
  /\ client' = [client EXCEPT ![c] = [pc |-> "draft", token |-> t, request |-> r, result |-> None]]
  /\ executed' = [executed EXCEPT ![t] = 0]
  /\ begun' = begun + 1
  /\ UNCHANGED <<carriers, private, drafts, service, starts, kills, losses, faults>>

(* publish: the temporary file must be new, and so must the name in the     *)
(* directory; a failed link removes the temporary file.                     *)
Draft(c, extension, next) ==
  /\ IF <<Mine(c), extension>> \in drafts
       THEN Leave(c) /\ UNCHANGED drafts
       ELSE Proceed(c, next) /\ drafts' = drafts \cup {<<Mine(c), extension>>}
  /\ UNCHANGED <<carriers, private, service, executed, counters>>
DraftRequest(c) == Runs(c, "draft") /\ Draft(c, "req", "publish")
DraftAck(c) == Runs(c, "read") /\ Draft(c, "ack", "acknowledge")

PublishRequest(c) ==
  /\ Runs(c, "publish")
  /\ IF requests[Mine(c)] # None
       THEN Leave(c) /\ drafts' = drafts \ {<<Mine(c), "req">>} /\ UNCHANGED requests
       ELSE /\ requests' = [requests EXCEPT ![Mine(c)] = client[c].request]
            /\ Proceed(c, "tidy") /\ UNCHANGED drafts
  /\ UNCHANGED <<claimed, results, acknowledgements, private, service, executed, counters>>
PublishAck(c) ==
  /\ Runs(c, "acknowledge")
  /\ IF Mine(c) \in acknowledgements
       THEN Leave(c) /\ drafts' = drafts \ {<<Mine(c), "ack">>} /\ UNCHANGED acknowledgements
       ELSE /\ acknowledgements' = acknowledgements \cup {Mine(c)}
            /\ Proceed(c, "finish") /\ UNCHANGED drafts
  /\ UNCHANGED <<requests, claimed, results, private, service, executed, counters>>

Tidy(c) ==
  /\ Runs(c, "tidy")
  /\ Proceed(c, "wait") /\ drafts' = drafts \ {<<Mine(c), "req">>}
  /\ UNCHANGED <<carriers, private, service, executed, counters>>
ReadResult(c) ==
  /\ Runs(c, "wait") /\ results[Mine(c)] # None
  /\ client' = [client EXCEPT ![c].pc = "read", ![c].result = results[Mine(c)]]
  /\ UNCHANGED <<carriers, private, drafts, service, executed, counters>>
Finish(c) ==
  /\ Runs(c, "finish")
  /\ Leave(c) /\ drafts' = drafts \ {<<Mine(c), "ack">>}
  /\ UNCHANGED <<carriers, private, service, executed, counters>>

(* The client is killed, or a file it writes or reads fails it.             *)
LoseClient(c) ==
  /\ ~Runs(c, "idle") /\ losses < MaxLosses
  /\ losses' = losses + 1
  /\ Leave(c)
  /\ UNCHANGED <<carriers, private, drafts, service, executed, begun, starts, kills, faults>>

-----------------------------------------------------------------------------
(* The service: process_once, again and again.  The files of a directory    *)
(* are listed once and taken in the order of their random names.            *)

Is(pc) == service.pc = pc
Current == service.token
To(pc, todo, t, response) == service' = [pc |-> pc, todo |-> todo, token |-> t, response |-> response]
List(pc, todo) == To(pc, todo, NoToken, None)
Done(pc) == List(pc, service.todo \ {Current})

Start ==
  /\ Is("down") /\ starts < MaxStarts
  /\ List("cleanup", acknowledgements)
  /\ starts' = starts + 1
  /\ UNCHANGED <<carriers, private, drafts, client, executed, begun, kills, losses, faults>>

(* cleanup_acknowledged removes request, result and acknowledgement.        *)
Cleanup(t) ==
  /\ Is("cleanup") /\ t \in service.todo
  /\ claimed' = [claimed EXCEPT ![t] = None]
  /\ To("unresult", service.todo, t, None)
  /\ UNCHANGED <<requests, results, acknowledgements, private, drafts, client, executed, counters>>
CleanupResult ==
  /\ Is("unresult")
  /\ results' = [results EXCEPT ![Current] = None]
  /\ To("unack", service.todo, Current, None)
  /\ UNCHANGED <<requests, claimed, acknowledgements, private, drafts, client, executed, counters>>
CleanupAck ==
  /\ Is("unack")
  /\ acknowledgements' = acknowledgements \ {Current}
  /\ Done("cleanup")
  /\ UNCHANGED <<requests, claimed, results, private, drafts, client, executed, counters>>

ListRequests ==
  /\ Is("cleanup") /\ service.todo = {}
  /\ List("claims", Files(requests))
  /\ UNCHANGED <<carriers, private, drafts, client, executed, counters>>
(* The link in claimed is the claim; a token that is claimed already stays. *)
Claim(t) ==
  /\ Is("claims") /\ t \in service.todo
  /\ IF claimed[t] # None
       THEN List("claims", service.todo \ {t}) /\ UNCHANGED claimed
       ELSE claimed' = [claimed EXCEPT ![t] = requests[t]] /\ To("unlink", service.todo, t, None)
  /\ UNCHANGED <<requests, results, acknowledgements, private, drafts, client, executed, counters>>
Unlink ==
  /\ Is("unlink")
  /\ requests' = [requests EXCEPT ![Current] = None]
  /\ Done("claims")
  /\ UNCHANGED <<claimed, results, acknowledgements, private, drafts, client, executed, counters>>

ListClaimed ==
  /\ Is("claims") /\ service.todo = {}
  /\ List("answers", Files(claimed))
  /\ UNCHANGED <<carriers, private, drafts, client, executed, counters>>
(* Mutant of Answered: the first request with a result ends the pass. *)
AnsweredStops(t) ==
  /\ Is("answers") /\ t \in service.todo /\ results[t] # None
  /\ List("answers", {})
  /\ UNCHANGED <<carriers, private, drafts, client, executed, counters>>
(* A result that exists is not made again.                                  *)
Answered(t) ==
  /\ Is("answers") /\ t \in service.todo /\ results[t] # None
  /\ List("answers", service.todo \ {t})
  /\ UNCHANGED <<carriers, private, drafts, client, executed, counters>>
Response(request, execution) == [of |-> request, execution |-> execution]
(* Mutant of ProcessRequest: a result that exists is made again. *)
ProcessAlways(t) ==
  /\ Is("answers") /\ t \in service.todo
  /\ executed' = [executed EXCEPT ![t] = @ + 1]
  /\ To("temporary", service.todo, t, Response(claimed[t], executed[t] + 1))
  /\ UNCHANGED <<carriers, private, drafts, client, counters>>
ProcessRequest(t) ==
  /\ Is("answers") /\ t \in service.todo /\ results[t] = None
  /\ executed' = [executed EXCEPT ![t] = @ + 1]
  /\ To("temporary", service.todo, t, Response(claimed[t], executed[t] + 1))
  /\ UNCHANGED <<carriers, private, drafts, client, counters>>
(* read_stable fails, and the request is answered Invalid.                  *)
ReadFails(t) ==
  /\ Is("answers") /\ t \in service.todo /\ results[t] = None /\ faults < MaxFaults
  /\ faults' = faults + 1
  /\ To("temporary", service.todo, t, Response(Invalid, 0))
  /\ UNCHANGED <<carriers, private, drafts, client, executed, begun, starts, kills, losses>>

(* publish_result: a temporary file that exists is an error, which ends the *)
(* service.                                                                 *)
Temporary ==
  /\ Is("temporary")
  /\ IF Current \in private
       THEN service' = Down /\ UNCHANGED private
       ELSE /\ private' = private \cup {Current}
            /\ To("result", service.todo, Current, service.response)
  /\ UNCHANGED <<carriers, drafts, client, executed, counters>>
PublishResult ==
  /\ Is("result")
  /\ results' = [results EXCEPT ![Current] = IF @ = None THEN service.response ELSE @]
  /\ To("untemporary", service.todo, Current, None)
  /\ UNCHANGED <<requests, claimed, acknowledgements, private, drafts, client, executed, counters>>
RemoveTemporary ==
  /\ Is("untemporary")
  /\ private' = private \ {Current}
  /\ Done("answers")
  /\ UNCHANGED <<carriers, drafts, client, executed, counters>>

Again ==
  /\ Is("answers") /\ service.todo = {}
  /\ List("cleanup", acknowledgements)
  /\ UNCHANGED <<carriers, private, drafts, client, executed, counters>>

Kill ==
  /\ ~Is("down") /\ kills < MaxKills
  /\ kills' = kills + 1
  /\ service' = Down
  /\ UNCHANGED <<carriers, private, drafts, client, executed, begun, starts, losses, faults>>

-----------------------------------------------------------------------------
Init ==
  /\ requests = [t \in Tokens |-> None] /\ claimed = [t \in Tokens |-> None]
  /\ results = [t \in Tokens |-> None] /\ acknowledgements = {}
  /\ private = {} /\ drafts = {}
  /\ client = [c \in Clients |-> Resting] /\ service = Down
  /\ executed = [t \in Tokens |-> 0]
  /\ begun = 0 /\ starts = 0 /\ kills = 0 /\ losses = 0 /\ faults = 0

Transact(c) ==
  \/ DraftRequest(c) \/ PublishRequest(c) \/ Tidy(c) \/ ReadResult(c)
  \/ DraftAck(c) \/ PublishAck(c) \/ Finish(c)
Serve ==
  \/ Start \/ CleanupResult \/ CleanupAck \/ ListRequests \/ Unlink \/ ListClaimed
  \/ Temporary \/ PublishResult \/ RemoveTemporary \/ Again
  \/ \E t \in Tokens : Cleanup(t) \/ Claim(t) \/ Answered(t) \/ ProcessRequest(t) \/ ReadFails(t)
Next ==
  \/ \E c \in Clients : \/ Transact(c) \/ LoseClient(c)
                        \/ \E r \in Requests, t \in Tokens : Begin(c, r, t)
  \/ Serve
  \/ Kill

Spec == Init /\ [][Next]_vars

(* A client that began goes on, and the service is started again and runs.  *)
FairSpec == Spec /\ WF_vars(Serve) /\ \A c \in Clients : WF_vars(Transact(c))

-----------------------------------------------------------------------------
(* transact and process_once: what a client reads answers its own request,  *)
(* although tokens are used again, files are left behind by killed clients  *)
(* and services, and requests are executed again.                           *)
AnswersMatch ==
  \A c \in Clients : client[c].pc \in {"read", "acknowledge", "finish"} =>
    client[c].result.of \in {client[c].request, Invalid}

(* process_once: a service that is not killed executes the operation of a   *)
(* token once, whatever clients die on the way and although tokens come     *)
(* back and reads fail.                                                     *)
ExecutedOnce == kills = 0 => \A t \in Tokens : executed[t] <= 1

(* cleanup_acknowledged: a result stays as it is until it is acknowledged.  *)
RetainedUntilAcknowledged ==
  [][\A t \in Tokens : results[t] # None /\ t \notin acknowledgements => results'[t] = results[t]]_vars

(* TSP-0008 section 4: "The same token MUST NOT execute the operation       *)
(* again" (standards/TSP-0008.txt:147-148), whatever is killed.             *)
NeverExecutedAgain == \A t \in Tokens : executed[t] <= 1

(* serve: a client that waits gets its result, although services and        *)
(* clients are killed.  The exception is a kill between the temporary       *)
(* result and its link: the file left behind ends every later service that  *)
(* comes to its request.                                                    *)
Wedged ==
  \E t \in private :
    /\ claimed[t] # None /\ results[t] = None
    /\ ~(service.pc = "result" /\ service.token = t)
EveryRequestAnswered == \A c \in Clients : []<>(client[c].pc # "wait" \/ Wedged)

=============================================================================
