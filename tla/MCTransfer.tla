----------------------------- MODULE MCTransfer -----------------------------
(* Instances of Transfer: a message and a FileRequest to send, and two         *)
(* messages held for the caller.                                               *)
EXTENDS Transfer

MCQueue == <<"mail", "freq">>
MCHeldQueue == <<"held", "kept">>
MCKind == [mail |-> "Message", freq |-> "FileRequest", held |-> "Message",
           kept |-> "Message"]
MCSigned == {"mail", "held"}
MCVerdict == [mail |-> "Accepted", freq |-> "Permanent", held |-> "Accepted",
              kept |-> "Permanent"]

(* One message and nothing held, for the keys: several restarts of both nodes. *)
KeysQueue == <<"mail">>
KeysHeldQueue == <<>>
KeysKind == [mail |-> "Message"]
KeysSigned == {"mail"}
KeysVerdict == [mail |-> "Accepted"]
=============================================================================
