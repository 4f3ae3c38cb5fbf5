-------------------------- MODULE MCAdapterInbound --------------------------
(***************************************************************************)
(* Small instances of AdapterInbound: every kind of item, two at a time.   *)
(***************************************************************************)
EXTENDS AdapterInbound, TLC

CONSTANTS mail1, echo1, orphan1, notice1, request1, junk1

AllKinds ==
    mail1 :> "Deliver" @@ echo1 :> "Distribute" @@
    orphan1 :> "Orphan" @@ notice1 :> "Notice" @@ request1 :> "Request" @@ junk1 :> "Refuse"
AllSizes ==
    mail1 :> 2 @@ echo1 :> 1 @@ orphan1 :> 1 @@ notice1 :> 1 @@
    request1 :> 1 @@ junk1 :> 1
KindOf == [id \in Ids |-> AllKinds[id]]
SizeOf == [id \in Ids |-> AllSizes[id]]
=============================================================================
