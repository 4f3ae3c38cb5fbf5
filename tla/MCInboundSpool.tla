---------------------------- MODULE MCInboundSpool ----------------------------
(***************************************************************************)
(* Small instances of InboundSpool.  `mail' is a signed item, `request' a  *)
(* FileRequest, which has no duplicate identity.                           *)
(***************************************************************************)
EXTENDS InboundSpool, TLC

CONSTANTS app, mail, request, i1, i2, q1, q2, t1, t2, c1, c2

Symmetry ==
    Permutations(InboundIds) \cup Permutations(ClaimKeys) \cup Permutations(Tokens)
        \cup Permutations(Connections)
=============================================================================
