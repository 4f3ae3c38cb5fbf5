--------------------------- MODULE MCOutboundSpool ---------------------------
(***************************************************************************)
(* Small instances of OutboundSpool.  `hub' is an ordinary next hop, `anon'*)
(* is the anonymous address, which exists once per PublicKey.              *)
(***************************************************************************)
EXTENDS OutboundSpool, TLC

CONSTANTS app, relay, hub, anon, k1, t1, t2, j1, j2, i1, i2

To(h, k, m) == [hop |-> h, key |-> k, mode |-> m]
Blueprint(kind, copies) == [kind |-> kind, forward |-> FALSE, copies |-> copies]

NetMail == Blueprint("NetMail", <<To(hub, NoKey, "Active")>>)
Echo == Blueprint("EchoMail", <<To(hub, NoKey, "Active"), To(anon, k1, "Passive")>>)

MailOnly == {NetMail}
MailAndEcho == {NetMail, Echo}

Symmetry ==
    Permutations(Tokens) \cup Permutations(JobIds) \cup Permutations(IdempotencyKeys)
=============================================================================
