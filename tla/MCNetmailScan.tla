---------------------------- MODULE MCNetmailScan ----------------------------
(***************************************************************************)
(* Small instances of NetmailScan.                                          *)
(***************************************************************************)
EXTENDS NetmailScan

CONSTANTS a, b

Letter(m) ==
  [id |-> m, msgid |-> "ours", retained |-> "none", destination |-> TRUE, area |-> "none", date |-> 0,
   offsets |-> <<0>>, attached |-> FALSE, specs |-> <<>>, flags |-> {}, kill |-> FALSE]

(* A message with a MSGID, and one without that asks to be killed.          *)
MCLetters == ("m" :> Letter("m")) @@ ("n" :> [Letter("n") EXCEPT !.msgid = "none", !.flags = {"K/S"}])

Together(links, crew, patience, crashed) ==
  [links |-> links, crew |-> crew, patience |-> patience, crashes |-> crashed]
(* Two scanners that do not crash, or one that does, on either filesystem.  *)
MCRegimes ==
  {Together(TRUE, {a, b}, TRUE, 0), Together(TRUE, {a}, TRUE, 2), Together(FALSE, {a}, TRUE, 1)}
(* Two scanners, and messages older than --recover-after.                   *)
MCStolen == {Together(TRUE, {a, b}, FALSE, 0)}
=============================================================================
