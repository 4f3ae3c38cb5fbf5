------------------------------ MODULE MCBsoScan ------------------------------
(***************************************************************************)
(* Small instances of BsoScan.                                              *)
(***************************************************************************)
EXTENDS BsoScan

CONSTANTS a, b

Letter(m) ==
  [id |-> m, msgid |-> "ours", retained |-> "none", destination |-> TRUE, area |-> "none", date |-> 0,
   offsets |-> <<0>>, attached |-> FALSE, specs |-> <<>>, flags |-> {}, kill |-> FALSE]
Entry(mark, name) == [mark |-> mark, name |-> name]
Action(name, fields) == [name |-> name, fields |-> fields, plain |-> TRUE]

(* A file attach, and an EchoMail.                                          *)
MCMail ==
  ("m" :> [Letter("m") EXCEPT !.attached = TRUE, !.specs = <<Entry("", "zip")>>])
    @@ ("e" :> [Letter("e") EXCEPT !.area = "area"])

MCRoots == <<"bare">>
MCFlavours == <<"Normal", "Hold">>
Tossing(dir, mail, entries, actions) ==
  [dir |-> dir, flavour |-> "Normal", mail |-> mail, entries |-> entries, actions |-> actions]
Attach == Tossing("bare", <<"m", "e">>, <<Entry("", "zip"), Entry("", "tic")>>, <<>>)
Files ==
  Tossing("bare", <<>>, <<Entry("@", "arc"), Entry("~", "old")>>,
          <<Action("list", <<>>), Action("old", <<Entry("-", "1")>>)>>)

(* A missing file beside one that could go; a packet that does not parse.   *)
Missing == Tossing("bare", <<>>, <<Entry("", "lost"), Entry("", "arc")>>, <<>>)
Cropped == Tossing("bare", <<"cut">>, <<>>, <<>>)

Regime(crew, tosses, mishaps) == [crew |-> crew, tosses |-> tosses, mishaps |-> mishaps]
MCRegimes ==
  {Regime({a, b}, {Attach, Files}, 0), Regime({a}, {Attach, Files}, 1), Regime({a, b}, {Files}, 1),
   Regime({a}, {Attach, Missing}, 1), Regime({a}, {Files, Cropped}, 1)}
(* One scanner, and one fault.                                              *)
MCOneFault == {Regime({a}, {Attach}, 1)}
(* A node with files in two directories, and no mishap.                     *)
MCTwoRoots == <<"bare", "zone">>
MCBothRoots ==
  {Regime({a}, {Tossing("bare", <<>>, <<Entry("", "zip")>>, <<>>),
                Tossing("zone", <<>>, <<Entry("", "arc")>>, <<>>),
                Tossing("zone", <<>>, <<Entry("", "old")>>, <<>>)}, 0)}
=============================================================================
