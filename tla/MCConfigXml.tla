---------------------------- MODULE MCConfigXml ----------------------------
(***************************************************************************)
(* Instances of ConfigXml for TLC.                                         *)
(***************************************************************************)
EXTENDS ConfigXml

CONSTANTS u1, u2, c1, c2

TwoUpdaters == {u1, u2}
AllWriters  == {u1, u2, Gui}
TwoConns    == {c1, c2}

=============================================================================
