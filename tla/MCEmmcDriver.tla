---------------------------- MODULE MCEmmcDriver ----------------------------
(***************************************************************************)
(* The values TLC gives the constants of EmmcDriver.                       *)
(***************************************************************************)
EXTENDS EmmcDriver, TLC

CONSTANTS s1, s2

MCVerifySectors1 == <<s1, s1>>
MCVerifySectors2 == <<s1, s2>>

AllFaults ==
  {<<"lost", c>> : c \in {"cmd0", "cmd1", "cmd2", "cmd3", "cmd7", "cmd6",
                          "cmd8", "cmd17", "cmd24"}}
    \cup {<<"busy", w>> : w \in {"initReady", "switchReady", "ready",
                                 "rxReady", "txReady"}}
    \cup {<<"error", t>> : t \in {"rx", "tx"}}
    \cup {<<"refuse", "cmd6">>, <<"refuse", "cmd24">>}
    \cup {<<"restart", r>> : r \in {"warm", "cold"}}
    \cup LateFaults

BenignFaults == AllFaults \ (PartitionFaults \cup LateFaults)
SeenFaults == AllFaults \ {<<"refuse", "cmd6">>}
BusySwitch == {<<"busy", "switchReady">>}
LostExtCsd == {<<"lost", "cmd8">>}
=============================================================================
