--------------------------- MODULE MCAppLifecycle ---------------------------
(* Small instances of AppLifecycle: one or two versions of the app, the      *)
(* second with one required setting.                                         *)
EXTENDS AppLifecycle

CONSTANTS t1, t2, s1

MCOneTask     == {t1}
MCTwoTasks    == {t1, t2}
MCVersions    == {1, 2}
MCOneVersion  == {1}
MCSecond      == {2}
MCNone        == {}
MCSettings    == {s1}
MCAnyRequest  == MCVersions \cup {Latest}
MCAllFiles    == {"manifest", "chef", "other"}
MCFlags       == {[overwrite |-> TRUE, auto |-> FALSE], [overwrite |-> FALSE, auto |-> TRUE]}
MCTwoFiles    == {"manifest", "chef"}
=============================================================================
