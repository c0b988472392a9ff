---------------------------- MODULE MCClientTasks ----------------------------
(* One document, one version of one app: no property looks at which version *)
(* of an app is installed.                                                  *)
EXTENDS ClientTasks

CONSTANTS d1, a, v

MCDocs    == {d1}
MCApps    == {a}
MCBundles == {v}
MCAppOf   == [b \in MCBundles |-> a]
=============================================================================
