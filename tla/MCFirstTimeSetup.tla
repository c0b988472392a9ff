-------------------------- MODULE MCFirstTimeSetup --------------------------
(* Small instances of FirstTimeSetup.                                        *)
EXTENDS FirstTimeSetup

CONSTANTS t1, t2, t3, n1, n2

MCThreeThreads == {t1, t2, t3}
MCNames        == {n1, n2}
=============================================================================
