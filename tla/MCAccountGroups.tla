--------------------------- MODULE MCAccountGroups ---------------------------
(* Small instances of AccountGroups: the default group and two others.          *)
EXTENDS AccountGroups

CONSTANTS t1, t2, users, g1, g2, root, u1

MCOneThread   == {t1}
MCTwoThreads  == {t1, t2}
MCTwoGroups   == {users, g1, g2}
MCAdmin       == {root}
MCAccounts    == {root, u1}
MCNoMirror    == {{}}
MCOneMirror   == {{}, {g2}}
MCNewMirrors  == {{}, {users}, {g1}}
=============================================================================
