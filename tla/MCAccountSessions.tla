-------------------------- MODULE MCAccountSessions --------------------------
(* Small instances of AccountSessions: one or two administrators and a user. *)
EXTENDS AccountSessions, TLC

CONSTANTS t1, t2, root, user, k1, k2, p1, p2

MCOneThread  == {t1}
MCTwoThreads == {t1, t2}
MCSymmetry   == Permutations(MCTwoThreads) \cup Permutations({k1, k2})
MCNames      == {root, user}
MCAdmins     == {root}
MCOneKey     == {k1}
MCTwoKeys    == {k1, k2}
MCOnePhone   == {p1}
MCTwoPhones  == {p1, p2}
MCSuspension == {"login", "logout", "update", "reset", "delete"}
MCRequest(n, a, s, f, p) ==
  [name |-> n, admin |-> a, suspended |-> s, twoFactor |-> f, phone |-> p, authId |-> None]
MCSuspend    == {MCRequest(n, n = root, s, FALSE, p1) : n \in MCNames, s \in BOOLEAN}
MCRegister   == {MCRequest(n, TRUE, FALSE, f, p) : n \in MCNames, f \in BOOLEAN, p \in MCTwoPhones}
MCInTurn     == MCRegister \cup {MCRequest(n, FALSE, TRUE, f, p1) : n \in MCNames, f \in BOOLEAN}
MCAll        == {"login", "logout", "create", "update", "reset", "delete"}
=============================================================================
