-------------------------- MODULE MCClientAccounts --------------------------
(* Two browsers with a tab each; an administrator and a user. *)
EXTENDS ClientAccounts, TLC

CONSTANTS t1, t2, b1, b2, root, user

MCTabs       == {t1, t2}
MCBrowsers   == {b1, b2}
MCPlacements == {f \in [MCTabs -> MCBrowsers] : f[t1] # f[t2]}
MCSymmetry   == Permutations(MCTabs) \cup Permutations(MCBrowsers)
MCUsers      == {root, user}
MCAdmins     == {root}
MCUserPages  == {"index", "login", "profile"}
MCAdminPages == {"login", "accounts", "account"}
MCNone       == {}
=============================================================================
