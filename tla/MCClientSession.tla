--------------------------- MODULE MCClientSession ---------------------------
(* Two tabs of one browser; an administrator and a user with two factors. *)
EXTENDS ClientSession

CONSTANTS t1, t2, b1, root, user

MCTabs       == {t1, t2}
MCBrowsers   == {b1}
MCPlacements == [MCTabs -> MCBrowsers]
MCUsers      == {root, user}
MCAdmins     == {root}
MCUserPages  == {"index", "login", "resetPassword"}
MCAdminPages == {"login", "accounts"}
MCTwoFactor  == {user}
MCChanges    == {<<user, [admin |-> FALSE, suspended |-> TRUE]>>}
=============================================================================
