------------------------- MODULE MCAppRuntimeCache -------------------------
(* A small instance of AppRuntimeCache: two apps, the second a child of    *)
(* the first.                                                              *)
EXTENDS AppRuntimeCache, TLC

CONSTANTS base, child, t1, t2, t3

MCApps         == {base, child}
MCThreads      == {t1, t2, t3}
MCChildOfBase  == (base :> NoApp) @@ (child :> base)
MCReaders      == {t1, t2}
MCResetter     == {t3}
=============================================================================
