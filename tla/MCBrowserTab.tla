----------------------------- MODULE MCBrowserTab -----------------------------
EXTENDS BrowserTab

\* An order of each technician, one of both, one of nobody.
MCTechniciansOf == ("o1" :> {"ana"}) @@ ("o2" :> {"ana", "bia"}) @@ ("o3" :> {})
=============================================================================
