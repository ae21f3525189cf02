------------------------------- MODULE OpenPage -------------------------------
(***************************************************************************)
(* The page open in a browser tab.  Every navigation of this application   *)
(* is a full page load: a page starts from its HTML, and its scripts, its  *)
(* timers and the answers it awaits end with it.                           *)
(***************************************************************************)
VARIABLE page   \* a record; its field kind says which page it is

Showing(kind) == page.kind = kind
=============================================================================
