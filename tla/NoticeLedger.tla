---------------------------- MODULE NoticeLedger ----------------------------
(***************************************************************************)
(* What the webhook endpoint promises, without requests, locks or crashes: *)
(* a ledger of notices, each of which is recorded when it first arrives,   *)
(* may fail any number of times and takes effect exactly once.             *)
(***************************************************************************)
EXTENDS Naturals

CONSTANT Keys          \* event keys of the notices

VARIABLES status,      \* what the ledger says of each notice
          applied      \* how many times its effect was committed

vars == <<status, applied>>

Statuses == {"absent", "received", "failed", "processed"}

Init == /\ status = [k \in Keys |-> "absent"]
        /\ applied = [k \in Keys |-> 0]

Record(k) == /\ status[k] = "absent"
             /\ status' = [status EXCEPT ![k] = "received"]
             /\ UNCHANGED applied

Fail(k) == /\ status[k] \in {"received", "failed"}
           /\ status' = [status EXCEPT ![k] = "failed"]
           /\ UNCHANGED applied

Apply(k) == /\ status[k] \in {"received", "failed"}
            /\ status' = [status EXCEPT ![k] = "processed"]
            /\ applied' = [applied EXCEPT ![k] = @ + 1]

Next == \E k \in Keys : Record(k) \/ Fail(k) \/ Apply(k)

Safety == Init /\ [][Next]_vars

\* A notice the gateway keeps delivering is not left failed forever.
Spec == Safety /\ \A k \in Keys : SF_vars(Apply(k)) /\ WF_vars(Record(k))
=============================================================================
