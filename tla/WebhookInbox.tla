---------------------------- MODULE WebhookInbox ----------------------------
(***************************************************************************)
(* POST /webhook of WebHook::MercadoPagoController: concurrent requests,   *)
(* possibly carrying the same notice, record it in webhook_events (unique  *)
(* index on the event key), take the row lock, look at the status again,   *)
(* run the processor and commit, all while requests die half way and       *)
(* Mercado Pago delivers until it sees a 2xx, and sometimes after it.      *)
(*                                                                         *)
(* A step is one SQL statement, commit or call the others can observe.     *)
(* What a transaction has written is visible from its commit on, so the    *)
(* status "processing" and what the processor saved are not in event,      *)
(* changed and applied before Commit.  The notices are those that change   *)
(* the status of a subscription; the after_commit callback that follows    *)
(* runs in the same request, or is lost.                                   *)
(***************************************************************************)
EXTENDS Naturals

CONSTANTS Keys,       \* event keys: x-request-id, or the fallback of the payload
          Handlers,   \* requests served at a time
          NoKey, NoHandler,
          MaxCrashes  \* requests that die (a deploy, a killed process)

ASSUME KeyAssumption == NoKey \notin Keys
ASSUME HandlerAssumption == NoHandler \notin Handlers
ASSUME CrashAssumption == MaxCrashes \in Nat

VARIABLES
    event,     \* committed status of the row of each key; "absent": no row
    lock,      \* the request that holds the row lock of each key
    pc,        \* where each request is
    key,       \* the key it carries
    seen,      \* the status it has read last
    result,    \* what its processor returned
    applied,   \* complete effects of the processor committed, per key
    changed,   \* keys for which the new subscriptions.status is committed
    due,       \* requests whose after_commit callback has not run yet
    synced,    \* keys whose callback has run
    lost,      \* history: keys whose callback has raised, or whose request
               \* died before it
    acked,     \* keys some request was answered 2xx for
    crashes

vars == <<event, lock, pc, key, seen, result, applied, changed, due, synced, lost,
          acked, crashes>>
effect == <<applied, changed>>
sync == <<due, synced, lost>>

Statuses == {"absent", "received", "failed", "processed"}
Places == {"idle", "inserting", "found", "locked", "processing", "committed"}
Outcomes == {"success", "failure", "partial"}
ResultValues == Outcomes \cup {"none"}

\* The places where a request is inside event.with_lock.
InLock(h) == pc[h] \in {"locked", "processing"}

Init ==
    /\ event = [k \in Keys |-> "absent"]
    /\ lock = [k \in Keys |-> NoHandler]
    /\ pc = [h \in Handlers |-> "idle"]
    /\ key = [h \in Handlers |-> NoKey]
    /\ seen = [h \in Handlers |-> "absent"]
    /\ result = [h \in Handlers |-> "none"]
    /\ applied = [k \in Keys |-> 0]
    /\ changed = {}
    /\ due = {}
    /\ synced = {}
    /\ lost = {}
    /\ acked = {}
    /\ crashes = 0

----------------------------------------------------------------------------
\* The request ends and its thread is free again.
Leaves(h) ==
    /\ pc' = [pc EXCEPT ![h] = "idle"]
    /\ key' = [key EXCEPT ![h] = NoKey]
    /\ seen' = [seen EXCEPT ![h] = "absent"]
    /\ result' = [result EXCEPT ![h] = "none"]

Answer2xx(h) ==
    /\ Leaves(h)
    /\ acked' = acked \cup {key[h]}

\* find_or_create_by!: the SELECT.
Deliver(h, k) ==
    /\ pc[h] = "idle"
    /\ pc' = [pc EXCEPT ![h] = IF event[k] = "absent" THEN "inserting" ELSE "found"]
    /\ key' = [key EXCEPT ![h] = k]
    /\ seen' = [seen EXCEPT ![h] = event[k]]
    /\ UNCHANGED <<event, lock, result, effect, sync, acked, crashes>>

\* (A definition named ..._mutant is a wrong variant of the one that follows it:
\* nothing uses it, it shows which properties notice it.)
Insert_mutant(h) ==              \* an upsert
    /\ pc[h] = "inserting"
    /\ event' = [event EXCEPT ![key[h]] = "received"]
    /\ seen' = [seen EXCEPT ![h] = "received"]
    /\ pc' = [pc EXCEPT ![h] = "found"]
    /\ UNCHANGED <<lock, key, result, effect, sync, acked, crashes>>

Insert_status_mutant(h) ==       \* commits "processing" outside the lock
    /\ pc[h] = "inserting"
    /\ event' = [event EXCEPT ![key[h]] = "processing"]
    /\ seen' = [seen EXCEPT ![h] = "processing"]
    /\ pc' = [pc EXCEPT ![h] = "found"]
    /\ UNCHANGED <<lock, key, result, effect, sync, acked, crashes>>

\* ... and the INSERT, or the row another request has inserted since
\* (RecordNotUnique is rescued by a find_by!).
Insert(h) ==
    LET status == IF event[key[h]] = "absent" THEN "received" ELSE event[key[h]]
    IN  /\ pc[h] = "inserting"
        /\ event' = [event EXCEPT ![key[h]] = status]
        /\ seen' = [seen EXCEPT ![h] = status]
        /\ pc' = [pc EXCEPT ![h] = "found"]
        /\ UNCHANGED <<lock, key, result, effect, sync, acked, crashes>>

\* 204 without touching the row.
DuplicateBeforeLock(h) ==
    /\ pc[h] = "found"
    /\ seen[h] = "processed"
    /\ Answer2xx(h)
    /\ UNCHANGED <<event, lock, effect, sync, crashes>>

Lock_stale_mutant(h) ==          \* no reload under the lock
    /\ pc[h] = "found"
    /\ seen[h] # "processed"
    /\ lock[key[h]] = NoHandler
    /\ lock' = [lock EXCEPT ![key[h]] = h]
    /\ pc' = [pc EXCEPT ![h] = "locked"]
    /\ UNCHANGED <<event, key, seen, result, effect, sync, acked, crashes>>

Lock_plain_mutant(h) ==          \* a plain SELECT
    /\ pc[h] = "found"
    /\ seen[h] # "processed"
    /\ seen' = [seen EXCEPT ![h] = event[key[h]]]
    /\ pc' = [pc EXCEPT ![h] = "locked"]
    /\ UNCHANGED <<event, lock, key, result, effect, sync, acked, crashes>>

\* SELECT ... FOR UPDATE waits for the lock and reads the committed row.
Lock(h) ==
    /\ pc[h] = "found"
    /\ seen[h] # "processed"
    /\ lock[key[h]] = NoHandler
    /\ lock' = [lock EXCEPT ![key[h]] = h]
    /\ seen' = [seen EXCEPT ![h] = event[key[h]]]
    /\ pc' = [pc EXCEPT ![h] = "locked"]
    /\ UNCHANGED <<event, key, result, effect, sync, acked, crashes>>

DuplicateInLock(h) ==
    /\ pc[h] = "locked"
    /\ seen[h] = "processed"
    /\ lock' = [lock EXCEPT ![key[h]] = NoHandler]
    /\ Answer2xx(h)
    /\ UNCHANGED <<event, effect, sync, crashes>>

\* update!(status: "processing") and MercadoPago::WebhookProcessor#call, which
\* rescues every StandardError into a failure.  A "partial" one has saved the
\* subscription before it failed: the transaction is not rolled back.
Process(h, outcome) ==
    /\ pc[h] = "locked"
    /\ seen[h] # "processed"
    /\ pc' = [pc EXCEPT ![h] = "processing"]
    /\ result' = [result EXCEPT ![h] = outcome]
    /\ UNCHANGED <<event, lock, key, seen, effect, sync, acked, crashes>>

\* update!(status: "processed" or "failed") and the end of the transaction.  The
\* callback is due to the request that has changed subscriptions.status.
Commit(h) ==
    LET k == key[h]
    IN  /\ pc[h] = "processing"
        /\ event' = [event EXCEPT ![k] =
                        IF result[h] = "success" THEN "processed" ELSE "failed"]
        /\ applied' = [applied EXCEPT ![k] = IF result[h] = "success" THEN @ + 1 ELSE @]
        /\ IF result[h] = "failure" \/ k \in changed THEN UNCHANGED <<changed, due>>
           ELSE changed' = changed \cup {k} /\ due' = due \cup {h}
        /\ lock' = [lock EXCEPT ![k] = NoHandler]
        /\ pc' = [pc EXCEPT ![h] = "committed"]
        /\ UNCHANGED <<key, seen, result, synced, lost, acked, crashes>>

\* sync_company_access of the subscription the processor has saved.
RunCallback_mutant(h) ==         \* forgets to call it after a failed notice
    /\ h \in due
    /\ due' = due \ {h}
    /\ synced' = IF result[h] = "success" THEN synced \cup {key[h]} ELSE synced
    /\ UNCHANGED <<event, lock, pc, key, seen, result, effect, lost, acked, crashes>>

RunCallback(h) ==
    /\ h \in due
    /\ due' = due \ {h}
    /\ synced' = synced \cup {key[h]}
    /\ UNCHANGED <<event, lock, pc, key, seen, result, effect, lost, acked, crashes>>

\* company.update! raises RecordInvalid: 422, whatever the processor returned.
CallbackRaises(h) ==
    /\ h \in due
    /\ due' = due \ {h}
    /\ lost' = lost \cup {key[h]}
    /\ Leaves(h)
    /\ UNCHANGED <<event, lock, effect, synced, acked, crashes>>

Respond_ok_mutant(h) ==          \* 200 whatever the processor returned
    /\ pc[h] = "committed"
    /\ h \notin due
    /\ Answer2xx(h)
    /\ UNCHANGED <<event, lock, effect, sync, crashes>>

\* 200, or 422 after which Mercado Pago delivers again.
Respond(h) ==
    /\ pc[h] = "committed"
    /\ h \notin due
    /\ IF result[h] = "success" THEN Answer2xx(h) ELSE Leaves(h) /\ UNCHANGED acked
    /\ UNCHANGED <<event, lock, effect, sync, crashes>>

\* The callback dies with its request.
LosesCallback(h) ==
    /\ due' = due \ {h}
    /\ lost' = IF h \in due THEN lost \cup {key[h]} ELSE lost
    /\ UNCHANGED synced

Crash_mutant(h) ==               \* the lock outlives the connection
    /\ pc[h] # "idle"
    /\ crashes < MaxCrashes
    /\ crashes' = crashes + 1
    /\ Leaves(h)
    /\ LosesCallback(h)
    /\ UNCHANGED <<event, lock, effect, acked>>

\* The connection drops: the open transaction is rolled back, the lock freed.
Crash(h) ==
    /\ pc[h] # "idle"
    /\ crashes < MaxCrashes
    /\ crashes' = crashes + 1
    /\ lock' = [k \in Keys |-> IF lock[k] = h THEN NoHandler ELSE lock[k]]
    /\ Leaves(h)
    /\ LosesCallback(h)
    /\ UNCHANGED <<event, effect, acked>>

Serve(h) == \/ Insert(h) \/ DuplicateBeforeLock(h) \/ Lock(h) \/ DuplicateInLock(h)
            \/ \E outcome \in Outcomes : Process(h, outcome)
            \/ Commit(h) \/ RunCallback(h) \/ CallbackRaises(h) \/ Respond(h)

Next == \E h \in Handlers : \/ \E k \in Keys : Deliver(h, k)
                            \/ Serve(h)
                            \/ Crash(h)

Spec == Init /\ [][Next]_vars

\* Every request runs to its end.  Mercado Pago delivers a notice again until a
\* 2xx, and there is a thread for it time and again.  The gateway's API and the
\* database do not fail forever on the same notice.
Redeliver(k) == k \notin acked /\ \E h \in Handlers : Deliver(h, k)
Succeed(k) == \E h \in Handlers : key[h] = k /\ Process(h, "success")

Fairness ==
    /\ \A h \in Handlers : WF_vars(Serve(h))
    /\ \A k \in Keys : SF_vars(Redeliver(k)) /\ SF_vars(Succeed(k))
    /\ \A h \in Handlers : SF_vars(Lock(h))

FairSpec == Spec /\ Fairness

----------------------------------------------------------------------------
(* Properties *)

\* The type of every variable.
TypeOK ==
    /\ event \in [Keys -> Statuses]
    /\ lock \in [Keys -> Handlers \cup {NoHandler}]
    /\ pc \in [Handlers -> Places]
    /\ key \in [Handlers -> Keys \cup {NoKey}]
    /\ seen \in [Handlers -> Statuses]
    /\ result \in [Handlers -> ResultValues]
    /\ applied \in [Keys -> Nat]
    /\ changed \subseteq Keys
    /\ due \subseteq Handlers
    /\ synced \subseteq Keys
    /\ lost \subseteq Keys
    /\ acked \subseteq Keys
    /\ crashes \in 0 .. MaxCrashes

\* The complete effect of a notice is committed at most once, and exactly when its
\* row says processed, whatever the duplicates, interleavings and crashes.  (What a
\* failed notice has saved by then is committed as well: changed.)
AppliedOnce ==
    \A k \in Keys : applied[k] = IF event[k] = "processed" THEN 1 ELSE 0

\* A 2xx is answered only for a notice that has taken effect: the gateway never
\* stops delivering one that has not.
AckedWasApplied == \A k \in acked : applied[k] > 0

\* The processor runs for one request at a time per notice.
OneProcessor ==
    \A g, h \in Handlers : /\ g # h
                           /\ pc[g] = "processing" /\ pc[h] = "processing"
                           => key[g] # key[h]

\* The callback after a status is run by the request that has committed it, or never:
\* a processed notice whose company is not synchronized is on its way to the callback,
\* or its own callback has raised or died with its request, and then no later
\* delivery makes up for it.
SyncedOrLost ==
    /\ \A k \in Keys : event[k] = "processed" =>
          k \in synced \/ k \in lost \/ \E h \in due : key[h] = k
    /\ \A k \in lost : k \notin synced /\ \A h \in due : key[h] # k

\* Every notice takes effect in the end and is acknowledged.
EventuallyAcked == \A k \in Keys : <>(k \in acked)

\* The endpoint is the ledger.
Ledger == INSTANCE NoticeLedger WITH status <- event, applied <- applied
ImplementsLedger == Ledger!Spec

=============================================================================
