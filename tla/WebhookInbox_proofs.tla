------------------------ MODULE WebhookInbox_proofs ------------------------
(***************************************************************************)
(* For any set of notices and requests and any number of crashes: the      *)
(* types, that a notice takes effect at most once, that a 2xx is answered  *)
(* only for one that has, that its callback is run by the request that has *)
(* committed it or never, and that each step is one of NoticeLedger.       *)
(***************************************************************************)
EXTENDS WebhookInbox, TLAPS

\* A busy request carries a key, and one with a callback is busy.
KeyInv == /\ \A h \in Handlers : pc[h] # "idle" => key[h] \in Keys
          /\ \A h \in due : pc[h] = "committed"

\* Past find_or_create_by! the row exists.
RowInv ==
    \A h \in Handlers :
        pc[h] \in {"found", "locked", "processing"} => event[key[h]] # "absent"

\* Inside the lock the status read is the committed one, and the processor is
\* entered only if that is not "processed".
LockInv ==
    \A h \in Handlers :
        /\ InLock(h) => lock[key[h]] = h /\ seen[h] = event[key[h]]
        /\ pc[h] = "processing" => seen[h] # "processed"

\* What a 2xx will be answered on is already committed.
AnswerInv ==
    \A h \in Handlers :
        /\ pc[h] \in {"found", "locked"} /\ seen[h] = "processed"
                => event[key[h]] = "processed"
        /\ pc[h] = "committed" /\ result[h] = "success"
                => event[key[h]] = "processed"

TypeInv == TypeOK /\ KeyInv

IInv == /\ RowInv
        /\ LockInv
        /\ AnswerInv
        /\ AppliedOnce
        /\ AckedWasApplied

----------------------------------------------------------------------------
\* The types hold at the start, and every busy request has a key.
LEMMA TypeInit == Init => TypeInv
  BY CrashAssumption
     DEF Init, TypeInv, TypeOK, KeyInv, Statuses, Places, ResultValues, Outcomes

\* Every step of a request keeps the types and its key.
LEMMA TypeStep == TypeInv /\ [Next]_vars => TypeInv'
<1> SUFFICES ASSUME TypeInv, [Next]_vars PROVE TypeInv'
  OBVIOUS
<1> USE CrashAssumption
        DEF TypeInv, TypeOK, KeyInv, Statuses, Places, ResultValues, Outcomes, effect, sync
<1>1. ASSUME NEW h \in Handlers, NEW k \in Keys, Deliver(h, k) PROVE TypeInv'
  BY <1>1 DEF Deliver
<1>2. ASSUME NEW h \in Handlers, Insert(h) PROVE TypeInv'
  BY <1>2 DEF Insert
<1>3. ASSUME NEW h \in Handlers, DuplicateBeforeLock(h) PROVE TypeInv'
  BY <1>3 DEF DuplicateBeforeLock, Answer2xx, Leaves
<1>4. ASSUME NEW h \in Handlers, Lock(h) PROVE TypeInv'
  BY <1>4 DEF Lock
<1>5. ASSUME NEW h \in Handlers, DuplicateInLock(h) PROVE TypeInv'
  BY <1>5 DEF DuplicateInLock, Answer2xx, Leaves
<1>6. ASSUME NEW h \in Handlers, NEW o \in Outcomes, Process(h, o)
      PROVE TypeInv'
  BY <1>6 DEF Process
<1>7. ASSUME NEW h \in Handlers, Commit(h) PROVE TypeInv'
  <2>1. CASE result[h] = "success"
    BY <1>7, <2>1 DEF Commit
  <2>2. CASE result[h] # "success"
    BY <1>7, <2>2 DEF Commit
  <2> QED
    BY <2>1, <2>2
<1>8. ASSUME NEW h \in Handlers, RunCallback(h) \/ CallbackRaises(h) PROVE TypeInv'
  <2>1. h \in due /\ key[h] \in Keys
    BY <1>8 DEF RunCallback, CallbackRaises
  <2>2. CASE RunCallback(h)
    BY <2>1, <2>2 DEF RunCallback
  <2>3. CASE CallbackRaises(h)
    BY <2>1, <2>3 DEF CallbackRaises, Leaves
  <2> QED
    BY <1>8, <2>2, <2>3
<1>9. ASSUME NEW h \in Handlers, Respond(h) PROVE TypeInv'
  <2>1. CASE result[h] = "success"
    BY <1>9, <2>1 DEF Respond, Answer2xx, Leaves
  <2>2. CASE result[h] # "success"
    BY <1>9, <2>2 DEF Respond, Leaves
  <2> QED
    BY <2>1, <2>2
<1>10. ASSUME NEW h \in Handlers, Crash(h) PROVE TypeInv'
  BY <1>10 DEF Crash, Leaves, LosesCallback
<1>11. CASE UNCHANGED vars
  BY <1>11 DEF vars
<1> QED
  BY <1>1, <1>2, <1>3, <1>4, <1>5, <1>6, <1>7, <1>8, <1>9, <1>10, <1>11
     DEF Next, Serve

\* Every reachable state of the endpoint has the declared types.
THEOREM TypeCorrect == Spec => []TypeOK
<1>1. Spec => []TypeInv
  BY TypeInit, TypeStep, PTL DEF Spec
<1> QED
  BY <1>1, PTL DEF TypeInv

----------------------------------------------------------------------------
LEMMA InvInit == Init => IInv
  BY DEF Init, IInv, RowInv, LockInv, AnswerInv, AppliedOnce, AckedWasApplied,
         InLock

\* The induction step.  Two requests can be in the lock of the same notice only
\* if they are the same request, so a commit finds what its request has read.
LEMMA InvStep == TypeInv /\ IInv /\ [Next]_vars => IInv'
<1> SUFFICES ASSUME TypeInv, IInv, [Next]_vars PROVE IInv'
  OBVIOUS
<1> USE HandlerAssumption
        DEF TypeInv, TypeOK, KeyInv, IInv, RowInv, LockInv, AnswerInv,
            AppliedOnce, AckedWasApplied, InLock, Places, Statuses, Outcomes, effect, sync
<1>1. ASSUME NEW h \in Handlers, NEW k \in Keys, Deliver(h, k) PROVE IInv'
  BY <1>1 DEF Deliver
<1>2. ASSUME NEW h \in Handlers, Insert(h) PROVE IInv'
  BY <1>2 DEF Insert
<1>3. ASSUME NEW h \in Handlers, DuplicateBeforeLock(h) PROVE IInv'
  BY <1>3 DEF DuplicateBeforeLock, Answer2xx, Leaves
<1>4. ASSUME NEW h \in Handlers, Lock(h) PROVE IInv'
  BY <1>4 DEF Lock
<1>5. ASSUME NEW h \in Handlers, DuplicateInLock(h) PROVE IInv'
  BY <1>5 DEF DuplicateInLock, Answer2xx, Leaves
<1>6. ASSUME NEW h \in Handlers, NEW o \in Outcomes, Process(h, o)
      PROVE IInv'
  BY <1>6 DEF Process
<1>7. ASSUME NEW h \in Handlers, Commit(h) PROVE IInv'
  <2>1. CASE result[h] = "success"
    BY <1>7, <2>1 DEF Commit
  <2>2. CASE result[h] # "success"
    BY <1>7, <2>2 DEF Commit
  <2> QED
    BY <2>1, <2>2
<1>8. ASSUME NEW h \in Handlers, RunCallback(h) \/ CallbackRaises(h) PROVE IInv'
  BY <1>8 DEF RunCallback, CallbackRaises, Leaves
<1>9. ASSUME NEW h \in Handlers, Respond(h) PROVE IInv'
  <2>1. CASE result[h] = "success"
    BY <1>9, <2>1 DEF Respond, Answer2xx, Leaves
  <2>2. CASE result[h] # "success"
    BY <1>9, <2>2 DEF Respond, Leaves
  <2> QED
    BY <2>1, <2>2
<1>10. ASSUME NEW h \in Handlers, Crash(h) PROVE IInv'
  BY <1>10 DEF Crash, Leaves, LosesCallback
<1>11. CASE UNCHANGED vars
  BY <1>11 DEF vars
<1> QED
  BY <1>1, <1>2, <1>3, <1>4, <1>5, <1>6, <1>7, <1>8, <1>9, <1>10, <1>11
     DEF Next, Serve

\* The two invariants together, for the theorems below.
LEMMA Invariants == Spec => [](TypeInv /\ IInv)
<1>1. Init => TypeInv /\ IInv
  BY TypeInit, InvInit
<1>2. (TypeInv /\ IInv) /\ [Next]_vars => (TypeInv /\ IInv)'
  BY TypeStep, InvStep
<1> QED
  BY <1>1, <1>2, PTL DEF Spec

\* A notice's effect is committed at most once, exactly when its row says so.
THEOREM EffectOnce == Spec => []AppliedOnce
<1>1. IInv => AppliedOnce
  BY DEF IInv
<1> QED
  BY Invariants, <1>1, PTL

\* Mercado Pago stops delivering only what has taken effect.
THEOREM AckIsSafe == Spec => []AckedWasApplied
<1>1. IInv => AckedWasApplied
  BY DEF IInv
<1> QED
  BY Invariants, <1>1, PTL

\* Two requests never process the same notice at the same time.
THEOREM ProcessorIsExclusive == Spec => []OneProcessor
<1>1. IInv => OneProcessor
  BY DEF IInv, LockInv, InLock, OneProcessor
<1> QED
  BY Invariants, <1>1, PTL

----------------------------------------------------------------------------
\* Where the callback of a status that is committed is: due to one request, run, or
\* lost, and only one of them.
SyncInv ==
    /\ \A h \in due : key[h] \in changed
    /\ \A g, h \in due : key[g] = key[h] => g = h
    /\ \A k \in changed : k \in synced \/ k \in lost \/ \E h \in due : key[h] = k
    /\ \A k \in synced \cup lost : k \in changed /\ \A h \in due : key[h] # k
    /\ synced \cap lost = {}
    /\ \A k \in Keys : event[k] = "processed" => k \in changed

LEMMA SyncInit == Init => SyncInv
  BY DEF Init, SyncInv

LEMMA SyncStep == TypeInv /\ SyncInv /\ [Next]_vars => SyncInv'
<1> SUFFICES ASSUME TypeInv, SyncInv, [Next]_vars PROVE SyncInv'
  OBVIOUS
<1> USE DEF TypeInv, TypeOK, KeyInv, SyncInv, effect, sync, Outcomes, Places
<1>1. ASSUME NEW h \in Handlers, NEW k \in Keys, Deliver(h, k) PROVE SyncInv'
  BY <1>1 DEF Deliver
<1>2. ASSUME NEW h \in Handlers, Insert(h) PROVE SyncInv'
  BY <1>2 DEF Insert
<1>3. ASSUME NEW h \in Handlers, DuplicateBeforeLock(h) PROVE SyncInv'
  BY <1>3 DEF DuplicateBeforeLock, Answer2xx, Leaves
<1>4. ASSUME NEW h \in Handlers, Lock(h) PROVE SyncInv'
  BY <1>4 DEF Lock
<1>5. ASSUME NEW h \in Handlers, DuplicateInLock(h) PROVE SyncInv'
  BY <1>5 DEF DuplicateInLock, Answer2xx, Leaves
<1>6. ASSUME NEW h \in Handlers, NEW o \in Outcomes, Process(h, o) PROVE SyncInv'
  BY <1>6 DEF Process
<1>7. ASSUME NEW h \in Handlers, Commit(h) PROVE SyncInv'
  <2> DEFINE k == key[h]
  <2>1. k \in Keys /\ h \notin due /\ UNCHANGED <<key, synced, lost>>
    BY <1>7 DEF Commit
  <2>2. pc' = [pc EXCEPT ![h] = "committed"]
    BY <1>7 DEF Commit
  <2>3. event' = [event EXCEPT ![k] =
                    IF result[h] = "success" THEN "processed" ELSE "failed"]
    BY <1>7 DEF Commit
  <2>4. CASE result[h] = "failure" \/ k \in changed
    <3>1. UNCHANGED <<changed, due>>
      BY <1>7, <2>4 DEF Commit
    <3> QED
      BY <2>1, <2>2, <2>3, <2>4, <3>1
  <2>5. CASE ~(result[h] = "failure" \/ k \in changed)
    <3>1. changed' = changed \cup {k} /\ due' = due \cup {h}
      BY <1>7, <2>5 DEF Commit
    <3> QED
      BY <2>1, <2>2, <2>3, <2>5, <3>1
  <2> QED
    BY <2>4, <2>5
<1>8. ASSUME NEW h \in Handlers, RunCallback(h) PROVE SyncInv'
  BY <1>8 DEF RunCallback
<1>9. ASSUME NEW h \in Handlers, CallbackRaises(h) PROVE SyncInv'
  BY <1>9 DEF CallbackRaises, Leaves
<1>10. ASSUME NEW h \in Handlers, Respond(h) PROVE SyncInv'
  <2>1. h \notin due /\ Leaves(h) /\ UNCHANGED <<event, changed, due, synced, lost>>
    BY <1>10 DEF Respond, Answer2xx
  <2> QED
    BY <2>1 DEF Leaves
<1>11. ASSUME NEW h \in Handlers, Crash(h) PROVE SyncInv'
  BY <1>11 DEF Crash, Leaves, LosesCallback
<1>12. CASE UNCHANGED vars
  BY <1>12 DEF vars
<1> QED
  BY <1>1, <1>2, <1>3, <1>4, <1>5, <1>6, <1>7, <1>8, <1>9, <1>10, <1>11, <1>12
     DEF Next, Serve

\* A processed notice whose company is not synchronized has its own request on the
\* way to the callback, or the callback raised or died with it; no other delivery,
\* crash or callback is to blame, and none makes up for it.
THEOREM SyncGapIsOwnCallback == Spec => []SyncedOrLost
<1>1. Init => TypeInv /\ SyncInv
  BY TypeInit, SyncInit
<1>2. (TypeInv /\ SyncInv) /\ [Next]_vars => (TypeInv /\ SyncInv)'
  BY TypeStep, SyncStep
<1>3. SyncInv => SyncedOrLost
  BY DEF SyncInv, SyncedOrLost
<1> QED
  BY <1>1, <1>2, <1>3, PTL DEF Spec

----------------------------------------------------------------------------
\* Each step of a request is one entry of the ledger, or none.
LEMMA LedgerStep == TypeInv /\ IInv /\ [Next]_vars => [Ledger!Next]_Ledger!vars
<1> SUFFICES ASSUME TypeInv, IInv, [Next]_vars PROVE [Ledger!Next]_Ledger!vars
  OBVIOUS
<1> USE DEF TypeInv, TypeOK, KeyInv, Statuses, effect, Ledger!Next, Ledger!vars
<1>1. ASSUME NEW h \in Handlers, Insert(h) PROVE [Ledger!Next]_Ledger!vars
  <2>1. CASE event[key[h]] = "absent"
    <3>1. key[h] \in Keys /\ Ledger!Record(key[h])
      BY <1>1, <2>1 DEF Insert, Ledger!Record
    <3> QED
      BY <3>1
  <2>2. CASE event[key[h]] # "absent"
    BY <1>1, <2>2 DEF Insert
  <2> QED
    BY <2>1, <2>2
<1>2. ASSUME NEW h \in Handlers, Commit(h) PROVE [Ledger!Next]_Ledger!vars
  <2>1. key[h] \in Keys /\ event[key[h]] \in {"received", "failed"}
    BY <1>2 DEF Commit, IInv, RowInv, LockInv, InLock
  <2>2. CASE result[h] = "success"
    <3>1. Ledger!Apply(key[h])
      BY <1>2, <2>1, <2>2 DEF Commit, Ledger!Apply
    <3> QED
      BY <2>1, <3>1
  <2>3. CASE result[h] # "success"
    <3>1. Ledger!Fail(key[h])
      BY <1>2, <2>1, <2>3 DEF Commit, Ledger!Fail
    <3> QED
      BY <2>1, <3>1
  <2> QED
    BY <2>2, <2>3
<1>3. UNCHANGED <<event, applied>> => [Ledger!Next]_Ledger!vars
  OBVIOUS
<1> QED
  BY <1>1, <1>2, <1>3
     DEF Next, Serve, Deliver, DuplicateBeforeLock, Lock, DuplicateInLock,
         Process, RunCallback, CallbackRaises, Respond, Crash, vars, effect

\* The endpoint implements the ledger (its safety; the fairness is checked by
\* the run that checks ImplementsLedger).
THEOREM EndpointIsLedger == Spec => Ledger!Safety
<1>1. Init => Ledger!Init
  BY DEF Init, Ledger!Init
<1> QED
  BY <1>1, Invariants, LedgerStep, PTL DEF Spec, Ledger!Safety
=============================================================================
