--------------------------- MODULE Onboarding_proofs ---------------------------
(***************************************************************************)
(* For any set of steps, any tour and any number of requests: a user who   *)
(* has done every step has finished; until two requests about steps        *)
(* overlap a step that is done stays done, and, if none is lost either,    *)
(* the row tells the step marked or shown last.                            *)
(***************************************************************************)
EXTENDS Onboarding, TLAPS

USE DEF history

Fields == {"done", "last_seen", "dismissed", "finished"}
Ops == {"complete_step", "set_last_seen", "dismiss", "resume"}
By == Starters \cup {"start", "dismiss", "nobody"}

RowOK ==
    progress \in [done : SUBSET STEP_KEYS, last_seen : STEP_KEYS \cup {NoStep},
                  dismissed : BOOLEAN, finished : BOOLEAN]

SentOK(c) ==
    /\ c.at = "sent"
    /\ c = [at |-> "sent", op |-> c.op, step |-> c.step, by |-> c.by]
    /\ c.op \in Ops /\ c.by \in By
    /\ AboutStep(c.op) => c.step \in STEP_KEYS

\* What a request that has loaded the row will write: the whole set of steps only
\* if it finishes them too, or found them finished; and no step unless it is a
\* complete_step.
WritesOK(w, op) ==
    /\ w = [a \in DOMAIN w |-> w[a]]
    /\ DOMAIN w \subseteq Fields
    /\ "done" \in DOMAIN w =>
         /\ op = "complete_step"
         /\ w["done"] \subseteq STEP_KEYS
         /\ w["done"] = STEP_KEYS => "finished" \in DOMAIN w \/ progress.finished
    /\ "last_seen" \in DOMAIN w => w["last_seen"] \in STEP_KEYS
    /\ "dismissed" \in DOMAIN w => w["dismissed"] \in BOOLEAN
    /\ "finished" \in DOMAIN w => w["finished"] = TRUE

LoadedOK(c) ==
    /\ c.at = "loaded"
    /\ c = [at |-> "loaded", op |-> c.op, by |-> c.by, writes |-> c.writes]
    /\ c.op \in Ops /\ c.by \in By
    /\ WritesOK(c.writes, c.op)

CallOK(c) == c = Free \/ SentOK(c) \/ LoadedOK(c)

CallsOK == calls = [s \in Slots |-> calls[s]] /\ \A s \in Slots : CallOK(calls[s])

FinishInv == RowOK /\ CallsOK /\ FinishedWithLastStep

\* Until requests overlap one at most is about a step, and it has loaded every
\* step that is done.
OneAtATime ==
    ~overlapped =>
        /\ \A s, r \in Slots :
             /\ calls[s] # Free /\ AboutStep(calls[s].op)
             /\ calls[r] # Free /\ AboutStep(calls[r].op)
             => s = r
        /\ \A s \in Slots :
             calls[s].at = "loaded" /\ "done" \in DOMAIN calls[s].writes
               => progress.done \subseteq calls[s].writes["done"]

StickInv == FinishInv /\ OneAtATime

\* The page that can be: a tour resumes at one of its stops, 0 is for no answer.
TourStates == {"off", "resuming", "fetching", "fetched", "running"}
Pages ==
    [welcome : {"shown", "hidden", "busy", "closing"}, resume_url : BOOLEAN,
     tours : [Starters -> [at : TourStates, index : 0 .. N]], persistable : BOOLEAN]
PageOK == page \in Pages

IInv == StickInv /\ PageOK

----------------------------------------------------------------------------
\* The first state of a request.
LEMMA NewCallOK ==
    ASSUME NEW op \in Ops, NEW step, NEW by \in By, AboutStep(op) => step \in STEP_KEYS
    PROVE  /\ SentOK(NewCall(op, step, by))
           /\ NewCall(op, step, by).at = "sent" /\ NewCall(op, step, by).op = op
  BY DEF NewCall, SentOK

\* A call in flight tells its state.
LEMMA CallStates ==
    ASSUME NEW c, CallOK(c)
    PROVE  /\ c = Free => c.at = "free"
           /\ c # Free => /\ c.op \in Ops /\ c.by \in By
                          /\ \/ SentOK(c) /\ c.at = "sent"
                             \/ LoadedOK(c) /\ c.at = "loaded"
<1>1. c = Free => c.at = "free"
  BY DEF Free
<1>2. SentOK(c) => c.op \in Ops /\ c.by \in By /\ c.at = "sent"
  BY DEF SentOK
<1>3. LoadedOK(c) => c.op \in Ops /\ c.by \in By /\ c.at = "loaded"
  BY DEF LoadedOK
<1> QED
  BY <1>1, <1>2, <1>3 DEF CallOK

\* A request that is sent.
LEMMA SendKeeps ==
    ASSUME StickInv, NEW op \in Ops, NEW step, NEW by \in By,
           AboutStep(op) => step \in STEP_KEYS,
           Send(op, step, by), UNCHANGED progress
    PROVE  StickInv'
<1> DEFINE new == NewCall(op, step, by)
<1>1. SentOK(new) /\ new.at = "sent" /\ new.op = op
  BY NewCallOK
<1>2. calls' = [calls EXCEPT ![FreeSlot] = new]
  BY DEF Send
<1> HIDE DEF new
<1>3. /\ calls' = [s \in Slots |-> calls'[s]]
      /\ \A s \in Slots : calls'[s] = calls[s] \/ (s = FreeSlot /\ calls'[s] = new)
  <2>1. DOMAIN calls = Slots
    BY DEF StickInv, FinishInv, CallsOK
  <2>2. calls' = [s \in Slots |-> IF s = FreeSlot THEN new ELSE calls[s]]
    BY <1>2, <2>1
  <2> QED
    BY <2>2
<1>4. FinishInv'
  <2>1. \A s \in Slots : CallOK(calls[s])'
    <3> SUFFICES ASSUME NEW s \in Slots PROVE CallOK(calls[s])'
      OBVIOUS
    <3>1. CallOK(calls[s]) /\ CallOK(new)
      BY <1>1 DEF StickInv, FinishInv, CallsOK, CallOK
    <3> QED
      BY <1>3, <3>1 DEF CallOK, SentOK, LoadedOK, WritesOK
  <2> QED
    BY <1>3, <2>1 DEF StickInv, FinishInv, CallsOK, RowOK, FinishedWithLastStep
<1>5. OneAtATime'
  <2> SUFFICES ASSUME ~overlapped' PROVE OneAtATime'
    BY DEF OneAtATime
  <2>1. ~overlapped /\ (AboutStep(op) => ~StepCallInFlight)
    BY DEF Send
  <2>2. ASSUME NEW s \in Slots, NEW r \in Slots,
               calls'[s] # Free, AboutStep(calls'[s].op),
               calls'[r] # Free, AboutStep(calls'[r].op)
        PROVE  s = r
    BY <1>1, <1>3, <2>1, <2>2 DEF StickInv, OneAtATime, StepCallInFlight
  <2>3. ASSUME NEW s \in Slots, calls'[s].at = "loaded", "done" \in DOMAIN calls'[s].writes
        PROVE  progress'.done \subseteq calls'[s].writes["done"]
    BY <1>1, <1>3, <2>1, <2>3 DEF StickInv, OneAtATime
  <2> QED
    BY <2>2, <2>3 DEF OneAtATime
<1> QED
  BY <1>4, <1>5 DEF StickInv

\* What the model's methods make of a row.
LEMMA ChangedOK ==
    ASSUME RowOK, NEW op \in Ops, NEW step, AboutStep(op) => step \in STEP_KEYS
    PROVE  LET new == Changed(op, step, progress)
           IN  /\ DOMAIN new = Fields
               /\ new["done"] = IF op = "complete_step" THEN progress.done \cup {step}
                                                        ELSE progress.done
               /\ new["last_seen"] = IF AboutStep(op) THEN step ELSE progress.last_seen
               /\ new["dismissed"] \in BOOLEAN
               /\ new["finished"] \in BOOLEAN
               /\ new["finished"] <=> \/ progress.finished
                                      \/ op = "complete_step" /\ new["done"] = STEP_KEYS
<1>1. /\ progress.done \subseteq STEP_KEYS /\ progress.dismissed \in BOOLEAN
      /\ progress.finished \in BOOLEAN
      /\ progress = [done |-> progress.done, last_seen |-> progress.last_seen,
                     dismissed |-> progress.dismissed, finished |-> progress.finished]
  BY DEF RowOK
<1>2. CASE op = "complete_step"
  <2>1. Changed(op, step, progress) =
          [done |-> progress.done \cup {step}, last_seen |-> step,
           dismissed |-> progress.dismissed,
           finished |-> progress.finished \/ progress.done \cup {step} = STEP_KEYS]
    BY <1>1, <1>2 DEF Changed, complete_step
  <2> DEFINE new == Changed(op, step, progress)
  <2>2. /\ DOMAIN new = Fields
        /\ new["done"] = progress.done \cup {step} /\ new["last_seen"] = step
        /\ new["dismissed"] = progress.dismissed
    BY <2>1 DEF Fields
  <2>3. new["finished"] = (progress.finished \/ progress.done \cup {step} = STEP_KEYS)
    BY <2>1
  <2> QED
    BY <1>1, <1>2, <2>2, <2>3 DEF AboutStep
<1>3. CASE op = "set_last_seen"
  <2>1. Changed(op, step, progress) = [done |-> progress.done, last_seen |-> step,
           dismissed |-> progress.dismissed, finished |-> progress.finished]
    BY <1>1, <1>3 DEF Changed, set_last_seen_step
  <2> QED
    BY <1>1, <1>3, <2>1 DEF Fields, AboutStep
<1>4. CASE op = "dismiss" \/ op = "resume"
  <2>1. Changed(op, step, progress) =
          [done |-> progress.done, last_seen |-> progress.last_seen,
           dismissed |-> (op = "dismiss"), finished |-> progress.finished]
    BY <1>1, <1>4 DEF Changed
  <2> QED
    BY <1>1, <1>4, <2>1 DEF Fields, AboutStep
<1> QED
  BY <1>2, <1>3, <1>4 DEF Ops

\* A request that loads the row.
LEMMA LoadKeeps == ASSUME StickInv, NEW s \in Slots, LoadRow(s) PROVE StickInv'
<1> DEFINE c == calls[s]
           new == Changed(c.op, c.step, progress)
           writes == {a \in DOMAIN new : \/ new[a] # progress[a]
                                         \/ a = "dismissed" /\ c.op = "dismiss"}
           w == Restrict(new, writes)
           loaded == [at |-> "loaded", op |-> c.op, by |-> c.by, writes |-> w]
<1>1. /\ calls' = [calls EXCEPT ![s] = loaded]
      /\ UNCHANGED <<progress, overlapped>>
      /\ c.at = "sent"
  BY DEF LoadRow
<1>2. RowOK /\ CallOK(c) /\ c # Free /\ DOMAIN calls = Slots
  BY <1>1 DEF StickInv, FinishInv, CallsOK, Free
<1>3. c.op \in Ops /\ (AboutStep(c.op) => c.step \in STEP_KEYS) /\ c.by \in By
  BY <1>1, <1>2, CallStates DEF SentOK
<1>4. /\ DOMAIN new = Fields
      /\ new["done"] = IF c.op = "complete_step" THEN progress.done \cup {c.step}
                                               ELSE progress.done
      /\ new["last_seen"] = IF AboutStep(c.op) THEN c.step ELSE progress.last_seen
      /\ new["dismissed"] \in BOOLEAN
      /\ new["finished"] \in BOOLEAN
      /\ new["finished"] <=> \/ progress.finished
                             \/ c.op = "complete_step" /\ new["done"] = STEP_KEYS
  BY <1>2, <1>3, ChangedOK
<1> HIDE DEF new
<1>5. /\ w = [a \in DOMAIN w |-> w[a]] /\ DOMAIN w = writes
      /\ \A a \in writes : w[a] = new[a]
  BY DEF Restrict
<1>6. /\ writes \subseteq Fields
      /\ \A a \in Fields \ {"dismissed"} : a \in writes <=> new[a] # progress[a]
  BY <1>4
<1> HIDE DEF writes, w
<1>7. progress.finished \in BOOLEAN /\ progress.done \subseteq STEP_KEYS
  BY <1>2 DEF RowOK
<1>8. WritesOK(w, c.op)
  <2>1. "done" \in writes =>
          /\ c.op = "complete_step"
          /\ w["done"] \subseteq STEP_KEYS
          /\ w["done"] = STEP_KEYS => "finished" \in writes \/ progress.finished
    <3>1. "done" \in writes => c.op = "complete_step" /\ w["done"] = new["done"]
      BY <1>4, <1>5, <1>6 DEF Fields
    <3>2. c.op = "complete_step" => new["done"] \subseteq STEP_KEYS
      BY <1>3, <1>4, <1>7 DEF AboutStep
    <3>3. c.op = "complete_step" /\ new["done"] = STEP_KEYS /\ ~progress.finished
            => "finished" \in writes
      BY <1>4, <1>6, <1>7 DEF Fields
    <3> QED
      BY <3>1, <3>2, <3>3
  <2>2. "last_seen" \in writes => w["last_seen"] \in STEP_KEYS
    BY <1>3, <1>4, <1>5, <1>6 DEF Fields
  <2>3. "dismissed" \in writes => w["dismissed"] \in BOOLEAN
    BY <1>4, <1>5
  <2>4. "finished" \in writes => w["finished"] = TRUE
    BY <1>4, <1>5, <1>6, <1>7 DEF Fields
  <2> QED
    BY <1>5, <1>6, <2>1, <2>2, <2>3, <2>4 DEF WritesOK
<1>9. LoadedOK(loaded) /\ loaded # Free /\ loaded.op = c.op
  BY <1>3, <1>8 DEF LoadedOK, Free
<1>10. "done" \in DOMAIN loaded.writes => progress.done \subseteq loaded.writes["done"]
  BY <1>4, <1>5
<1> HIDE DEF loaded
<1>11. /\ calls' = [r \in Slots |-> calls'[r]]
       /\ calls'[s] = loaded /\ \A r \in Slots \ {s} : calls'[r] = calls[r]
  <2>1. calls' = [r \in Slots |-> IF r = s THEN loaded ELSE calls[r]]
    BY <1>1, <1>2
  <2> QED
    BY <2>1
<1>12. FinishInv'
  <2>1. \A r \in Slots : CallOK(calls[r])'
    <3> SUFFICES ASSUME NEW r \in Slots PROVE CallOK(calls[r])'
      OBVIOUS
    <3>1. CallOK(calls[r]) /\ CallOK(loaded)
      BY <1>9 DEF StickInv, FinishInv, CallsOK, CallOK
    <3> QED
      BY <1>1, <1>11, <3>1 DEF CallOK, SentOK, LoadedOK, WritesOK
  <2> QED
    BY <1>1, <1>11, <2>1 DEF StickInv, FinishInv, CallsOK, RowOK, FinishedWithLastStep
<1>13. OneAtATime'
  <2> SUFFICES ASSUME ~overlapped PROVE OneAtATime'
    BY <1>1 DEF OneAtATime
  <2>1. ASSUME NEW q \in Slots, NEW r \in Slots,
               calls'[q] # Free, AboutStep(calls'[q].op),
               calls'[r] # Free, AboutStep(calls'[r].op)
        PROVE  q = r
    BY <1>2, <1>9, <1>11, <2>1 DEF StickInv, OneAtATime
  <2>2. ASSUME NEW r \in Slots, calls'[r].at = "loaded", "done" \in DOMAIN calls'[r].writes
        PROVE  progress'.done \subseteq calls'[r].writes["done"]
    BY <1>1, <1>10, <1>11, <2>2 DEF StickInv, OneAtATime
  <2> QED
    BY <1>1, <2>1, <2>2 DEF OneAtATime
<1> QED
  BY <1>12, <1>13 DEF StickInv

\* A request that saves: the columns it writes, over the row of the moment.
LEMMA SaveKeeps ==
    ASSUME StickInv, NEW s \in Slots, SaveRow(s)
    PROVE  StickInv' /\ (overlapped \/ progress.done \subseteq progress'.done)
<1> DEFINE c == calls[s]
           w == c.writes
<1>1. /\ c.at = "loaded" /\ progress' = updated(progress, w)
      /\ calls' = [calls EXCEPT ![s] = Free] /\ UNCHANGED overlapped
  BY DEF SaveRow
<1>2. RowOK /\ CallOK(c) /\ c # Free /\ DOMAIN calls = Slots
  BY <1>1 DEF StickInv, FinishInv, CallsOK, Free
<1>3. WritesOK(w, c.op)
  BY <1>1, <1>2, CallStates DEF LoadedOK
<1>4. progress' = [a \in Fields |-> IF a \in DOMAIN w THEN w[a] ELSE progress[a]]
  <2>1. DOMAIN progress = Fields
    BY <1>2 DEF RowOK, Fields
  <2> QED
    BY <1>1, <2>1 DEF updated
<1>5. /\ progress'.done = IF "done" \in DOMAIN w THEN w["done"] ELSE progress.done
      /\ progress'.last_seen = IF "last_seen" \in DOMAIN w THEN w["last_seen"]
                                                           ELSE progress.last_seen
      /\ progress'.dismissed = IF "dismissed" \in DOMAIN w THEN w["dismissed"]
                                                           ELSE progress.dismissed
      /\ progress'.finished = IF "finished" \in DOMAIN w THEN w["finished"]
                                                         ELSE progress.finished
  BY <1>4 DEF Fields
<1>6. RowOK'
  <2>1. progress' = [done |-> progress'.done, last_seen |-> progress'.last_seen,
                     dismissed |-> progress'.dismissed, finished |-> progress'.finished]
    BY <1>4 DEF Fields
  <2> QED
    BY <1>2, <1>3, <1>5, <2>1 DEF RowOK, WritesOK
<1>7. progress.finished => progress'.finished
  BY <1>3, <1>5 DEF WritesOK
<1>8. FinishedWithLastStep'
  BY <1>3, <1>5, <1>7 DEF WritesOK, StickInv, FinishInv, FinishedWithLastStep
<1>9. /\ calls' = [r \in Slots |-> calls'[r]]
      /\ calls'[s] = Free /\ \A r \in Slots \ {s} : calls'[r] = calls[r]
  <2>1. calls' = [r \in Slots |-> IF r = s THEN Free ELSE calls[r]]
    BY <1>1, <1>2
  <2> QED
    BY <2>1
<1>10. CallsOK'
  <2>1. ASSUME NEW r \in Slots PROVE CallOK(calls[r])'
    <3>1. CallOK(calls[r])
      BY DEF StickInv, FinishInv, CallsOK
    <3> QED
      BY <1>7, <1>9, <3>1 DEF CallOK, SentOK, LoadedOK, WritesOK
  <2> QED
    BY <1>9, <2>1 DEF CallsOK
<1>11. overlapped \/ "done" \notin DOMAIN w \/ progress.done \subseteq w["done"]
  BY <1>1 DEF StickInv, OneAtATime
<1>12. OneAtATime'
  <2> SUFFICES ASSUME ~overlapped PROVE OneAtATime'
    BY <1>1 DEF OneAtATime
  <2>1. ASSUME NEW q \in Slots, NEW r \in Slots,
               calls'[q] # Free, AboutStep(calls'[q].op),
               calls'[r] # Free, AboutStep(calls'[r].op)
        PROVE  q = r
    BY <1>9, <2>1 DEF StickInv, OneAtATime
  <2>2. ASSUME NEW r \in Slots, calls'[r].at = "loaded", "done" \in DOMAIN calls'[r].writes
        PROVE  progress'.done \subseteq calls'[r].writes["done"]
    <3>1. r # s /\ calls'[r] = calls[r] /\ calls[r] # Free
      BY <1>9, <2>2 DEF Free
    <3>2. CallOK(calls[r])
      BY DEF StickInv, FinishInv, CallsOK
    <3>3. AboutStep(calls[r].op)
      BY <2>2, <3>1, <3>2, CallStates DEF LoadedOK, WritesOK, AboutStep
    <3>4. ~AboutStep(c.op)
      BY <1>2, <3>1, <3>3 DEF StickInv, OneAtATime
    <3>5. progress'.done = progress.done
      BY <1>3, <1>5, <3>4 DEF WritesOK, AboutStep
    <3> QED
      BY <2>2, <3>1, <3>5 DEF StickInv, OneAtATime
  <2> QED
    BY <1>1, <2>1, <2>2 DEF OneAtATime
<1> QED
  BY <1>5, <1>6, <1>8, <1>10, <1>11, <1>12 DEF StickInv, FinishInv

\* A request that is lost.
LEMMA LoseKeeps == ASSUME StickInv, NEW s \in Slots, Lose(s) PROVE StickInv'
<1>1. calls' = [calls EXCEPT ![s] = Free] /\ UNCHANGED <<progress, overlapped>>
  BY DEF Lose
<1>2. DOMAIN calls = Slots
  BY DEF StickInv, FinishInv, CallsOK
<1>3. calls' = [r \in Slots |-> IF r = s THEN Free ELSE calls[r]]
  BY <1>1, <1>2
<1>4. ASSUME NEW r \in Slots PROVE CallOK(calls[r])'
  <2>1. CallOK(calls[r])
    BY DEF StickInv, FinishInv, CallsOK
  <2> QED
    BY <1>1, <1>3, <2>1 DEF CallOK, SentOK, LoadedOK, WritesOK
<1>5. OneAtATime'
  BY <1>1, <1>3 DEF StickInv, OneAtATime, Free
<1> QED
  BY <1>1, <1>3, <1>4, <1>5
     DEF StickInv, FinishInv, CallsOK, RowOK, FinishedWithLastStep

\* A page that is loaded anew leaves the requests of the old one on their way; it
\* may send one of its own, which is about no step.
LEMMA PageKeeps == ASSUME StickInv, NEW url, LoadPage(url) PROVE StickInv'
<1> DEFINE new == NewCall("resume", NoStep, "auto")
           left(c) == IF c = Free THEN Free ELSE [c EXCEPT !.by = "nobody"]
<1>1. UNCHANGED <<progress, overlapped>>
  BY DEF LoadPage
<1>2. SentOK(new) /\ new.at = "sent" /\ new.op = "resume"
  BY NewCallOK DEF Ops, By, Starters, AboutStep
<1> HIDE DEF new
<1>3. ASSUME NEW c, CallOK(c)
      PROVE  /\ CallOK(left(c)) /\ (c = Free <=> left(c) = Free)
             /\ c # Free => left(c).op = c.op /\ left(c).at = c.at
             /\ c.at = "loaded" => left(c).writes = c.writes
  <2>1. CASE c = Free
    BY <2>1 DEF CallOK, Free
  <2>2. CASE c # Free /\ SentOK(c)
    <3>1. left(c) = [at |-> "sent", op |-> c.op, step |-> c.step, by |-> "nobody"]
      BY <2>2 DEF SentOK
    <3>2. c.at = "sent" /\ left(c).at # "free"
      BY <2>2, <3>1 DEF SentOK
    <3>3. SentOK(left(c))
      BY <2>2, <3>1 DEF SentOK, By
    <3> HIDE DEF left
    <3> QED
      BY <2>2, <3>1, <3>2, <3>3 DEF CallOK, Free
  <2>3. CASE c # Free /\ LoadedOK(c)
    <3>1. left(c) = [at |-> "loaded", op |-> c.op, by |-> "nobody", writes |-> c.writes]
      BY <2>3 DEF LoadedOK
    <3>2. c.at = "loaded" /\ left(c).at # "free"
      BY <2>3, <3>1 DEF LoadedOK
    <3>3. LoadedOK(left(c))
      BY <2>3, <3>1 DEF LoadedOK, By
    <3> HIDE DEF left
    <3> QED
      BY <2>3, <3>1, <3>2, <3>3 DEF CallOK, Free
  <2> QED
    BY <1>3, <2>1, <2>2, <2>3 DEF CallOK
<1>4. /\ calls' = [s \in Slots |-> calls'[s]]
      /\ \A s \in Slots : calls'[s] = left(calls[s]) \/ calls'[s] = new
  <2> DEFINE old == [s \in Slots |-> left(calls[s])]
  <2>1. calls' = old \/ calls' = [old EXCEPT ![FreeSlot] = new]
    BY DEF LoadPage, new
  <2>2. CASE calls' = old
    BY <2>2
  <2>3. CASE calls' = [old EXCEPT ![FreeSlot] = new]
    <3>1. calls' = [s \in Slots |-> IF s = FreeSlot THEN new ELSE left(calls[s])]
      BY <2>3
    <3> QED
      BY <3>1
  <2> QED
    BY <2>1, <2>2, <2>3
<1> HIDE DEF left
<1>5. \A s \in Slots : CallOK(calls[s])
  BY DEF StickInv, FinishInv, CallsOK
<1>6. ASSUME NEW s \in Slots PROVE CallOK(calls[s])'
  <2>1. CallOK(left(calls[s])) /\ CallOK(new)
    BY <1>2, <1>3, <1>5 DEF CallOK
  <2> QED
    BY <1>1, <1>4, <2>1 DEF CallOK, SentOK, LoadedOK, WritesOK
<1>7. FinishInv'
  BY <1>1, <1>4, <1>6 DEF StickInv, FinishInv, CallsOK, RowOK, FinishedWithLastStep
<1>8. OneAtATime'
  <2> SUFFICES ASSUME ~overlapped PROVE OneAtATime'
    BY <1>1 DEF OneAtATime
  <2>1. \A s \in Slots : calls'[s] # Free /\ AboutStep(calls'[s].op)
          => calls[s] # Free /\ AboutStep(calls[s].op)
    BY <1>2, <1>3, <1>4, <1>5 DEF AboutStep
  <2>2. ASSUME NEW s \in Slots, calls'[s].at = "loaded", "done" \in DOMAIN calls'[s].writes
        PROVE  progress'.done \subseteq calls'[s].writes["done"]
    <3>1. calls'[s] = left(calls[s]) /\ calls[s].at = "loaded"
      <4>1. calls'[s] = left(calls[s])
        BY <1>2, <1>4, <2>2
      <4>2. calls[s] # Free
        BY <1>3, <1>5, <2>2, <4>1 DEF Free
      <4> QED
        BY <1>3, <1>5, <2>2, <4>1, <4>2
    <3> QED
      BY <1>1, <1>3, <1>5, <2>2, <3>1 DEF StickInv, OneAtATime
  <2> QED
    BY <1>1, <2>1, <2>2 DEF StickInv, OneAtATime
<1> QED
  BY <1>7, <1>8 DEF StickInv

\* A step that touches neither the row nor the requests.
LEMMA RestKeeps == ASSUME StickInv, UNCHANGED <<progress, calls, overlapped>> PROVE StickInv'
  BY DEF StickInv, FinishInv, RowOK, CallsOK, CallOK, SentOK, LoadedOK, WritesOK,
     FinishedWithLastStep, OneAtATime

\* The await of a request ends.
LEMMA ContinueKeeps == ASSUME PageOK, NEW by \in By, Continue(by) PROVE PageOK'
<1>1. CASE by \in Starters
  <2>1. page' = [page EXCEPT !.tours[by].at = "fetching"]
    BY <1>1 DEF Continue, Starters
  <2> QED
    BY <1>1, <2>1 DEF PageOK, Pages, TourStates
<1>2. CASE by \notin Starters
  <2>1. page' \in {page, [page EXCEPT !.welcome = "closing"], [page EXCEPT !.welcome = "hidden"]}
    BY <1>2 DEF Continue, By
  <2> QED
    BY <2>1 DEF PageOK, Pages
<1> QED
  BY <1>1, <1>2

\* A page that is loaded.
LEMMA LoadedPage ==
    ASSUME NEW welcome, NEW url \in {"plain", "tour", "resume"}
    PROVE  Loaded(welcome, url) \in Pages
<1>1. 0 \in 0 .. N
  BY TourAssumption DEF N
<1> DEFINE tours == [t \in Starters |->
                       [at |-> IF t = "welcome" THEN "off"
                               ELSE CASE url = "plain" -> "off"
                                      [] url = "tour" -> "fetching"
                                      [] url = "resume" -> "resuming",
                        index |-> 0]]
<1>2. tours \in [Starters -> [at : TourStates, index : 0 .. N]]
  <2>1. CASE url = "plain"
    BY <1>1, <2>1 DEF TourStates
  <2>2. CASE url = "tour"
    BY <1>1, <2>2 DEF TourStates
  <2>3. CASE url = "resume"
    BY <1>1, <2>3 DEF TourStates
  <2> QED
    BY <2>1, <2>2, <2>3
<1>3. Loaded(welcome, url) =
        [welcome |-> IF welcome THEN "shown" ELSE "hidden", resume_url |-> url = "resume",
         tours |-> tours, persistable |-> FALSE]
  BY DEF Loaded
<1> HIDE DEF tours
<1> QED
  BY <1>2, <1>3 DEF Pages

\* The stop where a tour resumes is one of its stops.
LEMMA ResumeIndexBounds == ASSUME NEW last PROVE findResumeIndex(last) \in 1 .. N
<1>1. N \in Nat /\ N > 1 /\ DOMAIN TourSteps = 1 .. N
  BY TourAssumption DEF N
<1>2. CASE last \in STEP_KEYS /\ last \in Range(TourSteps)
  <2> DEFINE p == CHOOSE i \in 1 .. N : TourSteps[i] = last
  <2>1. \E i \in 1 .. N : TourSteps[i] = last
    BY <1>1, <1>2 DEF Range
  <2>2. p \in 1 .. N
    BY <2>1
  <2>3. findResumeIndex(last) = IF p < N THEN p + 1 ELSE N
    BY <1>2 DEF findResumeIndex
  <2> HIDE DEF p
  <2> QED
    BY <1>1, <2>2, <2>3
<1>3. CASE ~(last \in STEP_KEYS /\ last \in Range(TourSteps))
  BY <1>1, <1>3 DEF findResumeIndex
<1> QED
  BY <1>2, <1>3

\* Every step leaves a page that can be.
LEMMA PageNext == StickInv /\ PageOK /\ [Next]_vars => PageOK'
<1> SUFFICES ASSUME StickInv, PageOK, [Next]_vars PROVE PageOK'
  OBVIOUS
<1>1. CASE Comecar \/ Pular
  BY <1>1 DEF Comecar, Pular, PageOK, Pages
<1>2. CASE onWelcomeStarted
  <2>1. PICK t \in Starters, at \in TourStates :
          page' = [page EXCEPT !.welcome = "hidden", !.tours[t].at = at]
    BY <1>2 DEF onWelcomeStarted, TourStates, Starters
  <2>2. [page EXCEPT !.tours[t].at = at] \in Pages
    BY DEF PageOK, Pages
  <2>3. page' = [[page EXCEPT !.tours[t].at = at] EXCEPT !.welcome = "hidden"]
    BY <2>1 DEF PageOK, Pages
  <2> QED
    BY <2>2, <2>3 DEF PageOK, Pages
<1>3. ASSUME NEW t \in Starters, ExitTour(t) PROVE PageOK'
  <2>1. NoTour \in [at : TourStates, index : 0 .. N]
    BY TourAssumption DEF NoTour, TourStates, N
  <2>2. page' = [page EXCEPT !.tours[t] = NoTour, !.resume_url = FALSE]
    BY <1>3 DEF ExitTour
  <2> QED
    BY <2>1, <2>2 DEF PageOK, Pages
<1>4. ASSUME NEW t \in Starters, NEW i \in 1 .. N, NEW may \in BOOLEAN, ShowStop(t, i, may)
      PROVE  PageOK'
  <2>1. [at |-> "running", index |-> i] \in [at : TourStates, index : 0 .. N]
    BY TourAssumption DEF TourStates, N
  <2>2. page' = [page EXCEPT !.tours[t] = [at |-> "running", index |-> i],
                             !.persistable = may]
    BY <1>4 DEF ShowStop
  <2> QED
    BY <2>1, <2>2 DEF PageOK, Pages
<1>5. ASSUME NEW t \in Starters, NEW i \in 1 .. N, MoveTour(t, i) PROVE PageOK'
  <2>1. page.persistable \in BOOLEAN
    BY DEF PageOK, Pages
  <2> QED
    BY <1>4, <1>5, <2>1 DEF MoveTour
<1>6. ASSUME NEW t \in Starters, RunTour(t) PROVE PageOK'
  <2> DEFINE index == page.tours[t].index
             i == IF index = 0 THEN 1 ELSE index
  <2>1. i \in 1 .. N
    BY TourAssumption DEF PageOK, Pages, N
  <2>2. ShowStop(t, i, index # 0)
    BY <1>6 DEF RunTour
  <2> QED
    BY <1>4, <2>1, <2>2
<1>7. ASSUME NEW t \in Starters, fetchProgress(t) PROVE PageOK'
  <2> DEFINE resume == findResumeIndex(progress.last_seen)
  <2>1. 0 \in 0 .. N /\ resume \in 0 .. N
    <3>1. resume \in 1 .. N /\ N \in Nat
      BY ResumeIndexBounds, TourAssumption DEF N
    <3> HIDE DEF resume
    <3> QED
      BY <3>1
  <2>2. PICK i \in {0, resume} : page' = [page EXCEPT !.tours[t] = [at |-> "fetched", index |-> i]]
    BY <1>7 DEF fetchProgress
  <2> HIDE DEF resume
  <2>3. [at |-> "fetched", index |-> i] \in [at : TourStates, index : 0 .. N]
    BY <2>1 DEF TourStates
  <2> QED
    BY <2>2, <2>3 DEF PageOK, Pages
<1>8. ASSUME NEW url \in {"plain", "tour", "resume"}, LoadPage(url) PROVE PageOK'
  BY <1>8, LoadedPage DEF LoadPage, PageOK
<1>9. ASSUME NEW s \in Slots, SaveRow(s) \/ Lose(s) PROVE PageOK'
  <2>1. CallOK(calls[s]) /\ calls[s] # Free
    BY <1>9 DEF StickInv, FinishInv, CallsOK, SaveRow, Lose, Free
  <2>2. calls[s].by \in By
    BY <2>1, CallStates
  <2> QED
    BY <1>9, <2>2, ContinueKeeps DEF SaveRow, Lose
<1>10. CASE UNCHANGED page
  BY <1>10 DEF PageOK
<1> QED
  BY <1>1, <1>2, <1>3, <1>5, <1>6, <1>7, <1>8, <1>9, <1>10
     DEF Next, User, Server, Tour, LoadRow, mark_onboarding_step, vars

\* At first there is a new row and at most the request of the page.
LEMMA StickInit == Init => StickInv
<1> SUFFICES ASSUME Init PROVE StickInv
  OBVIOUS
<1>1. RowOK /\ FinishedWithLastStep
  BY StepAssumption DEF Init, Untouched, RowOK, FinishedWithLastStep
<1>2. PICK url : calls = [s \in Slots |-> IF s = 1 /\ url = "resume"
                                       THEN NewCall("resume", NoStep, "auto") ELSE Free]
  BY DEF Init
<1>3. /\ SentOK(NewCall("resume", NoStep, "auto"))
      /\ NewCall("resume", NoStep, "auto").at = "sent"
      /\ NewCall("resume", NoStep, "auto").op = "resume"
  BY NewCallOK DEF Ops, By, Starters, AboutStep
<1>4. CallsOK
  BY <1>2, <1>3 DEF CallsOK, CallOK
<1>5. OneAtATime
  <2>1. \A s \in Slots : calls[s] = Free \/ ~AboutStep(calls[s].op)
    BY <1>2, <1>3 DEF AboutStep
  <2>2. \A s \in Slots : calls[s].at # "loaded"
    BY <1>2, <1>3 DEF Free
  <2> QED
    BY <2>1, <2>2 DEF OneAtATime
<1> QED
  BY <1>1, <1>4, <1>5 DEF StickInv, FinishInv

\* Every step keeps the invariant, and keeps the steps done until requests overlap.
LEMMA StickNext ==
    IInv /\ [Next]_vars
      => StickInv' /\ (overlapped \/ progress.done \subseteq progress'.done)
<1> SUFFICES ASSUME StickInv, PageOK, [Next]_vars
             PROVE  StickInv' /\ (overlapped \/ progress.done \subseteq progress'.done)
  BY DEF IInv
<1>1. ASSUME NEW k \in STEP_KEYS, mark_onboarding_step(k)
      PROVE  StickInv' /\ UNCHANGED progress
  BY <1>1, SendKeeps DEF mark_onboarding_step, Ops, By
<1>2. CASE Comecar \/ Pular
  <2>1. StickInv' /\ UNCHANGED progress
    BY <1>2, SendKeeps DEF Comecar, Pular, Ops, By, AboutStep
  <2> QED
    BY <2>1
<1>3. ASSUME NEW t \in Starters, NEW i \in 1 .. N, NEW may, ShowStop(t, i, may),
             UNCHANGED progress
      PROVE  StickInv'
  <2>1. TourSteps[i] # NoStep => TourSteps[i] \in STEP_KEYS
    BY TourAssumption DEF N
  <2>2. CASE may /\ TourSteps[i] # NoStep
    <3>1. Send("set_last_seen", TourSteps[i], "nobody")
      BY <1>3, <2>2 DEF ShowStop
    <3> QED
      BY <1>3, <2>1, <2>2, <3>1, SendKeeps DEF Ops, By
  <2>3. CASE ~(may /\ TourSteps[i] # NoStep)
    BY <1>3, <2>3, RestKeeps DEF ShowStop
  <2> QED
    BY <2>2, <2>3
<1>4. ASSUME NEW t \in Starters, NEW i \in 1 .. N, MoveTour(t, i)
      PROVE  StickInv' /\ UNCHANGED progress
  BY <1>3, <1>4 DEF MoveTour
<1>5. ASSUME NEW t \in Starters, ExitTour(t) \/ fetchProgress(t)
      PROVE  StickInv' /\ UNCHANGED progress
  BY <1>5, RestKeeps DEF ExitTour, fetchProgress
<1>6. ASSUME NEW t \in Starters, RunTour(t) PROVE StickInv' /\ UNCHANGED progress
  <2>1. UNCHANGED progress
    BY <1>6 DEF RunTour
  <2>2. CASE UNCHANGED <<calls, overlapped>>
    BY <2>1, <2>2, RestKeeps
  <2>3. CASE ~UNCHANGED <<calls, overlapped>>
    <3> DEFINE index == page.tours[t].index
               i == IF index = 0 THEN 1 ELSE index
    <3>1. TourSteps[i] # NoStep /\ Send("set_last_seen", TourSteps[i], "nobody")
      BY <1>6, <2>3 DEF RunTour, ShowStop
    <3>2. i \in 1 .. N
      BY TourAssumption DEF PageOK, Pages, N
    <3>3. TourSteps[i] \in STEP_KEYS
      BY <3>1, <3>2, TourAssumption DEF N
    <3> QED
      BY <2>1, <3>1, <3>3, SendKeeps DEF Ops, By
  <2> QED
    BY <2>1, <2>2, <2>3
<1>7. CASE onWelcomeStarted
  <2>1. UNCHANGED progress
    BY <1>7 DEF onWelcomeStarted
  <2>2. Send("resume", NoStep, "welcome") \/ UNCHANGED <<calls, overlapped>>
    BY <1>7 DEF onWelcomeStarted
  <2>3. StickInv'
    BY <2>1, <2>2, SendKeeps, RestKeeps DEF Ops, By, Starters, AboutStep
  <2> QED
    BY <2>1, <2>3
<1>8. ASSUME NEW url, LoadPage(url) PROVE StickInv' /\ UNCHANGED progress
  BY <1>8, PageKeeps DEF LoadPage
<1>9. ASSUME NEW s \in Slots, LoadRow(s) \/ Lose(s) PROVE StickInv' /\ UNCHANGED progress
  BY <1>9, LoadKeeps, LoseKeeps DEF LoadRow, Lose
<1>10. CASE UNCHANGED vars
  BY <1>10, RestKeeps DEF vars
<1> QED
  BY <1>1, <1>2, <1>4, <1>5, <1>6, <1>7, <1>8, <1>9, <1>10, SaveKeeps
     DEF Next, User, Server, Tour

\* The invariant is inductive.
LEMMA InvInit == Init => IInv
<1>1. Init => PageOK
  <2> SUFFICES ASSUME Init PROVE page \in Pages
    BY DEF PageOK
  <2>1. PICK url \in {"plain", "tour", "resume"} : page = Loaded(TRUE, url)
    BY DEF Init
  <2> QED
    BY <2>1, LoadedPage
<1> QED
  BY <1>1, StickInit DEF IInv

LEMMA InvNext == IInv /\ [Next]_vars => IInv'
  BY StickNext, PageNext DEF IInv

\* A user who has done every step has finished, whichever updates were lost and
\* however the requests overlapped.
THEOREM FinishedWithLastStepHolds == Spec => []FinishedWithLastStep
<1>1. IInv => FinishedWithLastStep
  BY DEF IInv, StickInv, FinishInv
<1> QED
  BY <1>1, InvInit, InvNext, PTL DEF Spec

\* A step that is done stays done until two requests about steps overlap, whatever
\* requests are lost.
THEOREM StepsStickHolds == Spec => StepsStick
<1>1. IInv /\ [Next]_vars => [overlapped \/ progress.done \subseteq progress'.done]_vars
  BY StickNext
<1> QED
  BY <1>1, InvInit, InvNext, PTL DEF Spec, StepsStick

----------------------------------------------------------------------------
\* The step seen last.  Until requests overlap or one is lost: with no request about a
\* step on its way it is in the row; one that is on its way carries it, or has loaded
\* a row that has it already; and the other requests leave it alone.
InFlight(s) == calls[s] # Free /\ AboutStep(calls[s].op)

WillShow(s) == IF "last_seen" \in DOMAIN calls[s].writes THEN calls[s].writes["last_seen"]
                                                         ELSE progress.last_seen

SeenInv ==
    ~overlapped /\ ~lost =>
        /\ (\A s \in Slots : ~InFlight(s)) => progress.last_seen = latest
        /\ \A s \in Slots : calls[s].at = "sent" /\ InFlight(s) => calls[s].step = latest
        /\ \A s \in Slots : calls[s].at = "loaded" =>
             IF InFlight(s) THEN WillShow(s) = latest
                            ELSE "last_seen" \notin DOMAIN calls[s].writes

\* A request that is sent: one about a step says which step is the latest now.
LEMMA SendSeen ==
    ASSUME StickInv, SeenInv, NEW op \in Ops, NEW step, NEW by \in By,
           AboutStep(op) => step \in STEP_KEYS, Send(op, step, by), UNCHANGED progress
    PROVE  SeenInv'
<1> SUFFICES ASSUME ~overlapped', ~lost' PROVE SeenInv'
  BY DEF SeenInv
<1> DEFINE new == NewCall(op, step, by)
<1>1. new.at = "sent" /\ new.op = op /\ new.step = step /\ new # Free
  BY DEF NewCall, Free
<1>2. PICK f \in Slots : f = FreeSlot /\ calls[f] = Free
  BY DEF Send, FreeSlot
<1>3. calls' = [s \in Slots |-> IF s = f THEN new ELSE calls[s]]
  BY <1>2 DEF Send, StickInv, FinishInv, CallsOK
<1> HIDE DEF new
<1>4. calls'[f] = new /\ \A s \in Slots \ {f} : calls'[s] = calls[s]
  BY <1>2, <1>3
<1>5. CASE AboutStep(op)
  <2>1. ~overlapped /\ ~lost /\ (\A s \in Slots : ~InFlight(s)) /\ latest' = step
    <3>1. /\ overlapped' = (overlapped \/ StepCallInFlight)
          /\ latest' = (IF overlapped' \/ lost THEN NoStep ELSE step)
          /\ lost' = lost
      BY <1>5 DEF Send
    <3>2. ~overlapped /\ ~StepCallInFlight /\ ~lost
      BY <3>1
    <3> QED
      BY <3>1, <3>2 DEF StepCallInFlight, InFlight
  <2>2. InFlight(f)'
    BY <1>1, <1>4, <1>5 DEF InFlight
  <2>3. \A s \in Slots \ {f} : ~InFlight(s)'
    BY <1>4, <2>1 DEF InFlight
  <2>4. \A s \in Slots : (calls[s].at = "sent" /\ InFlight(s) => calls[s].step = latest)'
    BY <1>1, <1>4, <2>1, <2>3
  <2>5. \A s \in Slots : calls'[s].at = "loaded" =>
          s # f /\ "last_seen" \notin DOMAIN calls'[s].writes
    BY <1>1, <1>4, <2>1 DEF SeenInv
  <2> QED
    BY <1>2, <2>2, <2>3, <2>4, <2>5 DEF SeenInv
<1>6. CASE ~AboutStep(op)
  <2>1. UNCHANGED history
    BY <1>6 DEF Send
  <2>2. ~InFlight(f) /\ ~InFlight(f)'
    BY <1>1, <1>2, <1>4, <1>6 DEF InFlight
  <2>3. \A s \in Slots \ {f} : InFlight(s)' <=> InFlight(s)
    BY <1>4 DEF InFlight
  <2>4. (\A s \in Slots : ~InFlight(s))' => progress'.last_seen = latest'
    BY <2>1, <2>2, <2>3 DEF SeenInv
  <2>5. \A s \in Slots : (calls[s].at = "sent" /\ InFlight(s) => calls[s].step = latest)'
    BY <1>4, <2>1, <2>2, <2>3 DEF SeenInv
  <2>6. ASSUME NEW s \in Slots, calls'[s].at = "loaded"
        PROVE  IF InFlight(s)' THEN WillShow(s)' = latest'
                               ELSE "last_seen" \notin DOMAIN calls'[s].writes
    <3>1. s # f /\ calls'[s] = calls[s]
      BY <1>1, <1>4, <2>6
    <3>2. WillShow(s)' = WillShow(s)
      BY <3>1 DEF WillShow
    <3> QED
      BY <2>1, <2>3, <2>6, <3>1, <3>2 DEF SeenInv
  <2> QED
    BY <2>4, <2>5, <2>6 DEF SeenInv
<1> QED
  BY <1>5, <1>6

\* A request that loads the row: one about a step writes it unless the row has it.
LEMMA LoadSeen == ASSUME StickInv, SeenInv, NEW s \in Slots, LoadRow(s) PROVE SeenInv'
<1> SUFFICES ASSUME ~overlapped, ~lost PROVE SeenInv'
  BY DEF LoadRow, SeenInv
<1> DEFINE c == calls[s]
           new == Changed(c.op, c.step, progress)
           writes == {a \in DOMAIN new : \/ new[a] # progress[a]
                                         \/ a = "dismissed" /\ c.op = "dismiss"}
           w == Restrict(new, writes)
           loaded == [at |-> "loaded", op |-> c.op, by |-> c.by, writes |-> w]
<1>1. /\ calls' = [calls EXCEPT ![s] = loaded]
      /\ UNCHANGED <<progress, history>>
      /\ c.at = "sent"
  BY DEF LoadRow
<1>2. RowOK /\ CallOK(c) /\ c # Free /\ DOMAIN calls = Slots
  BY <1>1 DEF StickInv, FinishInv, CallsOK, Free
<1>3. c.op \in Ops /\ (AboutStep(c.op) => c.step \in STEP_KEYS)
  BY <1>1, <1>2, CallStates DEF SentOK
<1>4. /\ DOMAIN new = Fields
      /\ new["last_seen"] = IF AboutStep(c.op) THEN c.step ELSE progress.last_seen
  BY <1>2, <1>3, ChangedOK
<1> HIDE DEF new
<1>5. DOMAIN w = writes /\ \A a \in writes : w[a] = new[a]
  BY DEF Restrict
<1>6. "last_seen" \in writes <=> new["last_seen"] # progress.last_seen
  BY <1>4 DEF Fields
<1> HIDE DEF writes, w
<1>7. /\ loaded.at = "loaded" /\ loaded.op = c.op /\ loaded.writes = w /\ loaded # Free
  BY DEF Free
<1> HIDE DEF loaded
<1>8. calls'[s] = loaded /\ \A r \in Slots \ {s} : calls'[r] = calls[r]
  BY <1>1, <1>2
<1>9. \A r \in Slots : InFlight(r)' <=> InFlight(r)
  BY <1>2, <1>7, <1>8 DEF InFlight
<1>10. \A r \in Slots \ {s} : WillShow(r)' = WillShow(r)
  BY <1>1, <1>8 DEF WillShow
<1>11. ASSUME InFlight(s) PROVE WillShow(s)' = latest'
  <2>1. c.step = latest
    BY <1>1, <1>11 DEF SeenInv
  <2>2. AboutStep(c.op)
    BY <1>11 DEF InFlight
  <2>3. WillShow(s)' = IF "last_seen" \in writes THEN new["last_seen"] ELSE progress.last_seen
    BY <1>1, <1>5, <1>7, <1>8 DEF WillShow
  <2> QED
    BY <1>1, <1>4, <1>6, <2>1, <2>2, <2>3
<1>12. ASSUME ~InFlight(s) PROVE "last_seen" \notin DOMAIN calls'[s].writes
  <2>1. ~AboutStep(c.op)
    BY <1>2, <1>12 DEF InFlight
  <2> QED
    BY <1>4, <1>5, <1>6, <1>7, <1>8, <2>1
<1>13. (\A r \in Slots : ~InFlight(r))' => progress'.last_seen = latest'
  BY <1>1, <1>9 DEF SeenInv
<1>14. \A r \in Slots : (calls[r].at = "sent" /\ InFlight(r) => calls[r].step = latest)'
  BY <1>1, <1>7, <1>8, <1>9 DEF SeenInv
<1>15. ASSUME NEW r \in Slots, calls'[r].at = "loaded"
       PROVE  IF InFlight(r)' THEN WillShow(r)' = latest'
                              ELSE "last_seen" \notin DOMAIN calls'[r].writes
  <2>1. CASE r = s
    BY <1>9, <1>11, <1>12, <2>1
  <2>2. CASE r # s
    BY <1>1, <1>8, <1>9, <1>10, <1>15, <2>2 DEF SeenInv
  <2> QED
    BY <2>1, <2>2
<1> QED
  BY <1>13, <1>14, <1>15 DEF SeenInv

\* A request that saves: the only one about a step leaves the latest in the row.
LEMMA SaveSeen == ASSUME StickInv, SeenInv, NEW s \in Slots, SaveRow(s) PROVE SeenInv'
<1> SUFFICES ASSUME ~overlapped, ~lost PROVE SeenInv'
  BY DEF SaveRow, SeenInv
<1> DEFINE c == calls[s]
<1>1. /\ c.at = "loaded" /\ progress' = updated(progress, c.writes)
      /\ calls' = [calls EXCEPT ![s] = Free] /\ UNCHANGED history
  BY DEF SaveRow
<1>2. RowOK /\ c # Free /\ DOMAIN calls = Slots
  BY <1>1 DEF StickInv, FinishInv, CallsOK, Free
<1>3. progress'.last_seen = WillShow(s)
  BY <1>1, <1>2 DEF RowOK, updated, WillShow
<1>4. calls'[s] = Free /\ \A r \in Slots \ {s} : calls'[r] = calls[r]
  BY <1>1, <1>2
<1>5. ~InFlight(s)' /\ \A r \in Slots \ {s} : InFlight(r)' <=> InFlight(r)
  BY <1>4 DEF InFlight
<1>6. CASE InFlight(s)
  <2>1. \A r \in Slots : ~InFlight(r)'
    BY <1>5, <1>6 DEF StickInv, OneAtATime, InFlight
  <2>2. progress'.last_seen = latest'
    BY <1>1, <1>3, <1>6 DEF SeenInv
  <2>3. \A r \in Slots : calls'[r].at = "loaded" => "last_seen" \notin DOMAIN calls'[r].writes
    BY <1>4, <1>5, <2>1 DEF SeenInv, Free
  <2> QED
    BY <2>1, <2>2, <2>3 DEF SeenInv
<1>7. CASE ~InFlight(s)
  <2>1. progress'.last_seen = progress.last_seen
    BY <1>1, <1>3, <1>7 DEF SeenInv, WillShow
  <2>2. (\A r \in Slots : ~InFlight(r))' => progress'.last_seen = latest'
    BY <1>1, <1>5, <1>7, <2>1 DEF SeenInv
  <2>3. \A r \in Slots : (calls[r].at = "sent" /\ InFlight(r) => calls[r].step = latest)'
    BY <1>1, <1>4, <1>5 DEF SeenInv
  <2>4. ASSUME NEW r \in Slots, calls'[r].at = "loaded"
        PROVE  IF InFlight(r)' THEN WillShow(r)' = latest'
                               ELSE "last_seen" \notin DOMAIN calls'[r].writes
    <3>1. r # s /\ calls'[r] = calls[r]
      BY <1>4, <2>4 DEF Free
    <3>2. WillShow(r)' = WillShow(r)
      BY <2>1, <3>1 DEF WillShow
    <3> QED
      BY <1>1, <1>5, <2>4, <3>1, <3>2 DEF SeenInv
  <2> QED
    BY <2>2, <2>3, <2>4 DEF SeenInv
<1> QED
  BY <1>6, <1>7

\* A page that is loaded anew: the requests on their way go on, with the same writes.
LEMMA PageSeen == ASSUME StickInv, SeenInv, NEW url, LoadPage(url) PROVE SeenInv'
<1> SUFFICES ASSUME ~overlapped, ~lost PROVE SeenInv'
  BY DEF LoadPage, SeenInv
<1> DEFINE new == NewCall("resume", NoStep, "auto")
           left(s) == IF calls[s] = Free THEN Free ELSE [calls[s] EXCEPT !.by = "nobody"]
           old == [s \in Slots |-> left(s)]
<1>1. UNCHANGED <<progress, history>>
  BY DEF LoadPage
<1>2. \/ calls' = old
      \/ /\ \E s \in Slots : calls[s] = Free
         /\ calls' = [old EXCEPT ![FreeSlot] = new]
  BY DEF LoadPage
<1>3. new.at = "sent" /\ ~AboutStep(new.op)
  BY DEF NewCall, AboutStep
<1> HIDE DEF new
<1>4. ASSUME NEW s \in Slots, calls[s] # Free
      PROVE  /\ left(s) # Free /\ left(s).at = calls[s].at /\ left(s).op = calls[s].op
             /\ calls[s].at = "sent" => left(s).step = calls[s].step
             /\ calls[s].at = "loaded" => left(s).writes = calls[s].writes
  <2>1. CallOK(calls[s])
    BY DEF StickInv, FinishInv, CallsOK
  <2>2. CASE SentOK(calls[s])
    <3>1. left(s) = [at |-> "sent", op |-> calls[s].op, step |-> calls[s].step,
                     by |-> "nobody"]
      BY <1>4, <2>2 DEF SentOK
    <3>2. left(s).at # "free"
      BY <3>1
    <3> QED
      BY <2>2, <3>1, <3>2 DEF SentOK, Free
  <2>3. CASE LoadedOK(calls[s])
    <3>1. left(s) = [at |-> "loaded", op |-> calls[s].op, by |-> "nobody",
                     writes |-> calls[s].writes]
      BY <1>4, <2>3 DEF LoadedOK
    <3>2. left(s).at # "free"
      BY <3>1
    <3> QED
      BY <2>3, <3>1, <3>2 DEF LoadedOK, Free
  <2> QED
    BY <1>4, <2>1, <2>2, <2>3 DEF CallOK
<1>5. \A s \in Slots : calls[s] = Free => left(s) = Free
  OBVIOUS
<1>6. \A s \in Slots : \/ calls'[s] = left(s)
                       \/ calls[s] = Free /\ calls'[s] = new
  <2>1. (\E s \in Slots : calls[s] = Free) => FreeSlot \in Slots /\ calls[FreeSlot] = Free
    BY DEF FreeSlot
  <2> HIDE DEF left
  <2>2. CASE calls' = old
    BY <2>2
  <2>3. CASE /\ \E s \in Slots : calls[s] = Free
             /\ calls' = [old EXCEPT ![FreeSlot] = new]
    <3>1. calls' = [s \in Slots |-> IF s = FreeSlot THEN new ELSE left(s)]
      BY <2>3
    <3> QED
      BY <2>1, <2>3, <3>1
  <2> QED
    BY <1>2, <2>2, <2>3
<1> HIDE DEF left
<1>7. \A s \in Slots : InFlight(s)' <=> InFlight(s)
  BY <1>3, <1>4, <1>5, <1>6 DEF InFlight
<1>8. ASSUME NEW s \in Slots, calls'[s].at = "loaded"
      PROVE  /\ calls[s].at = "loaded" /\ calls'[s].writes = calls[s].writes
             /\ WillShow(s)' = WillShow(s)
  <2>1. calls[s] # Free /\ calls'[s] = left(s)
    BY <1>3, <1>5, <1>6, <1>8 DEF Free
  <2> QED
    BY <1>1, <1>4, <1>8, <2>1 DEF WillShow
<1>9. \A s \in Slots : calls'[s].at = "sent" /\ InFlight(s) =>
        calls[s].at = "sent" /\ calls'[s].step = calls[s].step
  BY <1>4, <1>6 DEF InFlight
<1>10. (\A s \in Slots : ~InFlight(s))' => progress'.last_seen = latest'
  BY <1>1, <1>7 DEF SeenInv
<1>11. \A s \in Slots : (calls[s].at = "sent" /\ InFlight(s) => calls[s].step = latest)'
  BY <1>1, <1>7, <1>9 DEF SeenInv
<1>12. \A s \in Slots : (calls[s].at = "loaded" =>
             IF InFlight(s) THEN WillShow(s) = latest
                            ELSE "last_seen" \notin DOMAIN calls[s].writes)'
  BY <1>1, <1>7, <1>8 DEF SeenInv
<1> QED
  BY <1>10, <1>11, <1>12 DEF SeenInv

\* A step that touches neither the row nor the requests.
LEMMA RestSeen ==
    ASSUME SeenInv, UNCHANGED <<progress, calls, history>> PROVE SeenInv'
  BY DEF SeenInv, InFlight, WillShow

\* At first no request is about a step, and the row has seen none.
LEMMA SeenInit == Init => SeenInv
<1> SUFFICES ASSUME Init PROVE SeenInv
  OBVIOUS
<1>1. PICK url : calls = [s \in Slots |-> IF s = 1 /\ url = "resume"
                                       THEN NewCall("resume", NoStep, "auto") ELSE Free]
  BY DEF Init
<1>2. \A s \in Slots : calls[s] # Free => calls[s].at = "sent" /\ ~AboutStep(calls[s].op)
  BY <1>1 DEF NewCall, AboutStep
<1>3. \A s \in Slots : calls[s].at # "loaded" /\ ~InFlight(s)
  BY <1>2 DEF Free, InFlight
<1>4. progress.last_seen = latest
  BY DEF Init, Untouched
<1> QED
  BY <1>3, <1>4 DEF SeenInv

\* A request that is lost: one about a step spoils the history, another is none of
\* the requests that SeenInv speaks about.
LEMMA LoseSeen == ASSUME StickInv, SeenInv, NEW s \in Slots, Lose(s) PROVE SeenInv'
<1> SUFFICES ASSUME ~overlapped', ~lost' PROVE SeenInv'
  BY DEF SeenInv
<1>1. /\ calls' = [calls EXCEPT ![s] = Free] /\ calls[s] # Free
      /\ UNCHANGED <<progress, overlapped>>
      /\ lost' = (lost \/ AboutStep(calls[s].op))
      /\ latest' = IF lost' THEN NoStep ELSE latest
  BY DEF Lose
<1>2. ~overlapped /\ ~lost /\ ~InFlight(s) /\ latest' = latest
  BY <1>1 DEF InFlight
<1>3. calls'[s] = Free /\ \A r \in Slots \ {s} : calls'[r] = calls[r]
  BY <1>1 DEF StickInv, FinishInv, CallsOK
<1>4. ~InFlight(s)' /\ Free.at = "free"
  BY <1>3 DEF InFlight, Free
<1>5. \A r \in Slots \ {s} : (InFlight(r)' <=> InFlight(r)) /\ WillShow(r)' = WillShow(r)
  BY <1>1, <1>3 DEF InFlight, WillShow
<1>6. (\A r \in Slots : ~InFlight(r))' => progress'.last_seen = latest'
  BY <1>1, <1>2, <1>5 DEF SeenInv
<1>7. \A r \in Slots : (calls[r].at = "sent" /\ InFlight(r) => calls[r].step = latest)'
  BY <1>2, <1>3, <1>4, <1>5 DEF SeenInv
<1>8. \A r \in Slots : (calls[r].at = "loaded" =>
        IF InFlight(r) THEN WillShow(r) = latest
                       ELSE "last_seen" \notin DOMAIN calls[r].writes)'
  BY <1>2, <1>3, <1>4, <1>5 DEF SeenInv
<1> QED
  BY <1>6, <1>7, <1>8 DEF SeenInv

\* Every step keeps it.
LEMMA SeenNext == IInv /\ SeenInv /\ [Next]_vars => SeenInv'
<1> SUFFICES ASSUME StickInv, PageOK, SeenInv, [Next]_vars PROVE SeenInv'
  BY DEF IInv
<1>1. ASSUME NEW k \in STEP_KEYS, mark_onboarding_step(k) PROVE SeenInv'
  BY <1>1, SendSeen DEF mark_onboarding_step, Ops, By
<1>2. CASE Comecar \/ Pular
  BY <1>2, SendSeen DEF Comecar, Pular, Ops, By, AboutStep
<1>3. ASSUME NEW t \in Starters, NEW i \in 1 .. N, NEW may, ShowStop(t, i, may),
             UNCHANGED progress
      PROVE  SeenInv'
  <2>1. TourSteps[i] # NoStep => TourSteps[i] \in STEP_KEYS
    BY TourAssumption DEF N
  <2> QED
    BY <1>3, <2>1, SendSeen, RestSeen DEF ShowStop, Ops, By
<1>4. ASSUME NEW t \in Starters, NEW i \in 1 .. N, MoveTour(t, i) PROVE SeenInv'
  BY <1>3, <1>4 DEF MoveTour
<1>5. ASSUME NEW t \in Starters, ExitTour(t) \/ fetchProgress(t) PROVE SeenInv'
  BY <1>5, RestSeen DEF ExitTour, fetchProgress
<1>6. ASSUME NEW t \in Starters, RunTour(t) PROVE SeenInv'
  <2> DEFINE index == page.tours[t].index
             i == IF index = 0 THEN 1 ELSE index
  <2>1. i \in 1 .. N
    BY TourAssumption DEF PageOK, Pages, N
  <2>2. ShowStop(t, i, index # 0) /\ UNCHANGED progress
    BY <1>6 DEF RunTour
  <2> HIDE DEF i, index
  <2> QED
    BY <1>3, <2>1, <2>2
<1>7. CASE onWelcomeStarted
  <2>1. \/ Send("resume", NoStep, "welcome")
        \/ UNCHANGED <<calls, history>>
    BY <1>7 DEF onWelcomeStarted
  <2>2. UNCHANGED progress
    BY <1>7 DEF onWelcomeStarted
  <2> QED
    BY <2>1, <2>2, SendSeen, RestSeen DEF Ops, By, Starters, AboutStep
<1>8. ASSUME NEW s \in Slots, Lose(s) PROVE SeenInv'
  BY <1>8, LoseSeen
<1>9. CASE UNCHANGED vars
  BY <1>9, RestSeen DEF vars
<1> QED
  BY <1>1, <1>2, <1>4, <1>5, <1>6, <1>7, <1>8, <1>9, LoadSeen, SaveSeen, PageSeen
     DEF Next, User, Server, Tour

\* When nothing about a step is on its way the row tells the step marked or shown
\* last, until requests overlap or one is lost: the tour resumes after it.
THEOREM LastSeenIsLatestHolds == Spec => []LastSeenIsLatest
<1>1. SeenInv => LastSeenIsLatest
  BY DEF SeenInv, LastSeenIsLatest, StepCallInFlight, InFlight
<1>2. Init => IInv /\ SeenInv
  BY InvInit, SeenInit
<1>3. IInv /\ SeenInv /\ [Next]_vars => (IInv /\ SeenInv)'
  BY InvNext, SeenNext
<1> QED
  BY <1>1, <1>2, <1>3, PTL DEF Spec

=============================================================================
