--------------------------- MODULE ProgressProofs ---------------------------
(***************************************************************************)
(* Theorems about chat turns (permits are neither lost nor returned twice, *)
(* only complete answers are saved, the servers implement TurnContract),   *)
(* deletion of documents (no points outlive their row, what is served is   *)
(* indexed) and the limit on failed logins, with the types of all three in *)
(* their composition.                                                      *)
(***************************************************************************)
EXTENDS MCProgress, FiniteSetTheorems, TLAPS

AdmittedTurns == {t \in Turns : worker[t] \in Admitted}

\* What the events that were emitted tell of the thread.
EventsInOrder ==
  \A t \in Turns :
    /\ \A e \in Terminal \cup {"_end"} : Occurs(e, t) => worker[t] \in {"closing", "returned", "over"}
    /\ Occurs("done", t) => ~Occurs("error", t) /\ ~Occurs("cancelled", t)

\* A turn whose stream was read to its end.
Finishing == {"citing", "persist", "evidence"}

\* Whoever saves an answer has read its "done".
SaverHasDone ==
  \A t \in Turns :
    /\ doneSeen[t] => Occurs("done", t)
    /\ turn[t] \in Finishing => Occurs("done", t)
    /\ chatRow[t] # "none" => Occurs("done", t)

ChatInv == ChatTypeOK /\ PermitsAreKept /\ EventsInOrder /\ SaverHasDone

-----------------------------------------------------------------------------
(* Permits *)

LEMMA AdmittedFinite ==
  ASSUME ChatTypeOK
  PROVE  /\ IsFiniteSet(AdmittedTurns) /\ Cardinality(AdmittedTurns) \in Nat
         /\ permits \in Nat /\ MaxConcurrent \in Nat
  <1>1. AdmittedTurns \subseteq Turns /\ IsFiniteSet(Turns)
    BY ChatAssumptions DEF ChatAssumptions, AdmittedTurns
  <1>2. IsFiniteSet(AdmittedTurns)
    BY <1>1, FS_Subset
  <1>3. Cardinality(AdmittedTurns) \in Nat
    BY <1>2, FS_CardinalityType
  <1>4. permits \in Nat /\ MaxConcurrent \in Nat
    BY ChatAssumptions DEF ChatAssumptions, ChatTypeOK
  <1> QED
    BY <1>2, <1>3, <1>4

\* A step that neither admits nor releases a request.
LEMMA PermitStays ==
  ASSUME ChatTypeOK, PermitsAreKept, permits' = permits,
         \A t \in Turns : worker'[t] \in Admitted <=> worker[t] \in Admitted
  PROVE  PermitsAreKept'
  <1>1. AdmittedTurns' = AdmittedTurns
    BY DEF AdmittedTurns
  <1> QED
    BY <1>1 DEF PermitsAreKept, AdmittedTurns

LEMMA PermitTaken ==
  ASSUME ChatTypeOK, PermitsAreKept, NEW t \in Turns, Acquire(t)
  PROVE  PermitsAreKept' /\ permits' \in 0..MaxConcurrent
  <1>1. worker' = [worker EXCEPT ![t] = "queued"] /\ worker[t] = "waiting"
          /\ permits > 0 /\ permits' = permits - 1
    BY DEF Acquire, Works
  <1>2. t \notin AdmittedTurns /\ AdmittedTurns' = AdmittedTurns \cup {t}
    BY <1>1 DEF AdmittedTurns, Admitted, ChatTypeOK
  <1>3. Cardinality(AdmittedTurns') = Cardinality(AdmittedTurns) + 1
    BY <1>2, AdmittedFinite, FS_AddElement
  <1>4. permits + Cardinality(AdmittedTurns) = MaxConcurrent
    BY DEF PermitsAreKept, AdmittedTurns
  <1>5. permits' + Cardinality(AdmittedTurns') = MaxConcurrent /\ permits' \in 0..MaxConcurrent
    BY <1>1, <1>3, <1>4, AdmittedFinite
  <1> QED
    BY <1>5 DEF PermitsAreKept, AdmittedTurns

LEMMA PermitReturned ==
  ASSUME ChatTypeOK, PermitsAreKept, NEW t \in Turns, Release(t)
  PROVE  PermitsAreKept' /\ permits' \in 0..MaxConcurrent
  <1>1. worker' = [worker EXCEPT ![t] = "over"] /\ worker[t] = "returned"
          /\ permits' = permits + 1
    BY DEF Release, Works
  <1>2. t \in AdmittedTurns /\ AdmittedTurns' = AdmittedTurns \ {t}
    BY <1>1 DEF AdmittedTurns, Admitted, ChatTypeOK
  <1>3. Cardinality(AdmittedTurns') = Cardinality(AdmittedTurns) - 1
    BY <1>2, AdmittedFinite, FS_RemoveElement
  <1>4. IsFiniteSet(AdmittedTurns')
    BY <1>2, AdmittedFinite, FS_RemoveElement
  <1>5. Cardinality(AdmittedTurns') \in Nat
    BY <1>4, FS_CardinalityType
  <1>6. permits + Cardinality(AdmittedTurns) = MaxConcurrent
    BY DEF PermitsAreKept, AdmittedTurns
  <1>7. permits' + Cardinality(AdmittedTurns') = MaxConcurrent /\ permits' \in 0..MaxConcurrent
    BY <1>1, <1>3, <1>5, <1>6, AdmittedFinite
  <1> QED
    BY <1>7 DEF PermitsAreKept, AdmittedTurns

LEMMA PermitsReset ==
  ASSUME ChatTypeOK, RestartRag
  PROVE  PermitsAreKept' /\ permits' \in 0..MaxConcurrent
  <1>1. AdmittedTurns' = {} /\ permits' = MaxConcurrent
    BY DEF RestartRag, AdmittedTurns, Admitted
  <1>2. Cardinality(AdmittedTurns') = 0
    BY <1>1, FS_EmptySet
  <1> QED
    BY <1>1, <1>2, AdmittedFinite DEF PermitsAreKept, AdmittedTurns

-----------------------------------------------------------------------------
(* Events *)

LEMMA EmitOccurs ==
  ASSUME ChatTypeOK, NEW t \in Turns, NEW e \in ChatEvent, Emit(t, e)
  PROVE  /\ emitted' \in [Turns -> Seq(ChatEvent)]
         /\ \A s \in Turns : \A event : Occurs(event, s)' <=> Occurs(event, s) \/ (s = t /\ event = e)
  <1>1. emitted \in [Turns -> Seq(ChatEvent)]
    BY DEF ChatTypeOK
  <1>2. emitted' = [emitted EXCEPT ![t] = Append(emitted[t], e)]
    BY DEF Emit
  <1>3. PICK q \in Seq(ChatEvent) : q = emitted[t]
    BY <1>1
  <1>4. /\ Append(q, e) \in Seq(ChatEvent) /\ Len(Append(q, e)) = Len(q) + 1
        /\ \A i \in 1..Len(q) : Append(q, e)[i] = q[i]
        /\ Append(q, e)[Len(q) + 1] = e /\ Len(q) \in Nat
    OBVIOUS
  <1>5. emitted' \in [Turns -> Seq(ChatEvent)]
    BY <1>1, <1>2, <1>3, <1>4
  <1>6. ASSUME NEW event
        PROVE  Occurs(event, t)' <=> Occurs(event, t) \/ event = e
    <2>1. emitted'[t] = Append(q, e)
      BY <1>1, <1>2, <1>3
    <2>2. ASSUME NEW i \in 1..Len(Append(q, e)), Append(q, e)[i] = event
          PROVE  Occurs(event, t) \/ event = e
      <3>1. i \in 1..Len(q) \/ i = Len(q) + 1
        BY <1>4
      <3> QED
        BY <1>3, <1>4, <2>2, <3>1 DEF Occurs
    <2>3. ASSUME Occurs(event, t)  PROVE Occurs(event, t)'
      <3>1. PICK i \in 1..Len(q) : q[i] = event
        BY <1>3, <2>3 DEF Occurs
      <3>2. i \in 1..Len(Append(q, e)) /\ Append(q, e)[i] = event
        BY <1>4, <3>1
      <3> QED
        BY <2>1, <3>2 DEF Occurs
    <2>4. ASSUME event = e  PROVE Occurs(event, t)'
      <3>1. Len(q) + 1 \in 1..Len(Append(q, e))
        BY <1>4
      <3> QED
        BY <1>4, <2>1, <2>4, <3>1 DEF Occurs
    <2> QED
      BY <2>1, <2>2, <2>3, <2>4 DEF Occurs
  <1>7. ASSUME NEW s \in Turns, s # t, NEW event
        PROVE  Occurs(event, s)' <=> Occurs(event, s)
    BY <1>1, <1>2, <1>7 DEF Occurs
  <1> QED
    BY <1>5, <1>6, <1>7

\* Nothing was put on a queue: threads only go on.
LEMMA OrderStays ==
  ASSUME ChatInv, emitted' = emitted,
         \A t \in Turns : worker[t] \in {"closing", "returned", "over"}
                            => worker'[t] \in {"closing", "returned", "over"}
  PROVE  EventsInOrder'
  BY DEF ChatInv, EventsInOrder, Occurs

LEMMA SaverStays ==
  ASSUME ChatInv, UNCHANGED <<emitted, doneSeen, turn, chatRow>>
  PROVE  SaverHasDone'
  BY DEF ChatInv, SaverHasDone, Occurs

\* Events that were emitted stay.
LEMMA SaverEmit ==
  ASSUME ChatInv, UNCHANGED turnVars,
         \A t \in Turns : \A event : Occurs(event, t) => Occurs(event, t)'
  PROVE  SaverHasDone'
  BY DEF ChatInv, SaverHasDone, turnVars

-----------------------------------------------------------------------------
(* Steps *)

\* A thread goes on; permits, the response and the turn stay as they are.
LEMMA ThreadStep ==
  ASSUME ChatInv, NEW t \in Turns, Thread(t) \/ BindFails(t)
  PROVE  ChatInv'
  <1>1. ChatTypeOK /\ PermitsAreKept /\ EventsInOrder /\ worker \in [Turns -> WorkerStep]
    BY DEF ChatInv, ChatTypeOK
  <1>2. UNCHANGED <<permits, forwarded, response, cancel, turnVars>>
    BY DEF Thread, BindFails, StartWorker, EmitToken, Complete, EmitDone, EmitCancelled,
           EmitError, EmitEnd, threadOnly
  <1>3. \/ /\ worker' = [worker EXCEPT ![t] = "running"] /\ worker[t] = "queued"
           /\ emitted' = emitted
        \/ /\ worker' = [worker EXCEPT ![t] = "returned"] /\ worker[t] = "queued"
           /\ emitted' = emitted
        \/ /\ worker' = [worker EXCEPT ![t] = "completed"] /\ worker[t] = "running"
           /\ emitted' = emitted
        \/ worker' = worker /\ Emit(t, "token")
        \/ /\ worker' = [worker EXCEPT ![t] = "closing"] /\ worker[t] \in {"running", "completed"}
           /\ \E e \in Terminal : Emit(t, e)
        \/ /\ worker' = [worker EXCEPT ![t] = "returned"] /\ worker[t] = "closing"
           /\ Emit(t, "_end")
    BY DEF Thread, BindFails, StartWorker, EmitToken, Complete, EmitDone, EmitCancelled,
           EmitError, EmitEnd, Works, Terminal
  <1>4. worker' \in [Turns -> WorkerStep] /\ PermitsAreKept'
    <2>1. worker' \in [Turns -> WorkerStep]
      BY <1>1, <1>3 DEF WorkerStep
    <2>2. \A s \in Turns : worker'[s] \in Admitted <=> worker[s] \in Admitted
      BY <1>1, <1>3 DEF Admitted
    <2> QED
      BY <1>1, <1>2, <2>1, <2>2, PermitStays
  <1>5. CASE emitted' = emitted
    <2>1. EventsInOrder'
      BY <1>1, <1>3, <1>5, OrderStays
    <2>2. SaverHasDone'
      BY <1>2, <1>5, SaverStays DEF turnVars
    <2>3. ChatTypeOK'
      BY <1>1, <1>2, <1>4, <1>5 DEF ChatTypeOK, turnVars
    <2> QED
      BY <1>4, <2>1, <2>2, <2>3 DEF ChatInv
  <1>6. ASSUME NEW e \in ChatEvent, Emit(t, e), worker'[t] \in WorkerStep,
               \A s \in Turns \ {t} : worker'[s] = worker[s],
               e # "token" => /\ worker'[t] \in {"closing", "returned"}
                              /\ e \in Terminal => worker[t] \in {"running", "completed"},
               e = "token" => worker'[t] = worker[t],
               worker[t] \in {"closing", "returned", "over"}
                 => worker'[t] \in {"closing", "returned", "over"}
        PROVE  ChatInv'
    <2>1. /\ emitted' \in [Turns -> Seq(ChatEvent)]
          /\ \A s \in Turns : \A event : Occurs(event, s)' <=> Occurs(event, s) \/ (s = t /\ event = e)
      BY <1>1, <1>6, EmitOccurs
    <2>2. ASSUME NEW s \in Turns
          PROVE  /\ \A x \in Terminal \cup {"_end"} :
                      Occurs(x, s)' => worker'[s] \in {"closing", "returned", "over"}
                 /\ Occurs("done", s)' => ~Occurs("error", s)' /\ ~Occurs("cancelled", s)'
      <3>1. CASE s # t
        BY <1>1, <1>6, <2>1, <3>1 DEF EventsInOrder
      <3>2. CASE s = t
        <4>1. \A x \in Terminal \cup {"_end"} :
                Occurs(x, t)' => worker'[t] \in {"closing", "returned", "over"}
          BY <1>1, <1>6, <2>1 DEF EventsInOrder, Terminal
        <4>2. CASE e \in Terminal
          <5>1. \A x \in Terminal : ~Occurs(x, t)
            BY <1>1, <1>6, <4>2 DEF EventsInOrder, Terminal
          <5>2. \A x \in Terminal : Occurs(x, t)' => x = e
            BY <2>1, <5>1
          <5> QED
            BY <3>2, <4>1, <5>2 DEF Terminal
        <4>3. CASE e \notin Terminal
          BY <1>1, <2>1, <3>2, <4>1, <4>3 DEF EventsInOrder, Terminal
        <4> QED
          BY <4>2, <4>3
      <3> QED
        BY <3>1, <3>2
    <2>3. EventsInOrder'
      BY <2>2 DEF EventsInOrder
    <2>4. SaverHasDone'
      BY <1>2, <2>1, SaverEmit
    <2>5. ChatTypeOK'
      BY <1>1, <1>2, <1>4, <2>1 DEF ChatTypeOK, turnVars
    <2> QED
      BY <1>4, <2>3, <2>4, <2>5 DEF ChatInv
  <1>7. CASE worker' = worker /\ Emit(t, "token")
    BY <1>1, <1>6, <1>7 DEF ChatEvent
  <1>8. CASE /\ worker' = [worker EXCEPT ![t] = "closing"] /\ worker[t] \in {"running", "completed"}
             /\ \E e \in Terminal : Emit(t, e)
    <2>1. PICK e \in Terminal : Emit(t, e)
      BY <1>8
    <2>2. worker'[t] = "closing" /\ \A s \in Turns \ {t} : worker'[s] = worker[s]
      BY <1>1, <1>8
    <2>3. e \in ChatEvent /\ e # "token"
      BY <2>1 DEF ChatEvent, Terminal
    <2> QED
      BY <1>6, <1>8, <2>1, <2>2, <2>3 DEF WorkerStep
  <1>9. CASE /\ worker' = [worker EXCEPT ![t] = "returned"] /\ worker[t] = "closing"
             /\ Emit(t, "_end")
    <2>1. worker'[t] = "returned" /\ \A s \in Turns \ {t} : worker'[s] = worker[s]
      BY <1>1, <1>9
    <2>2. "_end" \in ChatEvent /\ "_end" \notin Terminal
      BY DEF ChatEvent, Terminal
    <2> QED
      BY <1>6, <1>9, <2>1, <2>2 DEF WorkerStep
  <1> QED
    BY <1>3, <1>5, <1>7, <1>8, <1>9

\* Requests arrive, are admitted, refused, and return their permits.
LEMMA AdmissionStep ==
  ASSUME ChatInv, NEW t \in Turns, Arrive(t) \/ Admission(t) \/ Release(t)
  PROVE  ChatInv'
  <1>1. ChatTypeOK /\ PermitsAreKept /\ worker \in [Turns -> WorkerStep]
    BY DEF ChatInv, ChatTypeOK
  <1>2. UNCHANGED <<emitted, forwarded, cancel, turnVars>>
    BY DEF Arrive, Admission, Acquire, RefuseBusy, Release
  <1>3. \/ worker' = [worker EXCEPT ![t] = "waiting"] /\ worker[t] = "none"
        \/ worker' = [worker EXCEPT ![t] = "queued"] /\ worker[t] = "waiting"
        \/ worker' = [worker EXCEPT ![t] = "over"] /\ worker[t] \in {"waiting", "returned"}
    BY DEF Arrive, Admission, Acquire, RefuseBusy, Release, Works
  <1>4. worker' \in [Turns -> WorkerStep]
    BY <1>1, <1>3 DEF WorkerStep
  <1>5. response' \in [Turns -> {"none", "made", "open", "closed", "refused"}]
    BY <1>1 DEF Arrive, Admission, Acquire, RefuseBusy, Release, ChatTypeOK
  <1>6. PermitsAreKept' /\ permits' \in 0..MaxConcurrent
    <2>1. CASE Arrive(t) \/ RefuseBusy(t)
      <3>1. permits' = permits /\ permits \in 0..MaxConcurrent
        BY <1>1, <2>1 DEF Arrive, RefuseBusy, ChatTypeOK
      <3>2. \A s \in Turns : worker'[s] \in Admitted <=> worker[s] \in Admitted
        BY <1>1, <2>1 DEF Arrive, RefuseBusy, Works, Admitted
      <3> QED
        BY <1>1, <3>1, <3>2, PermitStays
    <2>2. CASE Acquire(t)
      BY <1>1, <2>2, PermitTaken
    <2>3. CASE Release(t)
      BY <1>1, <2>3, PermitReturned
    <2> QED
      BY <2>1, <2>2, <2>3 DEF Admission
  <1>7. EventsInOrder'
    BY <1>1, <1>2, <1>3, OrderStays
  <1>8. SaverHasDone'
    BY <1>2, SaverStays DEF turnVars
  <1>9. ChatTypeOK'
    BY <1>1, <1>2, <1>4, <1>5, <1>6 DEF ChatTypeOK, turnVars
  <1> QED
    BY <1>6, <1>7, <1>8, <1>9 DEF ChatInv

\* The runner and the response: the thread and its permit are not concerned.
LEMMA ReaderStep ==
  ASSUME ChatInv, UNCHANGED <<permits, worker, emitted>>,
         forwarded' \in [Turns -> Nat],
         response' \in [Turns -> {"none", "made", "open", "closed", "refused"}],
         cancel' \in [Turns -> BOOLEAN], doneSeen' \in [Turns -> BOOLEAN],
         turn' \in [Turns -> TurnStep], chatRow' \in [Turns -> {"none", "row", "complete"}],
         \A t \in Turns :
           /\ doneSeen'[t] => doneSeen[t] \/ Occurs("done", t)
           /\ turn'[t] \in Finishing =>
                doneSeen[t] \/ turn[t] \in Finishing
           /\ chatRow'[t] # "none" => chatRow[t] # "none" \/ turn[t] \in Finishing
  PROVE  ChatInv'
  <1>1. ChatTypeOK'
    BY DEF ChatInv, ChatTypeOK
  <1>2. PermitsAreKept'
    BY PermitStays DEF ChatInv
  <1>3. EventsInOrder'
    BY OrderStays
  <1>4. \A t \in Turns : \A event : Occurs(event, t)' <=> Occurs(event, t)
    BY DEF Occurs
  <1>5. SaverHasDone'
    BY <1>4 DEF ChatInv, SaverHasDone
  <1> QED
    BY <1>1, <1>2, <1>3, <1>5 DEF ChatInv

LEMMA CloseType ==
  ASSUME ChatTypeOK, NEW t \in Turns, Close(t)
  PROVE  /\ response' \in [Turns -> {"none", "made", "open", "closed", "refused"}]
         /\ cancel' \in [Turns -> BOOLEAN]
  <1>1. (response[t] = "open") \in BOOLEAN
    OBVIOUS
  <1>2. response' = [response EXCEPT ![t] = "closed"]
    BY DEF Close
  <1>3. PICK b \in BOOLEAN : cancel' = [cancel EXCEPT ![t] = b]
    BY <1>1, Zenon DEF Close
  <1> QED
    BY <1>2, <1>3 DEF ChatTypeOK

\* Events are read.
LEMMA ReadingStep ==
  ASSUME ChatInv, NEW t \in Turns, Reading(t)
  PROVE  ChatInv'
  <1>1. ChatTypeOK /\ emitted \in [Turns -> Seq(ChatEvent)] /\ forwarded \in [Turns -> Nat]
          /\ turn \in [Turns -> TurnStep] /\ doneSeen \in [Turns -> BOOLEAN]
    BY DEF ChatInv, ChatTypeOK
  <1>2. UNCHANGED <<permits, worker, emitted, chatRow>> /\ Take(t)
    BY DEF Reading, ReadToken, ReadDone, ReadError, ReadEnd, EndTurn, TurnGoesTo
  <1>3. forwarded' \in [Turns -> Nat]
    BY <1>1, <1>2 DEF Take
  <1>4. chatRow' \in [Turns -> {"none", "row", "complete"}]
    BY <1>1, <1>2 DEF ChatTypeOK
  <1>5. CASE ReadToken(t)
    <2>1. PICK step \in {"handing", "reading"} : turn' = [turn EXCEPT ![t] = step]
      BY <1>5 DEF ReadToken, TurnGoesTo
    <2>2. UNCHANGED <<doneSeen, response, cancel>>
      BY <1>5 DEF ReadToken, TurnGoesTo
    <2>3. /\ turn' \in [Turns -> TurnStep]
          /\ \A s \in Turns : turn'[s] \in Finishing => turn[s] \in Finishing
      BY <1>1, <2>1 DEF TurnStep, WithBrowser, Finishing
    <2> QED
      BY <1>1, <1>2, <1>3, <1>4, <2>2, <2>3, ReaderStep DEF ChatTypeOK
  <1>6. CASE ReadDone(t)
    <2>1. Occurs("done", t)
      <3>1. forwarded[t] + 1 \in 1..Len(emitted[t]) /\ emitted[t][forwarded[t] + 1] = "done"
        <4>1. PICK q \in Seq(ChatEvent) : q = emitted[t]
          BY <1>1
        <4>2. PICK n \in Nat : n = forwarded[t]
          BY <1>1
        <4>3. n < Len(q) /\ Len(q) \in Nat /\ emitted[t][forwarded[t] + 1] = "done"
          BY <1>6, <4>1, <4>2 DEF ReadDone, Pending, NextEvent
        <4>4. n + 1 \in 1..Len(q)
          BY <4>2, <4>3
        <4> QED
          BY <4>1, <4>2, <4>3, <4>4
      <3> QED
        BY <3>1 DEF Occurs
    <2>2. doneSeen' = [doneSeen EXCEPT ![t] = TRUE] /\ UNCHANGED <<response, cancel, turn>>
      BY <1>6 DEF ReadDone
    <2>3. doneSeen' \in [Turns -> BOOLEAN]
      BY <1>1, <2>2
    <2>4. \A s \in Turns : doneSeen'[s] => doneSeen[s] \/ Occurs("done", s)
      BY <1>1, <2>1, <2>2
    <2> QED
      BY <1>1, <1>2, <1>3, <1>4, <2>2, <2>3, <2>4, ReaderStep DEF ChatTypeOK
  <1>7. CASE ReadError(t)
    <2>1. turn' = [turn EXCEPT ![t] = "ended"] /\ UNCHANGED <<doneSeen, response, cancel>>
      BY <1>7 DEF ReadError, EndTurn, TurnGoesTo
    <2> QED
      BY <1>1, <1>2, <1>3, <1>4, <2>1, ReaderStep DEF ChatTypeOK, TurnStep, Finishing
  <1>8. CASE ReadEnd(t)
    <2>1. /\ doneSeen' = doneSeen
          /\ \/ turn' = [turn EXCEPT ![t] = "ended"]
             \/ /\ doneSeen[t]
                /\ \E step \in {"citing", "persist"} : turn' = [turn EXCEPT ![t] = step]
      BY <1>8 DEF ReadEnd, EndTurn, TurnGoesTo
    <2>2. /\ response' \in [Turns -> {"none", "made", "open", "closed", "refused"}]
          /\ cancel' \in [Turns -> BOOLEAN]
      BY <1>1, <1>8, CloseType DEF ReadEnd
    <2>3. turn' \in [Turns -> TurnStep]
      BY <1>1, <2>1 DEF TurnStep, WithBrowser
    <2>4. \A s \in Turns : turn'[s] \in Finishing =>
            doneSeen[s] \/ turn[s] \in Finishing
      BY <1>1, <2>1 DEF Finishing
    <2> QED
      BY <1>1, <1>2, <1>3, <1>4, <2>1, <2>2, <2>3, <2>4, ReaderStep
  <1> QED
    BY <1>5, <1>6, <1>7, <1>8 DEF Reading

\* The response is opened, or its end noticed.
LEMMA ResponseStep ==
  ASSUME ChatInv, NEW t \in Turns, Open(t) \/ NoticeLeft(t)
  PROVE  ChatInv'
  <1>1. ChatTypeOK
    BY DEF ChatInv
  <1>2. UNCHANGED <<permits, worker, emitted, forwarded, turnVars>>
    BY DEF Open, NoticeLeft
  <1>3. /\ response' \in [Turns -> {"none", "made", "open", "closed", "refused"}]
        /\ cancel' \in [Turns -> BOOLEAN]
    BY <1>1, CloseType DEF Open, NoticeLeft, ChatTypeOK
  <1> QED
    BY <1>1, <1>2, <1>3, ReaderStep DEF turnVars, ChatTypeOK

\* The turn begins, waits for its browser, ends or is saved.
LEMMA TurnMoves ==
  ASSUME ChatInv, NEW t \in Turns,
         \/ ReadTimesOut(t) \/ ReadFails(t) \/ BeginTurn(t) \/ BrowserTakes(t) \/ Leave(t)
         \/ Saving(t) \/ RestartApp
  PROVE  ChatInv'
  <1>1. ChatTypeOK /\ turn \in [Turns -> TurnStep]
          /\ chatRow \in [Turns -> {"none", "row", "complete"}]
    BY DEF ChatInv, ChatTypeOK
  <1>2. UNCHANGED <<ragVars, doneSeen>>
    BY DEF ReadTimesOut, ReadFails, BeginTurn, BrowserTakes, Leave, Saving, RestartApp, EndTurn,
           TurnGoesTo, SaveRow, SaveRowFails, SaveEvidence, SaveEvidenceFails, Persists
  <1>3. \/ /\ \E step \in {"handing", "reading", "ended"} : turn' = [turn EXCEPT ![t] = step]
           /\ chatRow' = chatRow
        \/ /\ turn[t] \in Finishing
           /\ turn' = [turn EXCEPT ![t] = "persist"] /\ chatRow' = chatRow
        \/ /\ turn[t] \in Finishing
           /\ turn' = [turn EXCEPT ![t] = "evidence"] /\ chatRow' = [chatRow EXCEPT ![t] = "row"]
        \/ /\ turn[t] \in Finishing
           /\ turn' = [turn EXCEPT ![t] = "ended"]
           /\ chatRow' = [chatRow EXCEPT ![t] = "complete"]
        \/ /\ turn' = [s \in Turns |-> IF turn[s] = "idle" THEN "idle" ELSE "ended"]
           /\ chatRow' = chatRow
    BY DEF ReadTimesOut, ReadFails, BeginTurn, BrowserTakes, Leave, Saving, RestartApp, EndTurn,
           TurnGoesTo, SaveRow, SaveRowFails, SaveEvidence, SaveEvidenceFails, Persists, Finishing
  <1>4. turn' \in [Turns -> TurnStep] /\ chatRow' \in [Turns -> {"none", "row", "complete"}]
    BY <1>1, <1>3 DEF TurnStep, WithBrowser
  <1>5. \A s \in Turns :
          /\ turn'[s] \in Finishing => turn[s] \in Finishing
          /\ chatRow'[s] # "none" => chatRow[s] # "none" \/ turn[s] \in Finishing
    BY <1>1, <1>3 DEF Finishing
  <1> QED
    BY <1>1, <1>2, <1>4, <1>5, ReaderStep DEF ragVars, ChatTypeOK

LEMMA RestartStep ==
  ASSUME ChatInv, RestartRag
  PROVE  ChatInv'
  <1>1. ChatTypeOK
    BY DEF ChatInv
  <1>2. PermitsAreKept' /\ permits' \in 0..MaxConcurrent
    BY <1>1, PermitsReset
  <1>3. /\ worker' \in [Turns -> WorkerStep]
        /\ response' \in [Turns -> {"none", "made", "open", "closed", "refused"}]
        /\ UNCHANGED <<emitted, forwarded, cancel, turnVars>>
    BY DEF RestartRag, WorkerStep
  <1>4. EventsInOrder'
    <2>1. \A t \in Turns : worker[t] \in {"closing", "returned", "over"}
            => worker'[t] \in {"closing", "returned", "over"}
      BY DEF RestartRag
    <2> QED
      BY <1>3, <2>1, OrderStays
  <1>5. SaverHasDone'
    BY <1>3, SaverStays DEF turnVars
  <1>6. ChatTypeOK'
    BY <1>1, <1>2, <1>3 DEF ChatTypeOK, turnVars
  <1> QED
    BY <1>2, <1>4, <1>5, <1>6 DEF ChatInv

LEMMA ChatInvInit == ChatInit => ChatInv
  <1> SUFFICES ASSUME ChatInit  PROVE ChatInv
    OBVIOUS
  <1>1. MaxConcurrent \in Nat
    BY ChatAssumptions DEF ChatAssumptions
  <1>2. ChatTypeOK
    BY <1>1 DEF ChatInit, ChatTypeOK, WorkerStep, TurnStep
  <1>3. PermitsAreKept
    <2>1. AdmittedTurns = {}
      BY DEF ChatInit, AdmittedTurns, Admitted
    <2>2. Cardinality(AdmittedTurns) = 0 /\ permits = MaxConcurrent
      BY <2>1, FS_EmptySet DEF ChatInit
    <2> QED
      BY <1>1, <2>2 DEF PermitsAreKept, AdmittedTurns
  <1>4. \A t \in Turns : \A event : ~Occurs(event, t)
    BY DEF ChatInit, Occurs
  <1>5. EventsInOrder /\ SaverHasDone
    BY <1>4 DEF ChatInit, EventsInOrder, SaverHasDone, Finishing
  <1> QED
    BY <1>2, <1>3, <1>5 DEF ChatInv

LEMMA ChatInvNext ==
  ASSUME ChatInv, [ChatNext]_chatVars
  PROVE  ChatInv'
  <1>1. CASE RestartRag
    BY <1>1, RestartStep
  <1>2. CASE RestartApp
    <2>1. CASE Turns = {}
      BY <1>2, <2>1, ReaderStep DEF RestartApp, ragVars, ChatInv, ChatTypeOK
    <2>2. CASE Turns # {}
      BY <1>2, <2>2, TurnMoves
    <2> QED
      BY <2>1, <2>2
  <1>3. ASSUME NEW t \in Turns,
               \/ Arrive(t) \/ Admission(t) \/ Thread(t) \/ BindFails(t) \/ Release(t)
               \/ Open(t) \/ Reading(t) \/ ReadTimesOut(t) \/ ReadFails(t) \/ NoticeLeft(t)
               \/ BeginTurn(t) \/ BrowserTakes(t) \/ Leave(t) \/ Saving(t)
        PROVE  ChatInv'
    BY <1>3, ThreadStep, AdmissionStep, ReadingStep, ResponseStep, TurnMoves
  <1>4. CASE UNCHANGED chatVars
    BY <1>4, ReaderStep DEF chatVars, ragVars, turnVars, ChatInv, ChatTypeOK
  <1> QED
    BY <1>1, <1>2, <1>3, <1>4 DEF ChatNext

LEMMA ChatInvAlways == ChatSpec => []ChatInv
  BY ChatInvInit, ChatInvNext, PTL DEF ChatSpec

-----------------------------------------------------------------------------
(* Theorems *)

\* Types of the variables.
THEOREM ChatTypes == ChatSpec => []ChatTypeOK
  <1>1. ChatInv => ChatTypeOK
    BY DEF ChatInv
  <1> QED
    BY <1>1, ChatInvAlways, PTL

\* For any number of turns and permits, restarts included.
THEOREM PermitsAreKeptAlways == ChatSpec => []PermitsAreKept
  <1>1. ChatInv => PermitsAreKept
    BY DEF ChatInv
  <1> QED
    BY <1>1, ChatInvAlways, PTL

\* For answers of any length: what is saved was completed.
THEOREM SavedIsCompleteAlways == ChatSpec => []SavedIsComplete
  <1>1. ChatInv => SavedIsComplete
    BY DEF ChatInv, EventsInOrder, SaverHasDone, SavedIsComplete
  <1> QED
    BY <1>1, ChatInvAlways, PTL

-----------------------------------------------------------------------------
(* ChatStream implements TurnContract.  A row is written only at "persist",   *)
(* once, and completed only at "evidence".                                    *)

NotSaved == {"idle", "reading", "persist"} \cup WithBrowser

RowsInOrder ==
  \A t \in Turns :
    /\ turn[t] \in NotSaved => chatRow[t] = "none"
    /\ turn[t] = "evidence" => chatRow[t] = "row"

TurnInv == ChatInv /\ RowsInOrder

\* What the steps of reading, saving and restarting do to turns and rows.
LEMMA TurnMoved ==
  ASSUME ChatTypeOK, [ChatNext]_chatVars
  PROVE  \/ UNCHANGED <<turn, chatRow>>
         \/ \E t \in Turns :
              \/ /\ turn[t] \in NotSaved
                 /\ \E step \in NotSaved : turn' = [turn EXCEPT ![t] = step]
                 /\ chatRow' = chatRow
              \/ turn' = [turn EXCEPT ![t] = "ended"] /\ chatRow' = chatRow
              \/ /\ turn[t] = "persist" /\ turn' = [turn EXCEPT ![t] = "evidence"]
                 /\ chatRow' = [chatRow EXCEPT ![t] = "row"]
              \/ /\ turn[t] = "evidence" /\ turn' = [turn EXCEPT ![t] = "ended"]
                 /\ chatRow' = [chatRow EXCEPT ![t] = "complete"]
         \/ /\ turn' = [t \in Turns |-> IF turn[t] = "idle" THEN "idle" ELSE "ended"]
            /\ chatRow' = chatRow
  <1>1. ASSUME NEW t \in Turns, Arrive(t) \/ Admission(t) \/ Thread(t) \/ BindFails(t)
                                  \/ Release(t) \/ Open(t) \/ NoticeLeft(t)
        PROVE  UNCHANGED <<turn, chatRow>>
    BY <1>1 DEF Arrive, Admission, Acquire, RefuseBusy, Thread, StartWorker, EmitToken,
                Complete, EmitDone, EmitCancelled, EmitError, EmitEnd, BindFails, Release,
                Open, NoticeLeft, threadOnly, turnVars
  <1>2. ASSUME NEW t \in Turns, Reading(t)
        PROVE  \/ UNCHANGED <<turn, chatRow>>
               \/ turn' = [turn EXCEPT ![t] = "ended"] /\ chatRow' = chatRow
               \/ /\ turn[t] \in NotSaved
                  /\ \E step \in NotSaved : turn' = [turn EXCEPT ![t] = step]
                  /\ chatRow' = chatRow
    BY <1>2 DEF Reading, ReadToken, ReadDone, ReadError, ReadEnd, Pending, EndTurn, TurnGoesTo,
                NotSaved, WithBrowser
  <1>3. ASSUME NEW t \in Turns, BeginTurn(t) \/ BrowserTakes(t)
        PROVE  /\ turn[t] \in NotSaved
               /\ \E step \in NotSaved : turn' = [turn EXCEPT ![t] = step]
               /\ chatRow' = chatRow
    BY <1>3 DEF BeginTurn, BrowserTakes, TurnGoesTo, NotSaved, WithBrowser
  <1>4. ASSUME NEW t \in Turns, ReadTimesOut(t) \/ ReadFails(t) \/ Leave(t)
        PROVE  turn' = [turn EXCEPT ![t] = "ended"] /\ chatRow' = chatRow
    BY <1>4 DEF ReadTimesOut, ReadFails, Leave, EndTurn, TurnGoesTo
  <1>5. ASSUME NEW t \in Turns, Saving(t)
        PROVE  \/ turn' = [turn EXCEPT ![t] = "ended"] /\ chatRow' = chatRow
               \/ /\ turn[t] = "persist" /\ turn' = [turn EXCEPT ![t] = "evidence"]
                  /\ chatRow' = [chatRow EXCEPT ![t] = "row"]
               \/ /\ turn[t] = "evidence" /\ turn' = [turn EXCEPT ![t] = "ended"]
                  /\ chatRow' = [chatRow EXCEPT ![t] = "complete"]
    BY <1>5 DEF Saving, SaveRow, SaveRowFails, SaveEvidence, SaveEvidenceFails, Persists,
                EndTurn, TurnGoesTo
  <1>6. CASE RestartRag
    BY <1>6 DEF RestartRag, turnVars
  <1>7. CASE RestartApp
    BY <1>7 DEF RestartApp
  <1>8. CASE UNCHANGED chatVars
    BY <1>8 DEF chatVars, turnVars
  <1> QED
    BY <1>1, <1>2, <1>3, <1>4, <1>5, <1>6, <1>7, <1>8 DEF ChatNext

LEMMA RowsInOrderNext ==
  ASSUME ChatTypeOK, RowsInOrder, [ChatNext]_chatVars
  PROVE  RowsInOrder'
  <1>1. turn \in [Turns -> TurnStep] /\ chatRow \in [Turns -> {"none", "row", "complete"}]
    BY DEF ChatTypeOK
  <1>2. CASE UNCHANGED <<turn, chatRow>>
    BY <1>2 DEF RowsInOrder
  <1>3. ASSUME NEW t \in Turns, turn[t] \in NotSaved, NEW step \in NotSaved,
               turn' = [turn EXCEPT ![t] = step], chatRow' = chatRow
        PROVE  RowsInOrder'
    BY <1>1, <1>3 DEF RowsInOrder, NotSaved, WithBrowser
  <1>4. ASSUME NEW t \in Turns, turn' = [turn EXCEPT ![t] = "ended"], chatRow' = chatRow
        PROVE  RowsInOrder'
    BY <1>1, <1>4 DEF RowsInOrder, NotSaved, WithBrowser
  <1>5. ASSUME NEW t \in Turns,
               \/ /\ turn[t] = "persist" /\ turn' = [turn EXCEPT ![t] = "evidence"]
                  /\ chatRow' = [chatRow EXCEPT ![t] = "row"]
               \/ /\ turn[t] = "evidence" /\ turn' = [turn EXCEPT ![t] = "ended"]
                  /\ chatRow' = [chatRow EXCEPT ![t] = "complete"]
        PROVE  RowsInOrder'
    BY <1>1, <1>5 DEF RowsInOrder, NotSaved, WithBrowser
  <1>6. CASE /\ turn' = [t \in Turns |-> IF turn[t] = "idle" THEN "idle" ELSE "ended"]
             /\ chatRow' = chatRow
    BY <1>1, <1>6 DEF RowsInOrder, NotSaved, WithBrowser
  <1> QED
    BY <1>2, <1>3, <1>4, <1>5, <1>6, TurnMoved

\* A step of the turn alone: the mapped work and outcome are as they were.
LEMMA TurnMovedImplements ==
  ASSUME TurnInv, [ChatNext]_chatVars, TurnWork' = TurnWork, TurnOutcome' = TurnOutcome
  PROVE  [Promise!TurnNext]_Promise!contractVars
  <1>1. /\ turn \in [Turns -> TurnStep] /\ chatRow \in [Turns -> {"none", "row", "complete"}]
        /\ RowsInOrder /\ ChatTypeOK
    BY DEF TurnInv, ChatInv, ChatTypeOK
  <1>2. CASE chatRow' = chatRow /\ TurnsEnded' = TurnsEnded
    BY <1>2 DEF Promise!contractVars
  <1>3. ASSUME NEW T \in SUBSET Turns, chatRow' = chatRow, TurnsEnded' = TurnsEnded \cup T
        PROVE  Promise!TurnNext
    <2>1. Promise!EndTurns(T)
      BY <1>3 DEF Promise!EndTurns
    <2> QED
      BY <2>1 DEF Promise!TurnNext
  <1>4. CASE UNCHANGED <<turn, chatRow>>
    BY <1>2, <1>4 DEF TurnsEnded
  <1>5. ASSUME NEW t \in Turns, turn[t] \in NotSaved, NEW step \in NotSaved,
               turn' = [turn EXCEPT ![t] = step]
        PROVE  TurnsEnded' = TurnsEnded
    BY <1>1, <1>5 DEF TurnsEnded, NotSaved, WithBrowser
  <1>6. ASSUME NEW t \in Turns, turn' = [turn EXCEPT ![t] = "ended"]
        PROVE  TurnsEnded' = TurnsEnded \cup {t}
    BY <1>1, <1>6 DEF TurnsEnded
  <1>7. ASSUME NEW t \in Turns, turn[t] = "persist", turn' = [turn EXCEPT ![t] = "evidence"],
               chatRow' = [chatRow EXCEPT ![t] = "row"]
        PROVE  Promise!TurnNext
    <2>1. TurnsEnded' = TurnsEnded /\ t \notin TurnsEnded
      BY <1>1, <1>7 DEF TurnsEnded
    <2>2. chatRow[t] = "none"
      BY <1>1, <1>7 DEF RowsInOrder, NotSaved
    <2>3. TurnOutcome[t] = "answer"
      BY <1>7 DEF TurnInv, ChatInv, SaverHasDone, Finishing, TurnOutcome
    <2>4. Promise!Save(t)
      BY <1>7, <2>1, <2>2, <2>3 DEF Promise!Save
    <2> QED
      BY <2>4 DEF Promise!TurnNext
  <1>8. ASSUME NEW t \in Turns, turn[t] = "evidence", turn' = [turn EXCEPT ![t] = "ended"],
               chatRow' = [chatRow EXCEPT ![t] = "complete"]
        PROVE  Promise!TurnNext
    <2>1. TurnsEnded' = TurnsEnded \cup {t} /\ t \notin TurnsEnded
      BY <1>6, <1>8 DEF TurnsEnded
    <2>2. chatRow[t] = "row"
      BY <1>1, <1>8 DEF RowsInOrder
    <2>3. Promise!SaveBasis(t)
      BY <1>8, <2>1, <2>2 DEF Promise!SaveBasis
    <2> QED
      BY <2>3 DEF Promise!TurnNext
  <1>9. ASSUME turn' = [t \in Turns |-> IF turn[t] = "idle" THEN "idle" ELSE "ended"]
        PROVE  TurnsEnded' = TurnsEnded \cup {t \in Turns : turn[t] # "idle"}
    BY <1>1, <1>9 DEF TurnsEnded
  <1>10. ASSUME NEW t \in Turns, turn' = [turn EXCEPT ![t] = "ended"], chatRow' = chatRow
         PROVE  Promise!TurnNext
    <2>1. TurnsEnded' = TurnsEnded \cup {t} /\ {t} \in SUBSET Turns
      BY <1>6, <1>10
    <2> QED
      BY <1>3, <1>10, <2>1
  <1>11. CASE /\ turn' = [t \in Turns |-> IF turn[t] = "idle" THEN "idle" ELSE "ended"]
              /\ chatRow' = chatRow
    <2> DEFINE begun == {t \in Turns : turn[t] # "idle"}
    <2>1. TurnsEnded' = TurnsEnded \cup begun /\ begun \in SUBSET Turns
      BY <1>9, <1>11
    <2> QED
      BY <1>3, <1>11, <2>1
  <1>12. ASSUME NEW t \in Turns, turn[t] \in NotSaved, NEW step \in NotSaved,
                turn' = [turn EXCEPT ![t] = step], chatRow' = chatRow
         PROVE  [Promise!TurnNext]_Promise!contractVars
    BY <1>2, <1>5, <1>12
  <1> QED
    BY <1>1, <1>4, <1>7, <1>8, <1>10, <1>11, <1>12, TurnMoved

LEMMA OutcomeStays ==
  ASSUME emitted' = emitted
  PROVE  TurnOutcome' = TurnOutcome
  BY DEF TurnOutcome, Occurs

LEMMA WorkStays ==
  ASSUME \A t \in Turns : /\ worker[t] \in {"none", "waiting"} <=> worker'[t] \in {"none", "waiting"}
                          /\ worker[t] \in Admitted <=> worker'[t] \in Admitted
  PROVE  TurnWork' = TurnWork
  BY DEF TurnWork

\* A thread reports its one outcome while it has its permit, or tells nothing.
LEMMA ThreadImplements ==
  ASSUME TurnInv, NEW t \in Turns, Thread(t) \/ BindFails(t)
  PROVE  [Promise!TurnNext]_Promise!contractVars
  <1>1. ChatTypeOK /\ EventsInOrder /\ worker \in [Turns -> WorkerStep]
    BY DEF TurnInv, ChatInv, ChatTypeOK
  <1>2. UNCHANGED <<turn, chatRow>>
    BY DEF Thread, BindFails, StartWorker, EmitToken, Complete, EmitDone, EmitCancelled,
           EmitError, EmitEnd, threadOnly, turnVars
  <1>3. TurnsEnded' = TurnsEnded
    BY <1>2 DEF TurnsEnded
  <1>4. /\ worker[t] \in Admitted /\ worker'[t] \in Admitted
        /\ \A s \in Turns \ {t} : worker'[s] = worker[s]
    BY <1>1 DEF Thread, BindFails, StartWorker, EmitToken, Complete, EmitDone, EmitCancelled,
                EmitError, EmitEnd, Works, Admitted
  <1>5. TurnWork' = TurnWork /\ TurnWork[t] = "going"
    <2>1. TurnWork' = TurnWork
      BY <1>4, WorkStays DEF Admitted
    <2> QED
      BY <1>4, <2>1 DEF TurnWork, Admitted
  <1>6. \/ emitted' = emitted
        \/ \E e \in {"token", "_end"} : Emit(t, e)
        \/ worker[t] \in {"running", "completed"} /\ \E e \in Terminal : Emit(t, e)
    BY DEF Thread, BindFails, StartWorker, EmitToken, Complete, EmitDone, EmitCancelled,
           EmitError, EmitEnd, Works, Terminal
  <1>7. CASE emitted' = emitted
    BY <1>2, <1>3, <1>5, <1>7, OutcomeStays DEF Promise!contractVars
  <1>8. ASSUME NEW e \in {"token", "_end"}, Emit(t, e)
        PROVE  TurnOutcome' = TurnOutcome
    <2>1. \A s \in Turns : \A x : Occurs(x, s)' <=> Occurs(x, s) \/ (s = t /\ x = e)
      BY <1>1, <1>8, EmitOccurs DEF ChatEvent
    <2>2. \A s \in Turns : \A x \in Terminal : Occurs(x, s)' <=> Occurs(x, s)
      BY <2>1 DEF Terminal
    <2> QED
      BY <2>2 DEF TurnOutcome, Terminal
  <1>9. ASSUME NEW e \in Terminal, Emit(t, e), worker[t] \in {"running", "completed"}
        PROVE  Promise!TurnNext
    <2>1. \A s \in Turns : \A x : Occurs(x, s)' <=> Occurs(x, s) \/ (s = t /\ x = e)
      BY <1>1, <1>9, EmitOccurs DEF ChatEvent
    <2>2. \A x \in Terminal : ~Occurs(x, t)
      BY <1>1, <1>9 DEF EventsInOrder, Terminal
    <2>3. TurnOutcome[t] = "nothing"
      BY <2>2 DEF TurnOutcome, Terminal
    <2> DEFINE r == IF e = "done" THEN "answer" ELSE "failure"
    <2>4. \A x \in Terminal : Occurs(x, t)' <=> x = e
      BY <2>1, <2>2
    <2>5. TurnOutcome'[t] = r
      BY <2>4 DEF TurnOutcome, Terminal
    <2>6. \A s \in Turns \ {t} : \A x : Occurs(x, s)' <=> Occurs(x, s)
      BY <2>1
    <2>7. \A s \in Turns \ {t} : TurnOutcome'[s] = TurnOutcome[s]
      BY <2>6 DEF TurnOutcome
    <2>8. TurnOutcome' = [TurnOutcome EXCEPT ![t] = r]
      BY <2>5, <2>7 DEF TurnOutcome
    <2>9. Promise!Report(t, r)
      BY <1>2, <1>3, <1>5, <2>3, <2>8 DEF Promise!Report
    <2>10. r = "answer" \/ r = "failure"
      OBVIOUS
    <2> HIDE DEF r
    <2>11. Promise!Report(t, "answer") \/ Promise!Report(t, "failure")
      BY <2>9, <2>10
    <2> QED
      BY <2>11 DEF Promise!TurnNext
  <1> QED
    BY <1>2, <1>3, <1>5, <1>6, <1>7, <1>8, <1>9 DEF Promise!contractVars

\* Requests arrive, are admitted, refused, and return their permits.
LEMMA AdmissionImplements ==
  ASSUME TurnInv, NEW t \in Turns, Arrive(t) \/ Admission(t) \/ Release(t)
  PROVE  [Promise!TurnNext]_Promise!contractVars
  <1>1. ChatTypeOK /\ PermitsAreKept /\ worker \in [Turns -> WorkerStep]
    BY DEF TurnInv, ChatInv, ChatTypeOK
  <1>2. UNCHANGED <<emitted, turn, chatRow>>
    BY DEF Arrive, Admission, Acquire, RefuseBusy, Release, turnVars
  <1>3. TurnsEnded' = TurnsEnded /\ TurnOutcome' = TurnOutcome
    BY <1>2, OutcomeStays DEF TurnsEnded
  <1>4. CASE Arrive(t)
    <2>1. TurnWork' = TurnWork
      BY <1>1, <1>4, WorkStays DEF Arrive, Works, Admitted
    <2> QED
      BY <1>2, <1>3, <2>1 DEF Promise!contractVars
  <1>5. CASE Acquire(t)
    <2>1. worker[t] = "waiting" /\ worker' = [worker EXCEPT ![t] = "queued"] /\ permits > 0
      BY <1>5 DEF Acquire, Works
    <2>2. Promise!Going = AdmittedTurns
      BY DEF Promise!Going, TurnWork, AdmittedTurns, Admitted
    <2>3. Cardinality(Promise!Going) < MaxConcurrent
      BY <1>1, <2>1, <2>2, AdmittedFinite DEF PermitsAreKept, AdmittedTurns
    <2>4. TurnWork[t] = "none" /\ TurnWork' = [TurnWork EXCEPT ![t] = "going"]
      BY <1>1, <2>1 DEF TurnWork, Admitted
    <2>5. Promise!TakeUp(t)
      BY <1>2, <1>3, <2>3, <2>4 DEF Promise!TakeUp, Promise!Cardinality, Cardinality
    <2> QED
      BY <2>5 DEF Promise!TurnNext
  <1>6. CASE RefuseBusy(t) \/ Release(t)
    <2>1. worker' = [worker EXCEPT ![t] = "over"]
      BY <1>6 DEF RefuseBusy, Release, Works
    <2>2. TurnWork' = [s \in Turns |-> IF s \in {t} THEN "over" ELSE TurnWork[s]]
      BY <1>1, <2>1 DEF TurnWork, Admitted
    <2>3. Promise!StopWork({t})
      BY <1>2, <1>3, <2>2 DEF Promise!StopWork
    <2> QED
      BY <2>3 DEF Promise!TurnNext
  <1> QED
    BY <1>4, <1>5, <1>6 DEF Admission

LEMMA RestartImplements ==
  ASSUME TurnInv, RestartRag
  PROVE  Promise!TurnNext
  <1> DEFINE begun == {t \in Turns : worker[t] # "none"}
  <1>1. UNCHANGED <<emitted, turn, chatRow>>
    BY DEF RestartRag, turnVars
  <1>2. TurnsEnded' = TurnsEnded /\ TurnOutcome' = TurnOutcome
    BY <1>1, OutcomeStays DEF TurnsEnded
  <1>3. TurnWork' = [t \in Turns |-> IF t \in begun THEN "over" ELSE TurnWork[t]]
    BY DEF RestartRag, TurnWork, Admitted
  <1>4. Promise!StopWork(begun)
    BY <1>1, <1>2, <1>3 DEF Promise!StopWork
  <1> QED
    BY <1>4 DEF Promise!TurnNext

LEMMA ChatStepImplements ==
  ASSUME TurnInv, [ChatNext]_chatVars
  PROVE  [Promise!TurnNext]_Promise!contractVars
  <1>1. ASSUME UNCHANGED <<worker, emitted>>
        PROVE  [Promise!TurnNext]_Promise!contractVars
    BY <1>1, WorkStays, OutcomeStays, TurnMovedImplements
  <1>2. ASSUME NEW t \in Turns,
               \/ Open(t) \/ Reading(t) \/ ReadTimesOut(t) \/ ReadFails(t) \/ NoticeLeft(t)
               \/ BeginTurn(t) \/ BrowserTakes(t) \/ Leave(t) \/ Saving(t)
        PROVE  UNCHANGED <<worker, emitted>>
    BY <1>2 DEF Open, Reading, ReadToken, ReadDone, ReadError, ReadEnd, ReadTimesOut, ReadFails,
                NoticeLeft, BeginTurn, BrowserTakes, Leave, Saving, SaveRow, SaveRowFails, SaveEvidence,
                SaveEvidenceFails, Persists, ragVars
  <1>3. RestartApp \/ UNCHANGED chatVars => UNCHANGED <<worker, emitted>>
    BY DEF RestartApp, chatVars, ragVars
  <1> QED
    BY <1>1, <1>2, <1>3, ThreadImplements, AdmissionImplements, RestartImplements DEF ChatNext

LEMMA TurnInvAlways == ChatSpec => []TurnInv
  <1>1. ChatInit => TurnInv
    BY ChatInvInit DEF ChatInit, TurnInv, RowsInOrder
  <1>2. TurnInv /\ [ChatNext]_chatVars => TurnInv'
    BY ChatInvNext, RowsInOrderNext DEF TurnInv, ChatInv
  <1> QED
    BY <1>1, <1>2, PTL DEF ChatSpec

\* Every step of the two servers is a step of TurnContract or leaves it alone.
THEOREM ChatImplementsTurns == ChatSpec => ImplementsTurns
  <1>1. ChatInit => Promise!TurnInit
    <2> SUFFICES ASSUME ChatInit PROVE Promise!TurnInit
      OBVIOUS
    <2>1. \A t \in Turns : \A event : ~Occurs(event, t)
      BY DEF ChatInit, Occurs
    <2>2. /\ TurnOutcome = [t \in Turns |-> "nothing"]
          /\ TurnWork = [t \in Turns |-> "none"] /\ TurnsEnded = {}
      BY <2>1 DEF ChatInit, TurnOutcome, TurnWork, TurnsEnded
    <2> QED
      BY <2>2 DEF ChatInit, Promise!TurnInit
  <1>2. TurnInv /\ [ChatNext]_chatVars => [Promise!TurnNext]_Promise!contractVars
    BY ChatStepImplements
  <1> QED
    BY <1>1, <1>2, TurnInvAlways, PTL DEF ChatSpec, ImplementsTurns, Promise!TurnSpec

\* What is over stays over: the work, the outcome it reported, and the turn with what
\* was saved of it.
OverForGood ==
  \A t \in Turns :
    /\ TurnWork[t] = "over" => TurnWork'[t] = "over"
    /\ TurnOutcome[t] # "nothing" => TurnOutcome'[t] = TurnOutcome[t]
    /\ t \in TurnsEnded => t \in TurnsEnded' /\ chatRow'[t] = chatRow[t]

LEMMA PromiseStepKeeps ==
  ASSUME ChatTypeOK, [Promise!TurnNext]_Promise!contractVars
  PROVE  OverForGood
  <1>1. /\ chatRow \in [Turns -> {"none", "row", "complete"}]
        /\ DOMAIN TurnWork = Turns /\ DOMAIN TurnOutcome = Turns
    BY DEF ChatTypeOK, TurnWork, TurnOutcome
  <1>2. ASSUME NEW t \in Turns, Promise!TakeUp(t)
        PROVE  OverForGood
    BY <1>1, <1>2 DEF Promise!TakeUp, OverForGood
  <1>3. ASSUME NEW t \in Turns, Promise!Report(t, "answer") \/ Promise!Report(t, "failure")
        PROVE  OverForGood
    BY <1>1, <1>3 DEF Promise!Report, OverForGood
  <1>4. ASSUME NEW t \in Turns, Promise!Save(t) \/ Promise!SaveBasis(t)
        PROVE  OverForGood
    BY <1>1, <1>4 DEF Promise!Save, Promise!SaveBasis, OverForGood
  <1>5. ASSUME NEW T \in SUBSET Turns, Promise!StopWork(T)
        PROVE  OverForGood
    BY <1>1, <1>5 DEF Promise!StopWork, OverForGood
  <1>6. ASSUME NEW T \in SUBSET Turns, Promise!EndTurns(T)
        PROVE  OverForGood
    BY <1>1, <1>6 DEF Promise!EndTurns, OverForGood
  <1>7. CASE UNCHANGED Promise!contractVars
    BY <1>1, <1>7 DEF Promise!contractVars, OverForGood
  <1> QED
    BY <1>2, <1>3, <1>4, <1>5, <1>6, <1>7 DEF Promise!TurnNext

\* What the contract promises has this consequence for the servers: no restart, late
\* event, second reader or retry takes up a turn whose work is over, changes a reported
\* outcome, or saves anything for a turn that has ended.
THEOREM TurnsOverForGood == ChatSpec => [][OverForGood]_chatVars
  <1>1. TurnInv /\ [ChatNext]_chatVars => OverForGood
    BY ChatStepImplements, PromiseStepKeeps DEF TurnInv, ChatInv
  <1> QED
    BY <1>1, TurnInvAlways, PTL DEF ChatSpec

-----------------------------------------------------------------------------
(* Deletion of a document: types *)

CallSteps == {"check", "mark", "points", "restore", "rows"}

LEMMA CallParts ==
  ASSUME NEW x \in Call
  PROVE  /\ x # NoCall /\ x.step \in CallSteps /\ x.prev \in DocRow /\ x.alone \in BOOLEAN
         /\ [x EXCEPT !.alone = FALSE] \in Call
         /\ [x EXCEPT !.alone = FALSE].step = x.step
         /\ [x EXCEPT !.alone = FALSE].prev = x.prev
         /\ [x EXCEPT !.alone = FALSE].alone = FALSE
         /\ \A s \in CallSteps : /\ [x EXCEPT !.step = s] \in Call
                                 /\ [x EXCEPT !.step = s].step = s
                                 /\ [x EXCEPT !.step = s].prev = x.prev
                                 /\ [x EXCEPT !.step = s].alone = x.alone
  <1>1. x.step \in CallSteps /\ x.prev \in DocRow /\ x.alone \in BOOLEAN
    BY DEF Call, CallSteps
  <1>2. x # NoCall
    BY <1>1 DEF NoCall, CallSteps
  <1>3. /\ [x EXCEPT !.alone = FALSE] \in Call
        /\ [x EXCEPT !.alone = FALSE].step = x.step
        /\ [x EXCEPT !.alone = FALSE].prev = x.prev
        /\ [x EXCEPT !.alone = FALSE].alone = FALSE
    BY DEF Call
  <1>4. \A s \in CallSteps : /\ [x EXCEPT !.step = s] \in Call
                             /\ [x EXCEPT !.step = s].step = s
                             /\ [x EXCEPT !.step = s].prev = x.prev
                             /\ [x EXCEPT !.step = s].alone = x.alone
    BY DEF Call, CallSteps
  <1> QED
    BY <1>1, <1>2, <1>3, <1>4

CallType == [DeleteCalls -> Call \cup {NoCall}]

\* What a write of the row or the points does to the calls in flight.
LEMMA TouchedParts ==
  ASSUME NEW calls \in CallType, NEW writers
  PROVE  /\ Touched(calls, writers) \in CallType
         /\ \A c \in DeleteCalls :
              /\ calls[c] = NoCall => Touched(calls, writers)[c] = NoCall
              /\ c \in writers => Touched(calls, writers)[c] = calls[c]
              /\ (calls[c] # NoCall /\ c \notin writers) =>
                   /\ Touched(calls, writers)[c] # NoCall
                   /\ Touched(calls, writers)[c].step = calls[c].step
                   /\ Touched(calls, writers)[c].prev = calls[c].prev
                   /\ Touched(calls, writers)[c].alone = FALSE
  <1>1. \A c \in DeleteCalls : calls[c] # NoCall => calls[c] \in Call
    BY DEF CallType
  <1>2. \A c \in DeleteCalls :
          Touched(calls, writers)[c] = IF c \in writers \/ calls[c] = NoCall THEN calls[c]
                                       ELSE [calls[c] EXCEPT !.alone = FALSE]
    BY DEF Touched
  <1>3. \A c \in DeleteCalls : Touched(calls, writers)[c] \in Call \cup {NoCall}
    BY <1>1, <1>2, CallParts
  <1>4. Touched(calls, writers) \in CallType
    BY <1>1, <1>3, CallParts DEF Touched, CallType
  <1>5. ASSUME NEW c \in DeleteCalls, calls[c] # NoCall, c \notin writers
        PROVE  /\ Touched(calls, writers)[c] # NoCall
               /\ Touched(calls, writers)[c].step = calls[c].step
               /\ Touched(calls, writers)[c].prev = calls[c].prev
               /\ Touched(calls, writers)[c].alone = FALSE
    <2>1. calls[c] \in Call /\ [calls[c] EXCEPT !.alone = FALSE] \in Call
      BY <1>1, <1>5, CallParts
    <2>2. Touched(calls, writers)[c] = [calls[c] EXCEPT !.alone = FALSE]
      BY <1>2, <1>5
    <2> QED
      BY <2>1, <2>2, CallParts
  <1> QED
    BY <1>2, <1>4, <1>5

LEMMA CallAt ==
  ASSUME DeletionTypeOK, NEW c \in DeleteCalls, NEW s \in CallSteps, At(c, s)
  PROVE  call[c] \in Call
  BY DEF DeletionTypeOK, At, NoCall, CallSteps

LEMMA GotoType ==
  ASSUME NEW calls \in CallType, NEW c \in DeleteCalls, calls[c] \in Call, NEW s \in CallSteps
  PROVE  /\ [calls EXCEPT ![c].step = s] \in CallType
         /\ [calls EXCEPT ![c].step = s][c] # NoCall
         /\ [calls EXCEPT ![c].step = s][c].step = s
         /\ [calls EXCEPT ![c].step = s][c].prev = calls[c].prev
         /\ [calls EXCEPT ![c].step = s][c].alone = calls[c].alone
         /\ \A d \in DeleteCalls \ {c} : [calls EXCEPT ![c].step = s][d] = calls[d]
  <1> DEFINE x == [calls[c] EXCEPT !.step = s]
  <1>1. /\ x \in Call /\ x # NoCall /\ x.step = s /\ x.prev = calls[c].prev
        /\ x.alone = calls[c].alone
    BY CallParts
  <1>2. [calls EXCEPT ![c].step = s] = [calls EXCEPT ![c] = x]
    OBVIOUS
  <1> HIDE DEF x
  <1>3. [calls EXCEPT ![c] = x] \in CallType
    BY <1>1 DEF CallType
  <1>4. [calls EXCEPT ![c] = x][c] = x /\ \A d \in DeleteCalls \ {c} : [calls EXCEPT ![c] = x][d] = calls[d]
    BY DEF CallType
  <1> QED
    BY <1>1, <1>2, <1>3, <1>4

LEMMA ReturnType ==
  ASSUME NEW calls \in CallType, NEW c \in DeleteCalls
  PROVE  /\ [calls EXCEPT ![c] = NoCall] \in CallType
         /\ [calls EXCEPT ![c] = NoCall][c] = NoCall
         /\ \A d \in DeleteCalls \ {c} : [calls EXCEPT ![c] = NoCall][d] = calls[d]
  BY DEF CallType

LEMMA RowTypes ==
  /\ \A s \in {"draft", "published", "archived", "deleting"}, b \in BOOLEAN :
       [state |-> s, current |-> b] \in DocRow
  /\ NoDoc \notin DocRow
  BY DEF DocRow, NoDoc

LEMMA WriteType ==
  ASSUME DeletionTypeOK, NEW row \in DocRow, WriteRow(row)
  PROVE  doc' \in DocRow \cup {NoDoc} /\ (doc' = row \/ (doc = NoDoc /\ doc' = NoDoc))
  BY DEF WriteRow, DeletionTypeOK

LEMMA DeleteFaultType ==
  ASSUME DeletionTypeOK, DeleteFault
  PROVE  deleteFaults' \in 0..MaxDeleteFaults
  BY DeletionAssumptions DEF DeletionTypeOK, DeleteFault, DeletionAssumptions

LEMMA DeletionTypeInit == DeletionInit => DeletionTypeOK
  <1> SUFFICES ASSUME DeletionInit PROVE DeletionTypeOK
    OBVIOUS
  <1>1. doc \in DocRow \cup {NoDoc}
    BY RowTypes DEF DeletionInit
  <1>2. deleteFaults \in 0..MaxDeleteFaults
    BY DeletionAssumptions DEF DeletionInit, DeletionAssumptions
  <1>3. call \in [DeleteCalls -> Call \cup {NoCall}] /\ ingestJob \in JobState
    BY DEF DeletionInit, JobState
  <1> QED
    BY <1>1, <1>2, <1>3 DEF DeletionInit, DeletionTypeOK

\* What a step of a call does to the calls.
LEMMA DeletionTypeNext ==
  ASSUME DeletionTypeOK, [DeletionNext]_deletionVars
  PROVE  DeletionTypeOK'
  <1> USE DEF notes
  <1>t. call \in CallType
    BY DEF DeletionTypeOK, CallType
  <1>1. ASSUME NEW c \in DeleteCalls, ReadRow(c)  PROVE DeletionTypeOK'
    <2>1. [step |-> "check", prev |-> doc, alone |-> TRUE] \in Call
      BY <1>1 DEF ReadRow, DeletionTypeOK, Call
    <2> QED
      BY <1>1, <2>1 DEF ReadRow, DeletionTypeOK
  <1>2. ASSUME NEW c \in DeleteCalls, CheckJob(c)  PROVE DeletionTypeOK'
    <2>1. call[c] \in Call
      BY <1>2, CallAt DEF CheckJob, CallSteps
    <2>2. call' \in CallType
      <3>1. call' = [call EXCEPT ![c].step = "mark"] \/ call' = [call EXCEPT ![c] = NoCall]
        BY <1>2 DEF CheckJob, Goto, Return
      <3>2. "mark" \in CallSteps
        BY DEF CallSteps
      <3> QED
        BY <1>t, <2>1, <3>1, <3>2, GotoType, ReturnType
    <2> QED
      BY <1>2, <2>2 DEF CheckJob, DeletionTypeOK, CallType
  <1>3. ASSUME NEW c \in DeleteCalls, Mark(c)  PROVE DeletionTypeOK'
    <2>1. call[c] \in Call
      BY <1>3, CallAt DEF Mark, CallSteps
    <2>2. call' \in CallType
      BY <1>3, <1>t, <2>1, GotoType, TouchedParts, ZenonT(60) DEF Mark, CallSteps
    <2>3. doc' \in DocRow \cup {NoDoc}
      BY <1>3, RowTypes, WriteType DEF Mark
    <2> QED
      BY <1>3, <2>2, <2>3 DEF Mark, DeletionTypeOK, CallType
  <1>4. ASSUME NEW c \in DeleteCalls, DeletePoints(c)  PROVE DeletionTypeOK'
    <2>1. call[c] \in Call
      BY <1>4, CallAt DEF DeletePoints, CallSteps
    <2>2. call' \in CallType
      BY <1>4, <1>t, <2>1, GotoType, TouchedParts, ZenonT(60) DEF DeletePoints, CallSteps
    <2> QED
      BY <1>4, <2>2 DEF DeletePoints, DeletionTypeOK, CallType
  <1>5. ASSUME NEW c \in DeleteCalls, DeletePointsFails(c)  PROVE DeletionTypeOK'
    <2>1. call[c] \in Call
      BY <1>5, CallAt DEF DeletePointsFails, CallSteps
    <2>2. call' \in CallType
      <3>1. \/ call' = [call EXCEPT ![c].step = "restore"]
            \/ call' = Touched([call EXCEPT ![c].step = "restore"], {c})
        BY <1>5 DEF DeletePointsFails, Goto
      <3>2. [call EXCEPT ![c].step = "restore"] \in CallType
        BY <1>t, <2>1, GotoType DEF CallSteps
      <3> QED
        BY <3>1, <3>2, TouchedParts
    <2>3. deleteFaults' \in 0..MaxDeleteFaults
      BY <1>5, DeleteFaultType DEF DeletePointsFails
    <2> QED
      BY <1>5, <2>2, <2>3 DEF DeletePointsFails, DeletionTypeOK, CallType
  <1>6. ASSUME NEW c \in DeleteCalls, Restore(c)  PROVE DeletionTypeOK'
    <2>1. call[c].prev \in DocRow
      BY <1>6, CallAt, CallParts DEF Restore, CallSteps
    <2>2. call' \in CallType
      BY <1>6, <1>t, ReturnType, TouchedParts DEF Restore
    <2>3. doc' \in DocRow \cup {NoDoc}
      BY <1>6, <2>1, WriteType DEF Restore
    <2>4. raced' \in BOOLEAN
      BY <1>6 DEF Restore
    <2> QED
      BY <1>6, <2>2, <2>3, <2>4 DEF Restore, DeletionTypeOK, CallType
  <1>7. ASSUME NEW c \in DeleteCalls, DeleteRows(c)  PROVE DeletionTypeOK'
    <2>1. call' \in CallType
      BY <1>7, <1>t, ReturnType, TouchedParts DEF DeleteRows
    <2> QED
      BY <1>7, <2>1 DEF DeleteRows, DeletionTypeOK, CallType, JobState
  <1>8. ASSUME NEW c \in DeleteCalls, Abort(c)  PROVE DeletionTypeOK'
    <2>1. call' \in CallType
      BY <1>8, <1>t, ReturnType DEF Abort, Return
    <2>2. deleteFaults' \in 0..MaxDeleteFaults
      BY <1>8, DeleteFaultType DEF Abort
    <2> QED
      BY <1>8, <2>1, <2>2 DEF Abort, DeletionTypeOK, CallType
  <1>9. ASSUME NEW kind \in {"publish", "archive"}, BeginReview(kind)  PROVE DeletionTypeOK'
    BY <1>9 DEF BeginReview, DeletionTypeOK
  <1>10. CASE FinishReview
    <2>1. call' \in CallType
      BY <1>10, <1>t, TouchedParts DEF FinishReview
    <2>2. doc' \in DocRow \cup {NoDoc}
      BY <1>10, RowTypes, WriteType DEF FinishReview
    <2>3. raced' \in BOOLEAN
      BY <1>10 DEF FinishReview
    <2> QED
      BY <1>10, <2>1, <2>2, <2>3 DEF FinishReview, DeletionTypeOK, CallType
  <1>11. CASE Requeue \/ DeleteJobRow
    BY <1>11 DEF Requeue, DeleteJobRow, DeletionTypeOK, JobState
  <1>12. CASE BeginIngest
    <2>1. call' \in CallType
      BY <1>12, <1>t, TouchedParts DEF BeginIngest
    <2>2. ingestJob' \in JobState /\ ingesting' \in BOOLEAN /\ indexed' \in BOOLEAN
      BY <1>12 DEF BeginIngest, JobState, DeletionTypeOK
    <2> QED
      BY <1>12, <2>1, <2>2 DEF BeginIngest, DeletionTypeOK, CallType
  <1>13. CASE FinishIngest \/ IngestFails
    <2>1. EndIngest
      BY <1>13 DEF FinishIngest, IngestFails
    <2>2. call' \in CallType
      BY <1>t, <2>1, TouchedParts DEF EndIngest
    <2>3. ingestJob' \in JobState /\ ingesting' \in BOOLEAN
      BY <2>1 DEF EndIngest, JobState, DeletionTypeOK
    <2>4. indexed' \in BOOLEAN /\ reindexed' \in BOOLEAN
      BY <1>13 DEF FinishIngest, IngestFails, DeletionTypeOK
    <2>5. deleteFaults' \in 0..MaxDeleteFaults
      BY <1>13, DeleteFaultType DEF FinishIngest, IngestFails, DeletionTypeOK
    <2> QED
      BY <2>1, <2>2, <2>3, <2>4, <2>5 DEF EndIngest, DeletionTypeOK, CallType
  <1>14. CASE UNCHANGED deletionVars
    BY <1>14 DEF deletionVars, DeletionTypeOK
  <1> QED
    BY <1>1, <1>2, <1>3, <1>4, <1>5, <1>6, <1>7, <1>8, <1>9, <1>10, <1>11, <1>12, <1>13, <1>14
       DEF DeletionNext, Proceed

\* Types of the variables.
THEOREM DeletionTypes == DeletionSpec => []DeletionTypeOK
  BY DeletionTypeInit, DeletionTypeNext, PTL DEF DeletionSpec

-----------------------------------------------------------------------------
(* Deletion: what a step does to the calls *)

SameCall(d) == call'[d] = call[d]

\* The call goes on, but somebody else has written the row or the points.
TouchedCall(d) ==
  /\ call[d] = NoCall => call'[d] = NoCall
  /\ call[d] # NoCall => /\ call'[d] # NoCall /\ call'[d].step = call[d].step
                         /\ call'[d].prev = call[d].prev /\ call'[d].alone = FALSE

MovedCall(c, s) ==
  /\ call[c] \in Call
  /\ call'[c] # NoCall /\ call'[c].step = s
  /\ call'[c].prev = call[c].prev /\ call'[c].alone = call[c].alone

LEMMA OthersTouched ==
  ASSUME NEW calls \in CallType, NEW c \in DeleteCalls, call' = Touched(calls, {c}),
         \A d \in DeleteCalls \ {c} : calls[d] = call[d]
  PROVE  call'[c] = calls[c] /\ \A d \in DeleteCalls \ {c} : TouchedCall(d)
  <1>1. PICK writers : writers = {c}
    OBVIOUS
  <1>2. call' = Touched(calls, writers)
    BY <1>1
  <1>3. call'[c] = calls[c]
    <2>1. c \in writers
      BY <1>1
    <2>2. Touched(calls, writers)[c] = calls[c]
      BY <2>1, TouchedParts
    <2> QED
      BY <1>2, <2>2
  <1>4. ASSUME NEW d \in DeleteCalls \ {c}  PROVE TouchedCall(d)
    <2>1. d \notin writers /\ calls[d] = call[d]
      BY <1>1, <1>4
    <2>2. /\ calls[d] = NoCall => Touched(calls, writers)[d] = NoCall
          /\ calls[d] # NoCall => /\ Touched(calls, writers)[d] # NoCall
                                 /\ Touched(calls, writers)[d].step = calls[d].step
                                 /\ Touched(calls, writers)[d].prev = calls[d].prev
                                 /\ Touched(calls, writers)[d].alone = FALSE
      BY <2>1, TouchedParts
    <2> QED
      BY <1>2, <2>1, <2>2 DEF TouchedCall
  <1> QED
    BY <1>3, <1>4

LEMMA GotoCalls ==
  ASSUME DeletionTypeOK, NEW c \in DeleteCalls, NEW s \in CallSteps, call[c] \in Call, Goto(c, s)
  PROVE  MovedCall(c, s) /\ \A d \in DeleteCalls \ {c} : SameCall(d)
  <1>1. call \in CallType
    BY DEF DeletionTypeOK, CallType
  <1> QED
    BY <1>1, GotoType DEF Goto, MovedCall, SameCall

LEMMA GotoTouchedCalls ==
  ASSUME DeletionTypeOK, NEW c \in DeleteCalls, NEW s \in CallSteps, call[c] \in Call,
         call' = Touched([call EXCEPT ![c].step = s], {c})
  PROVE  MovedCall(c, s) /\ \A d \in DeleteCalls \ {c} : TouchedCall(d)
  <1> DEFINE calls == [call EXCEPT ![c].step = s]
  <1>1. call \in CallType
    BY DEF DeletionTypeOK, CallType
  <1>2. /\ calls \in CallType /\ calls[c] # NoCall /\ calls[c].step = s
        /\ calls[c].prev = call[c].prev /\ calls[c].alone = call[c].alone
        /\ \A d \in DeleteCalls \ {c} : calls[d] = call[d]
    BY <1>1, GotoType
  <1> HIDE DEF calls
  <1>3. call' = Touched(calls, {c})
    BY DEF calls
  <1>4. call'[c] = calls[c] /\ \A d \in DeleteCalls \ {c} : TouchedCall(d)
    BY <1>2, <1>3, OthersTouched
  <1> QED
    BY <1>2, <1>4 DEF MovedCall

LEMMA ReturnCalls ==
  ASSUME DeletionTypeOK, NEW c \in DeleteCalls, Return(c)
  PROVE  call'[c] = NoCall /\ \A d \in DeleteCalls \ {c} : SameCall(d)
  <1>1. call \in CallType
    BY DEF DeletionTypeOK, CallType
  <1> QED
    BY <1>1, ReturnType DEF Return, SameCall

LEMMA ReturnTouchedCalls ==
  ASSUME DeletionTypeOK, NEW c \in DeleteCalls,
         call' = Touched([call EXCEPT ![c] = NoCall], {c})
  PROVE  call'[c] = NoCall /\ \A d \in DeleteCalls \ {c} : TouchedCall(d)
  <1> DEFINE calls == [call EXCEPT ![c] = NoCall]
  <1>1. call \in CallType
    BY DEF DeletionTypeOK, CallType
  <1>2. /\ calls \in CallType /\ calls[c] = NoCall
        /\ \A d \in DeleteCalls \ {c} : calls[d] = call[d]
    BY <1>1, ReturnType
  <1> HIDE DEF calls
  <1>3. call' = Touched(calls, {c})
    BY DEF calls
  <1> QED
    BY <1>2, <1>3, OthersTouched

LEMMA TouchedCalls ==
  ASSUME DeletionTypeOK, call' = Touched(call, {})
  PROVE  \A d \in DeleteCalls : TouchedCall(d)
  <1>1. call \in CallType
    BY DEF DeletionTypeOK, CallType
  <1> QED
    BY <1>1, TouchedParts DEF TouchedCall

-----------------------------------------------------------------------------
(* Deletion: points left behind *)

\* A worker that is ingesting has removed the points and not written them yet.
IngestingClears == ingesting => ~indexed /\ ingestJob \in {"processing", "gone"}

Removed == (doc = NoDoc \/ \E c \in DeleteCalls : At(c, "rows")) => ~indexed \/ reindexed

PointsInv == DeletionTypeOK /\ IngestingClears /\ Removed

\* A call that did not just remove the points is about to delete the rows only if it was.
LEMMA RowsKept ==
  ASSUME NEW d \in DeleteCalls, SameCall(d) \/ TouchedCall(d), At(d, "rows")'
  PROVE  At(d, "rows")
  BY DEF SameCall, TouchedCall, At, NoCall

LEMMA PointsInvNext ==
  ASSUME PointsInv, [DeletionNext]_deletionVars
  PROVE  PointsInv'
  <1> USE DEF notes
  <1>t. DeletionTypeOK /\ DeletionTypeOK' /\ IngestingClears /\ Removed
    BY DeletionTypeNext DEF PointsInv
  <1> SUFFICES IngestingClears' /\ Removed'
    BY <1>t DEF PointsInv
  <1>1. ASSUME NEW c \in DeleteCalls, ReadRow(c)  PROVE IngestingClears' /\ Removed'
    <2>1. call' = [call EXCEPT ![c] = [step |-> "check", prev |-> doc, alone |-> TRUE]]
      BY <1>1 DEF ReadRow
    <2>2. \A d \in DeleteCalls : At(d, "rows")' => At(d, "rows")
      BY <1>t, <2>1 DEF At, DeletionTypeOK
    <2> QED
      BY <1>t, <1>1, <2>2 DEF ReadRow, IngestingClears, Removed
  <1>2. ASSUME NEW c \in DeleteCalls, CheckJob(c)  PROVE IngestingClears' /\ Removed'
    <2>1. call[c] \in Call
      BY <1>t, <1>2, CallAt DEF CheckJob, CallSteps
    <2>2. "mark" \in CallSteps
      BY DEF CallSteps
    <2>3. (call'[c] = NoCall \/ MovedCall(c, "mark")) /\ \A d \in DeleteCalls \ {c} : SameCall(d)
      BY <1>t, <1>2, <2>1, <2>2, GotoCalls, ReturnCalls DEF CheckJob
    <2>4. \A d \in DeleteCalls : At(d, "rows")' => At(d, "rows")
      BY <2>3, RowsKept DEF At, MovedCall, NoCall
    <2> QED
      BY <1>t, <1>2, <2>4 DEF CheckJob, IngestingClears, Removed
  <1>3. ASSUME NEW c \in DeleteCalls, Mark(c)  PROVE IngestingClears' /\ Removed'
    <2>1. call[c] \in Call
      BY <1>t, <1>3, CallAt DEF Mark, CallSteps
    <2>2. MovedCall(c, "points") /\ \A d \in DeleteCalls \ {c} : TouchedCall(d)
      BY <1>t, <1>3, <2>1, GotoTouchedCalls DEF Mark, CallSteps
    <2>3. \A d \in DeleteCalls : At(d, "rows")' => At(d, "rows")
      BY <2>2, RowsKept DEF At, MovedCall
    <2>4. doc' = NoDoc => doc = NoDoc
      BY <1>3, RowTypes DEF Mark, WriteRow
    <2> QED
      BY <1>t, <1>3, <2>3, <2>4 DEF Mark, IngestingClears, Removed
  <1>4. ASSUME NEW c \in DeleteCalls, DeletePoints(c)  PROVE IngestingClears' /\ Removed'
    BY <1>t, <1>4 DEF DeletePoints, IngestingClears, Removed
  <1>5. ASSUME NEW c \in DeleteCalls, DeletePointsFails(c)  PROVE IngestingClears' /\ Removed'
    <2>1. call[c] \in Call
      BY <1>t, <1>5, CallAt DEF DeletePointsFails, CallSteps
    <2>2. CASE indexed' = FALSE
      BY <1>t, <1>5, <2>2 DEF DeletePointsFails, IngestingClears, Removed
    <2>3. CASE indexed' = indexed /\ Goto(c, "restore")
      <3>1. MovedCall(c, "restore") /\ \A d \in DeleteCalls \ {c} : SameCall(d)
        BY <1>t, <2>1, <2>3, GotoCalls DEF CallSteps
      <3>2. \A d \in DeleteCalls : At(d, "rows")' => At(d, "rows")
        BY <3>1, RowsKept DEF At, MovedCall
      <3> QED
        BY <1>t, <1>5, <2>3, <3>2 DEF DeletePointsFails, IngestingClears, Removed
    <2> QED
      BY <1>5, <2>2, <2>3 DEF DeletePointsFails
  <1>6. ASSUME NEW c \in DeleteCalls, Restore(c)  PROVE IngestingClears' /\ Removed'
    <2>1. call'[c] = NoCall /\ \A d \in DeleteCalls \ {c} : TouchedCall(d)
      BY <1>t, <1>6, ReturnTouchedCalls DEF Restore
    <2>2. \A d \in DeleteCalls : At(d, "rows")' => At(d, "rows")
      BY <2>1, RowsKept DEF At, NoCall
    <2>3. call[c].prev \in DocRow
      BY <1>t, <1>6, CallAt, CallParts DEF Restore, CallSteps
    <2>4. doc' = NoDoc => doc = NoDoc
      BY <1>6, <2>3, RowTypes DEF Restore, WriteRow
    <2> QED
      BY <1>t, <1>6, <2>2, <2>4 DEF Restore, IngestingClears, Removed
  <1>7. ASSUME NEW c \in DeleteCalls, DeleteRows(c)  PROVE IngestingClears' /\ Removed'
    BY <1>t, <1>7 DEF DeleteRows, IngestingClears, Removed
  <1>8. ASSUME NEW c \in DeleteCalls, Abort(c)  PROVE IngestingClears' /\ Removed'
    <2>1. call'[c] = NoCall /\ \A d \in DeleteCalls \ {c} : SameCall(d)
      BY <1>t, <1>8, ReturnCalls DEF Abort
    <2>2. \A d \in DeleteCalls : At(d, "rows")' => At(d, "rows")
      BY <2>1, RowsKept DEF At, NoCall
    <2> QED
      BY <1>t, <1>8, <2>2 DEF Abort, IngestingClears, Removed
  <1>9. ASSUME NEW kind \in {"publish", "archive"}, BeginReview(kind)
        PROVE IngestingClears' /\ Removed'
    BY <1>t, <1>9 DEF BeginReview, IngestingClears, Removed, At
  <1>10. CASE FinishReview
    <2>1. \A d \in DeleteCalls : At(d, "rows")' => At(d, "rows")
      BY <1>t, <1>10, TouchedCalls, RowsKept DEF FinishReview
    <2>2. doc' = NoDoc => doc = NoDoc
      BY <1>10, RowTypes DEF FinishReview, WriteRow
    <2> QED
      BY <1>t, <1>10, <2>1, <2>2 DEF FinishReview, IngestingClears, Removed
  <1>11. CASE Requeue \/ DeleteJobRow
    BY <1>t, <1>11 DEF Requeue, DeleteJobRow, IngestingClears, Removed, At, Settled
  <1>12. CASE BeginIngest
    <2>1. CASE doc.state = "published"
      BY <1>t, <1>12, <2>1 DEF BeginIngest, IngestingClears, Removed, At
    <2>2. CASE doc.state # "published"
      BY <1>12, <2>2 DEF BeginIngest, IngestingClears, Removed
    <2> QED
      BY <2>1, <2>2
  <1>13. CASE FinishIngest \/ IngestFails
    <2>1. EndIngest
      BY <1>13 DEF FinishIngest, IngestFails
    <2>2. \A d \in DeleteCalls : At(d, "rows")' => At(d, "rows")
      BY <1>t, <2>1, TouchedCalls, RowsKept DEF EndIngest
    <2>3. doc' = doc /\ ~ingesting'
      BY <2>1 DEF EndIngest
    <2>4. doc = NoDoc \/ (\E c \in DeleteCalls : At(c, "rows")) => ~indexed' \/ reindexed'
      BY <1>13 DEF FinishIngest, IngestFails
    <2> QED
      BY <2>2, <2>3, <2>4 DEF IngestingClears, Removed
  <1>14. CASE UNCHANGED deletionVars
    BY <1>t, <1>14 DEF deletionVars, IngestingClears, Removed, At
  <1> QED
    BY <1>1, <1>2, <1>3, <1>4, <1>5, <1>6, <1>7, <1>8, <1>9, <1>10, <1>11, <1>12, <1>13, <1>14
       DEF DeletionNext, Proceed

LEMMA PointsInvInit == DeletionInit => PointsInv
  BY DeletionTypeInit, RowTypes DEF DeletionInit, PointsInv, IngestingClears, Removed, At, NoCall, NoDoc

LEMMA PointsInvAlways == DeletionSpec => []PointsInv
  BY PointsInvInit, PointsInvNext, PTL DEF DeletionSpec

\* A deleted document leaves no points behind but those of a worker that wrote them after
\* their removal, for any number of calls and faults.
THEOREM NoOrphanPointsAlways == DeletionSpec => []NoOrphanPoints
  <1>1. PointsInv => NoOrphanPoints
    BY DEF PointsInv, Removed, NoOrphanPoints
  <1> QED
    BY <1>1, PointsInvAlways, PTL

-----------------------------------------------------------------------------
(* Deletion: what is served has points *)

Excused == raced \/ unanswered

\* The row has been marked, or found gone.
Marked(c) == call[c].step \in {"points", "restore", "rows"}

Alone(c) == call[c] # NoCall /\ call[c].alone

MarkedHidden == \A c \in DeleteCalls : Marked(c) => doc = NoDoc \/ doc.state = "deleting"

\* A call that marked the row after another one, and alone since, has read the mark.
OneRestores ==
  \A c, d \in DeleteCalls :
    (c # d /\ Marked(c) /\ Marked(d) /\ Alone(d)) => call[d].prev.state = "deleting"

\* Whoever may put a document back in service has found its points.
RestoresIndexed ==
  \A c \in DeleteCalls :
    (Alone(c) /\ call[c].step # "rows" /\ call[c].prev.state = "published" /\ call[c].prev.current)
      => indexed

ReadIsCurrent ==
  \A c \in DeleteCalls :
    (Alone(c) /\ call[c].step \in {"check", "mark"}) => call[c].prev = doc

RestoreSafe == (InService => indexed) /\ MarkedHidden /\ OneRestores /\ RestoresIndexed

ServiceInv == PointsInv /\ ReadIsCurrent /\ (~Excused => RestoreSafe)

LEMMA ServiceInvInit == DeletionInit => ServiceInv
  <1> SUFFICES ASSUME DeletionInit PROVE ServiceInv
    OBVIOUS
  <1>1. \A c \in DeleteCalls : call[c] = NoCall
    BY DEF DeletionInit
  <1>2. ReadIsCurrent /\ MarkedHidden /\ OneRestores /\ RestoresIndexed
    BY <1>1 DEF ReadIsCurrent, MarkedHidden, OneRestores, RestoresIndexed, Alone, Marked, NoCall
  <1> QED
    BY <1>2, PointsInvInit DEF DeletionInit, ServiceInv, RestoreSafe

\* A write that touches every call leaves none alone.
LEMMA NobodyAlone ==
  ASSUME DeletionTypeOK, NEW d \in DeleteCalls, TouchedCall(d)
  PROVE  ~Alone(d)' /\ (Marked(d)' => Marked(d))
  <1>1. call[d] = NoCall \/ call[d] # NoCall
    OBVIOUS
  <1> QED
    BY <1>1 DEF TouchedCall, Alone, Marked, NoCall

LEMMA SameIsSame ==
  ASSUME NEW d \in DeleteCalls, SameCall(d)
  PROVE  /\ Alone(d)' <=> Alone(d)
         /\ Marked(d)' <=> Marked(d)
         /\ call'[d].step = call[d].step /\ call'[d].prev = call[d].prev
  BY DEF SameCall, Alone, Marked

\* Row and points stay as they are, and one call goes to a step before or after its mark.
LEMMA QuietCall ==
  ASSUME ServiceInv, UNCHANGED <<doc, indexed, raced, unanswered>>, NEW c \in DeleteCalls,
         \A d \in DeleteCalls \ {c} : SameCall(d),
         \/ call'[c] = NoCall
         \/ /\ MovedCall(c, "mark") /\ call[c].step = "check"
         \/ /\ MovedCall(c, "restore") /\ call[c].step = "points"
  PROVE  ReadIsCurrent' /\ (~Excused' => RestoreSafe')
  <1>1. ReadIsCurrent /\ (~Excused => RestoreSafe) /\ Excused' = Excused
    BY DEF ServiceInv, Excused
  <1>2. \A d \in DeleteCalls :
          /\ Alone(d)' => Alone(d) /\ call'[d].prev = call[d].prev
          /\ Marked(d)' => Marked(d)
          /\ (Alone(d)' /\ call'[d].step \in {"check", "mark"}) => call[d].step \in {"check", "mark"}
          /\ (Alone(d)' /\ call'[d].step # "rows") => call[d].step # "rows"
    <2>1. ASSUME NEW d \in DeleteCalls \ {c}
          PROVE  /\ Alone(d)' => Alone(d) /\ call'[d].prev = call[d].prev
                 /\ Marked(d)' => Marked(d)
                 /\ call'[d].step = call[d].step
      BY <2>1, SameIsSame
    <2>2. /\ Alone(c)' => Alone(c) /\ call'[c].prev = call[c].prev
          /\ Marked(c)' => Marked(c)
          /\ (Alone(c)' /\ call'[c].step \in {"check", "mark"}) => call[c].step \in {"check", "mark"}
          /\ (Alone(c)' /\ call'[c].step # "rows") => call[c].step # "rows"
      <3>1. CASE call'[c] = NoCall
        BY <3>1 DEF Alone, Marked, NoCall
      <3>2. CASE MovedCall(c, "mark") /\ call[c].step = "check"
        BY <3>2, CallParts DEF MovedCall, Alone, Marked
      <3>3. CASE MovedCall(c, "restore") /\ call[c].step = "points"
        BY <3>3, CallParts DEF MovedCall, Alone, Marked
      <3> QED
        BY <3>1, <3>2, <3>3
    <2> QED
      BY <2>1, <2>2
  <1>3. ReadIsCurrent'
    BY <1>1, <1>2 DEF ReadIsCurrent
  <1>4. ASSUME ~Excused'  PROVE RestoreSafe'
    <2>1. RestoreSafe
      BY <1>1, <1>4
    <2>2. MarkedHidden'
      BY <1>2, <2>1 DEF RestoreSafe, MarkedHidden
    <2>3. OneRestores'
      BY <1>2, <2>1 DEF RestoreSafe, OneRestores
    <2>4. RestoresIndexed'
      BY <1>2, <2>1 DEF RestoreSafe, RestoresIndexed
    <2> QED
      BY <2>1, <2>2, <2>3, <2>4 DEF RestoreSafe, InService
  <1> QED
    BY <1>3, <1>4

\* Nobody touches a call, a row or a point, but what is there may have been written anew.
LEMMA QuietCalls ==
  ASSUME ServiceInv, UNCHANGED <<doc, indexed, raced, unanswered, call>>
  PROVE  ReadIsCurrent' /\ (~Excused' => RestoreSafe')
  BY DEF ServiceInv, Excused, ReadIsCurrent, RestoreSafe, InService, MarkedHidden, OneRestores,
         RestoresIndexed, Alone, Marked

\* A write that touches all calls: of what they know nothing is left to be kept.
LEMMA AllTouched ==
  ASSUME ServiceInv, \A d \in DeleteCalls : TouchedCall(d) \/ call'[d] = NoCall
  PROVE  ReadIsCurrent' /\ OneRestores' /\ RestoresIndexed' /\ \A d \in DeleteCalls : Marked(d)' => Marked(d)
  <1>1. DeletionTypeOK
    BY DEF ServiceInv, PointsInv
  <1>2. \A d \in DeleteCalls : ~Alone(d)' /\ (Marked(d)' => Marked(d))
    <2>1. ASSUME NEW d \in DeleteCalls, TouchedCall(d)
          PROVE  ~Alone(d)' /\ (Marked(d)' => Marked(d))
      BY <1>1, <2>1, NobodyAlone
    <2>2. ASSUME NEW d \in DeleteCalls, call'[d] = NoCall
          PROVE  ~Alone(d)' /\ (Marked(d)' => Marked(d))
      BY <2>2 DEF Alone, Marked, NoCall
    <2> QED
      BY <2>1, <2>2
  <1> QED
    BY <1>2 DEF ReadIsCurrent, OneRestores, RestoresIndexed

LEMMA ServiceByRead ==
  ASSUME ServiceInv, NEW c \in DeleteCalls, ReadRow(c)
  PROVE  ReadIsCurrent' /\ (~Excused' => RestoreSafe')
  <1>1. DeletionTypeOK /\ ReadIsCurrent /\ (~Excused => RestoreSafe)
    BY DEF ServiceInv, PointsInv
  <1>2. UNCHANGED <<doc, indexed, raced, unanswered>> /\ call[c] = NoCall
    BY DEF ReadRow, notes
  <1> DEFINE x == [step |-> "check", prev |-> doc, alone |-> TRUE]
  <1>3. call'[c] = x /\ \A d \in DeleteCalls \ {c} : SameCall(d)
    BY <1>1 DEF ReadRow, DeletionTypeOK, SameCall
  <1>4. x.step = "check" /\ x.prev = doc
    OBVIOUS
  <1> HIDE DEF x
  <1>5. call'[c].step = "check" /\ call'[c].prev = doc /\ ~Marked(c)'
    BY <1>3, <1>4 DEF Marked
  <1>6. \A d \in DeleteCalls \ {c} : /\ Alone(d)' <=> Alone(d)
                                     /\ Marked(d)' <=> Marked(d)
                                     /\ call'[d].step = call[d].step /\ call'[d].prev = call[d].prev
    BY <1>3, SameIsSame
  <1>7. ReadIsCurrent'
    BY <1>1, <1>2, <1>5, <1>6 DEF ReadIsCurrent
  <1>8. ASSUME ~Excused'  PROVE RestoreSafe'
    <2>1. RestoreSafe
      BY <1>1, <1>2, <1>8 DEF Excused
    <2>2. MarkedHidden'
      BY <1>2, <1>5, <1>6, <2>1 DEF RestoreSafe, MarkedHidden
    <2>3. OneRestores'
      BY <1>5, <1>6, <2>1 DEF RestoreSafe, OneRestores
    <2>4. RestoresIndexed'
      BY <1>2, <1>5, <1>6, <2>1 DEF RestoreSafe, RestoresIndexed, InService
    <2> QED
      BY <1>2, <2>1, <2>2, <2>3, <2>4 DEF RestoreSafe, InService
  <1> QED
    BY <1>7, <1>8

LEMMA ServiceByMark ==
  ASSUME ServiceInv, NEW c \in DeleteCalls, Mark(c)
  PROVE  ReadIsCurrent' /\ (~Excused' => RestoreSafe')
  <1>1. DeletionTypeOK /\ ReadIsCurrent /\ (~Excused => RestoreSafe)
    BY DEF ServiceInv, PointsInv
  <1>2. call[c] \in Call /\ call[c].step = "mark"
    BY <1>1, CallAt DEF Mark, CallSteps, At
  <1>3. MovedCall(c, "points") /\ \A d \in DeleteCalls \ {c} : TouchedCall(d)
    BY <1>1, <1>2, GotoTouchedCalls DEF Mark, CallSteps
  <1>4. \A d \in DeleteCalls \ {c} : ~Alone(d)' /\ (Marked(d)' => Marked(d))
    BY <1>1, <1>3, NobodyAlone
  <1>5. UNCHANGED <<indexed, raced, unanswered>>
    BY DEF Mark, notes
  <1>6. doc' = NoDoc \/ doc' = [state |-> "deleting", current |-> FALSE]
    BY DEF Mark, WriteRow
  <1>7. doc' = NoDoc \/ doc'.state = "deleting"
    BY <1>6
  <1>8. ~InService'
    BY <1>7 DEF InService, NoDoc
  <1>9. /\ call'[c].step = "points" /\ call'[c].prev = call[c].prev
        /\ Alone(c)' => Alone(c)
    BY <1>2, <1>3, CallParts DEF MovedCall, Alone
  <1>10. ReadIsCurrent'
    BY <1>4, <1>9 DEF ReadIsCurrent
  <1>11. ASSUME ~Excused'  PROVE RestoreSafe'
    <2>1. RestoreSafe
      BY <1>1, <1>5, <1>11 DEF Excused
    <2>2. MarkedHidden'
      BY <1>7 DEF MarkedHidden
    <2>3. Alone(c) => call[c].prev = doc /\ doc # NoDoc
      <3>1. call[c].prev \in DocRow
        BY <1>2, CallParts
      <3>2. call[c].prev # NoDoc
        BY <3>1, RowTypes
      <3> QED
        BY <1>1, <1>2, <3>2 DEF ReadIsCurrent
    <2>4. OneRestores'
      BY <1>4, <1>9, <2>1, <2>3 DEF RestoreSafe, OneRestores, MarkedHidden
    <2>5. RestoresIndexed'
      BY <1>2, <1>4, <1>5, <1>9, <2>1 DEF RestoreSafe, RestoresIndexed
    <2> QED
      BY <1>8, <2>2, <2>4, <2>5 DEF RestoreSafe
  <1> QED
    BY <1>10, <1>11

LEMMA ServiceByDeletePoints ==
  ASSUME ServiceInv, NEW c \in DeleteCalls, DeletePoints(c)
  PROVE  ReadIsCurrent' /\ (~Excused' => RestoreSafe')
  <1>1. DeletionTypeOK /\ ReadIsCurrent /\ (~Excused => RestoreSafe)
    BY DEF ServiceInv, PointsInv
  <1>2. call[c] \in Call /\ call[c].step = "points" /\ Marked(c)
    BY <1>1, CallAt DEF DeletePoints, CallSteps, At, Marked
  <1>3. MovedCall(c, "rows") /\ \A d \in DeleteCalls \ {c} : TouchedCall(d)
    BY <1>1, <1>2, GotoTouchedCalls DEF DeletePoints, CallSteps
  <1>4. \A d \in DeleteCalls \ {c} : ~Alone(d)' /\ (Marked(d)' => Marked(d))
    BY <1>1, <1>3, NobodyAlone
  <1>5. UNCHANGED <<doc, raced, unanswered>>
    BY DEF DeletePoints, notes
  <1>6. /\ call'[c].step = "rows" /\ call'[c].prev = call[c].prev
        /\ Alone(c)' => Alone(c)
    BY <1>2, <1>3, CallParts DEF MovedCall, Alone
  <1>7. ReadIsCurrent'
    BY <1>4, <1>6 DEF ReadIsCurrent
  <1>8. ASSUME ~Excused'  PROVE RestoreSafe'
    <2>1. RestoreSafe
      BY <1>1, <1>5, <1>8 DEF Excused
    <2>2. doc = NoDoc \/ doc.state = "deleting"
      BY <1>2, <2>1 DEF RestoreSafe, MarkedHidden
    <2>3. MarkedHidden' /\ ~InService'
      BY <1>5, <2>2 DEF MarkedHidden, InService, NoDoc
    <2>4. OneRestores'
      BY <1>2, <1>4, <1>6, <2>1 DEF RestoreSafe, OneRestores
    <2>5. RestoresIndexed'
      BY <1>4, <1>6 DEF RestoresIndexed
    <2> QED
      BY <2>3, <2>4, <2>5 DEF RestoreSafe
  <1> QED
    BY <1>7, <1>8

LEMMA ServiceByRestore ==
  ASSUME ServiceInv, NEW c \in DeleteCalls, Restore(c)
  PROVE  ReadIsCurrent' /\ (~Excused' => RestoreSafe')
  <1>1. DeletionTypeOK /\ (~Excused => RestoreSafe)
    BY DEF ServiceInv, PointsInv
  <1>2. call[c] \in Call /\ call[c].step = "restore" /\ Marked(c)
    BY <1>1, CallAt DEF Restore, CallSteps, At, Marked
  <1>3. call'[c] = NoCall /\ \A d \in DeleteCalls \ {c} : TouchedCall(d)
    BY <1>1, ReturnTouchedCalls DEF Restore
  <1>4. ReadIsCurrent' /\ OneRestores' /\ RestoresIndexed'
        /\ \A d \in DeleteCalls : Marked(d)' => Marked(d)
    BY <1>3, AllTouched
  <1>5. ~Marked(c)'
    BY <1>3 DEF Marked, NoCall
  <1>6. ASSUME ~Excused'  PROVE RestoreSafe'
    <2>1. RestoreSafe /\ Alone(c)
      BY <1>1, <1>2, <1>6, CallParts DEF Restore, Excused, Alone
    <2>2. doc' = call[c].prev \/ doc' = NoDoc
      BY DEF Restore, WriteRow
    <2>3. indexed' = indexed
      BY DEF Restore
    <2>4. InService' => indexed'
      BY <1>2, <2>1, <2>2, <2>3 DEF RestoreSafe, RestoresIndexed, InService, NoDoc
    <2>5. MarkedHidden'
      BY <1>2, <1>4, <1>5, <2>1, <2>2 DEF RestoreSafe, OneRestores, MarkedHidden
    <2> QED
      BY <1>4, <2>4, <2>5 DEF RestoreSafe
  <1> QED
    BY <1>4, <1>6

LEMMA ServiceByReview ==
  ASSUME ServiceInv, FinishReview
  PROVE  ReadIsCurrent' /\ (~Excused' => RestoreSafe')
  <1>1. DeletionTypeOK /\ (~Excused => RestoreSafe)
    BY DEF ServiceInv, PointsInv
  <1>2. \A d \in DeleteCalls : TouchedCall(d)
    BY <1>1, TouchedCalls DEF FinishReview
  <1>3. ReadIsCurrent' /\ OneRestores' /\ RestoresIndexed'
        /\ \A d \in DeleteCalls : Marked(d)' => Marked(d)
    BY <1>2, AllTouched
  <1>4. ASSUME ~Excused'  PROVE RestoreSafe'
    <2>1. RestoreSafe /\ doc.state # "deleting" /\ (review = "publish" => indexed)
      BY <1>1, <1>4 DEF FinishReview, Excused
    <2>2. indexed' = indexed
      BY DEF FinishReview
    <2>3. InService' => indexed'
      BY <2>1, <2>2 DEF FinishReview, WriteRow, InService, NoDoc
    <2>4. MarkedHidden'
      <3>1. \A d \in DeleteCalls : Marked(d)' => doc = NoDoc
        BY <1>3, <2>1 DEF RestoreSafe, MarkedHidden
      <3>2. doc = NoDoc => doc' = NoDoc
        BY DEF FinishReview, WriteRow
      <3> QED
        BY <3>1, <3>2 DEF MarkedHidden
    <2> QED
      BY <1>3, <2>3, <2>4 DEF RestoreSafe
  <1> QED
    BY <1>3, <1>4

\* The worker writes the points, not the row, of a document that is not served then.
LEMMA ServiceByWorker ==
  ASSUME ServiceInv, UNCHANGED <<doc, raced, unanswered>>, call' = Touched(call, {}),
         ~Excused => (InService => indexed')
  PROVE  ReadIsCurrent' /\ (~Excused' => RestoreSafe')
  <1>1. DeletionTypeOK /\ (~Excused => RestoreSafe)
    BY DEF ServiceInv, PointsInv
  <1>2. ReadIsCurrent' /\ OneRestores' /\ RestoresIndexed'
        /\ \A d \in DeleteCalls : Marked(d)' => Marked(d)
    BY <1>1, TouchedCalls, AllTouched
  <1>3. ASSUME ~Excused'  PROVE RestoreSafe'
    <2>1. RestoreSafe /\ (InService => indexed')
      BY <1>1, <1>3 DEF Excused
    <2>2. MarkedHidden'
      BY <1>2, <2>1 DEF RestoreSafe, MarkedHidden
    <2> QED
      BY <1>2, <2>1, <2>2 DEF RestoreSafe, InService
  <1> QED
    BY <1>2, <1>3

LEMMA ServiceInvNext ==
  ASSUME ServiceInv, [DeletionNext]_deletionVars
  PROVE  ServiceInv'
  <1>t. DeletionTypeOK /\ PointsInv' /\ IngestingClears /\ (~Excused => RestoreSafe)
    BY PointsInvNext DEF ServiceInv, PointsInv
  <1> SUFFICES ReadIsCurrent' /\ (~Excused' => RestoreSafe')
    BY <1>t DEF ServiceInv
  <1> USE DEF notes
  <1>1. ASSUME NEW c \in DeleteCalls, ReadRow(c)
        PROVE  ReadIsCurrent' /\ (~Excused' => RestoreSafe')
    BY <1>1, ServiceByRead
  <1>2. ASSUME NEW c \in DeleteCalls, CheckJob(c)
        PROVE  ReadIsCurrent' /\ (~Excused' => RestoreSafe')
    <2>1. call[c] \in Call /\ call[c].step = "check"
      BY <1>t, <1>2, CallAt DEF CheckJob, CallSteps, At
    <2>2. "mark" \in CallSteps
      BY DEF CallSteps
    <2>3. (call'[c] = NoCall \/ MovedCall(c, "mark")) /\ \A d \in DeleteCalls \ {c} : SameCall(d)
      BY <1>t, <1>2, <2>1, <2>2, GotoCalls, ReturnCalls DEF CheckJob
    <2> QED
      BY <1>2, <2>1, <2>3, QuietCall DEF CheckJob
  <1>3. ASSUME NEW c \in DeleteCalls, Mark(c)
        PROVE  ReadIsCurrent' /\ (~Excused' => RestoreSafe')
    BY <1>3, ServiceByMark
  <1>4. ASSUME NEW c \in DeleteCalls, DeletePoints(c)
        PROVE  ReadIsCurrent' /\ (~Excused' => RestoreSafe')
    BY <1>4, ServiceByDeletePoints
  <1>5. ASSUME NEW c \in DeleteCalls, DeletePointsFails(c)
        PROVE  ReadIsCurrent' /\ (~Excused' => RestoreSafe')
    <2>1. call[c] \in Call /\ call[c].step = "points"
      BY <1>t, <1>5, CallAt DEF DeletePointsFails, CallSteps, At
    <2>2. CASE UNCHANGED <<indexed, unanswered>> /\ Goto(c, "restore")
      <3>1. MovedCall(c, "restore") /\ \A d \in DeleteCalls \ {c} : SameCall(d)
        BY <1>t, <2>1, <2>2, GotoCalls DEF CallSteps
      <3> QED
        BY <1>5, <2>1, <2>2, <3>1, QuietCall DEF DeletePointsFails
    <2>3. CASE unanswered' /\ call' = Touched([call EXCEPT ![c].step = "restore"], {c})
      <3>1. MovedCall(c, "restore") /\ \A d \in DeleteCalls \ {c} : TouchedCall(d)
        BY <1>t, <2>1, <2>3, GotoTouchedCalls DEF CallSteps
      <3>2. \A d \in DeleteCalls \ {c} : ~Alone(d)'
        BY <1>t, <3>1, NobodyAlone
      <3> QED
        BY <2>3, <3>1, <3>2 DEF MovedCall, ReadIsCurrent, Excused
    <2> QED
      BY <1>5, <2>2, <2>3 DEF DeletePointsFails
  <1>6. ASSUME NEW c \in DeleteCalls, Restore(c)
        PROVE  ReadIsCurrent' /\ (~Excused' => RestoreSafe')
    BY <1>6, ServiceByRestore
  <1>7. ASSUME NEW c \in DeleteCalls, DeleteRows(c)
        PROVE  ReadIsCurrent' /\ (~Excused' => RestoreSafe')
    <2>1. call'[c] = NoCall /\ \A d \in DeleteCalls \ {c} : TouchedCall(d)
      BY <1>t, <1>7, ReturnTouchedCalls DEF DeleteRows
    <2>2. ReadIsCurrent' /\ OneRestores' /\ RestoresIndexed'
      BY <2>1, AllTouched
    <2>3. MarkedHidden' /\ ~InService'
      BY <1>7 DEF DeleteRows, MarkedHidden, InService, NoDoc
    <2> QED
      BY <2>2, <2>3 DEF RestoreSafe
  <1>8. ASSUME NEW c \in DeleteCalls, Abort(c)
        PROVE  ReadIsCurrent' /\ (~Excused' => RestoreSafe')
    <2>1. call'[c] = NoCall /\ \A d \in DeleteCalls \ {c} : SameCall(d)
      BY <1>t, <1>8, ReturnCalls DEF Abort
    <2> QED
      BY <1>8, <2>1, QuietCall DEF Abort
  <1>9. ASSUME NEW kind \in {"publish", "archive"}, BeginReview(kind)
        PROVE  ReadIsCurrent' /\ (~Excused' => RestoreSafe')
    BY <1>9, QuietCalls DEF BeginReview
  <1>10. CASE FinishReview
    BY <1>10, ServiceByReview
  <1>11. CASE Requeue \/ DeleteJobRow
    BY <1>11, QuietCalls DEF Requeue, DeleteJobRow
  <1>12. CASE BeginIngest
    <2>1. CASE doc.state = "published"
      BY <1>12, <2>1, QuietCalls DEF BeginIngest
    <2>2. CASE doc.state # "published"
      BY <1>12, <2>2, ServiceByWorker DEF BeginIngest, InService
    <2> QED
      BY <2>1, <2>2
  <1>13. CASE FinishIngest \/ IngestFails
    <2>1. EndIngest /\ ingesting
      BY <1>13 DEF FinishIngest, IngestFails, EndIngest
    <2>2. ~Excused => ~InService
      BY <1>t, <2>1 DEF RestoreSafe, IngestingClears
    <2> QED
      BY <2>1, <2>2, ServiceByWorker DEF EndIngest
  <1>14. CASE UNCHANGED deletionVars
    BY <1>14, QuietCalls DEF deletionVars
  <1> QED
    BY <1>1, <1>2, <1>3, <1>4, <1>5, <1>6, <1>7, <1>8, <1>9, <1>10, <1>11, <1>12, <1>13, <1>14
       DEF DeletionNext, Proceed

LEMMA ServiceInvAlways == DeletionSpec => []ServiceInv
  BY ServiceInvInit, ServiceInvNext, PTL DEF DeletionSpec

\* Whatever fails, is repeated or overlaps, a document that SQL serves has its points,
\* but for the two excuses, for any number of calls and faults.
THEOREM ServedIsIndexedAlways == DeletionSpec => []ServedIsIndexed
  <1>1. ServiceInv => ServedIsIndexed
    BY DEF ServiceInv, RestoreSafe, ServedIsIndexed, Excused
  <1> QED
    BY <1>1, ServiceInvAlways, PTL

-----------------------------------------------------------------------------
(* The limit on failed logins *)

LEMMA WindowEnds ==
  /\ Ages \subseteq Nat
  /\ 0 \in Ages /\ Window - 1 \in Ages
  /\ \A age \in Ages \ {0} : age - 1 \in Ages
  BY LoginLimitAssumptions DEF LoginLimitAssumptions, Ages

LEMMA CountsType ==
  ASSUME NEW counts \in [Ages -> Nat]
  PROVE  NoFailures \in [Ages -> Nat] /\ OneMore(counts) \in [Ages -> Nat]
  BY DEF NoFailures, OneMore

LEMMA StoreType ==
  ASSUME NEW p \in Processes
  PROVE  Store(p) \in Stores
  BY DEF Store, Stores

LEMMA LoginParts ==
  /\ NoLogin \notin Login
  /\ \A x \in Login : x.process \in Processes
  BY DEF NoLogin, Login

LEMMA LoginLimitTypeInit == LoginLimitInit => LoginLimitTypeOK
  BY CountsType, LoginLimitAssumptions
  DEF LoginLimitInit, LoginLimitTypeOK, LoginLimitAssumptions, NoFailures

LEMMA LoginLimitTypeNext ==
  ASSUME LoginLimitTypeOK, [LoginLimitNext]_limitVars
  PROVE  LoginLimitTypeOK'
  <1>1. ASSUME NEW l \in Logins, NEW p \in Processes, Admit(l, p) \/ Refuse(l, p)
        PROVE  LoginLimitTypeOK'
    BY <1>1 DEF Admit, Refuse, LoginLimitTypeOK, Login, limitVars
  <1>2. ASSUME NEW l \in Logins, RecordFailure(l) \/ ClearFailures(l)
        PROVE  LoginLimitTypeOK'
    <2>1. login[l] \in Login /\ login[l].process \in Processes
      BY <1>2, LoginParts DEF RecordFailure, ClearFailures, LoginLimitTypeOK
    <2> DEFINE s == Store(login[l].process)
    <2>2. s \in Stores /\ failures[s] \in [Ages -> Nat]
      BY <2>1, StoreType DEF LoginLimitTypeOK
    <2>3. OneMore(failures[s]) \in [Ages -> Nat] /\ NoFailures \in [Ages -> Nat]
      BY <2>2, CountsType
    <2>4. failures' \in [Stores -> [Ages -> Nat]]
      BY <1>2, <2>3 DEF RecordFailure, ClearFailures, LoginLimitTypeOK
    <2> QED
      BY <1>2, <2>4 DEF RecordFailure, ClearFailures, Finish, LoginLimitTypeOK
  <1>3. CASE AgeFailures
    <2>1. \A s \in Stores :
            [age \in Ages |-> IF age = 0 THEN 0 ELSE failures[s][age - 1]] \in [Ages -> Nat]
      BY WindowEnds DEF LoginLimitTypeOK
    <2>2. failures' \in [Stores -> [Ages -> Nat]]
      BY <1>3, <2>1 DEF AgeFailures
    <2> QED
      BY <1>3, <2>2 DEF AgeFailures, LoginLimitTypeOK
  <1>4. CASE Outage
    BY <1>4, LoginLimitAssumptions DEF Outage, LoginLimitTypeOK, LoginLimitAssumptions
  <1>5. ASSUME NEW p \in Processes, Restart(p)
        PROVE  LoginLimitTypeOK'
    BY <1>5, CountsType DEF Restart, LoginLimitTypeOK, NoFailures
  <1>6. ASSUME NEW l \in Logins, LookupFails(l)
        PROVE  LoginLimitTypeOK'
    BY <1>6 DEF LookupFails, Finish, LoginLimitTypeOK
  <1>7. CASE UNCHANGED limitVars
    BY <1>7 DEF limitVars, LoginLimitTypeOK
  <1> QED
    BY <1>1, <1>2, <1>3, <1>4, <1>5, <1>6, <1>7 DEF LoginLimitNext

\* Types of the variables.
THEOREM LoginLimitTypes == LoginLimitSpec => []LoginLimitTypeOK
  BY LoginLimitTypeInit, LoginLimitTypeNext, PTL DEF LoginLimitSpec

-----------------------------------------------------------------------------
(* GuessesBounded.  A failure that is yet to be recorded counts like one that *)
(* has been: then recording changes nothing, and admission adds to a store    *)
(* below the threshold only.                                                  *)

\* The logins whose failure would be recorded in s.
Unrecorded(s) == {l \in Logins : login[l] # NoLogin /\ Store(login[l].process) = s}

\* An older cutoff counts no less.
Counts ==
  \A s \in Stores : \A age \in Ages \ {0} : failures[s][age - 1] <= failures[s][age]

Limit == MaxFailures - 1 + Cardinality(Logins) * (1 + outages)

Guesses == \A s \in Stores : Recent(s) + Cardinality(Unrecorded(s)) <= Limit

GuessInv == LoginLimitTypeOK /\ Counts /\ Guesses

LEMMA LoginsFinite ==
  /\ IsFiniteSet(Logins) /\ Cardinality(Logins) \in Nat
  /\ \A T \in SUBSET Logins : IsFiniteSet(T) /\ Cardinality(T) \in 0..Cardinality(Logins)
  <1>1. IsFiniteSet(Logins) /\ Cardinality(Logins) \in Nat
    BY LoginLimitAssumptions, FS_CardinalityType DEF LoginLimitAssumptions
  <1>2. ASSUME NEW T \in SUBSET Logins
        PROVE  IsFiniteSet(T) /\ Cardinality(T) \in 0..Cardinality(Logins)
    BY <1>1, FS_Subset, FS_CardinalityType
  <1> QED
    BY <1>1, <1>2

LEMMA UnrecordedCount ==
  ASSUME NEW s \in Stores
  PROVE  /\ IsFiniteSet(Unrecorded(s)) /\ Cardinality(Unrecorded(s)) \in 0..Cardinality(Logins)
         /\ (IsFiniteSet(Unrecorded(s)) /\ Cardinality(Unrecorded(s)) \in 0..Cardinality(Logins))'
  <1>1. Unrecorded(s) \in SUBSET Logins /\ Unrecorded(s)' \in SUBSET Logins
    BY DEF Unrecorded
  <1> QED
    BY <1>1, LoginsFinite

\* The logins in flight at once are worth no more than one change of the database.
LEMMA LimitGrows ==
  ASSUME LoginLimitTypeOK
  PROVE  /\ Limit \in Nat /\ Limit >= MaxFailures - 1 + Cardinality(Logins)
         /\ outages' = outages + 1 => Limit' = Limit + Cardinality(Logins)
  <1> DEFINE n == Cardinality(Logins)
  <1>1. n \in Nat /\ outages \in Nat /\ MaxFailures \in Nat \ {0}
    BY LoginsFinite, LoginLimitAssumptions DEF LoginLimitTypeOK, LoginLimitAssumptions
  <1>2. Limit = MaxFailures - 1 + n * (1 + outages)
        /\ Limit' = MaxFailures - 1 + n * (1 + outages')
    BY DEF Limit
  <1> HIDE DEF n
  <1>3. n * (1 + outages) \in Nat /\ n * (1 + outages) = n + n * outages /\ n * outages \in Nat
    BY <1>1
  <1>4. n * (1 + (outages + 1)) = n * (1 + outages) + n
    BY <1>1
  <1> QED
    BY <1>1, <1>2, <1>3, <1>4 DEF n

LEMMA RecentType ==
  ASSUME LoginLimitTypeOK, NEW s \in Stores
  PROVE  Recent(s) \in Nat
  BY WindowEnds DEF LoginLimitTypeOK, Recent

LEMMA GuessInvInit == LoginLimitInit => GuessInv
  <1> SUFFICES ASSUME LoginLimitInit PROVE GuessInv
    OBVIOUS
  <1>1. LoginLimitTypeOK
    BY LoginLimitTypeInit
  <1>2. Counts
    BY WindowEnds DEF LoginLimitInit, Counts, NoFailures
  <1>3. ASSUME NEW s \in Stores
        PROVE  Recent(s) + Cardinality(Unrecorded(s)) <= Limit
    <2>1. Recent(s) = 0
      BY WindowEnds DEF LoginLimitInit, Recent, NoFailures
    <2>2. Unrecorded(s) = {}
      BY DEF LoginLimitInit, Unrecorded
    <2> QED
      BY <1>1, <2>1, <2>2, FS_EmptySet, LimitGrows
  <1> QED
    BY <1>1, <1>2, <1>3 DEF GuessInv, Guesses

\* A store that loses failures, and whose pending logins do not grow in number.
LEMMA FewerGuesses ==
  ASSUME GuessInv, LoginLimitTypeOK', NEW s \in Stores, UNCHANGED outages,
         Recent(s)' <= Recent(s), Unrecorded(s)' \subseteq Unrecorded(s)
  PROVE  (Recent(s) + Cardinality(Unrecorded(s)) <= Limit)'
  <1>1. Cardinality(Unrecorded(s)') <= Cardinality(Unrecorded(s))
    BY UnrecordedCount, FS_Subset
  <1>2. Limit' = Limit
    BY DEF Limit
  <1>3. Recent(s) \in Nat /\ Recent(s)' \in Nat
    BY WindowEnds, ZenonT(60) DEF GuessInv, LoginLimitTypeOK, Recent
  <1>4. Recent(s) + Cardinality(Unrecorded(s)) <= Limit /\ Limit \in Nat
    BY LimitGrows DEF GuessInv, Guesses
  <1> QED
    BY <1>1, <1>2, <1>3, <1>4, UnrecordedCount

LEMMA GuessInvNext ==
  ASSUME GuessInv, [LoginLimitNext]_limitVars
  PROVE  GuessInv'
  <1>0. LoginLimitTypeOK /\ LoginLimitTypeOK'
    BY LoginLimitTypeNext DEF GuessInv
  <1>a. \A s \in Stores : Recent(s) \in Nat /\ Recent(s)' \in Nat
    BY <1>0, WindowEnds, ZenonT(60) DEF LoginLimitTypeOK, Recent
  <1>b. Limit \in Nat /\ Limit >= MaxFailures - 1 + Cardinality(Logins)
    BY <1>0, LimitGrows
  <1>1. Counts'
    <2>1. CASE UNCHANGED failures
      BY <2>1 DEF GuessInv, Counts
    <2>2. ASSUME NEW l \in Logins, RecordFailure(l) \/ ClearFailures(l)
          PROVE  Counts'
      <3>1. login[l].process \in Processes
        BY <1>0, <2>2, LoginParts DEF RecordFailure, ClearFailures, LoginLimitTypeOK
      <3> DEFINE t == Store(login[l].process)
      <3>2. t \in Stores
        BY <3>1, StoreType
      <3>3. \A s \in Stores \ {t} : failures'[s] = failures[s]
        BY <1>0, <2>2 DEF RecordFailure, ClearFailures, LoginLimitTypeOK
      <3>4. failures'[t] = OneMore(failures[t]) \/ failures'[t] = NoFailures
        BY <1>0, <2>2, <3>2 DEF RecordFailure, ClearFailures, LoginLimitTypeOK
      <3> HIDE DEF t
      <3>5. \A age \in Ages : failures[t][age] \in Nat
        BY <1>0, <3>2 DEF LoginLimitTypeOK
      <3>6. \A age \in Ages \ {0} : failures'[t][age - 1] <= failures'[t][age]
        BY <3>2, <3>4, <3>5, WindowEnds DEF GuessInv, Counts, OneMore, NoFailures
      <3> QED
        BY <3>3, <3>6 DEF GuessInv, Counts
    <2>3. CASE AgeFailures
      <3>1. ASSUME NEW s \in Stores, NEW age \in Ages \ {0}
            PROVE  failures'[s][age - 1] <= failures'[s][age]
        <4>1. age - 1 \in Ages /\ failures[s] \in [Ages -> Nat]
          BY <1>0, WindowEnds DEF LoginLimitTypeOK
        <4>2. failures'[s][age] = failures[s][age - 1]
          BY <2>3, <4>1, WindowEnds DEF AgeFailures
        <4>3. failures'[s][age - 1] = IF age - 1 = 0 THEN 0 ELSE failures[s][age - 1 - 1]
          BY <2>3, <4>1 DEF AgeFailures
        <4>4. age - 1 # 0 => failures[s][age - 1 - 1] <= failures[s][age - 1]
          BY <4>1 DEF GuessInv, Counts
        <4>5. failures[s][age - 1] >= 0
          BY <4>1
        <4> QED
          BY <4>2, <4>3, <4>4, <4>5
      <3> QED
        BY <3>1 DEF Counts
    <2>4. ASSUME NEW p \in Processes, Restart(p)
          PROVE  Counts'
      <3>1. failures' = [failures EXCEPT ![p] = NoFailures]
        BY <2>4 DEF Restart
      <3>2. \A s \in Stores : failures'[s] = failures[s] \/ failures'[s] = NoFailures
        BY <1>0, <3>1 DEF LoginLimitTypeOK
      <3> QED
        BY <3>2, WindowEnds DEF GuessInv, Counts, NoFailures
    <2> QED
      BY <2>1, <2>2, <2>3, <2>4 DEF LoginLimitNext, Admit, Refuse, LookupFails, Outage, limitVars
  <1>2. ASSUME NEW l \in Logins, NEW p \in Processes, Admit(l, p)
        PROVE  Guesses'
    <2> DEFINE t == Store(p)
    <2>1. ASSUME NEW s \in Stores
          PROVE  (Recent(s) + Cardinality(Unrecorded(s)) <= Limit)'
      <3>0. Recent(s)' = Recent(s) /\ Limit' = Limit
        BY <1>2 DEF Admit, Recent, Limit
      <3>1. CASE s = t
        <4>1. Recent(s) <= MaxFailures - 1
          BY <1>2, <1>a, <3>1, LoginLimitAssumptions
          DEF Admit, IsOverThreshold, LoginLimitAssumptions
        <4>2. MaxFailures \in Nat
          BY LoginLimitAssumptions DEF LoginLimitAssumptions
        <4> HIDE DEF t
        <4> QED
          BY <1>a, <1>b, <3>0, <4>1, <4>2, UnrecordedCount, LoginsFinite
      <3>2. CASE s # t
        <4>1. Unrecorded(s)' \subseteq Unrecorded(s)
          BY <1>0, <1>2, <3>2 DEF Admit, Unrecorded, Store, LoginLimitTypeOK
        <4>2. Recent(s)' <= Recent(s)
          BY <1>a, <3>0
        <4>3. UNCHANGED outages
          BY <1>2 DEF Admit
        <4> QED
          BY <1>0, <4>1, <4>2, <4>3, FewerGuesses
      <3> QED
        BY <3>1, <3>2
    <2> QED
      BY <2>1 DEF Guesses
  <1>3. ASSUME NEW l \in Logins, RecordFailure(l)
        PROVE  Guesses'
    <2>1. l \in Logins /\ login[l] # NoLogin /\ login[l].process \in Processes
      BY <1>0, <1>3, LoginParts DEF RecordFailure, LoginLimitTypeOK
    <2> DEFINE t == Store(login[l].process)
    <2>2. t \in Stores
      BY <2>1, StoreType
    <2>3. ASSUME NEW s \in Stores
          PROVE  (Recent(s) + Cardinality(Unrecorded(s)) <= Limit)'
      <3>1. Unrecorded(s)' = Unrecorded(s) \ {l}
        BY <1>0, <1>3 DEF RecordFailure, Finish, Unrecorded, Store, LoginLimitTypeOK
      <3>2. CASE s # t
        <4>1. Recent(s)' = Recent(s)
          BY <1>0, <1>3, <3>2 DEF RecordFailure, Recent, LoginLimitTypeOK
        <4>2. Recent(s)' <= Recent(s)
          BY <1>a, <4>1
        <4>3. Unrecorded(s)' \subseteq Unrecorded(s)
          BY <3>1
        <4>4. UNCHANGED outages
          BY <1>3 DEF RecordFailure
        <4> QED
          BY <1>0, <4>2, <4>3, <4>4, FewerGuesses
      <3>3. CASE s = t
        <4>1. Recent(s)' = Recent(s) + 1
          BY <1>0, <1>3, <3>3, WindowEnds DEF RecordFailure, Recent, OneMore, LoginLimitTypeOK
        <4>2. l \in Unrecorded(s)
          BY <2>1, <3>3 DEF Unrecorded
        <4>3. Cardinality(Unrecorded(s)') = Cardinality(Unrecorded(s)) - 1
          BY <3>1, <4>2, UnrecordedCount, FS_RemoveElement
        <4>4. Limit' = Limit
          BY <1>3 DEF RecordFailure, Limit
        <4>5. Recent(s) + Cardinality(Unrecorded(s)) <= Limit
          BY DEF GuessInv, Guesses
        <4> HIDE DEF t
        <4> QED
          BY <1>a, <1>b, <4>1, <4>3, <4>4, <4>5, UnrecordedCount
      <3> QED
        BY <3>2, <3>3
    <2> QED
      BY <2>3 DEF Guesses
  <1>4. ASSUME NEW s \in Stores,
               \/ \E l \in Logins : ClearFailures(l) \/ LookupFails(l)
               \/ \E p \in Processes : Restart(p)
        PROVE  (Recent(s) + Cardinality(Unrecorded(s)) <= Limit)'
    <2>1. failures'[s] = failures[s] \/ failures'[s] = NoFailures
      BY <1>0, <1>4 DEF ClearFailures, LookupFails, Restart, LoginLimitTypeOK
    <2>2. Recent(s)' <= Recent(s)
      <3>1. failures[s][Window - 1] \in Nat /\ NoFailures[Window - 1] = 0
        BY <1>0, WindowEnds, ZenonT(60) DEF LoginLimitTypeOK, NoFailures
      <3> QED
        BY <2>1, <3>1 DEF Recent
    <2>3. Unrecorded(s)' \subseteq Unrecorded(s)
      BY <1>0, <1>4 DEF ClearFailures, LookupFails, Restart, Finish, Unrecorded, Store,
                        LoginLimitTypeOK
    <2>4. UNCHANGED outages
      BY <1>4 DEF ClearFailures, LookupFails, Restart
    <2> QED
      BY <1>0, <2>2, <2>3, <2>4, FewerGuesses
  <1>5. ASSUME NEW s \in Stores, AgeFailures
        PROVE  (Recent(s) + Cardinality(Unrecorded(s)) <= Limit)'
    <2>1. Recent(s)' = IF Window - 1 = 0 THEN 0 ELSE failures[s][Window - 1 - 1]
      BY <1>5, WindowEnds DEF AgeFailures, Recent
    <2>2. Window - 1 # 0 => failures[s][Window - 1 - 1] <= failures[s][Window - 1]
      BY WindowEnds DEF GuessInv, Counts
    <2>3. Recent(s)' <= Recent(s)
      BY <1>a, <2>1, <2>2 DEF Recent
    <2>4. Unrecorded(s)' \subseteq Unrecorded(s) /\ UNCHANGED outages
      BY <1>5 DEF AgeFailures, Unrecorded, Store
    <2> QED
      BY <1>0, <2>3, <2>4, FewerGuesses
  <1>6. ASSUME NEW s \in Stores, Outage
        PROVE  (Recent(s) + Cardinality(Unrecorded(s)) <= Limit)'
    <2>1. Recent(s)' = Recent(s)
      BY <1>6 DEF Outage, Recent
    <2>2. Limit' = Limit + Cardinality(Logins)
      BY <1>0, <1>6, LimitGrows DEF Outage
    <2>3. Recent(s) + Cardinality(Unrecorded(s)) <= Limit
      BY DEF GuessInv, Guesses
    <2> QED
      BY <1>a, <1>b, <2>1, <2>2, <2>3, UnrecordedCount, LoginsFinite
  <1>7. ASSUME UNCHANGED limitVars
        PROVE  Guesses'
    BY <1>7 DEF limitVars, GuessInv, Guesses, Recent, Unrecorded, Store, Limit
  <1>8. ASSUME NEW l \in Logins, NEW p \in Processes, Refuse(l, p)
        PROVE  Guesses'
    BY <1>7, <1>8 DEF Refuse
  <1>9. Guesses'
    BY <1>2, <1>3, <1>4, <1>5, <1>6, <1>7, <1>8 DEF LoginLimitNext, Guesses
  <1> QED
    BY <1>0, <1>1, <1>9 DEF GuessInv

\* For any number of processes, logins in flight and outages, and for a window of any
\* length: the threshold is overrun by no more than the logins in flight allow.
THEOREM GuessesBoundedAlways == LoginLimitSpec => []GuessesBounded
  <1>1. ASSUME GuessInv, NEW s \in Stores
        PROVE  Recent(s) <= MaxFailures - 1 + Cardinality(Logins) * (1 + outages)
    <2>1. Recent(s) + Cardinality(Unrecorded(s)) <= Limit
      BY <1>1 DEF GuessInv, Guesses
    <2>2. Recent(s) \in Nat /\ Limit \in Nat /\ Cardinality(Unrecorded(s)) \in Nat
      BY <1>1, RecentType, LimitGrows, UnrecordedCount DEF GuessInv
    <2>3. Recent(s) <= Limit
      BY <2>1, <2>2
    <2> QED
      BY <2>3 DEF Limit
  <1>2. GuessInv => GuessesBounded
    BY <1>1 DEF GuessesBounded
  <1> QED
    BY <1>2, GuessInvInit, GuessInvNext, PTL DEF LoginLimitSpec
-----------------------------------------------------------------------------
(* The components side by side: a behaviour of MCSpec is one of each of them. *)

LEMMA RunsLoginLimit == MCSpec => LoginLimitSpec
  <1>1. MCInit => LoginLimitInit
    BY DEF MCInit
  <1>2. [MCNext]_progressVars => [LoginLimitNext]_limitVars
    BY DEF MCNext, progressVars
  <1> QED
    BY <1>1, <1>2, PTL DEF MCSpec, LoginLimitSpec

LEMMA RunsChat == MCSpec => ChatSpec
  <1>1. MCInit => ChatInit
    BY DEF MCInit
  <1>2. [MCNext]_progressVars => [ChatNext]_chatVars
    BY DEF MCNext, progressVars
  <1> QED
    BY <1>1, <1>2, PTL DEF MCSpec, ChatSpec

LEMMA RunsDeletion == MCSpec => DeletionSpec
  <1>1. MCInit => DeletionInit
    BY DEF MCInit
  <1>2. [MCNext]_progressVars => [DeletionNext]_deletionVars
    BY DEF MCNext, progressVars
  <1> QED
    BY <1>1, <1>2, PTL DEF MCSpec, DeletionSpec

\* Every variable of every component keeps its type, whichever one moves.
THEOREM ProgressTypes == MCSpec => []ProgressTypeOK
  <1>1. LoginLimitTypeOK /\ ChatTypeOK /\ DeletionTypeOK => ProgressTypeOK
    BY DEF ProgressTypeOK
  <1> QED
    BY <1>1, RunsLoginLimit, RunsChat, RunsDeletion, LoginLimitTypes, ChatTypes,
       DeletionTypes, PTL
=============================================================================
