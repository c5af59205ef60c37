---------------------- MODULE PublicationContractProofs ----------------------
(* What PublicationContract guarantees to whoever relies on it.              *)
EXTENDS PublicationContract, TLAPS

LEMMA QueueTyped ==
  ASSUME MaxAttempts \in Nat, queue \in Seq(ContractEvent), [ContractNext]_contractVars
  PROVE  queue' \in Seq(ContractEvent)
  <1>1. \A i \in DOMAIN queue : queue[i] \in ContractEvent
    OBVIOUS
  <1>2. ASSUME NEW i \in DOMAIN queue,
               NEW s \in {"pending", "processing", "done", "failed"}, SetStatus(i, s)
        PROVE  queue' \in Seq(ContractEvent)
    <2>1. [queue[i] EXCEPT !.status = s] \in ContractEvent
      BY <1>1 DEF ContractEvent
    <2> QED
      BY <1>2, <2>1 DEF SetStatus
  <1>3. ASSUME NEW abandoned
        PROVE  /\ Freed(abandoned) \in Seq(ContractEvent)
               /\ Len(Freed(abandoned)) = Len(queue)
               /\ \A i \in DOMAIN queue :
                    Freed(abandoned)[i].attempts = queue[i].attempts
    <2>1. \A i \in DOMAIN queue :
            LET freed == [queue[i] EXCEPT !.status = "failed"]
            IN  freed \in ContractEvent /\ freed.attempts = queue[i].attempts
      BY <1>1 DEF ContractEvent
    <2>2. DOMAIN queue = 1..Len(queue) /\ Len(queue) \in Nat
      OBVIOUS
    <2> QED
      BY <1>1, <2>1, <2>2 DEF Freed
  <1>4. ASSUME NEW d \in Docs, NEW a \in Actions, Request(d, a)
        PROVE  queue' \in Seq(ContractEvent)
    BY <1>4 DEF Request, ContractEvent
  <1>5. ASSUME NEW i \in DOMAIN queue, RequestAgain(i) \/ Hold(i) \/ Fail(i)
        PROVE  queue' \in Seq(ContractEvent)
    BY <1>2, <1>5 DEF RequestAgain, Hold, Fail, SetStatus
  <1>6. ASSUME NEW abandoned, NEW i \in DOMAIN queue, Attempt(i, abandoned)
        PROVE  queue' \in Seq(ContractEvent)
    <2> DEFINE q == Freed(abandoned)
               e == Attempted(q[i])
    <2>1. q \in Seq(ContractEvent) /\ i \in DOMAIN q /\ q[i].attempts = queue[i].attempts
      BY <1>3
    <2>2. q[i] \in ContractEvent /\ q[i].attempts < MaxAttempts
      BY <1>6, <2>1 DEF Attempt
    <2>3. q[i].attempts \in 0..MaxAttempts
      BY <2>2 DEF ContractEvent
    <2>4. q[i].attempts + 1 \in 0..MaxAttempts
      BY <2>2, <2>3
    <2>5. e \in ContractEvent
      BY <2>2, <2>4 DEF ContractEvent, Attempted
    <2>6. queue' = [q EXCEPT ![i] = e]
      BY <1>6, <2>1 DEF Attempt
    <2> HIDE DEF e, q
    <2> QED
      BY <2>1, <2>5, <2>6
  <1> QED
    BY <1>2, <1>3, <1>4, <1>5, <1>6
    DEF ContractNext, contractVars, Free, Complete, SetStatus, Remove

\* A document enters service only through the completion of an event about it,
\* and a completed event is final: with any number of documents and events.
THEOREM CompletionServes ==
  ASSUME MaxAttempts \in Nat
  PROVE  ContractSpec => OnlyCompletionServes
  <1> DEFINE Final == \A i \in DOMAIN queue : queue[i].status = "done" => queue'[i] = queue[i]
             Entering == \A d \in servable' \ servable :
                           \E i \in DOMAIN queue : /\ queue[i].doc = d
                                                   /\ queue[i].status = "processing"
                                                   /\ queue'[i].status = "done"
             Typed == queue \in Seq(ContractEvent)
  <1>1. ContractInit => Typed
    BY DEF ContractInit
  <1>2. Typed /\ [ContractNext]_contractVars => Typed'
    BY QueueTyped
  <1>3. ASSUME Typed, ContractNext
        PROVE  Entering /\ Final
    <2>1. \A i \in DOMAIN queue : queue[i] \in ContractEvent
      BY <1>3
    <2>2. ASSUME NEW d \in Docs, NEW a \in Actions, Request(d, a)
          PROVE  Entering /\ Final
      BY <1>3, <2>2 DEF Request
    <2>3. ASSUME NEW i \in DOMAIN queue, RequestAgain(i) \/ Hold(i) \/ Fail(i)
          PROVE  Entering /\ Final
      BY <1>3, <2>1, <2>3 DEF RequestAgain, Hold, Fail, Processing, SetStatus
    <2>4. ASSUME NEW abandoned \in SUBSET Abandonable, Free(abandoned)
          PROVE  Entering /\ Final
      BY <1>3, <2>1, <2>4 DEF Free, Freed, Abandonable
    <2>5. ASSUME NEW abandoned \in SUBSET Abandonable, NEW i \in DOMAIN queue,
                 Attempt(i, abandoned)
          PROVE  Entering /\ Final
      <3>1. Entering
        BY <2>5 DEF Attempt
      <3>2. Final
        BY <1>3, <2>1, <2>5 DEF Attempt, Freed, Abandonable
      <3> QED
        BY <3>1, <3>2
    <2>6. ASSUME NEW i \in DOMAIN queue, NEW old, Complete(i, old)
          PROVE  Entering /\ Final
      <3>1. Final
        BY <1>3, <2>1, <2>6 DEF Complete, Processing, SetStatus
      <3>2. queue'[i].status = "done"
        BY <1>3, <2>1, <2>6 DEF Complete, SetStatus, ContractEvent
      <3> QED
        BY <2>6, <3>1, <3>2 DEF Complete, Processing
    <2>7. ASSUME NEW d \in Docs, Remove(d)
          PROVE  Entering /\ Final
      BY <2>7 DEF Remove
    <2> QED
      BY <1>3, <2>2, <2>3, <2>4, <2>5, <2>6, <2>7 DEF ContractNext
  <1>4. ASSUME Typed, [ContractNext]_contractVars
        PROVE  [Entering /\ Final]_contractVars
    BY <1>3, <1>4
  <1> QED
    BY <1>1, <1>2, <1>4, PTL DEF ContractSpec, OnlyCompletionServes
=============================================================================
