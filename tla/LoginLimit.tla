----------------------------- MODULE LoginLimit -----------------------------
(***************************************************************************)
(* The limit on failed logins of one user name.  Failures are counted in   *)
(* the table LoginAttempts, which all server processes share, and, when    *)
(* the database does not answer, in the memory of each process.  Counting, *)
(* checking the password and recording are separate steps, so logins in    *)
(* flight at the same time do not see each other.                          *)
(*                                                                         *)
(* Time is kept as the age of the failures: AgeFailures ages all of them   *)
(* and drops those that leave the window, as the query and _mem_count do.  *)
(* Both count what is younger than a cutoff, so a store is kept as these   *)
(* counts, one for every cutoff in the window.                             *)
(***************************************************************************)
EXTENDS Integers, FiniteSets

CONSTANTS
  Processes,    \* server processes
  Logins,       \* slots for logins in flight
  Table,        \* the store in the database
  MaxFailures,  \* MAX_FAILURES
  Window,       \* WINDOW_SECONDS
  MaxOutages    \* bound: times the database goes away or comes back

ASSUME LoginLimitAssumptions ==
  /\ Table \notin Processes
  /\ IsFiniteSet(Logins)
  /\ MaxFailures \in Nat \ {0}
  /\ Window \in Nat \ {0}
  /\ MaxOutages \in Nat

VARIABLES
  failures,  \* of each store: how many failures are at most how old
  login,     \* how far each login has got, and the process that handles it
  sqlUp,     \* does the database answer?
  outages    \* times the database went away or came back

limitVars == <<failures, login, sqlUp, outages>>

-----------------------------------------------------------------------------
Stores == {Table} \cup Processes

NoLogin == [step |-> "idle"]

\* A login that was let through to the password check.
Login == [step : {"admitted"}, process : Processes]

\* Where a process counts and records: its memory is the fall-back.
Store(p) == IF sqlUp THEN Table ELSE p

Recent(s) == failures[s][Window - 1]

\* Mutant of IsOverThreshold: one failure more is let through.
IsFarOverThreshold(count) == count > MaxFailures

IsOverThreshold(count) == count >= MaxFailures

Ages == 0..Window - 1

NoFailures == [age \in Ages |-> 0]

\* A failure just now is within every cutoff.
OneMore(counts) == [age \in Ages |-> counts[age] + 1]

LoginLimitInit ==
  /\ failures = [s \in Stores |-> NoFailures]
  /\ login = [l \in Logins |-> NoLogin]
  /\ sqlUp \in BOOLEAN
  /\ outages = 0

-----------------------------------------------------------------------------
(* authenticate_user *)

Finish(l) == login' = [login EXCEPT ![l] = NoLogin]

\* The count is below the threshold: the password will be checked.
Admit(l, p) ==
  /\ login[l] = NoLogin
  /\ ~IsOverThreshold(Recent(Store(p)))
  /\ login' = [login EXCEPT ![l] = [step |-> "admitted", process |-> p]]
  /\ UNCHANGED <<failures, sqlUp, outages>>

\* Mutant of Refuse: a refused login counts as a failed one.
RefuseCounting(l, p) ==
  /\ login[l] = NoLogin
  /\ IsOverThreshold(Recent(Store(p)))
  /\ Recent(Store(p)) < MaxFailures + 2
  /\ failures' = [failures EXCEPT ![Store(p)] = OneMore(@)]
  /\ UNCHANGED <<login, sqlUp, outages>>

\* The name is locked: nothing is looked up and nothing recorded.
Refuse(l, p) ==
  /\ login[l] = NoLogin
  /\ IsOverThreshold(Recent(Store(p)))
  /\ UNCHANGED limitVars

\* Unknown user, inactive user or wrong password.
RecordFailure(l) ==
  /\ login[l] # NoLogin
  /\ failures' = [failures EXCEPT ![Store(login[l].process)] = OneMore(@)]
  /\ Finish(l)
  /\ UNCHANGED <<sqlUp, outages>>

\* The right password forgets the failures the process can reach.
ClearFailures(l) ==
  /\ login[l] # NoLogin
  /\ failures' = [failures EXCEPT ![Store(login[l].process)] = NoFailures]
  /\ Finish(l)
  /\ UNCHANGED <<sqlUp, outages>>

\* A query fails: nobody is logged in and no failure is recorded.
LookupFails(l) ==
  /\ login[l] # NoLogin
  /\ Finish(l)
  /\ UNCHANGED <<failures, sqlUp, outages>>

-----------------------------------------------------------------------------
(* Time, outages and restarts *)

AgeFailures ==
  /\ failures' = [s \in Stores |->
       [age \in Ages |-> IF age = 0 THEN 0 ELSE failures[s][age - 1]]]
  /\ UNCHANGED <<login, sqlUp, outages>>

Outage ==
  /\ outages < MaxOutages
  /\ sqlUp' = ~sqlUp
  /\ outages' = outages + 1
  /\ UNCHANGED <<failures, login>>

\* A restarted process has forgotten its failures and its logins.
Restart(p) ==
  /\ failures' = [failures EXCEPT ![p] = NoFailures]
  /\ login' = [l \in Logins |->
       IF login[l] # NoLogin /\ login[l].process = p THEN NoLogin ELSE login[l]]
  /\ UNCHANGED <<sqlUp, outages>>

LoginLimitNext ==
  \/ \E l \in Logins, p \in Processes : Admit(l, p) \/ Refuse(l, p)
  \/ \E l \in Logins : RecordFailure(l) \/ ClearFailures(l) \/ LookupFails(l)
  \/ AgeFailures
  \/ Outage
  \/ \E p \in Processes : Restart(p)

LoginLimitSpec == LoginLimitInit /\ [][LoginLimitNext]_limitVars

\* Time passes; nothing else has to happen.
LoginLimitFairSpec == LoginLimitSpec /\ WF_limitVars(AgeFailures)

-----------------------------------------------------------------------------
(* Properties *)

\* Types of the variables.
LoginLimitTypeOK ==
  /\ failures \in [Stores -> [Ages -> Nat]]
  /\ login \in [Logins -> Login \cup {NoLogin}]
  /\ sqlUp \in BOOLEAN
  /\ outages \in 0..MaxOutages

\* Counting and recording are not one step, so the threshold may be overrun: by the
\* logins in flight at once, and by as many again whenever the database goes away or
\* comes back between the two; never by more, however the window slides.
GuessesBounded ==
  \A s \in Stores :
    Recent(s) <= MaxFailures - 1 + Cardinality(Logins) * (1 + outages)

\* A locked name does not stay locked: refused logins do not prolong the lock.
LockoutEnds ==
  \A p \in Processes :
    IsOverThreshold(Recent(Store(p))) ~> ~IsOverThreshold(Recent(Store(p)))
=============================================================================
