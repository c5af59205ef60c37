------------------------------ MODULE Rollout ------------------------------
(***************************************************************************)
(* Rollout of departments in waves.  Each department has a plan: a wave    *)
(* and a status.  A change of a plan reads the readiness of the department *)
(* first, then takes the application lock department-rollout-plan, checks  *)
(* the change against the plans of all departments and writes, in one      *)
(* transaction.  Evaluation gates are recorded, governance data changes    *)
(* and departments are switched on and off without that lock.              *)
(*                                                                         *)
(* Readiness is one bit per department, the conjunction of the eleven      *)
(* prerequisites but the plan's existence; that bit follows from the plan. *)
(***************************************************************************)
EXTENDS Integers, FiniteSets

CONSTANTS
  Depts,
  Waves,         \* 1..4
  Capacity(_),   \* _WAVE_CAPACITY
  Editors,       \* slots for changes of plans in flight
  NoEditor       \* nobody holds the lock

ASSUME RolloutAssumptions ==
  /\ IsFiniteSet(Depts)
  /\ Waves \subseteq Nat \ {0}
  /\ \A w \in Waves : Capacity(w) \in Nat \ {0}
  /\ NoEditor \notin Editors

VARIABLES
  plan,      \* DepartmentRolloutPlan
  ready,     \* would the department's prerequisites hold if they were read now?
  enabled,   \* Departments.IsActive
  edit,      \* what each change of a plan asks for and has read
  planLock   \* the holder of department-rollout-plan

rolloutVars == <<plan, ready, enabled, edit, planLock>>

-----------------------------------------------------------------------------
(* Data *)

Stage == {"planned", "pilot", "dark_launch", "active", "blocked"}

\* darkLaunched: DarkLaunchStartedAt has a value.
Plan == [wave : Waves, stage : Stage, darkLaunched : BOOLEAN]
NoPlan == [wave |-> 0, stage |-> "unplanned", darkLaunched |-> FALSE]

\* Mutant of Allowed: a planned department may become active.
AllowedAtOnce(stage) ==
  CASE stage = "unplanned"   -> {"planned", "pilot"}
    [] stage = "planned"     -> {"planned", "pilot", "dark_launch", "active", "blocked"}
    [] stage = "pilot"       -> {"pilot", "dark_launch", "active", "blocked"}
    [] stage = "dark_launch" -> {"dark_launch", "active", "blocked"}
    [] stage = "blocked"     -> {"blocked", "planned"}
    [] stage = "active"      -> {"active"}

\* _ALLOWED_STATUS_TRANSITIONS
Allowed(stage) ==
  CASE stage = "unplanned"   -> {"planned", "pilot"}
    [] stage = "planned"     -> {"planned", "pilot", "dark_launch", "blocked"}
    [] stage = "pilot"       -> {"pilot", "dark_launch", "active", "blocked"}
    [] stage = "dark_launch" -> {"dark_launch", "active", "blocked"}
    [] stage = "blocked"     -> {"blocked", "planned"}
    [] stage = "active"      -> {"active"}

Live == {"dark_launch", "active"}

\* What a change asks for matters, and is chosen, only once it holds the lock.
\* excused: the departments that were switched off when the earlier waves were checked.
NoEdit == [step |-> "idle"]
ReadEdit == [step : {"lock"}, dept : Depts, ready : BOOLEAN]
CheckedEdit == [step : {"write"}, dept : Depts, wave : Waves, stage : Stage,
                excused : SUBSET Depts]

RolloutInit ==
  /\ plan = [d \in Depts |-> NoPlan]
  /\ ready = [d \in Depts |-> FALSE]
  /\ enabled = [d \in Depts |-> TRUE]
  /\ edit = [e \in Editors |-> NoEdit]
  /\ planLock = NoEditor

-----------------------------------------------------------------------------
(* upsert_department_rollout_plan *)

\* Readiness is read before the lock is asked for, of departments that are on.
ReadReadiness(e, d) ==
  /\ edit[e] = NoEdit
  /\ edit' = [edit EXCEPT ![e] =
       [step |-> "lock", dept |-> d, ready |-> enabled[d] /\ ready[d] /\ plan[d] # NoPlan]]
  /\ UNCHANGED <<plan, ready, enabled, planLock>>

\* _validate_status_transition
TransitionAllowed(d, w, stage) ==
  LET current == plan[d] IN
  /\ stage = "pilot" => w = 1
  /\ stage \in Allowed(current.stage)
  /\ (current # NoPlan /\ current.wave # w) => current.stage \in {"planned", "blocked"}

Assigned(d, w) == {c \in Depts \ {d} : plan[c].wave = w}

\* Mutant of PendingPrior: the wave just before is not asked.
PendingPriorButLast(w) ==
  {c \in Depts : plan[c] # NoPlan /\ plan[c].wave < w - 1 /\ plan[c].stage # "active" /\ enabled[c]}

\* Departments of earlier waves that are on and not active.
PendingPrior(w) ==
  {c \in Depts : plan[c] # NoPlan /\ plan[c].wave < w /\ plan[c].stage # "active" /\ enabled[c]}

\* _validate_rollout_transition
RolloutAllowed(w, stage, isReady) ==
  stage \in Live => /\ w > 1 => PendingPrior(w) = {}
                    /\ isReady

\* Mutant of TakeLock: the plans are counted without the lock.
TakeLockNever(e, w, stage) ==
  LET d == edit[e].dept IN
  /\ edit[e].step = "lock"
  /\ TransitionAllowed(d, w, stage)
  /\ Cardinality(Assigned(d, w)) < Capacity(w)
  /\ RolloutAllowed(w, stage, edit[e].ready)
  /\ planLock' = e
  /\ edit' = [edit EXCEPT ![e] =
       [step |-> "write", dept |-> d, wave |-> w, stage |-> stage,
        excused |-> {c \in Depts : ~enabled[c]}]]
  /\ UNCHANGED <<plan, ready, enabled>>

\* Under the lock the change is checked against all plans.
TakeLock(e, w, stage) ==
  LET d == edit[e].dept IN
  /\ edit[e].step = "lock"
  /\ planLock = NoEditor
  /\ TransitionAllowed(d, w, stage)
  /\ Cardinality(Assigned(d, w)) < Capacity(w)
  /\ RolloutAllowed(w, stage, edit[e].ready)
  /\ planLock' = e
  /\ edit' = [edit EXCEPT ![e] =
       [step |-> "write", dept |-> d, wave |-> w, stage |-> stage,
        excused |-> {c \in Depts : ~enabled[c]}]]
  /\ UNCHANGED <<plan, ready, enabled>>

Write(e) ==
  LET x == edit[e] IN
  /\ edit[e].step = "write"
  /\ plan' = [plan EXCEPT ![x.dept] =
       [wave |-> x.wave, stage |-> x.stage,
        darkLaunched |-> @.darkLaunched \/ x.stage = "dark_launch"]]
  /\ edit' = [edit EXCEPT ![e] = NoEdit]
  /\ planLock' = NoEditor
  /\ UNCHANGED <<ready, enabled>>

\* Not allowed, no lock in time, or a failed statement: nothing is written.
Refuse(e) ==
  /\ edit[e] # NoEdit
  /\ edit' = [edit EXCEPT ![e] = NoEdit]
  /\ planLock' = IF planLock = e THEN NoEditor ELSE planLock
  /\ UNCHANGED <<plan, ready, enabled>>

-----------------------------------------------------------------------------
(* Around it *)

\* A gate is recorded, governance, domain profile or corpus change.
ReadinessChanges(d) ==
  /\ ready' = [ready EXCEPT ![d] = ~@]
  /\ UNCHANGED <<plan, enabled, edit, planLock>>

\* set_department_status
SwitchDepartment(d) ==
  /\ enabled' = [enabled EXCEPT ![d] = ~@]
  /\ UNCHANGED <<plan, ready, edit, planLock>>

RolloutNext ==
  \/ \E e \in Editors, d \in Depts : ReadReadiness(e, d)
  \/ \E e \in Editors, w \in Waves, stage \in Stage : TakeLock(e, w, stage)
  \/ \E e \in Editors : Write(e) \/ Refuse(e)
  \/ \E d \in Depts : ReadinessChanges(d) \/ SwitchDepartment(d)

RolloutSpec == RolloutInit /\ [][RolloutNext]_rolloutVars

-----------------------------------------------------------------------------
(* Properties *)

\* Types of the variables.
RolloutTypeOK ==
  /\ plan \in [Depts -> Plan \cup {NoPlan}]
  /\ ready \in [Depts -> BOOLEAN]
  /\ enabled \in [Depts -> BOOLEAN]
  /\ edit \in [Editors -> ReadEdit \cup CheckedEdit \cup {NoEdit}]
  /\ planLock \in Editors \cup {NoEditor}

\* No wave ever holds more departments than its capacity, though every change counts
\* the others before it writes and departments move between waves.
WaveCapacity ==
  \A w \in Waves : Cardinality({d \in Depts : plan[d].wave = w}) <= Capacity(w)

\* No detour through blocked plans and other waves leads around the stages: a pilot is
\* in wave 1, and whatever is active in a later wave has been dark-launched.
StagesInOrder ==
  \A d \in Depts :
    /\ plan[d].stage = "pilot" => plan[d].wave = 1
    /\ (plan[d].stage = "active" /\ plan[d].wave > 1) => plan[d].darkLaunched

GoesLive(d) == plan[d].stage # plan'[d].stage /\ plan'[d].stage \in Live

\* When a department goes live, every department planned for an earlier wave is
\* active, but for those that were switched off when the change was checked.
WavesInOrder ==
  [][\A d \in Depts : GoesLive(d) =>
       \A c \in Depts :
         (plan[c] # NoPlan /\ plan[c].wave < plan'[d].wave)
           => plan[c].stage = "active" \/ c \in edit[planLock].excused]_rolloutVars
=============================================================================
