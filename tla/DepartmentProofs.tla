------------------------- MODULE DepartmentProofs -------------------------
(* Theorems about the departments, for every value of the constants: the   *)
(* plans of their rollout (Rollout) and the move of their documents        *)
(* (DepartmentMove).                                                       *)
EXTENDS Rollout, DepartmentMove, FiniteSetTheorems, TLAPS

-----------------------------------------------------------------------------
(* Rollout: types *)

LEMMA EditParts ==
  ASSUME RolloutTypeOK, NEW e \in Editors
  PROVE  /\ edit[e].step = "lock" => edit[e] \in ReadEdit
         /\ edit[e].step = "write" => edit[e] \in CheckedEdit
  BY DEF RolloutTypeOK, ReadEdit, CheckedEdit, NoEdit

LEMMA PlanParts ==
  ASSUME RolloutTypeOK, NEW d \in Depts
  PROVE  /\ plan[d] # NoPlan => plan[d] \in Plan /\ plan[d].wave \in Waves
         /\ plan[d].wave \in Nat
         /\ plan[d].darkLaunched \in BOOLEAN
  <1>1. CASE plan[d] \in Plan
    <2>1. plan[d].darkLaunched \in BOOLEAN
      BY <1>1, Zenon DEF Plan
    <2>2. plan[d].wave \in Waves
      BY <1>1 DEF Plan
    <2> QED
      BY <1>1, <2>1, <2>2, RolloutAssumptions DEF RolloutAssumptions
  <1>2. CASE plan[d] = NoPlan
    BY <1>2 DEF NoPlan
  <1> QED
    BY <1>1, <1>2 DEF RolloutTypeOK

LEMMA RolloutTypeInit == RolloutInit => RolloutTypeOK
  BY DEF RolloutInit, RolloutTypeOK

LEMMA RolloutTypeNext ==
  ASSUME RolloutTypeOK, [RolloutNext]_rolloutVars
  PROVE  RolloutTypeOK'
  <1> USE DEF RolloutTypeOK
  <1>1. ASSUME NEW e \in Editors, NEW d \in Depts, ReadReadiness(e, d)
        PROVE  RolloutTypeOK'
    <2>1. [step |-> "lock", dept |-> d, ready |-> enabled[d] /\ ready[d] /\ plan[d] # NoPlan]
            \in ReadEdit
      BY DEF ReadEdit
    <2> QED
      BY <1>1, <2>1 DEF ReadReadiness
  <1>2. ASSUME NEW e \in Editors, NEW w \in Waves, NEW stage \in Stage, TakeLock(e, w, stage)
        PROVE  RolloutTypeOK'
    <2>1. edit[e].dept \in Depts
      BY <1>2, EditParts DEF TakeLock, ReadEdit
    <2>2. [step |-> "write", dept |-> edit[e].dept, wave |-> w, stage |-> stage,
           excused |-> {c \in Depts : ~enabled[c]}] \in CheckedEdit
      BY <2>1 DEF CheckedEdit
    <2> QED
      BY <1>2, <2>2 DEF TakeLock
  <1>3. ASSUME NEW e \in Editors, Write(e)
        PROVE  RolloutTypeOK'
    <2>1. edit[e] \in CheckedEdit
      BY <1>3, EditParts DEF Write
    <2>2. plan[edit[e].dept].darkLaunched \in BOOLEAN
      BY <2>1, PlanParts DEF CheckedEdit
    <2>3. [wave |-> edit[e].wave, stage |-> edit[e].stage,
           darkLaunched |-> plan[edit[e].dept].darkLaunched \/ edit[e].stage = "dark_launch"]
            \in Plan
      BY <2>1, <2>2 DEF CheckedEdit, Plan
    <2> QED
      BY <1>3, <2>1, <2>3 DEF Write, CheckedEdit
  <1>4. ASSUME NEW e \in Editors, Refuse(e)
        PROVE  RolloutTypeOK'
    BY <1>4 DEF Refuse
  <1>5. ASSUME NEW d \in Depts, ReadinessChanges(d) \/ SwitchDepartment(d)
        PROVE  RolloutTypeOK'
    BY <1>5 DEF ReadinessChanges, SwitchDepartment
  <1>6. CASE UNCHANGED rolloutVars
    BY <1>6 DEF rolloutVars
  <1> QED
    BY <1>1, <1>2, <1>3, <1>4, <1>5, <1>6 DEF RolloutNext

\* Types of the variables.
THEOREM RolloutTypes == RolloutSpec => []RolloutTypeOK
  BY RolloutTypeInit, RolloutTypeNext, PTL DEF RolloutSpec

-----------------------------------------------------------------------------
(* Rollout: whoever is about to write holds the lock, and what he has checked *)
(* of the plans still holds, because plans change under the lock only.        *)

\* What was checked under the lock, but for who was switched off at the time.
Checked(x) ==
  /\ Cardinality(Assigned(x.dept, x.wave)) < Capacity(x.wave)
  /\ TransitionAllowed(x.dept, x.wave, x.stage)
  /\ x.stage \in Live =>
       \A c \in Depts : (plan[c] # NoPlan /\ plan[c].wave < x.wave)
                          => plan[c].stage = "active" \/ c \in x.excused

WritersOK == \A e \in Editors : edit[e].step = "write" => planLock = e /\ Checked(edit[e])

DarkLaunchNoted == \A d \in Depts : plan[d].stage = "dark_launch" => plan[d].darkLaunched

RolloutInv ==
  RolloutTypeOK /\ WritersOK /\ WaveCapacity /\ DarkLaunchNoted /\ StagesInOrder

LEMMA RolloutInvInit == RolloutInit => RolloutInv
  <1> SUFFICES ASSUME RolloutInit PROVE RolloutInv
    OBVIOUS
  <1>1. RolloutTypeOK
    BY RolloutTypeInit
  <1>2. WritersOK /\ DarkLaunchNoted /\ StagesInOrder
    BY DEF RolloutInit, WritersOK, DarkLaunchNoted, StagesInOrder, NoEdit, NoPlan
  <1>3. ASSUME NEW w \in Waves
        PROVE  Cardinality({d \in Depts : plan[d].wave = w}) <= Capacity(w)
    <2>1. {d \in Depts : plan[d].wave = w} = {}
      BY RolloutAssumptions DEF RolloutAssumptions, RolloutInit, NoPlan
    <2>2. Cardinality({d \in Depts : plan[d].wave = w}) = 0
      BY <2>1, FS_EmptySet
    <2> QED
      BY <2>2, RolloutAssumptions DEF RolloutAssumptions
  <1> QED
    BY <1>1, <1>2, <1>3 DEF RolloutInv, WaveCapacity

\* Steps that write no plan and check nothing.
LEMMA PlansKept ==
  ASSUME RolloutInv, RolloutTypeOK', UNCHANGED plan,
         \A e \in Editors : edit'[e].step = "write" => edit'[e] = edit[e] /\ planLock' = planLock
  PROVE  RolloutInv'
  <1>1. WaveCapacity' /\ DarkLaunchNoted' /\ StagesInOrder'
    BY DEF RolloutInv, WaveCapacity, DarkLaunchNoted, StagesInOrder
  <1>2. WritersOK'
    BY DEF RolloutInv, WritersOK, Checked, Assigned, TransitionAllowed
  <1> QED
    BY <1>1, <1>2 DEF RolloutInv

LEMMA TakeLockInv ==
  ASSUME RolloutInv, RolloutTypeOK', NEW e \in Editors, NEW w \in Waves, NEW stage \in Stage,
         TakeLock(e, w, stage)
  PROVE  RolloutInv'
  <1> DEFINE d == edit[e].dept
             off == {c \in Depts : ~enabled[c]}
  <1>1. /\ planLock = NoEditor /\ planLock' = e /\ UNCHANGED <<plan, enabled>>
        /\ edit' = [edit EXCEPT ![e] =
             [step |-> "write", dept |-> d, wave |-> w, stage |-> stage, excused |-> off]]
    BY DEF TakeLock
  <1>2. edit \in [Editors -> ReadEdit \cup CheckedEdit \cup {NoEdit}]
    BY DEF RolloutInv, RolloutTypeOK
  <1>3. ASSUME NEW c \in Depts, plan[c] # NoPlan, plan[c].wave < w, stage \in Live
        PROVE  plan[c].stage = "active" \/ c \in off
    <2>1. w > 1
      BY <1>3, PlanParts, RolloutAssumptions DEF RolloutInv, RolloutAssumptions
    <2>2. PendingPrior(w) = {}
      BY <1>3, <2>1 DEF TakeLock, RolloutAllowed
    <2> QED
      BY <1>3, <2>2 DEF PendingPrior
  <1>4. Cardinality(Assigned(d, w)) < Capacity(w) /\ TransitionAllowed(d, w, stage)
    BY DEF TakeLock
  <1>5. PICK x : x = [step |-> "write", dept |-> d, wave |-> w, stage |-> stage, excused |-> off]
    OBVIOUS
  <1>6. Checked(x)'
    <2>1. x.dept = d /\ x.wave = w /\ x.stage = stage /\ x.excused = off
      BY <1>5
    <2>2. Checked(x)
      BY <1>3, <1>4, <2>1 DEF Checked
    <2> QED
      BY <1>1, <2>2 DEF Checked, Assigned, TransitionAllowed
  <1>7. edit'[e] = x /\ \A f \in Editors \ {e} : edit'[f] = edit[f] /\ edit[f].step # "write"
    BY <1>1, <1>2, <1>5, RolloutAssumptions
    DEF RolloutInv, WritersOK, RolloutAssumptions
  <1>8. WritersOK'
    BY <1>1, <1>6, <1>7 DEF WritersOK, Checked, Assigned, TransitionAllowed
  <1>9. WaveCapacity' /\ DarkLaunchNoted' /\ StagesInOrder'
    BY <1>1 DEF RolloutInv, WaveCapacity, DarkLaunchNoted, StagesInOrder
  <1> QED
    BY <1>8, <1>9 DEF RolloutInv

\* What a write does to the plans.
LEMMA WriteParts ==
  ASSUME RolloutInv, NEW e \in Editors, Write(e)
  PROVE  /\ edit[e] \in CheckedEdit /\ Checked(edit[e]) /\ planLock = e
         /\ \A d \in Depts \ {edit[e].dept} : plan'[d] = plan[d]
         /\ plan'[edit[e].dept].wave = edit[e].wave
         /\ plan'[edit[e].dept].stage = edit[e].stage
         /\ plan'[edit[e].dept].darkLaunched =
              (plan[edit[e].dept].darkLaunched \/ edit[e].stage = "dark_launch")
         /\ \A f \in Editors : edit'[f].step # "write"
  <1>1. edit[e] \in CheckedEdit
    BY EditParts DEF RolloutInv, Write
  <1>2. edit[e].dept \in Depts
    BY <1>1 DEF CheckedEdit
  <1>3. Checked(edit[e]) /\ planLock = e
    BY DEF RolloutInv, WritersOK, Write
  <1>4. plan \in [Depts -> Plan \cup {NoPlan}]
        /\ edit \in [Editors -> ReadEdit \cup CheckedEdit \cup {NoEdit}]
    BY DEF RolloutInv, RolloutTypeOK
  <1>5. \A f \in Editors : edit'[f].step # "write"
    <2>1. \A f \in Editors \ {e} : edit[f].step # "write"
      BY <1>3 DEF RolloutInv, WritersOK
    <2>2. \A f \in Editors : edit'[f] = IF f = e THEN NoEdit ELSE edit[f]
      BY <1>4 DEF Write
    <2> QED
      BY <2>1, <2>2 DEF NoEdit
  <1>6. \A d \in Depts \ {edit[e].dept} : plan'[d] = plan[d]
    BY <1>4 DEF Write
  <1>7. plan'[edit[e].dept] =
          [wave |-> edit[e].wave, stage |-> edit[e].stage,
           darkLaunched |-> plan[edit[e].dept].darkLaunched \/ edit[e].stage = "dark_launch"]
    BY <1>2, <1>4 DEF Write
  <1> QED
    BY <1>1, <1>3, <1>5, <1>6, <1>7

LEMMA WriteCapacity ==
  ASSUME RolloutInv, NEW e \in Editors, Write(e)
  PROVE  WaveCapacity'
  <1> SUFFICES ASSUME NEW w \in Waves
               PROVE  Cardinality({c \in Depts : plan'[c].wave = w}) <= Capacity(w)
    BY DEF WaveCapacity
  <1> DEFINE d == edit[e].dept
             before == {c \in Depts : plan[c].wave = w}
             after == {c \in Depts : plan'[c].wave = w}
  <1>1. IsFiniteSet(before) /\ IsFiniteSet(after) /\ IsFiniteSet(Assigned(d, w))
    BY RolloutAssumptions, FS_Subset DEF RolloutAssumptions, Assigned
  <1>2. Cardinality(before) <= Capacity(w) /\ Capacity(w) \in Nat
    BY RolloutAssumptions DEF RolloutInv, WaveCapacity, RolloutAssumptions
  <1>3. d \in Depts /\ edit[e].wave \in Waves
    BY WriteParts DEF CheckedEdit
  <1>4. CASE w = edit[e].wave
    <2>1. after = Assigned(d, w) \cup {d}
      BY <1>3, <1>4, WriteParts DEF Assigned
    <2>2. d \notin Assigned(d, w)
      BY DEF Assigned
    <2>3. Cardinality(after) = Cardinality(Assigned(d, w)) + 1
      BY <1>1, <2>1, <2>2, FS_AddElement
    <2>4. Cardinality(Assigned(d, w)) < Capacity(w)
      BY <1>4, WriteParts DEF Checked
    <2>5. Cardinality(Assigned(d, w)) \in Nat
      BY <1>1, FS_CardinalityType
    <2> QED
      BY <1>2, <2>3, <2>4, <2>5
  <1>5. CASE w # edit[e].wave
    <2>1. after \subseteq before
      BY <1>3, <1>5, WriteParts
    <2>2. Cardinality(after) <= Cardinality(before)
      BY <1>1, <2>1, FS_Subset
    <2>3. Cardinality(after) \in Nat /\ Cardinality(before) \in Nat
      BY <1>1, FS_CardinalityType
    <2> QED
      BY <1>2, <2>2, <2>3
  <1> QED
    BY <1>4, <1>5

LEMMA WriteStages ==
  ASSUME RolloutInv, NEW e \in Editors, Write(e)
  PROVE  DarkLaunchNoted' /\ StagesInOrder'
  <1> DEFINE x == edit[e]
  <1>1. x.dept \in Depts /\ x.wave \in Waves /\ x.wave \in Nat /\ TransitionAllowed(x.dept, x.wave, x.stage)
    BY WriteParts, RolloutAssumptions DEF CheckedEdit, Checked, RolloutAssumptions
  <1>2. plan'[x.dept].stage = "dark_launch" => plan'[x.dept].darkLaunched
    BY WriteParts
  <1>3. plan'[x.dept].stage = "pilot" => plan'[x.dept].wave = 1
    BY <1>1, WriteParts DEF TransitionAllowed
  <1>4. ASSUME plan'[x.dept].stage = "active", plan'[x.dept].wave > 1
        PROVE  plan'[x.dept].darkLaunched
    <2>1. x.stage = "active" /\ x.wave > 1
      BY <1>4, WriteParts
    <2>2. "active" \in Allowed(plan[x.dept].stage)
      BY <1>1, <2>1 DEF TransitionAllowed
    <2>3. plan[x.dept].stage \in Stage \cup {"unplanned"}
      BY <1>1 DEF RolloutInv, RolloutTypeOK, Plan, NoPlan
    <2>4. plan[x.dept].stage \in {"pilot", "dark_launch", "active"}
      BY <2>2, <2>3 DEF Allowed, Stage
    <2>5. plan[x.dept] # NoPlan
      BY <2>4 DEF NoPlan
    <2>6. plan[x.dept].wave = x.wave
      BY <1>1, <2>4, <2>5 DEF TransitionAllowed
    <2>7. plan[x.dept].darkLaunched
      BY <1>1, <2>1, <2>4, <2>6 DEF RolloutInv, DarkLaunchNoted, StagesInOrder
    <2> QED
      BY <2>7, WriteParts
  <1>5. \A d \in Depts \ {x.dept} : plan'[d] = plan[d]
    BY WriteParts
  <1> QED
    BY <1>2, <1>3, <1>4, <1>5 DEF RolloutInv, DarkLaunchNoted, StagesInOrder

LEMMA RolloutInvNext ==
  ASSUME RolloutInv, [RolloutNext]_rolloutVars
  PROVE  RolloutInv'
  <1>1. RolloutTypeOK'
    BY RolloutTypeNext DEF RolloutInv
  <1>2. edit \in [Editors -> ReadEdit \cup CheckedEdit \cup {NoEdit}]
    BY DEF RolloutInv, RolloutTypeOK
  <1>3. ASSUME NEW e \in Editors, NEW d \in Depts, ReadReadiness(e, d)
        PROVE  RolloutInv'
    <2>1. \A f \in Editors : edit'[f].step = "write" => edit'[f] = edit[f]
      BY <1>2, <1>3 DEF ReadReadiness
    <2> QED
      BY <1>1, <1>3, <2>1, PlansKept DEF ReadReadiness
  <1>4. ASSUME NEW e \in Editors, NEW w \in Waves, NEW stage \in Stage, TakeLock(e, w, stage)
        PROVE  RolloutInv'
    BY <1>1, <1>4, TakeLockInv
  <1>5. ASSUME NEW e \in Editors, Write(e)
        PROVE  RolloutInv'
    <2>1. WritersOK'
      BY <1>5, WriteParts DEF WritersOK
    <2> QED
      BY <1>1, <1>5, <2>1, WriteCapacity, WriteStages DEF RolloutInv
  <1>6. ASSUME NEW e \in Editors, Refuse(e)
        PROVE  RolloutInv'
    <2>1. \A f \in Editors : edit'[f] = IF f = e THEN NoEdit ELSE edit[f]
      BY <1>2, <1>6 DEF Refuse
    <2>2. ASSUME NEW f \in Editors, edit'[f].step = "write"
          PROVE  edit'[f] = edit[f] /\ planLock' = planLock
      <3>1. f # e /\ edit'[f] = edit[f]
        BY <2>1, <2>2 DEF NoEdit
      <3>2. planLock = f
        BY <2>2, <3>1 DEF RolloutInv, WritersOK
      <3> QED
        BY <1>6, <3>1, <3>2 DEF Refuse
    <2> QED
      BY <1>1, <1>6, <2>2, PlansKept DEF Refuse
  <1>7. ASSUME NEW d \in Depts, ReadinessChanges(d) \/ SwitchDepartment(d)
        PROVE  RolloutInv'
    BY <1>1, <1>7, PlansKept DEF ReadinessChanges, SwitchDepartment
  <1>8. CASE UNCHANGED rolloutVars
    BY <1>1, <1>8, PlansKept DEF rolloutVars
  <1> QED
    BY <1>3, <1>4, <1>5, <1>6, <1>7, <1>8 DEF RolloutNext

LEMMA RolloutInvAlways == RolloutSpec => []RolloutInv
  BY RolloutInvInit, RolloutInvNext, PTL DEF RolloutSpec

\* The capacity of every wave is kept, with any number of editors and departments.
THEOREM WaveCapacityAlways == RolloutSpec => []WaveCapacity
  <1>1. RolloutInv => WaveCapacity
    BY DEF RolloutInv
  <1> QED
    BY <1>1, RolloutInvAlways, PTL

\* No way through the stages and waves leads around the pilot wave and the dark launch.
THEOREM StagesInOrderAlways == RolloutSpec => []StagesInOrder
  <1>1. RolloutInv => StagesInOrder
    BY DEF RolloutInv
  <1> QED
    BY <1>1, RolloutInvAlways, PTL

\* A step that writes no plan lets nobody go live; a write was checked under the lock.
LEMMA LiveStep ==
  ASSUME RolloutInv, [RolloutNext]_rolloutVars, NEW d \in Depts, GoesLive(d),
         NEW c \in Depts, plan[c] # NoPlan, plan[c].wave < plan'[d].wave
  PROVE  plan[c].stage = "active" \/ c \in edit[planLock].excused
  <1>1. plan' # plan
    BY DEF GoesLive
  <1>2. PICK e \in Editors : Write(e)
    BY <1>1 DEF RolloutNext, ReadReadiness, TakeLock, Refuse, ReadinessChanges,
                SwitchDepartment, rolloutVars
  <1>3. d = edit[e].dept
    BY <1>2, WriteParts DEF GoesLive
  <1>4. plan'[d].wave = edit[e].wave /\ edit[e].stage \in Live
    BY <1>2, <1>3, WriteParts DEF GoesLive
  <1>5. Checked(edit[e]) /\ planLock = e
    BY <1>2, WriteParts
  <1> QED
    BY <1>4, <1>5 DEF Checked

\* No department goes live before those of the earlier waves.
THEOREM WavesInOrderAlways == RolloutSpec => WavesInOrder
  <1>1. RolloutInv /\ [RolloutNext]_rolloutVars =>
          [\A d \in Depts : GoesLive(d) =>
             \A c \in Depts :
               (plan[c] # NoPlan /\ plan[c].wave < plan'[d].wave)
                 => plan[c].stage = "active" \/ c \in edit[planLock].excused]_rolloutVars
    BY LiveStep
  <1> QED
    BY <1>1, RolloutInvAlways, PTL DEF RolloutSpec, WavesInOrder

-----------------------------------------------------------------------------
(* Move of a department: types *)

LEMMA MoveParts ==
  ASSUME MoveTypeOK, NEW m \in Movers, mover[m].step # "idle"
  PROVE  /\ mover[m] \in Move /\ mover[m] # NoMove
         /\ mover[m].from \in Offices /\ mover[m].to \in Offices
         /\ mover[m].todo \subseteq Files /\ mover[m].hidden \subseteq Files
         /\ mover[m].failed \subseteq Files /\ mover[m].read \in [Files -> Filing]
  BY DEF MoveTypeOK, Move, NoMove

LEMMA FilingParts ==
  ASSUME NEW r \in Filing
  PROVE  /\ r.offices \in SUBSET Offices /\ r.servable \in BOOLEAN
         /\ r = [offices |-> r.offices, servable |-> r.servable]
         /\ \A os \in SUBSET Offices :
              /\ [r EXCEPT !.offices = os] \in Filing
              /\ [r EXCEPT !.offices = os] = [offices |-> os, servable |-> r.servable]
         /\ \A b \in BOOLEAN :
              /\ [r EXCEPT !.servable = b] \in Filing
              /\ [r EXCEPT !.servable = b] = [offices |-> r.offices, servable |-> b]
  <1>1. r.offices \in SUBSET Offices /\ r.servable \in BOOLEAN
    BY Zenon DEF Filing
  <1>2. r = [offices |-> r.offices, servable |-> r.servable]
    BY DEF Filing
  <1>3. \A os \in SUBSET Offices :
          [r EXCEPT !.offices = os] = [offices |-> os, servable |-> r.servable]
    BY DEF Filing
  <1>4. \A b \in BOOLEAN : [r EXCEPT !.servable = b] = [offices |-> r.offices, servable |-> b]
    BY DEF Filing
  <1>5. \A os \in SUBSET Offices, b \in BOOLEAN : [offices |-> os, servable |-> b] \in Filing
    BY DEF Filing
  <1> QED
    BY <1>1, <1>2, <1>3, <1>4, <1>5

\* The forms in which points are written.
LEMMA PayloadType ==
  ASSUME MoveTypeOK, NEW f \in Files
  PROVE  /\ Hidden(f) \in Filing /\ Hidden(f).servable = FALSE
         /\ Hidden(f).offices = filePoint[f].offices
         /\ \A m \in Movers : mover[m].step # "idle" =>
              /\ Shown(f, m) \in Filing
              /\ Unhidden(f, m) \in Filing
              /\ Unhidden(f, m) = [offices |-> filePoint[f].offices,
                                   servable |-> mover[m].read[f].servable]
  <1>1. filePoint[f] \in Filing
    BY DEF MoveTypeOK
  <1>2. \A m \in Movers : mover[m].step # "idle" => mover[m].read[f] \in Filing
    BY MoveParts
  <1>3. Hidden(f) \in Filing /\ Hidden(f) = [offices |-> filePoint[f].offices, servable |-> FALSE]
    BY <1>1, FilingParts DEF Hidden
  <1>4. \A m \in Movers : mover[m].step # "idle" => mover[m].read[f].servable \in BOOLEAN
    BY <1>2, FilingParts
  <1>5. ASSUME NEW m \in Movers, mover[m].step # "idle"
        PROVE  /\ Unhidden(f, m) \in Filing
               /\ Unhidden(f, m) = [offices |-> filePoint[f].offices,
                                    servable |-> mover[m].read[f].servable]
    BY <1>1, <1>4, <1>5, FilingParts DEF Unhidden
  <1> QED
    BY <1>2, <1>3, <1>5 DEF Shown

LEMMA PointType ==
  ASSUME MoveTypeOK, NEW f \in Files, NEW payload \in Filing
  PROVE  /\ filePoint' = [filePoint EXCEPT ![f] = payload] => filePoint' \in [Files -> Filing]
         /\ PointFails(f, payload) => filePoint' \in [Files -> Filing] /\ moveFaults' \in 0..MaxMoveFaults
  BY MoveAssumptions DEF MoveTypeOK, PointFails, MoveFault, MoveAssumptions

\* A mover goes on to other documents and another step.
LEMMA MoverType ==
  ASSUME MoveTypeOK, NEW m \in Movers, mover[m] \in Move, NEW x \in Move,
         mover' = [mover EXCEPT ![m] = x]
  PROVE  mover' \in [Movers -> Move \cup {NoMove}]
  BY DEF MoveTypeOK

LEMMA MoveFields ==
  ASSUME NEW x \in Move, NEW f, NEW step \in {"hide", "undo", "show"}
  PROVE  /\ [x EXCEPT !.todo = x.todo \ {f}] \in Move
         /\ [x EXCEPT !.step = step, !.todo = x.hidden] \in Move
         /\ f \in Files => [x EXCEPT !.todo = x.todo \ {f}, !.hidden = x.hidden \cup {f}] \in Move
         /\ f \in Files => [x EXCEPT !.todo = x.todo \ {f}, !.failed = x.failed \cup {f}] \in Move
         /\ \A r \in [Files -> Filing] :
              [x EXCEPT !.step = step, !.todo = x.hidden, !.read = r] \in Move
  <1> USE DEF Move
  <1>1. [x EXCEPT !.todo = x.todo \ {f}] \in Move
    OBVIOUS
  <1>2. [x EXCEPT !.step = step, !.todo = x.hidden] \in Move
    OBVIOUS
  <1>3. f \in Files => [x EXCEPT !.todo = x.todo \ {f}, !.hidden = x.hidden \cup {f}] \in Move
    OBVIOUS
  <1>4. f \in Files => [x EXCEPT !.todo = x.todo \ {f}, !.failed = x.failed \cup {f}] \in Move
    OBVIOUS
  <1>5. \A r \in [Files -> Filing] :
          [x EXCEPT !.step = step, !.todo = x.hidden, !.read = r] \in Move
    OBVIOUS
  <1> QED
    BY <1>1, <1>2, <1>3, <1>4, <1>5

LEMMA MoveTypeInit == MoveInit => MoveTypeOK
  <1>1. ASSUME NEW r \in [offices : {{o} : o \in Offices}, servable : {TRUE}]
        PROVE  r \in Filing
    <2>1. r.offices \in SUBSET Offices /\ r.servable \in BOOLEAN
      BY ZenonT(60)
    <2>2. r = [offices |-> r.offices, servable |-> r.servable]
      OBVIOUS
    <2> QED
      BY <2>1, <2>2 DEF Filing
  <1>2. MoveInit => fileRow \in [Files -> Filing]
    <2>1. [offices : {{o} : o \in Offices}, servable : {TRUE}] \subseteq Filing
      BY <1>1
    <2> QED
      BY <2>1 DEF MoveInit
  <1>3. MoveInit => /\ filePoint = fileRow
                    /\ office \in [Offices -> {"active", "disabled", "archived"}]
                    /\ mover \in [Movers -> Move \cup {NoMove}]
                    /\ withdrawal \subseteq Files /\ stale \subseteq Files
                    /\ moves = 0 /\ moveFaults = 0
    BY DEF MoveInit
  <1>4. 0 \in 0..MaxMoves /\ 0 \in 0..MaxMoveFaults
    BY MoveAssumptions DEF MoveAssumptions
  <1> QED
    BY <1>2, <1>3, <1>4 DEF MoveTypeOK

LEMMA RefiledType ==
  ASSUME MoveTypeOK, NEW f \in Files, NEW m \in Movers, mover[m].step # "idle"
  PROVE  Refiled(f, m) \in SUBSET Offices
  <1>1. fileRow[f].offices \in SUBSET Offices
    BY FilingParts DEF MoveTypeOK
  <1> QED
    BY <1>1, MoveParts DEF Refiled

LEMMA CommitType ==
  ASSUME MoveTypeOK, NEW m \in Movers, CommitMove(m)
  PROVE  MoveTypeOK'
  <1> DEFINE x == mover[m]
             r == [f \in Files |-> IF f \in x.hidden
                     THEN [x.read[f] EXCEPT !.offices = Refiled(f, m)] ELSE x.read[f]]
  <1>1. x.step # "idle"
    BY DEF CommitMove, Under
  <1>2. x \in Move /\ x.read \in [Files -> Filing]
    BY <1>1, MoveParts
  <1>3. r \in [Files -> Filing]
    <2>1. \A f \in Files : [x.read[f] EXCEPT !.offices = Refiled(f, m)] \in Filing
      BY <1>1, <1>2, RefiledType, FilingParts
    <2> QED
      BY <1>2, <2>1
  <1>4. fileRow' \in [Files -> Filing]
    <2>1. \A f \in Files : [fileRow[f] EXCEPT !.offices = Refiled(f, m)] \in Filing
      BY <1>1, RefiledType, FilingParts DEF MoveTypeOK
    <2> QED
      BY <2>1 DEF CommitMove, MoveTypeOK
  <1>5. mover' = [mover EXCEPT ![m] = [x EXCEPT !.step = "show", !.todo = x.hidden, !.read = r]]
    BY Zenon DEF CommitMove
  <1>6. [x EXCEPT !.step = "show", !.todo = x.hidden, !.read = r] \in Move
    BY <1>2, <1>3, MoveFields, Zenon
  <1> HIDE DEF r
  <1>7. mover' \in [Movers -> Move \cup {NoMove}]
    BY <1>2, <1>5, <1>6, MoverType
  <1> QED
    BY <1>4, <1>7 DEF CommitMove, MoveTypeOK

LEMMA MoveTypeNext ==
  ASSUME MoveTypeOK, [MoveNext]_moveVars
  PROVE  MoveTypeOK'
  <1> USE DEF Under
  <1>1. ASSUME NEW m \in Movers, NEW from \in Offices, NEW to \in Offices, BeginMove(m, from, to)
        PROVE  MoveTypeOK'
    <2>1. [step |-> "hide", from |-> from, to |-> to,
           todo |-> {f \in Files : from \in fileRow[f].offices}, hidden |-> {},
           failed |-> {}, read |-> fileRow] \in Move
      BY DEF Move, MoveTypeOK
    <2>2. mover' \in [Movers -> Move \cup {NoMove}]
      BY <1>1, <2>1 DEF BeginMove, MoveTypeOK
    <2>3. moves' \in 0..MaxMoves
      BY <1>1, MoveAssumptions DEF BeginMove, MoveTypeOK, MoveAssumptions
    <2> QED
      BY <1>1, <2>2, <2>3 DEF BeginMove, MoveTypeOK
  <1>2. ASSUME NEW m \in Movers, NEW f \in Files, HidePoint(m, f)
        PROVE  MoveTypeOK'
    <2>1. mover[m] \in Move
      BY <1>2, MoveParts DEF HidePoint
    <2>2. mover' = [mover EXCEPT ![m] = [mover[m] EXCEPT !.todo = mover[m].todo \ {f},
                                                         !.hidden = mover[m].hidden \cup {f}]]
      BY <1>2, Zenon DEF HidePoint
    <2>3. mover' \in [Movers -> Move \cup {NoMove}]
      BY <2>1, <2>2, MoveFields, MoverType, Zenon
    <2>4. filePoint' \in [Files -> Filing]
      BY <1>2, PayloadType, PointType DEF HidePoint
    <2> QED
      BY <1>2, <2>3, <2>4 DEF HidePoint, MoveTypeOK
  <1>3. ASSUME NEW m \in Movers, NEW f \in Files, HideFails(m, f)
        PROVE  MoveTypeOK'
    <2>1. mover[m] \in Move
      BY <1>3, MoveParts DEF HideFails
    <2>2. mover' = [mover EXCEPT ![m] = [mover[m] EXCEPT !.step = "undo", !.todo = mover[m].hidden]]
      BY <1>3, Zenon DEF HideFails
    <2>3. mover' \in [Movers -> Move \cup {NoMove}]
      BY <2>1, <2>2, MoveFields, MoverType, Zenon
    <2>4. filePoint' \in [Files -> Filing] /\ moveFaults' \in 0..MaxMoveFaults
      BY <1>3, PayloadType, PointType DEF HideFails
    <2> QED
      BY <1>3, <2>3, <2>4 DEF HideFails, MoveTypeOK
  <1>4. ASSUME NEW m \in Movers, NEW f \in Files, UndoHide(m, f)
        PROVE  MoveTypeOK'
    <2>1. mover[m] \in Move
      BY <1>4, MoveParts DEF UndoHide
    <2>2. mover' = [mover EXCEPT ![m] = [mover[m] EXCEPT !.todo = mover[m].todo \ {f}]]
      BY <1>4 DEF UndoHide
    <2>3. mover' \in [Movers -> Move \cup {NoMove}]
      BY <2>1, <2>2, MoveFields, MoverType
    <2>4. Unhidden(f, m) \in Filing
      BY <1>4, PayloadType DEF UndoHide
    <2>5. filePoint' \in [Files -> Filing] /\ moveFaults' \in 0..MaxMoveFaults
      BY <1>4, <2>4, PointType DEF UndoHide, MoveTypeOK
    <2> QED
      BY <1>4, <2>3, <2>5 DEF UndoHide, MoveTypeOK
  <1>5. ASSUME NEW m \in Movers, NEW f \in Files, ShowPoint(m, f)
        PROVE  MoveTypeOK'
    <2>1. mover[m] \in Move
      BY <1>5, MoveParts DEF ShowPoint
    <2>2. mover' = [mover EXCEPT ![m] = [mover[m] EXCEPT !.todo = mover[m].todo \ {f}]]
      BY <1>5 DEF ShowPoint
    <2>3. mover' \in [Movers -> Move \cup {NoMove}]
      BY <2>1, <2>2, MoveFields, MoverType
    <2>4. Shown(f, m) \in Filing
      BY <1>5, PayloadType DEF ShowPoint
    <2>5. filePoint' \in [Files -> Filing]
      BY <1>5, <2>4, PointType DEF ShowPoint
    <2> QED
      BY <1>5, <2>3, <2>5 DEF ShowPoint, MoveTypeOK
  <1>6. ASSUME NEW m \in Movers, NEW f \in Files, ShowFails(m, f)
        PROVE  MoveTypeOK'
    <2>1. mover[m] \in Move
      BY <1>6, MoveParts DEF ShowFails
    <2>2. mover' = [mover EXCEPT ![m] = [mover[m] EXCEPT !.todo = mover[m].todo \ {f},
                                                         !.failed = mover[m].failed \cup {f}]]
      BY <1>6, Zenon DEF ShowFails
    <2>3. mover' \in [Movers -> Move \cup {NoMove}]
      BY <2>1, <2>2, MoveFields, MoverType, Zenon
    <2>4. Shown(f, m) \in Filing
      BY <1>6, PayloadType DEF ShowFails
    <2>5. filePoint' \in [Files -> Filing] /\ moveFaults' \in 0..MaxMoveFaults
      BY <1>6, <2>4, PointType DEF ShowFails
    <2> QED
      BY <1>6, <2>3, <2>5 DEF ShowFails, MoveTypeOK
  <1>7. ASSUME NEW m \in Movers, CommitMove(m)
        PROVE  MoveTypeOK'
    BY <1>7, CommitType
  <1>8. ASSUME NEW m \in Movers, CommitFails(m)
        PROVE  MoveTypeOK'
    <2>1. mover[m] \in Move
      BY <1>8, MoveParts DEF CommitFails
    <2>2. mover' = [mover EXCEPT ![m] = [mover[m] EXCEPT !.step = "undo", !.todo = mover[m].hidden]]
      BY <1>8, Zenon DEF CommitFails
    <2>3. mover' \in [Movers -> Move \cup {NoMove}]
      BY <2>1, <2>2, MoveFields, MoverType, Zenon
    <2> QED
      BY <1>8, <2>3, MoveAssumptions DEF CommitFails, MoveFault, MoveTypeOK, MoveAssumptions
  <1>9. ASSUME NEW m \in Movers, EndMove(m) \/ CrashMove(m)
        PROVE  MoveTypeOK'
    <2>1. CASE EndMove(m)
      <3>1. mover[m].from \in Offices
        BY <2>1, MoveParts DEF EndMove, MoveTypeOK, Move
      <3> QED
        BY <2>1, <3>1 DEF EndMove, MoveTypeOK
    <2>2. CASE CrashMove(m)
      BY <2>2, MoveAssumptions DEF CrashMove, MoveFault, MoveTypeOK, MoveAssumptions
    <2> QED
      BY <1>9, <2>1, <2>2
  <1>10. ASSUME NEW f \in Files, WithdrawPoint(f) \/ WithdrawRow(f)
         PROVE  MoveTypeOK'
    <2>1. fileRow[f] \in Filing
      BY DEF MoveTypeOK
    <2>2. [fileRow[f] EXCEPT !.servable = FALSE] \in Filing
      BY <2>1, FilingParts
    <2>3. CASE WithdrawPoint(f)
      BY <2>3, PayloadType, PointType DEF WithdrawPoint, MoveTypeOK
    <2>4. CASE WithdrawRow(f)
      BY <2>2, <2>4 DEF WithdrawRow, MoveTypeOK
    <2> QED
      BY <1>10, <2>3, <2>4
  <1>11. ASSUME NEW o \in Offices, NEW status \in {"active", "disabled", "archived"},
                SwitchOffice(o, status)
         PROVE  MoveTypeOK'
    BY <1>11 DEF SwitchOffice, MoveTypeOK
  <1>12. CASE UNCHANGED moveVars
    BY <1>12 DEF moveVars, MoveTypeOK
  <1> QED
    BY <1>1, <1>2, <1>3, <1>4, <1>5, <1>6, <1>7, <1>8, <1>9, <1>10, <1>11, <1>12 DEF MoveNext

\* Types of the variables.
THEOREM MoveTypes == MoveSpec => []MoveTypeOK
  BY MoveTypeInit, MoveTypeNext, PTL DEF MoveSpec

-----------------------------------------------------------------------------
(* Move of a department: points agree with rows *)

\* What a move knows of a document that it alone has in hand.
InHand(f, m) ==
  /\ mover[m].read[f] = fileRow[f]
  /\ mover[m].step \in {"hide", "undo"} => filePoint[f].offices = fileRow[f].offices
  /\ (mover[m].step = "hide" /\ f \in mover[m].hidden) => ~filePoint[f].servable

Agrees(f) == filePoint[f].servable => filePoint[f] = fileRow[f]

OneMove(f) ==
  \A k \in Movers : InMove(f, k) =>
    InHand(f, k) /\ \A n \in Movers \ {k} : ~InMove(f, n)

MoveInv == MoveTypeOK /\ \A f \in Files \ stale : Agrees(f) /\ OneMove(f)

\* A step of one mover keeps what is known of a document if the mover takes no new
\* document in hand and changes no document that it has not in hand.
LEMMA MoverStep ==
  ASSUME MoveTypeOK, NEW f \in Files, OneMove(f), NEW m \in Movers, NEW x,
         mover' = [mover EXCEPT ![m] = x],
         InMove(f, m)' => InMove(f, m) /\ InHand(f, m)',
         InMove(f, m) \/ (filePoint'[f] = filePoint[f] /\ fileRow'[f] = fileRow[f])
  PROVE  OneMove(f)'
  <1>1. \A n \in Movers \ {m} : mover'[n] = mover[n]
    BY DEF MoveTypeOK
  <1>2. \A n \in Movers \ {m} : InMove(f, n)' <=> InMove(f, n)
    BY <1>1 DEF InMove
  <1>3. CASE InMove(f, m)
    <2>1. \A n \in Movers \ {m} : ~InMove(f, n)'
      BY <1>2, <1>3 DEF OneMove
    <2> QED
      BY <2>1 DEF OneMove
  <1>4. CASE ~InMove(f, m)
    <2>1. ~InMove(f, m)'
      BY <1>4
    <2>2. ASSUME NEW k \in Movers, InMove(f, k)'
          PROVE  InHand(f, k)' /\ \A n \in Movers \ {k} : ~InMove(f, n)'
      <3>1. k # m /\ InMove(f, k)
        BY <1>2, <2>1, <2>2
      <3>2. InHand(f, k) /\ \A n \in Movers \ {k} : ~InMove(f, n)
        BY <3>1 DEF OneMove
      <3>3. InHand(f, k)'
        BY <1>1, <1>4, <3>1, <3>2 DEF InHand
      <3>4. \A n \in Movers \ {k} : ~InMove(f, n)'
        BY <1>2, <2>1, <3>2
      <3> QED
        BY <3>3, <3>4
    <2> QED
      BY <2>2 DEF OneMove
  <1> QED
    BY <1>3, <1>4

\* What a payload that a failing request may have left looks like.
LEMMA FailedPoint ==
  ASSUME MoveTypeOK, NEW f \in Files, NEW payload, PointFails(f, payload)
  PROVE  /\ filePoint'[f] = filePoint[f] \/ filePoint'[f] = payload
         /\ \A g \in Files \ {f} : filePoint'[g] = filePoint[g]
  BY DEF PointFails, MoveTypeOK

LEMMA GoodBegin ==
  ASSUME MoveInv, NEW m \in Movers, NEW from \in Offices, NEW to \in Offices,
         BeginMove(m, from, to), NEW f \in Files, f \notin stale'
  PROVE  Agrees(f)' /\ OneMove(f)'
  <1> DEFINE todo == {g \in Files : from \in fileRow[g].offices}
             x == [step |-> "hide", from |-> from, to |-> to, todo |-> todo, hidden |-> {},
                   failed |-> {}, read |-> fileRow]
  <1>1. /\ mover[m] = NoMove /\ mover' = [mover EXCEPT ![m] = x]
        /\ filePoint' = filePoint /\ fileRow' = fileRow /\ f \notin stale
        /\ f \in todo => (\A n \in Movers : ~InMove(f, n)) /\ ~LeftBehind(f)
    BY DEF BeginMove
  <1>2. Agrees(f) /\ OneMove(f) /\ MoveTypeOK
    BY <1>1 DEF MoveInv
  <1>3. Agrees(f)'
    BY <1>1, <1>2 DEF Agrees
  <1>4. \A n \in Movers \ {m} : mover'[n] = mover[n]
    BY <1>1, <1>2 DEF MoveTypeOK
  <1>5. mover'[m] = x
    BY <1>1, <1>2 DEF MoveTypeOK
  <1>6. \A n \in Movers \ {m} : InMove(f, n)' <=> InMove(f, n)
    BY <1>4 DEF InMove
  <1>7. InMove(f, m)' => f \in todo
    BY <1>5 DEF InMove
  <1>8. CASE f \in todo
    <2>1. \A n \in Movers \ {m} : ~InMove(f, n)'
      BY <1>1, <1>6, <1>8
    <2>2. InHand(f, m)'
      BY <1>1, <1>5, <1>8 DEF InHand, LeftBehind
    <2> QED
      BY <1>3, <2>1, <2>2 DEF OneMove
  <1>9. CASE f \notin todo
    <2>1. ~InMove(f, m)'
      BY <1>7, <1>9
    <2>2. ASSUME NEW k \in Movers, InMove(f, k)'
          PROVE  InHand(f, k)' /\ \A n \in Movers \ {k} : ~InMove(f, n)'
      <3>1. k # m /\ InMove(f, k)
        BY <1>6, <2>1, <2>2
      <3>2. InHand(f, k) /\ \A n \in Movers \ {k} : ~InMove(f, n)
        BY <1>2, <3>1 DEF OneMove
      <3>3. InHand(f, k)'
        BY <1>1, <1>4, <3>1, <3>2 DEF InHand
      <3> QED
        BY <1>6, <2>1, <3>2, <3>3
    <2> QED
      BY <1>3, <2>2 DEF OneMove
  <1> QED
    BY <1>8, <1>9

LEMMA GoodHide ==
  ASSUME MoveInv, NEW m \in Movers, NEW g \in Files, HidePoint(m, g),
         NEW f \in Files, f \notin stale'
  PROVE  Agrees(f)' /\ OneMove(f)'
  <1>1. /\ mover[m].step = "hide" /\ g \in mover[m].todo /\ f \notin stale
        /\ mover' = [mover EXCEPT ![m] = [mover[m] EXCEPT !.todo = mover[m].todo \ {g},
                                                          !.hidden = mover[m].hidden \cup {g}]]
        /\ filePoint' = [filePoint EXCEPT ![g] = Hidden(g)] /\ fileRow' = fileRow
    BY DEF HidePoint, Under
  <1>2. Agrees(f) /\ OneMove(f) /\ MoveTypeOK
    BY <1>1 DEF MoveInv
  <1> DEFINE x == [mover[m] EXCEPT !.todo = mover[m].todo \ {g}, !.hidden = mover[m].hidden \cup {g}]
  <1>3. mover[m] \in Move /\ mover[m] # NoMove
    BY <1>1, <1>2, MoveParts
  <1>4. /\ x.todo = mover[m].todo \ {g} /\ x.hidden = mover[m].hidden \cup {g}
        /\ x.step = "hide" /\ x.read = mover[m].read
    BY <1>1, <1>3 DEF Move
  <1>5. mover'[m] = x
    BY <1>1, <1>2 DEF MoveTypeOK
  <1> HIDE DEF x
  <1>6. Hidden(g).servable = FALSE /\ Hidden(g).offices = filePoint[g].offices
    BY <1>2, PayloadType
  <1>7. filePoint'[f] = IF f = g THEN Hidden(g) ELSE filePoint[f]
    BY <1>1, <1>2 DEF MoveTypeOK
  <1>8. Agrees(f)'
    BY <1>1, <1>2, <1>6, <1>7 DEF Agrees
  <1>9. InMove(f, m)' => InMove(f, m)
    BY <1>1, <1>3, <1>4, <1>5 DEF InMove
  <1>10. ASSUME InMove(f, m)'  PROVE InHand(f, m)'
    <2>1. InHand(f, m)
      BY <1>2, <1>9, <1>10 DEF OneMove
    <2>2. mover'[m].read[f] = fileRow'[f]
      BY <1>1, <1>4, <1>5, <2>1 DEF InHand
    <2>3. filePoint'[f].offices = fileRow'[f].offices
      BY <1>1, <1>6, <1>7, <2>1 DEF InHand
    <2>4. f \in mover'[m].hidden => ~filePoint'[f].servable
      BY <1>1, <1>4, <1>5, <1>6, <1>7, <2>1 DEF InHand
    <2> QED
      BY <2>2, <2>3, <2>4 DEF InHand
  <1>11. InMove(f, m) \/ (filePoint'[f] = filePoint[f] /\ fileRow'[f] = fileRow[f])
    BY <1>1, <1>3, <1>7 DEF InMove
  <1> QED
    BY <1>1, <1>2, <1>8, <1>9, <1>10, <1>11, MoverStep

\* The move is given up: what it had hidden is to be restored.
LEMMA GoodGiveUp ==
  ASSUME MoveInv, NEW m \in Movers, mover[m].step = "hide",
         mover' = [mover EXCEPT ![m].step = "undo", ![m].todo = mover[m].hidden],
         fileRow' = fileRow, NEW f \in Files, f \notin stale,
         \/ filePoint'[f] = filePoint[f]
         \/ f \in mover[m].todo /\ filePoint'[f] = Hidden(f)
  PROVE  Agrees(f)' /\ OneMove(f)'
  <1>1. Agrees(f) /\ OneMove(f) /\ MoveTypeOK
    BY DEF MoveInv
  <1> DEFINE x == [mover[m] EXCEPT !.step = "undo", !.todo = mover[m].hidden]
  <1>2. mover[m] \in Move /\ mover[m] # NoMove
    BY <1>1, MoveParts
  <1>3. /\ x.todo = mover[m].hidden /\ x.hidden = mover[m].hidden
        /\ x.step = "undo" /\ x.read = mover[m].read
    BY <1>2 DEF Move
  <1>4. mover' = [mover EXCEPT ![m] = x] /\ mover'[m] = x
    BY <1>1 DEF MoveTypeOK
  <1> HIDE DEF x
  <1>5. Hidden(f).servable = FALSE /\ Hidden(f).offices = filePoint[f].offices
    BY <1>1, PayloadType
  <1>6. Agrees(f)'
    BY <1>1, <1>5 DEF Agrees
  <1>7. InMove(f, m)' => InMove(f, m)
    BY <1>2, <1>3, <1>4 DEF InMove
  <1>8. ASSUME InMove(f, m)'  PROVE InHand(f, m)'
    <2>1. InHand(f, m)
      BY <1>1, <1>7, <1>8 DEF OneMove
    <2> QED
      BY <1>3, <1>4, <1>5, <2>1 DEF InHand
  <1>9. InMove(f, m) \/ (filePoint'[f] = filePoint[f] /\ fileRow'[f] = fileRow[f])
    BY <1>2 DEF InMove
  <1> QED
    BY <1>1, <1>4, <1>6, <1>7, <1>8, <1>9, MoverStep

\* A point is written after the transaction or after the move was given up: as the row,
\* or not at all.
LEMMA GoodPoint ==
  ASSUME MoveInv, NEW m \in Movers, mover[m].step \in {"undo", "show"},
         NEW g \in Files, g \in mover[m].todo, NEW x,
         mover' = [mover EXCEPT ![m] = x],
         x.step = mover[m].step, x.read = mover[m].read,
         x.todo = mover[m].todo \ {g}, x.hidden = mover[m].hidden,
         fileRow' = fileRow, NEW f \in Files, f \notin stale,
         filePoint'[f] = filePoint[f] \/ (f = g /\ filePoint'[f] = mover[m].read[f])
  PROVE  Agrees(f)' /\ OneMove(f)'
  <1>1. Agrees(f) /\ OneMove(f) /\ MoveTypeOK
    BY DEF MoveInv
  <1>2. mover[m] # NoMove
    BY <1>1, MoveParts
  <1>3. mover'[m] = x
    BY <1>1 DEF MoveTypeOK
  <1>4. InMove(f, m)' => InMove(f, m)
    BY <1>2, <1>3 DEF InMove
  <1>5. InMove(f, m) => InHand(f, m)
    BY <1>1 DEF OneMove
  <1>6. f = g => InMove(f, m)
    BY <1>2 DEF InMove
  <1>7. Agrees(f)'
    BY <1>1, <1>5, <1>6 DEF Agrees, InHand
  <1>8. InMove(f, m)' => InHand(f, m)'
    BY <1>3, <1>4, <1>5 DEF InHand
  <1> QED
    BY <1>1, <1>4, <1>6, <1>7, <1>8, MoverStep

LEMMA GoodCommit ==
  ASSUME MoveInv, NEW m \in Movers, CommitMove(m), NEW f \in Files, f \notin stale'
  PROVE  Agrees(f)' /\ OneMove(f)'
  <1> DEFINE r == [g \in Files |-> IF g \in mover[m].hidden
                     THEN [mover[m].read[g] EXCEPT !.offices = Refiled(g, m)] ELSE mover[m].read[g]]
             x == [mover[m] EXCEPT !.step = "show", !.todo = mover[m].hidden, !.read = r]
  <1>1. /\ mover[m].step = "hide" /\ mover[m].todo = {} /\ f \notin stale
        /\ mover' = [mover EXCEPT ![m] = x] /\ filePoint' = filePoint
        /\ fileRow' = [g \in Files |-> IF g \in mover[m].hidden
                         THEN [fileRow[g] EXCEPT !.offices = Refiled(g, m)] ELSE fileRow[g]]
    BY DEF CommitMove, Under
  <1>2. Agrees(f) /\ OneMove(f) /\ MoveTypeOK
    BY <1>1 DEF MoveInv
  <1>3. mover[m] \in Move /\ mover[m] # NoMove
    BY <1>1, <1>2, MoveParts
  <1>4. /\ x.todo = mover[m].hidden /\ x.hidden = mover[m].hidden
        /\ x.step = "show" /\ x.read = r
    BY <1>3 DEF Move
  <1>5. mover'[m] = x
    BY <1>1, <1>2 DEF MoveTypeOK
  <1>6. InMove(f, m) <=> f \in mover[m].hidden
    BY <1>1, <1>3 DEF InMove
  <1>7. InMove(f, m) => InHand(f, m)
    BY <1>2 DEF OneMove
  <1>8. InMove(f, m) => ~filePoint[f].servable /\ r[f] = fileRow'[f]
    BY <1>1, <1>6, <1>7 DEF InHand
  <1>9. ~InMove(f, m) => fileRow'[f] = fileRow[f]
    BY <1>1, <1>6
  <1> HIDE DEF x, r
  <1>10. Agrees(f)'
    BY <1>1, <1>2, <1>8, <1>9 DEF Agrees
  <1>11. InMove(f, m)' => InMove(f, m)
    BY <1>3, <1>4, <1>5 DEF InMove
  <1>12. InMove(f, m)' => InHand(f, m)'
    BY <1>4, <1>5, <1>8, <1>11 DEF InHand
  <1> QED
    BY <1>1, <1>2, <1>9, <1>10, <1>11, <1>12, MoverStep

\* A move is over, or its process is gone.
LEMMA GoodLeave ==
  ASSUME MoveInv, NEW m \in Movers, mover' = [mover EXCEPT ![m] = NoMove],
         fileRow' = fileRow, filePoint' = filePoint, NEW f \in Files, f \notin stale
  PROVE  Agrees(f)' /\ OneMove(f)'
  <1>1. Agrees(f) /\ OneMove(f) /\ MoveTypeOK
    BY DEF MoveInv
  <1>2. mover'[m] = NoMove
    BY <1>1 DEF MoveTypeOK
  <1>3. ~InMove(f, m)'
    BY <1>2 DEF InMove
  <1> QED
    BY <1>1, <1>3, MoverStep DEF Agrees

LEMMA GoodWithdraw ==
  ASSUME MoveInv, NEW g \in Files, WithdrawPoint(g) \/ WithdrawRow(g),
         NEW f \in Files, f \notin stale'
  PROVE  Agrees(f)' /\ OneMove(f)'
  <1>1. mover' = mover /\ f \notin stale
    BY DEF WithdrawPoint, WithdrawRow
  <1>2. Agrees(f) /\ OneMove(f) /\ MoveTypeOK
    BY <1>1 DEF MoveInv
  <1>3. \A k \in Movers : InMove(f, k)' <=> InMove(f, k)
    BY <1>1 DEF InMove
  <1>4. CASE WithdrawPoint(g)
    <2>1. fileRow' = fileRow /\ filePoint' = [filePoint EXCEPT ![g] = Hidden(g)]
      BY <1>4 DEF WithdrawPoint
    <2>2. Hidden(g).servable = FALSE /\ Hidden(g).offices = filePoint[g].offices
      BY <1>2, PayloadType
    <2>3. filePoint'[f] = IF f = g THEN Hidden(g) ELSE filePoint[f]
      BY <1>2, <2>1 DEF MoveTypeOK
    <2>4. Agrees(f)'
      BY <1>2, <2>1, <2>2, <2>3 DEF Agrees
    <2>5. \A k \in Movers : InHand(f, k) => InHand(f, k)'
      BY <1>1, <2>1, <2>2, <2>3 DEF InHand
    <2> QED
      BY <1>2, <1>3, <2>4, <2>5 DEF OneMove
  <1>5. CASE WithdrawRow(g)
    <2>1. filePoint' = filePoint
      BY <1>5 DEF WithdrawRow
    <2>2. CASE f = g
      <3>1. ~filePoint[f].servable /\ \A k \in Movers : ~InMove(f, k)
        BY <1>5, <2>2 DEF WithdrawRow
      <3> QED
        BY <1>3, <2>1, <3>1 DEF Agrees, OneMove
    <2>3. CASE f # g
      <3>1. fileRow'[f] = fileRow[f]
        BY <1>2, <1>5, <2>3 DEF WithdrawRow, MoveTypeOK
      <3>2. \A k \in Movers : InHand(f, k) => InHand(f, k)'
        BY <1>1, <2>1, <3>1 DEF InHand
      <3> QED
        BY <1>2, <1>3, <2>1, <3>1, <3>2 DEF Agrees, OneMove
    <2> QED
      BY <2>2, <2>3
  <1> QED
    BY <1>4, <1>5

LEMMA MoveInvInit == MoveInit => MoveInv
  <1>1. ASSUME MoveInit, NEW f \in Files  PROVE Agrees(f) /\ OneMove(f)
    BY <1>1 DEF MoveInit, Agrees, OneMove, InMove
  <1> QED
    BY <1>1, MoveTypeInit DEF MoveInv

LEMMA MoveInvNext ==
  ASSUME MoveInv, [MoveNext]_moveVars
  PROVE  MoveInv'
  <1>1. MoveTypeOK /\ MoveTypeOK'
    BY MoveTypeNext DEF MoveInv
  <1> SUFFICES ASSUME NEW f \in Files, f \notin stale'
               PROVE  Agrees(f)' /\ OneMove(f)'
    BY <1>1 DEF MoveInv
  <1> USE DEF Under
  <1>2. CASE \E m \in Movers, from, to \in Offices : BeginMove(m, from, to)
    BY <1>2, GoodBegin
  <1>3. ASSUME NEW m \in Movers, NEW g \in Files, HidePoint(m, g)
        PROVE  Agrees(f)' /\ OneMove(f)'
    BY <1>3, GoodHide
  <1>4. ASSUME NEW m \in Movers, NEW g \in Files, HideFails(m, g)
        PROVE  Agrees(f)' /\ OneMove(f)'
    <2>1. /\ mover[m].step = "hide" /\ g \in mover[m].todo /\ fileRow' = fileRow /\ f \notin stale
          /\ mover' = [mover EXCEPT ![m].step = "undo", ![m].todo = mover[m].hidden]
      BY <1>4 DEF HideFails
    <2>2. filePoint'[f] = filePoint[f] \/ (f = g /\ filePoint'[f] = Hidden(f))
      BY <1>1, <1>4, FailedPoint DEF HideFails
    <2> QED
      BY <2>1, <2>2, GoodGiveUp
  <1>5. ASSUME NEW m \in Movers, NEW g \in Files, UndoHide(m, g)
        PROVE  Agrees(f)' /\ OneMove(f)'
    <2> DEFINE x == [mover[m] EXCEPT !.todo = mover[m].todo \ {g}]
    <2>1. /\ mover[m].step = "undo" /\ g \in mover[m].todo /\ fileRow' = fileRow /\ f \notin stale
          /\ mover' = [mover EXCEPT ![m] = x]
      BY <1>5 DEF UndoHide
    <2>2. mover[m] \in Move /\ mover[m] # NoMove /\ mover[m].read \in [Files -> Filing]
      BY <1>1, <2>1, MoveParts
    <2>3. /\ x.todo = mover[m].todo \ {g} /\ x.hidden = mover[m].hidden
          /\ x.step = mover[m].step /\ x.read = mover[m].read
      BY <2>2 DEF Move
    <2> HIDE DEF x
    <2>4. filePoint'[f] = filePoint[f] \/ (f = g /\ filePoint'[f] = Unhidden(f, m))
      <3>1. CASE filePoint' = [filePoint EXCEPT ![g] = Unhidden(g, m)]
        BY <1>1, <3>1 DEF MoveTypeOK
      <3>2. CASE PointFails(g, Unhidden(g, m))
        BY <1>1, <3>2, FailedPoint
      <3> QED
        BY <1>5, <3>1, <3>2 DEF UndoHide
    <2>5. f = g => Unhidden(f, m) = mover[m].read[f]
      <3> SUFFICES ASSUME f = g  PROVE Unhidden(f, m) = mover[m].read[f]
        OBVIOUS
      <3>1. InMove(f, m) /\ OneMove(f)
        BY <2>1, <2>2 DEF InMove, MoveInv
      <3>2. filePoint[f].offices = mover[m].read[f].offices
        BY <2>1, <3>1 DEF OneMove, InHand
      <3>3. Unhidden(f, m) = [offices |-> filePoint[f].offices,
                              servable |-> mover[m].read[f].servable]
        BY <1>1, <2>1, PayloadType
      <3>4. mover[m].read[f] = [offices |-> mover[m].read[f].offices,
                                servable |-> mover[m].read[f].servable]
        BY <2>2, FilingParts
      <3> QED
        BY <3>2, <3>3, <3>4
    <2> QED
      BY <2>1, <2>3, <2>4, <2>5, GoodPoint
  <1>6. ASSUME NEW m \in Movers, NEW g \in Files, ShowPoint(m, g) \/ ShowFails(m, g)
        PROVE  Agrees(f)' /\ OneMove(f)'
    <2>1. mover[m].step = "show" /\ g \in mover[m].todo /\ fileRow' = fileRow /\ f \notin stale
      BY <1>6 DEF ShowPoint, ShowFails
    <2>2. mover[m] \in Move
      BY <1>1, <2>1, MoveParts
    <2>3. filePoint'[f] = filePoint[f] \/ (f = g /\ filePoint'[f] = mover[m].read[f])
      <3>1. CASE ShowPoint(m, g)
        BY <1>1, <3>1 DEF ShowPoint, Shown, MoveTypeOK
      <3>2. CASE ShowFails(m, g)
        BY <1>1, <3>2, FailedPoint DEF ShowFails, Shown
      <3> QED
        BY <1>6, <3>1, <3>2
    <2>4. PICK x : /\ mover' = [mover EXCEPT ![m] = x]
                   /\ x.todo = mover[m].todo \ {g} /\ x.hidden = mover[m].hidden
                   /\ x.step = mover[m].step /\ x.read = mover[m].read
      <3>1. CASE ShowPoint(m, g)
        <4>1. PICK y : y = [mover[m] EXCEPT !.todo = mover[m].todo \ {g}]
          OBVIOUS
        <4>2. mover' = [mover EXCEPT ![m] = y]
          BY <3>1, <4>1 DEF ShowPoint
        <4>3. /\ y.todo = mover[m].todo \ {g} /\ y.hidden = mover[m].hidden
              /\ y.step = mover[m].step /\ y.read = mover[m].read
          BY <2>2, <4>1 DEF Move
        <4> QED
          BY <4>2, <4>3
      <3>2. CASE ShowFails(m, g)
        <4>1. PICK y : y = [mover[m] EXCEPT !.todo = mover[m].todo \ {g},
                                            !.failed = mover[m].failed \cup {g}]
          OBVIOUS
        <4>2. mover' = [mover EXCEPT ![m] = y]
          BY <3>2, <4>1 DEF ShowFails
        <4>3. /\ y.todo = mover[m].todo \ {g} /\ y.hidden = mover[m].hidden
              /\ y.step = mover[m].step /\ y.read = mover[m].read
          BY <2>2, <4>1 DEF Move
        <4> QED
          BY <4>2, <4>3
      <3> QED
        BY <1>6, <3>1, <3>2
    <2> QED
      BY <2>1, <2>3, <2>4, GoodPoint
  <1>7. ASSUME NEW m \in Movers, CommitMove(m)
        PROVE  Agrees(f)' /\ OneMove(f)'
    BY <1>7, GoodCommit
  <1>8. ASSUME NEW m \in Movers, CommitFails(m)
        PROVE  Agrees(f)' /\ OneMove(f)'
    BY <1>8, GoodGiveUp DEF CommitFails
  <1>9. ASSUME NEW m \in Movers, EndMove(m) \/ CrashMove(m)
        PROVE  Agrees(f)' /\ OneMove(f)'
    BY <1>9, GoodLeave DEF EndMove, CrashMove
  <1>10. ASSUME NEW g \in Files, WithdrawPoint(g) \/ WithdrawRow(g)
         PROVE  Agrees(f)' /\ OneMove(f)'
    BY <1>10, GoodWithdraw
  <1>11. CASE UNCHANGED <<fileRow, filePoint, mover, stale>>
    BY <1>11 DEF MoveInv, Agrees, OneMove, InMove, InHand
  <1>12. ASSUME NEW o \in Offices, NEW status \in {"active", "disabled", "archived"},
                SwitchOffice(o, status)
         PROVE  Agrees(f)' /\ OneMove(f)'
    BY <1>11, <1>12 DEF SwitchOffice
  <1>13. CASE UNCHANGED moveVars
    BY <1>11, <1>13 DEF moveVars
  <1> QED
    BY <1>2, <1>3, <1>4, <1>5, <1>6, <1>7, <1>8, <1>9, <1>10, <1>12, <1>13 DEF MoveNext

LEMMA MoveInvAlways == MoveSpec => []MoveInv
  BY MoveInvInit, MoveInvNext, PTL DEF MoveSpec

\* For any number of documents, departments, moves and faults: a point that can be
\* retrieved is filed as its row, except for the documents in stale.
THEOREM ShownAsFiledAlways == MoveSpec => []ShownAsFiled
  <1>1. MoveInv => ShownAsFiled
    BY DEF MoveInv, ShownAsFiled, Agrees
  <1> QED
    BY <1>1, MoveInvAlways, PTL

-----------------------------------------------------------------------------
(* Move of a department: nothing stays hidden without a fault *)

SameOffices(f) == filePoint[f].offices = fileRow[f].offices

\* A withdrawal hides the point before it changes the row.
SameService(f) == f \in withdrawal \/ filePoint[f].servable = fileRow[f].servable

\* A document that the move has not hidden yet, or has shown again.
Held(f, m) ==
  /\ (mover[m].step = "hide" /\ f \in mover[m].todo) => SameService(f)
  /\ (mover[m].step = "show" /\ f \notin mover[m].todo) => SameOffices(f) /\ SameService(f)

Quiet(f) ==
  /\ (\A m \in Movers : ~InMove(f, m)) => SameOffices(f) /\ SameService(f)
  /\ \A m \in Movers : InMove(f, m) => Held(f, m)

QuietInv ==
  moveFaults = 0 =>
    /\ \A m \in Movers : mover[m].step # "undo"
    /\ \A f \in Files \ stale : Quiet(f)

\* A step of one mover keeps Quiet if it is right about the documents in its hands.
LEMMA MoverQuiet ==
  ASSUME MoveTypeOK, NEW f \in Files, OneMove(f), Quiet(f), NEW m \in Movers, NEW x,
         mover' = [mover EXCEPT ![m] = x], withdrawal' = withdrawal,
         InMove(f, m)' => Held(f, m)' /\ (InMove(f, m) \/ \A n \in Movers \ {m} : ~InMove(f, n)),
         (InMove(f, m) /\ ~InMove(f, m)') => SameOffices(f)' /\ SameService(f)',
         InMove(f, m) \/ (filePoint'[f] = filePoint[f] /\ fileRow'[f] = fileRow[f])
  PROVE  Quiet(f)'
  <1>1. \A n \in Movers \ {m} : mover'[n] = mover[n]
    BY DEF MoveTypeOK
  <1>2. \A n \in Movers \ {m} : InMove(f, n)' <=> InMove(f, n)
    BY <1>1 DEF InMove
  <1>3. CASE InMove(f, m) \/ InMove(f, m)'
    <2>1. \A n \in Movers \ {m} : ~InMove(f, n)'
      BY <1>2, <1>3 DEF OneMove
    <2>2. (\A n \in Movers : ~InMove(f, n)') => SameOffices(f)' /\ SameService(f)'
      BY <1>3
    <2>3. \A n \in Movers : InMove(f, n)' => Held(f, n)'
      BY <2>1
    <2> QED
      BY <2>2, <2>3 DEF Quiet
  <1>4. CASE ~InMove(f, m) /\ ~InMove(f, m)'
    <2>1. (SameOffices(f)' <=> SameOffices(f)) /\ (SameService(f)' <=> SameService(f))
      BY <1>4 DEF SameOffices, SameService
    <2>2. \A n \in Movers \ {m} : Held(f, n)' <=> Held(f, n)
      BY <1>1, <2>1 DEF Held
    <2>3. \A n \in Movers : InMove(f, n)' => Held(f, n)'
      BY <1>2, <1>4, <2>2 DEF Quiet
    <2>4. (\A n \in Movers : ~InMove(f, n)') => SameOffices(f)' /\ SameService(f)'
      BY <1>2, <1>4, <2>1 DEF Quiet
    <2> QED
      BY <2>3, <2>4 DEF Quiet
  <1> QED
    BY <1>3, <1>4

LEMMA QuietBegin ==
  ASSUME MoveInv, NEW m \in Movers, NEW from \in Offices, NEW to \in Offices,
         BeginMove(m, from, to), NEW f \in Files, f \notin stale', Quiet(f)
  PROVE  Quiet(f)'
  <1> DEFINE todo == {g \in Files : from \in fileRow[g].offices}
             x == [step |-> "hide", from |-> from, to |-> to, todo |-> todo, hidden |-> {},
                   failed |-> {}, read |-> fileRow]
  <1>1. /\ mover[m] = NoMove /\ mover' = [mover EXCEPT ![m] = x]
        /\ filePoint' = filePoint /\ fileRow' = fileRow /\ withdrawal' = withdrawal
        /\ f \notin stale
        /\ f \in todo => (\A n \in Movers : ~InMove(f, n)) /\ ~LeftBehind(f)
    BY DEF BeginMove
  <1>2. OneMove(f) /\ MoveTypeOK
    BY <1>1 DEF MoveInv
  <1>3. mover'[m] = x
    BY <1>1, <1>2 DEF MoveTypeOK
  <1>4. InMove(f, m)' => f \in todo
    BY <1>3 DEF InMove
  <1>5. ~InMove(f, m)
    BY <1>1 DEF InMove
  <1>6. x.step = "hide"
    OBVIOUS
  <1> HIDE DEF x
  <1>7. f \in todo => SameService(f)'
    BY <1>1 DEF Quiet, SameService
  <1>8. InMove(f, m)' => Held(f, m)' /\ \A n \in Movers \ {m} : ~InMove(f, n)
    BY <1>1, <1>3, <1>4, <1>6, <1>7 DEF Held
  <1> HIDE DEF todo
  <1> QED
    BY <1>1, <1>2, <1>5, <1>8, MoverQuiet

LEMMA QuietHide ==
  ASSUME MoveInv, NEW m \in Movers, NEW g \in Files, HidePoint(m, g),
         NEW f \in Files, f \notin stale', Quiet(f)
  PROVE  Quiet(f)'
  <1> DEFINE x == [mover[m] EXCEPT !.todo = mover[m].todo \ {g}, !.hidden = mover[m].hidden \cup {g}]
  <1>1. /\ mover[m].step = "hide" /\ g \in mover[m].todo /\ f \notin stale
        /\ mover' = [mover EXCEPT ![m] = x] /\ withdrawal' = withdrawal
        /\ filePoint' = [filePoint EXCEPT ![g] = Hidden(g)] /\ fileRow' = fileRow
    BY DEF HidePoint, Under
  <1>2. OneMove(f) /\ MoveTypeOK
    BY <1>1 DEF MoveInv
  <1>3. mover[m] \in Move /\ mover[m] # NoMove
    BY <1>1, <1>2, MoveParts
  <1>4. /\ x.todo = mover[m].todo \ {g} /\ x.hidden = mover[m].hidden \cup {g}
        /\ x.step = "hide" /\ x # NoMove
    BY <1>1, <1>3 DEF Move, NoMove
  <1>5. mover'[m] = x
    BY <1>1, <1>2 DEF MoveTypeOK
  <1> HIDE DEF x
  <1>6. f # g => filePoint'[f] = filePoint[f]
    BY <1>1, <1>2 DEF MoveTypeOK
  <1>7. InMove(f, m)' <=> InMove(f, m)
    BY <1>1, <1>3, <1>4, <1>5 DEF InMove
  <1>8. InMove(f, m)' => Held(f, m)'
    BY <1>1, <1>4, <1>5, <1>6, <1>7 DEF Held, Quiet, SameService
  <1>9. InMove(f, m) \/ (filePoint'[f] = filePoint[f] /\ fileRow'[f] = fileRow[f])
    BY <1>1, <1>3, <1>6 DEF InMove
  <1> QED
    BY <1>1, <1>2, <1>7, <1>8, <1>9, MoverQuiet

LEMMA QuietCommit ==
  ASSUME MoveInv, NEW m \in Movers, CommitMove(m), NEW f \in Files, f \notin stale', Quiet(f)
  PROVE  Quiet(f)'
  <1> DEFINE r == [g \in Files |-> IF g \in mover[m].hidden
                     THEN [mover[m].read[g] EXCEPT !.offices = Refiled(g, m)] ELSE mover[m].read[g]]
             x == [mover[m] EXCEPT !.step = "show", !.todo = mover[m].hidden, !.read = r]
  <1>1. /\ mover[m].step = "hide" /\ mover[m].todo = {} /\ f \notin stale
        /\ mover' = [mover EXCEPT ![m] = x] /\ filePoint' = filePoint /\ withdrawal' = withdrawal
        /\ fileRow' = [g \in Files |-> IF g \in mover[m].hidden
                         THEN [fileRow[g] EXCEPT !.offices = Refiled(g, m)] ELSE fileRow[g]]
    BY DEF CommitMove, Under
  <1>2. OneMove(f) /\ MoveTypeOK
    BY <1>1 DEF MoveInv
  <1>3. mover[m] \in Move /\ mover[m] # NoMove
    BY <1>1, <1>2, MoveParts
  <1> HIDE DEF r
  <1>4. /\ x.todo = mover[m].hidden /\ x.hidden = mover[m].hidden
        /\ x.step = "show" /\ x # NoMove
    BY <1>3 DEF Move, NoMove
  <1>5. mover'[m] = x
    BY <1>1, <1>2 DEF MoveTypeOK
  <1> HIDE DEF x
  <1>6. InMove(f, m) <=> f \in mover[m].hidden
    BY <1>1, <1>3 DEF InMove
  <1>7. ~InMove(f, m) => fileRow'[f] = fileRow[f]
    BY <1>1, <1>6
  <1>8. InMove(f, m)' <=> InMove(f, m)
    BY <1>4, <1>5, <1>6 DEF InMove
  <1>9. InMove(f, m)' => Held(f, m)'
    BY <1>4, <1>5, <1>6, <1>8 DEF Held
  <1> QED
    BY <1>1, <1>2, <1>7, <1>8, <1>9, MoverQuiet

LEMMA QuietShow ==
  ASSUME MoveInv, NEW m \in Movers, NEW g \in Files, ShowPoint(m, g),
         NEW f \in Files, f \notin stale', Quiet(f)
  PROVE  Quiet(f)'
  <1> DEFINE x == [mover[m] EXCEPT !.todo = mover[m].todo \ {g}]
  <1>1. /\ mover[m].step = "show" /\ g \in mover[m].todo /\ f \notin stale
        /\ mover' = [mover EXCEPT ![m] = x] /\ withdrawal' = withdrawal
        /\ filePoint' = [filePoint EXCEPT ![g] = mover[m].read[g]] /\ fileRow' = fileRow
    BY DEF ShowPoint, Under, Shown
  <1>2. OneMove(f) /\ MoveTypeOK
    BY <1>1 DEF MoveInv
  <1>3. mover[m] \in Move /\ mover[m] # NoMove
    BY <1>1, <1>2, MoveParts
  <1>4. /\ x.todo = mover[m].todo \ {g} /\ x.hidden = mover[m].hidden
        /\ x.step = "show" /\ x # NoMove
    BY <1>1, <1>3 DEF Move, NoMove
  <1>5. mover'[m] = x
    BY <1>1, <1>2 DEF MoveTypeOK
  <1> HIDE DEF x
  <1>6. filePoint'[f] = IF f = g THEN mover[m].read[f] ELSE filePoint[f]
    BY <1>1, <1>2 DEF MoveTypeOK
  <1>7. f = g => InMove(f, m)
    BY <1>1, <1>3 DEF InMove
  <1>8. f = g => SameOffices(f)' /\ SameService(f)'
    <2>1. f = g => mover[m].read[f] = fileRow[f]
      BY <1>2, <1>7 DEF OneMove, InHand
    <2> QED
      BY <1>1, <1>6, <2>1 DEF SameOffices, SameService
  <1>9. f # g => (SameOffices(f)' <=> SameOffices(f)) /\ (SameService(f)' <=> SameService(f))
    BY <1>1, <1>6 DEF SameOffices, SameService
  <1>10. InMove(f, m)' => InMove(f, m)
    BY <1>1, <1>3, <1>4, <1>5 DEF InMove
  <1>11. InMove(f, m) => Held(f, m)
    BY DEF Quiet
  <1>12. InMove(f, m)' => Held(f, m)'
    BY <1>1, <1>4, <1>5, <1>8, <1>9, <1>10, <1>11 DEF Held
  <1>13. (InMove(f, m) /\ ~InMove(f, m)') => SameOffices(f)' /\ SameService(f)'
    BY <1>3, <1>4, <1>5, <1>8 DEF InMove
  <1>14. InMove(f, m) \/ (filePoint'[f] = filePoint[f] /\ fileRow'[f] = fileRow[f])
    BY <1>1, <1>6, <1>7
  <1> QED
    BY <1>1, <1>2, <1>10, <1>12, <1>13, <1>14, MoverQuiet

LEMMA QuietEnd ==
  ASSUME MoveInv, NEW m \in Movers, mover[m].step # "undo", EndMove(m),
         NEW f \in Files, f \notin stale', Quiet(f)
  PROVE  Quiet(f)'
  <1>1. /\ mover[m] # NoMove /\ mover[m].step # "hide" /\ mover[m].todo = {} /\ f \notin stale
        /\ mover' = [mover EXCEPT ![m] = NoMove] /\ withdrawal' = withdrawal
        /\ filePoint' = filePoint /\ fileRow' = fileRow
    BY DEF EndMove
  <1>2. OneMove(f) /\ MoveTypeOK
    BY <1>1 DEF MoveInv
  <1>3. mover[m].step = "show"
    BY <1>1, <1>2 DEF MoveTypeOK, Move
  <1>4. mover'[m] = NoMove
    BY <1>1, <1>2 DEF MoveTypeOK
  <1>5. ~InMove(f, m)'
    BY <1>4 DEF InMove
  <1>6. InMove(f, m) => SameOffices(f) /\ SameService(f)
    BY <1>1, <1>3 DEF Quiet, Held
  <1>7. InMove(f, m) => SameOffices(f)' /\ SameService(f)'
    BY <1>1, <1>6 DEF SameOffices, SameService
  <1> QED
    BY <1>1, <1>2, <1>5, <1>7, MoverQuiet

LEMMA QuietWithdraw ==
  ASSUME MoveInv, NEW g \in Files, WithdrawPoint(g) \/ WithdrawRow(g),
         NEW f \in Files, f \notin stale', Quiet(f)
  PROVE  Quiet(f)'
  <1>1. mover' = mover /\ f \notin stale
    BY DEF WithdrawPoint, WithdrawRow
  <1>2. MoveTypeOK
    BY DEF MoveInv
  <1>3. \A k \in Movers : InMove(f, k)' <=> InMove(f, k)
    BY <1>1 DEF InMove
  <1>4. CASE WithdrawPoint(g)
    <2>1. fileRow' = fileRow /\ filePoint' = [filePoint EXCEPT ![g] = Hidden(g)]
          /\ withdrawal' = withdrawal \cup {g}
      BY <1>4 DEF WithdrawPoint
    <2>2. Hidden(g).offices = filePoint[g].offices
      BY <1>2, PayloadType
    <2>3. filePoint'[f] = IF f = g THEN Hidden(g) ELSE filePoint[f]
      BY <1>2, <2>1 DEF MoveTypeOK
    <2>4. (SameOffices(f) => SameOffices(f)') /\ (SameService(f) => SameService(f)')
      BY <2>1, <2>2, <2>3 DEF SameOffices, SameService
    <2> QED
      BY <1>1, <1>3, <2>4 DEF Quiet, Held
  <1>5. CASE WithdrawRow(g)
    <2>1. filePoint' = filePoint /\ withdrawal' = withdrawal \ {g}
          /\ fileRow' = [fileRow EXCEPT ![g] = [fileRow[g] EXCEPT !.servable = FALSE]]
      BY <1>5 DEF WithdrawRow
    <2>2. CASE f = g
      <3>1. ~filePoint[f].servable /\ \A k \in Movers : ~InMove(f, k)
        BY <1>5, <2>2 DEF WithdrawRow
      <3>2. fileRow'[f].servable = FALSE /\ fileRow'[f].offices = fileRow[f].offices
        BY <1>2, <2>1, <2>2 DEF MoveTypeOK, Filing
      <3>3. filePoint[f].servable = FALSE
        BY <1>2, <3>1 DEF MoveTypeOK, Filing
      <3>4. SameOffices(f)' /\ SameService(f)'
        BY <2>1, <3>1, <3>2, <3>3 DEF Quiet, SameOffices, SameService
      <3> QED
        BY <1>3, <3>1, <3>4 DEF Quiet
    <2>3. CASE f # g
      <3>1. fileRow'[f] = fileRow[f]
        BY <1>2, <2>1, <2>3 DEF MoveTypeOK
      <3>2. (SameOffices(f) => SameOffices(f)') /\ (SameService(f) => SameService(f)')
        BY <2>1, <2>3, <3>1 DEF SameOffices, SameService
      <3> QED
        BY <1>1, <1>3, <3>2 DEF Quiet, Held
    <2> QED
      BY <2>2, <2>3
  <1> QED
    BY <1>4, <1>5

LEMMA QuietInvInit == MoveInit => QuietInv
  <1>1. ASSUME MoveInit, NEW f \in Files  PROVE Quiet(f)
    BY <1>1 DEF MoveInit, Quiet, InMove, SameOffices, SameService
  <1>2. ASSUME MoveInit, NEW m \in Movers  PROVE mover[m].step # "undo"
    BY <1>2 DEF MoveInit, NoMove
  <1> QED
    BY <1>1, <1>2 DEF QuietInv

\* A fault is counted.
LEMMA FaultCounts ==
  ASSUME MoveTypeOK, MoveFault
  PROVE  moveFaults' # 0
  BY MoveAssumptions DEF MoveTypeOK, MoveFault, MoveAssumptions

LEMMA QuietInvNext ==
  ASSUME MoveInv, QuietInv, [MoveNext]_moveVars
  PROVE  QuietInv'
  <1> SUFFICES ASSUME moveFaults' = 0
               PROVE  /\ \A m \in Movers : mover'[m].step # "undo"
                      /\ \A f \in Files \ stale' : Quiet(f)'
    BY DEF QuietInv
  <1> USE DEF Under
  <1>t. MoveTypeOK
    BY DEF MoveInv
  <1>f. ~MoveFault
    BY <1>t, FaultCounts
  <1>0. moveFaults = 0 /\ stale \subseteq stale'
    BY <1>f, ZenonT(60) DEF MoveNext, BeginMove, HidePoint, HideFails, UndoHide, ShowPoint, ShowFails, CommitMove,
                CommitFails, EndMove, CrashMove, WithdrawPoint, WithdrawRow, SwitchOffice, PointFails,
                moveVars
  <1>q. /\ \A m \in Movers : mover[m].step # "undo"
        /\ \A f \in Files \ stale : Quiet(f)
    BY <1>0 DEF QuietInv
  <1>m. ASSUME NEW m \in Movers, NEW x, x.step # "undo", mover' = [mover EXCEPT ![m] = x]
        PROVE  \A n \in Movers : mover'[n].step # "undo"
    BY <1>t, <1>q, <1>m DEF MoveTypeOK
  <1>1. ASSUME NEW m \in Movers, NEW from \in Offices, NEW to \in Offices, BeginMove(m, from, to)
        PROVE  /\ \A n \in Movers : mover'[n].step # "undo"
               /\ \A f \in Files \ stale' : Quiet(f)'
    <2>1. PICK x : mover' = [mover EXCEPT ![m] = x] /\ x.step = "hide"
      <3> DEFINE todo == {f \in Files : from \in fileRow[f].offices}
                 y == [step |-> "hide", from |-> from, to |-> to, todo |-> todo, hidden |-> {},
                       failed |-> {}, read |-> fileRow]
      <3>1. mover' = [mover EXCEPT ![m] = y]
        BY <1>1 DEF BeginMove
      <3>2. y.step = "hide"
        OBVIOUS
      <3> HIDE DEF y
      <3> QED
        BY <3>1, <3>2
    <2> QED
      BY <1>0, <1>1, <1>m, <1>q, <2>1, QuietBegin
  <1>2. ASSUME NEW m \in Movers, NEW g \in Files, HidePoint(m, g)
        PROVE  /\ \A n \in Movers : mover'[n].step # "undo"
               /\ \A f \in Files \ stale' : Quiet(f)'
    <2>1. mover[m] \in Move
      BY <1>t, <1>2, MoveParts DEF HidePoint
    <2>2. PICK x : mover' = [mover EXCEPT ![m] = x] /\ x.step = mover[m].step
      <3>1. PICK y : y = [mover[m] EXCEPT !.todo = mover[m].todo \ {g},
                                          !.hidden = mover[m].hidden \cup {g}]
        OBVIOUS
      <3>2. mover' = [mover EXCEPT ![m] = y]
        BY <1>2, <3>1 DEF HidePoint
      <3>3. y.step = mover[m].step
        BY <2>1, <3>1 DEF Move
      <3> QED
        BY <3>2, <3>3
    <2> QED
      BY <1>0, <1>2, <1>m, <1>q, <2>2, QuietHide
  <1>3. ASSUME NEW m \in Movers, NEW g \in Files, ShowPoint(m, g)
        PROVE  /\ \A n \in Movers : mover'[n].step # "undo"
               /\ \A f \in Files \ stale' : Quiet(f)'
    <2>1. mover[m] \in Move
      BY <1>t, <1>3, MoveParts DEF ShowPoint
    <2>2. PICK x : mover' = [mover EXCEPT ![m] = x] /\ x.step = mover[m].step
      <3>1. PICK y : y = [mover[m] EXCEPT !.todo = mover[m].todo \ {g}]
        OBVIOUS
      <3>2. mover' = [mover EXCEPT ![m] = y]
        BY <1>3, <3>1 DEF ShowPoint
      <3>3. y.step = mover[m].step
        BY <2>1, <3>1 DEF Move
      <3> QED
        BY <3>2, <3>3
    <2> QED
      BY <1>0, <1>3, <1>m, <1>q, <2>2, QuietShow
  <1>4. ASSUME NEW m \in Movers, CommitMove(m)
        PROVE  /\ \A n \in Movers : mover'[n].step # "undo"
               /\ \A f \in Files \ stale' : Quiet(f)'
    <2>1. mover[m] \in Move
      BY <1>t, <1>4, MoveParts DEF CommitMove
    <2>2. PICK x : mover' = [mover EXCEPT ![m] = x] /\ x.step = "show"
      <3>1. PICK r : mover' = [mover EXCEPT ![m] =
                       [mover[m] EXCEPT !.step = "show", !.todo = mover[m].hidden, !.read = r]]
        BY <1>4 DEF CommitMove
      <3>2. PICK y : y = [mover[m] EXCEPT !.step = "show", !.todo = mover[m].hidden, !.read = r]
        OBVIOUS
      <3>3. y.step = "show"
        BY <2>1, <3>2 DEF Move
      <3> QED
        BY <3>1, <3>2, <3>3
    <2> QED
      BY <1>0, <1>4, <1>m, <1>q, <2>2, QuietCommit
  <1>5. ASSUME NEW m \in Movers, EndMove(m)
        PROVE  /\ \A n \in Movers : mover'[n].step # "undo"
               /\ \A f \in Files \ stale' : Quiet(f)'
    <2>1. mover' = [mover EXCEPT ![m] = NoMove] /\ NoMove.step # "undo"
      BY <1>5 DEF EndMove, NoMove
    <2> QED
      BY <1>0, <1>5, <1>m, <1>q, <2>1, QuietEnd
  <1>6. ASSUME NEW g \in Files, WithdrawPoint(g) \/ WithdrawRow(g)
        PROVE  /\ \A n \in Movers : mover'[n].step # "undo"
               /\ \A f \in Files \ stale' : Quiet(f)'
    <2>1. mover' = mover
      BY <1>6 DEF WithdrawPoint, WithdrawRow
    <2> QED
      BY <1>0, <1>6, <1>q, <2>1, QuietWithdraw
  <1>7. ASSUME UNCHANGED <<fileRow, filePoint, mover, withdrawal, stale>>
        PROVE  /\ \A n \in Movers : mover'[n].step # "undo"
               /\ \A f \in Files \ stale' : Quiet(f)'
    BY <1>7, <1>q DEF Quiet, Held, SameOffices, SameService, InMove
  <1>8. ASSUME NEW o \in Offices, NEW status \in {"active", "disabled", "archived"},
               SwitchOffice(o, status)
        PROVE  UNCHANGED <<fileRow, filePoint, mover, withdrawal, stale>>
    BY <1>8 DEF SwitchOffice
  <1>9. CASE UNCHANGED moveVars
    BY <1>7, <1>9 DEF moveVars
  <1>10. ASSUME NEW m \in Movers, NEW g \in Files, UndoHide(m, g)  PROVE FALSE
    BY <1>10, <1>q DEF UndoHide
  <1>11. ASSUME NEW m \in Movers, NEW g \in Files, HideFails(m, g) \/ ShowFails(m, g)  PROVE FALSE
    BY <1>11, <1>f DEF HideFails, ShowFails, PointFails
  <1>12. ASSUME NEW m \in Movers, CommitFails(m) \/ CrashMove(m)  PROVE FALSE
    BY <1>12, <1>f DEF CommitFails, CrashMove
  <1> QED
    BY <1>1, <1>2, <1>3, <1>4, <1>5, <1>6, <1>7, <1>8, <1>9, <1>10, <1>11, <1>12 DEF MoveNext

\* For any number of documents, departments and moves: as long as nothing has failed,
\* moves that have ended leave row and point equal, except for the documents in stale.
THEOREM QuietMovesAgreeAlways == MoveSpec => []QuietMovesAgree
  <1>1. ASSUME MoveInv, QuietInv, moveFaults = 0, withdrawal = {},
               \A m \in Movers : mover[m] = NoMove, NEW f \in Files, f \notin stale
        PROVE  filePoint[f] = fileRow[f]
    <2>1. SameOffices(f) /\ SameService(f)
      BY <1>1 DEF QuietInv, Quiet, InMove
    <2>2. filePoint[f].offices = fileRow[f].offices /\ filePoint[f].servable = fileRow[f].servable
      BY <1>1, <2>1 DEF SameOffices, SameService
    <2> QED
      BY <1>1, <2>2 DEF MoveInv, MoveTypeOK, Filing
  <1>2. MoveInv /\ QuietInv => QuietMovesAgree
    BY <1>1 DEF QuietMovesAgree
  <1>3. MoveInv /\ QuietInv /\ [MoveNext]_moveVars => QuietInv'
    BY QuietInvNext
  <1> QED
    BY <1>2, <1>3, QuietInvInit, MoveInvAlways, PTL DEF MoveSpec
=============================================================================
