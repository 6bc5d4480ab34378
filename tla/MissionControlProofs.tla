------------------------ MODULE MissionControlProofs ------------------------
(***************************************************************************)
(* Proofs about the mission queue, for any DAG of tasks, any limits and    *)
(* any number of commands, conditions and calls.                           *)
(***************************************************************************)
EXTENDS MissionControl, FiniteTheorems, FiniteSetTheorems, TLAPS

USE DEF mission, clock, history

-----------------------------------------------------------------------------
(* Counting.                                                               *)

\* A pass never leases more tasks than the limit leaves room for.
LEMMA PassKeepsLimit ==
    ASSUME NEW k, Cardinality(ActiveTasks(k)) <= MaxParallel
    PROVE  Cardinality(ActiveTasks(k) \cup Leased(k)) <= MaxParallel
<1>1. IsFiniteSet(Tasks) /\ Tasks \subseteq Nat /\ MaxParallel \in Nat
  BY TasksAssumption, LimitsAssumption
<1>2. CASE Leased(k) = {}
  <2>1. ActiveTasks(k) \cup Leased(k) = ActiveTasks(k)
    BY <1>2
  <2> QED  BY <2>1
<1>3. CASE Leased(k) # {}
  <2>1. Leased(k) \in SUBSET Nat /\ IsFiniteSet(Leased(k)) /\ Leased(k) \subseteq Tasks
    BY <1>1, FS_Subset DEF Leased
  <2>2. PICK m \in Leased(k) : \A u \in Leased(k) : u <= m
    BY <1>3, <2>1, LargestExists
  <2>3. IsFiniteSet(ActiveTasks(k)) /\ IsFiniteSet(Ahead(k, m)) /\ m \in Nat
    BY <1>1, <2>1, FS_Subset DEF ActiveTasks, Ahead
  <2>4. Leased(k) \subseteq Ahead(k, m) \cup {m}
    <3>1. ASSUME NEW u \in Leased(k), u # m  PROVE u \in Ahead(k, m)
      <4>1. u <= m /\ u \in Nat /\ u \in Tasks
        BY <2>1, <2>2
      <4>2. k[u].status = "READY" /\ ~Exhausted(k, u)
        BY DEF Leased, Reached
      <4>3. u < m
        BY <4>1, <3>1, <2>3
      <4> QED  BY <4>1, <4>2, <4>3 DEF Ahead
    <3> QED  BY <3>1
  <2>5. Cardinality(ActiveTasks(k)) + Cardinality(Ahead(k, m)) < MaxParallel
    <3>1. Reached(k, m)
      BY DEF Leased
    <3> QED  BY <3>1 DEF Reached
  <2> DEFINE B == Ahead(k, m) \cup {m}
             A == ActiveTasks(k)
  <2>6. IsFiniteSet(B) /\ Cardinality(B) <= Cardinality(Ahead(k, m)) + 1
    <3>1. Cardinality(Ahead(k, m)) \in Nat
      BY <2>3, FS_CardinalityType
    <3>2. /\ IsFiniteSet(Ahead(k, m) \cup {m})
          /\ \/ Cardinality(Ahead(k, m) \cup {m}) = Cardinality(Ahead(k, m))
             \/ Cardinality(Ahead(k, m) \cup {m}) = Cardinality(Ahead(k, m)) + 1
      BY <2>3, FS_AddElement
    <3> QED  BY <3>1, <3>2
  <2>7. /\ IsFiniteSet(A \cup B)
        /\ Cardinality(A \cup B) = Cardinality(A) + Cardinality(B) - Cardinality(A \cap B)
    BY <2>3, <2>6, FS_Union
  <2>8. IsFiniteSet(A \cap B)
    BY <2>3, FS_Subset, A \cap B \subseteq A
  <2>9. /\ Cardinality(A) \in Nat /\ Cardinality(B) \in Nat /\ Cardinality(A \cap B) \in Nat
        /\ Cardinality(Ahead(k, m)) \in Nat
    BY <2>3, <2>6, <2>8, FS_CardinalityType
  <2>10. Cardinality(A \cup B) <= MaxParallel
    BY <2>5, <2>6, <2>7, <2>9, <1>1
  <2>11. /\ ActiveTasks(k) \cup Leased(k) \in SUBSET (A \cup B)
         /\ Cardinality(ActiveTasks(k) \cup Leased(k)) <= Cardinality(A \cup B)
         /\ Cardinality(ActiveTasks(k) \cup Leased(k)) \in Nat
    <3>1. ActiveTasks(k) \cup Leased(k) \in SUBSET (A \cup B)
      BY <2>4
    <3> QED  BY <3>1, <2>7, FS_Subset, FS_CardinalityType
  <2>12. Cardinality(A \cup B) \in Nat
    BY <2>7, FS_CardinalityType
  <2> QED  BY <2>10, <2>11, <2>12, <1>1
<1> QED  BY <1>2, <1>3

\* Fewer tasks stay within the limit.
LEMMA SmallerWithinLimit ==
    ASSUME NEW S, NEW U, S \subseteq U, U \subseteq Tasks, Cardinality(U) <= MaxParallel
    PROVE  Cardinality(S) <= MaxParallel
<1>1. IsFiniteSet(U)
  BY TasksAssumption, FS_Subset
<1>2. IsFiniteSet(S) /\ Cardinality(S) <= Cardinality(U)
  BY <1>1, FS_Subset
<1>3. Cardinality(S) \in Nat /\ Cardinality(U) \in Nat /\ MaxParallel \in Nat
  BY <1>1, <1>2, FS_CardinalityType, LimitsAssumption
<1> QED  BY <1>2, <1>3

-----------------------------------------------------------------------------
(* What a call does to one task.                                           *)

\* The states a task comes to only after its dependencies.
Released == {"READY", "BLOCKED", "DONE"} \cup Active

Moves(t) ==
    /\ task[t].status \in Terminal => task'[t] = task[t]
    /\ task'[t].status \in Released =>
         task[t].status \in Released \/ (DepsDone(task, t) /\ Authority[t] <= MaxAuthority)
    /\ task'[t].status = "DONE" =>
         \/ task[t].status = "DONE"
         \/ \E r \in reported' : r[2] = "success" /\ r[1][1] = t /\ r[1][2] = task'[t].attempt

TasksMove == task' \in [Tasks -> TaskStates] /\ \A t \in Tasks : Moves(t)

NothingLeased == \A t \in Tasks : task'[t].status \in Active => task[t].status \in Active

\* The mission says DONE or CANCELLED because it did, or because it is so.
StatusMoves ==
    /\ status' \in MissionStatuses
    /\ status' = "DONE" => status = "DONE" \/ \A t \in Tasks : task'[t].status = "DONE"
    /\ status' = "CANCELLED" => status = "CANCELLED" \/ \A t \in Tasks : task'[t].status \in Terminal

\* A refreshed mission is DONE or CANCELLED only if it was, or all its tasks are done.
LEMMA RefreshIsTrue ==
    ASSUME NEW k, status \in MissionStatuses, Becomes(k)
    PROVE  StatusMoves
BY DEF Becomes, RefreshedStatus, StatusMoves, MissionStatuses, Terminal

\* The reason a task is blocked is a condition.
LEMMA ReasonType ==
    ASSUME NEW t \in Tasks, TypeOK
    PROVE  Reason(t) \in Reasons
<1>1. Blocking(t) \subseteq Conditions
  BY TasksAssumption DEF TypeOK, Blocking
<1>2. CASE Blocking(t) = {}
  BY <1>2 DEF Reason, Reasons
<1>3. CASE Blocking(t) # {}
  <2>1. \E c \in Conditions : c \in Blocking(t)
    BY <1>1, <1>3
  <2>2. (CHOOSE c \in Conditions : c \in Blocking(t)) \in Conditions
    BY <2>1
  <2> QED  BY <1>3, <2>2 DEF Reason, Reasons
<1> QED  BY <1>2, <1>3

\* A task the first loop of schedule looked at.
LEMMA ReviewedType ==
    ASSUME NEW t \in Tasks, TypeOK
    PROVE  /\ Reviewed(task, t) \in TaskStates
           /\ Reviewed(task, t).attempt = task[t].attempt
           /\ Reviewed(task, t).leased = task[t].leased
           /\ Reviewed(task, t).status \in Active <=> task[t].status \in Active
           /\ task[t].status \in Terminal => Reviewed(task, t) = task[t]
           /\ Reviewed(task, t).status = "DONE" => task[t].status = "DONE"
           /\ Reviewed(task, t).status = "READY" => task[t].status \in {"READY", "BLOCKED", "PENDING"}
           /\ Reviewed(task, t).status \in Released =>
                task[t].status \in Released \/ (DepsDone(task, t) /\ Authority[t] <= MaxAuthority)
<1>1. task[t] \in TaskStates
  BY DEF TypeOK
<1>2. Reason(t) \in Reasons
  BY ReasonType
<1>3. "task_owner_required" \in Reasons
  BY DEF Reasons
<1>4. Authority[t] \in Nat /\ MaxAuthority \in Nat
  BY TasksAssumption
<1>5. \/ Reviewed(task, t) = task[t]
      \/ /\ task[t].status \in {"READY", "BLOCKED"} \/ (task[t].status = "PENDING" /\ DepsDone(task, t))
         /\ \E s \in {"OWNER_REQUIRED", "READY", "BLOCKED"}, r \in Reasons :
              /\ s # "OWNER_REQUIRED" => Authority[t] <= MaxAuthority
              /\ Reviewed(task, t) = [task[t] EXCEPT !.status = s, !.reason = r]
  <2>1. CASE ~(task[t].status \in {"READY", "BLOCKED"} \/ (task[t].status = "PENDING" /\ DepsDone(task, t)))
    BY <2>1 DEF Reviewed
  <2>2. CASE task[t].status \in {"READY", "BLOCKED"} \/ (task[t].status = "PENDING" /\ DepsDone(task, t))
    <3>1. CASE Authority[t] > MaxAuthority
      <4>1. Reviewed(task, t) = [task[t] EXCEPT !.status = "OWNER_REQUIRED", !.reason = "task_owner_required"]
        BY <2>2, <3>1 DEF Reviewed
      <4> QED  BY <2>2, <4>1, <1>3
    <3>2. CASE ~(Authority[t] > MaxAuthority) /\ Blocking(t) = {}
      <4>1. Reviewed(task, t) = [task[t] EXCEPT !.status = "READY", !.reason = Reason(t)]
        BY <2>2, <3>2 DEF Reviewed
      <4>2. Authority[t] <= MaxAuthority
        BY <3>2, <1>4
      <4> QED  BY <2>2, <4>1, <4>2, <1>2, Zenon
    <3>3. CASE ~(Authority[t] > MaxAuthority) /\ Blocking(t) # {}
      <4>1. Reviewed(task, t) = [task[t] EXCEPT !.status = "BLOCKED", !.reason = Reason(t)]
        BY <2>2, <3>3 DEF Reviewed
      <4>2. Authority[t] <= MaxAuthority
        BY <3>3, <1>4
      <4> QED  BY <2>2, <4>1, <4>2, <1>2, Zenon
    <3> QED  BY <3>1, <3>2, <3>3
  <2> QED  BY <2>1, <2>2
<1>6. CASE Reviewed(task, t) = task[t]
  BY <1>1, <1>6 DEF Released, Active, TaskStates
<1>7. ASSUME task[t].status \in {"READY", "BLOCKED"} \/ (task[t].status = "PENDING" /\ DepsDone(task, t)),
             NEW s \in {"OWNER_REQUIRED", "READY", "BLOCKED"}, NEW r \in Reasons,
             s # "OWNER_REQUIRED" => Authority[t] <= MaxAuthority,
             Reviewed(task, t) = [task[t] EXCEPT !.status = s, !.reason = r]
      PROVE  /\ Reviewed(task, t) \in TaskStates
             /\ Reviewed(task, t).attempt = task[t].attempt
             /\ Reviewed(task, t).leased = task[t].leased
             /\ Reviewed(task, t).status = s
             /\ task[t].status \notin Active \cup Terminal
             /\ s \in Released => task[t].status \in Released \/ (DepsDone(task, t) /\ Authority[t] <= MaxAuthority)
  BY <1>1, <1>7 DEF TaskStates, Active, Terminal, Released
<1>8. CASE Reviewed(task, t) # task[t]
  <2>1. PICK s \in {"OWNER_REQUIRED", "READY", "BLOCKED"}, r \in Reasons :
          /\ s # "OWNER_REQUIRED" => Authority[t] <= MaxAuthority
          /\ Reviewed(task, t) = [task[t] EXCEPT !.status = s, !.reason = r]
    BY <1>5, <1>8
  <2>2. task[t].status \in {"READY", "BLOCKED"} \/ (task[t].status = "PENDING" /\ DepsDone(task, t))
    BY <1>5, <1>8
  <2>3. /\ Reviewed(task, t) \in TaskStates
        /\ Reviewed(task, t).attempt = task[t].attempt
        /\ Reviewed(task, t).leased = task[t].leased
        /\ Reviewed(task, t).status = s
        /\ task[t].status \notin Active \cup Terminal
        /\ s \in Released => task[t].status \in Released \/ (DepsDone(task, t) /\ Authority[t] <= MaxAuthority)
    BY <1>7, <2>1, <2>2
  <2>4. s \notin Active /\ s # "DONE"
    BY DEF Active
  <2> QED  BY <2>2, <2>3, <2>4
<1> QED  BY <1>6, <1>8

\* A pass of schedule.
LEMMA ScheduleMoves ==
    ASSUME TypeOK, Schedule
    PROVE  /\ TasksMove /\ StatusMoves
           /\ LeasesWithinLimit => LeasesWithinLimit'
           /\ issued' \subseteq Tasks \X Nat \X Nat
<1> DEFINE ready == [t \in Tasks |-> Reviewed(task, t)]
           after == [t \in Tasks |-> Assigned(ready, t)]
<1>1. Becomes(after) /\ issued' = issued \cup {Lease(t, ready[t].attempt + 1, now) : t \in Leased(ready)}
  BY DEF Schedule
<1>2. \A t \in Tasks : /\ ready[t] = Reviewed(task, t)
                       /\ task'[t] = Assigned(ready, t)
  BY <1>1 DEF Becomes
<1>3. MaxAttempts \in Nat /\ now \in Nat
  BY LimitsAssumption DEF TypeOK
<1> HIDE DEF ready
<1>4. ASSUME NEW t \in Tasks  PROVE task'[t] \in TaskStates /\ Moves(t)
  <2>1. /\ ready[t] \in TaskStates
        /\ task[t].status \in Terminal => ready[t] = task[t]
        /\ ready[t].status = "DONE" => task[t].status = "DONE"
        /\ ready[t].status = "READY" => task[t].status \in {"READY", "BLOCKED", "PENDING"}
        /\ ready[t].status \in Released =>
                task[t].status \in Released \/ (DepsDone(task, t) /\ Authority[t] <= MaxAuthority)
    BY <1>2, ReviewedType
  <2>2. "retry_exhausted" \in Reasons /\ "none" \in Reasons
    BY DEF Reasons
  <2>3. CASE t \in Leased(ready)
    <3>1. task'[t] = [status |-> "LEASED", attempt |-> ready[t].attempt + 1, leased |-> now, reason |-> "none"]
      <4>1. ~Exhausted(ready, t)
        BY <2>3 DEF Leased
      <4> QED  BY <1>2, <2>3, <4>1 DEF Assigned
    <3>2. ready[t].status = "READY" /\ ~(ready[t].attempt >= MaxAttempts)
      BY <2>3 DEF Leased, Reached, Exhausted
    <3>3. ready[t].attempt + 1 \in 0..MaxAttempts
      BY <2>1, <3>2, <1>3 DEF TaskStates
    <3>4. task'[t] \in TaskStates
      BY <3>1, <3>3, <2>2, <1>3 DEF TaskStates, Active
    <3> QED  BY <3>1, <3>2, <3>4, <2>1 DEF Moves, Released, Terminal, Active
  <2>4. CASE t \notin Leased(ready) /\ Reached(ready, t) /\ Exhausted(ready, t)
    <3>1. task'[t] = [ready[t] EXCEPT !.status = "FAILED", !.reason = "retry_exhausted"]
      BY <1>2, <2>4 DEF Assigned
    <3>2. ready[t].status = "READY"
      BY <2>4 DEF Reached
    <3>3. task'[t] \in TaskStates /\ task'[t].status = "FAILED"
      BY <3>1, <2>1, <2>2 DEF TaskStates, Terminal
    <3> QED  BY <3>2, <3>3, <2>1 DEF Moves, Released, Terminal, Active
  <2>5. CASE t \notin Leased(ready) /\ ~(Reached(ready, t) /\ Exhausted(ready, t))
    <3>1. task'[t] = ready[t]
      BY <1>2, <2>5 DEF Assigned
    <3> QED  BY <3>1, <2>1 DEF Moves
  <2> QED  BY <2>3, <2>4, <2>5
<1>5. TasksMove
  <2>1. task' = after
    BY <1>1 DEF Becomes
  <2> QED  BY <1>4, <2>1, <1>2 DEF TasksMove
<1>6. StatusMoves
  <2> HIDE DEF after
  <2> QED  BY <1>1, RefreshIsTrue DEF TypeOK
<1>7. ASSUME LeasesWithinLimit  PROVE LeasesWithinLimit'
  <2>1. ActiveTasks(ready) = ActiveTasks(task)
    BY <1>2, ReviewedType DEF ActiveTasks
  <2>2. Cardinality(ActiveTasks(ready) \cup Leased(ready)) <= MaxParallel
    <3>1. Cardinality(ActiveTasks(ready)) <= MaxParallel
      BY <1>7, <2>1 DEF LeasesWithinLimit
    <3> QED  BY <3>1, PassKeepsLimit
  <2>3. ASSUME NEW t \in Tasks, task'[t].status \in Active, t \notin Leased(ready)
        PROVE  ready[t].status \in Active
    <3>1. ready[t] \in TaskStates
      BY <1>2, ReviewedType
    <3>2. task'[t] = ready[t] \/ task'[t] = [ready[t] EXCEPT !.status = "FAILED", !.reason = "retry_exhausted"]
      BY <1>2, <2>3 DEF Assigned
    <3> QED  BY <3>1, <3>2, <2>3 DEF TaskStates, Active
  <2>4. ActiveTasks(task') \subseteq ActiveTasks(ready) \cup Leased(ready)
    BY <2>3 DEF ActiveTasks
  <2>5. ActiveTasks(ready) \cup Leased(ready) \subseteq Tasks
    BY DEF ActiveTasks, Leased
  <2>6. ActiveTasks(task)' = ActiveTasks(task')
    BY DEF ActiveTasks
  <2> QED  BY <2>2, <2>4, <2>5, <2>6, SmallerWithinLimit DEF LeasesWithinLimit
<1>8. issued' \subseteq Tasks \X Nat \X Nat
  <2>1. ASSUME NEW t \in Leased(ready)  PROVE Lease(t, ready[t].attempt + 1, now) \in Tasks \X Nat \X Nat
    <3>1. t \in Tasks
      BY DEF Leased
    <3>2. ready[t] \in TaskStates
      BY <3>1, <1>2, ReviewedType
    <3>3. ready[t].attempt + 1 \in Nat
      BY <3>2, <1>3 DEF TaskStates
    <3> QED  BY <3>1, <3>3, <1>3 DEF Lease
  <2> QED  BY <1>1, <2>1 DEF TypeOK
<1> QED  BY <1>5, <1>6, <1>7, <1>8

\* "Not leased" is written as a time.
LEMMA NoTimeType == NoTime \in Int
BY DEF NoTime

\* A pass of schedule after the deadline.
LEMMA MissDeadlineMoves ==
    ASSUME TypeOK, MissDeadline
    PROVE  TasksMove /\ StatusMoves /\ NothingLeased
<1>1. ASSUME NEW t \in Tasks  PROVE task'[t] \in TaskStates /\ Moves(t) /\ task'[t].status \notin Active
  <2>1. task[t] \in TaskStates
    BY DEF TypeOK
  <2>2. "mission_deadline_exceeded" \in Reasons
    BY DEF Reasons
  <2>3. CASE task[t].status \in Terminal
    <3>1. task'[t] = task[t]
      BY <2>3 DEF MissDeadline
    <3> QED  BY <3>1, <2>1, <2>3 DEF Moves, Terminal, Active, Released
  <2>4. CASE task[t].status \notin Terminal
    <3>1. task'[t] = [task[t] EXCEPT !.status = "FAILED", !.reason = "mission_deadline_exceeded"]
      BY <2>4 DEF MissDeadline
    <3>2. task'[t] \in TaskStates /\ task'[t].status = "FAILED"
      BY <3>1, <2>1, <2>2 DEF TaskStates, Terminal
    <3> QED  BY <3>2, <2>4 DEF Moves, Terminal, Active, Released
  <2> QED  BY <2>3, <2>4
<1>2. task' \in [Tasks -> TaskStates]
  BY <1>1 DEF MissDeadline
<1>3. StatusMoves
  BY DEF MissDeadline, StatusMoves, MissionStatuses, Terminal
<1> QED  BY <1>1, <1>2, <1>3 DEF TasksMove, NothingLeased

\* A call that gives the task t, which is worked on, another status.
LEMMA UpdateMoves ==
    ASSUME TypeOK, NEW t \in Tasks, NEW u \in TaskStates, Becomes([task EXCEPT ![t] = u]),
           task[t].status \in Active,
           u.status = "DONE" =>
             \E r \in reported' : r[2] = "success" /\ r[1][1] = t /\ r[1][2] = u.attempt
    PROVE  TasksMove /\ StatusMoves /\ NothingLeased
<1>1. task' = [task EXCEPT ![t] = u]
  BY DEF Becomes
<1>2. task' \in [Tasks -> TaskStates]
  BY <1>1 DEF TypeOK
<1>3. task'[t] = u /\ \A v \in Tasks \ {t} : task'[v] = task[v]
  BY <1>1 DEF TypeOK
<1>4. Moves(t)
  BY <1>3 DEF Moves, Active, Terminal, Released
<1>5. \A v \in Tasks \ {t} : Moves(v)
  BY <1>3 DEF Moves
<1>6. StatusMoves
  BY RefreshIsTrue DEF TypeOK
<1> QED  BY <1>2, <1>3, <1>4, <1>5, <1>6 DEF TasksMove, NothingLeased

\* mark_running.
LEMMA MarkRunningMoves ==
    ASSUME TypeOK, NEW l \in issued, MarkRunning(l[1], l)
    PROVE  TasksMove /\ StatusMoves /\ NothingLeased
<1> DEFINE t == l[1]
           u == [task[t] EXCEPT !.status = "RUNNING"]
<1>1. t \in Tasks /\ task[t] \in TaskStates /\ task \in [Tasks -> TaskStates]
  BY DEF TypeOK
<1>2. u \in TaskStates /\ u.status = "RUNNING"
  BY <1>1 DEF TaskStates, Active
<1>3. [task EXCEPT ![t].status = "RUNNING"] = [task EXCEPT ![t] = u]
  OBVIOUS
<1>4. task[t].status \in Active /\ Becomes([task EXCEPT ![t] = u])
  BY <1>3 DEF MarkRunning, Active
<1> HIDE DEF t, u
<1> QED  BY <1>1, <1>2, <1>4, UpdateMoves

\* record_result of a success.
LEMMA SucceedMoves ==
    ASSUME TypeOK, NEW l \in issued, Succeed(l[1], l)
    PROVE  TasksMove /\ StatusMoves /\ NothingLeased
<1> DEFINE t == l[1]
           u == [task[t] EXCEPT !.status = "DONE", !.leased = NoTime, !.reason = "none"]
<1>1. t \in Tasks /\ task[t] \in TaskStates /\ task \in [Tasks -> TaskStates]
  BY DEF TypeOK
<1>2. u \in TaskStates /\ u.attempt = task[t].attempt
  BY <1>1, NoTimeType DEF TaskStates, Terminal, Reasons
<1>3. [task EXCEPT ![t].status = "DONE", ![t].leased = NoTime, ![t].reason = "none"] = [task EXCEPT ![t] = u]
  BY <1>1
<1>4. task[t].status \in Active /\ Becomes([task EXCEPT ![t] = u])
  BY <1>3 DEF Succeed
<1>5. <<l, "success">> \in reported' /\ l[2] = task[t].attempt
  BY DEF Succeed, Report, Holds, Lease
<1>6. \E r \in reported' : r[2] = "success" /\ r[1][1] = t /\ r[1][2] = u.attempt
  BY <1>2, <1>5
<1> HIDE DEF t, u
<1> QED  BY <1>1, <1>2, <1>4, <1>6, UpdateMoves

\* record_result of a failure.
LEMMA FailMoves ==
    ASSUME TypeOK, NEW l \in issued, NEW failure \in Failures, Fail(l[1], l, failure)
    PROVE  TasksMove /\ StatusMoves /\ NothingLeased
<1> DEFINE t == l[1]
<1>1. t \in Tasks /\ task[t] \in TaskStates /\ task \in [Tasks -> TaskStates]
  BY DEF TypeOK
<1>2. PICK s \in {"READY", "FAILED", "BLOCKED"}, r \in {"none", "fatal", "root_cause_required"} :
         Becomes([task EXCEPT ![t].status = s, ![t].leased = NoTime, ![t].reason = r])
  <2>1. CASE Retriable(t, failure)
    <3>1. failure # "fatal"
      BY <2>1 DEF Retriable
    <3> QED  BY <2>1, <3>1 DEF Fail
  <2>2. CASE ~Retriable(t, failure) /\ failure = "fatal"
    BY <2>2 DEF Fail
  <2>3. CASE ~Retriable(t, failure) /\ failure # "fatal"
    BY <2>3 DEF Fail
  <2> QED  BY <2>1, <2>2, <2>3
<1> DEFINE u == [task[t] EXCEPT !.status = s, !.leased = NoTime, !.reason = r]
<1>3. u \in TaskStates /\ u.status # "DONE"
  BY <1>1, NoTimeType DEF TaskStates, Terminal, Reasons
<1>4. [task EXCEPT ![t].status = s, ![t].leased = NoTime, ![t].reason = r] = [task EXCEPT ![t] = u]
  BY <1>1
<1>5. task[t].status \in Active /\ Becomes([task EXCEPT ![t] = u])
  BY <1>2, <1>4 DEF Fail
<1> HIDE DEF t, u
<1> QED  BY <1>1, <1>3, <1>5, UpdateMoves

\* apply_command.
LEMMA CommandMoves ==
    ASSUME TypeOK, NEW c \in Commands, Command(c)
    PROVE  TasksMove /\ StatusMoves /\ NothingLeased
<1>1. ASSUME NEW t \in Tasks
      PROVE  task'[t] = task[t] \/ task'[t] = Stopped(task[t])
  BY DEF Command
<1>2. ASSUME NEW t \in Tasks
      PROVE  /\ task'[t] \in TaskStates /\ Moves(t)
             /\ task'[t].status \in Active => task[t].status \in Active
  <2>1. task[t] \in TaskStates
    BY DEF TypeOK
  <2>2. CASE task'[t] = task[t]
    BY <2>1, <2>2 DEF Moves
  <2>3. CASE task'[t] # task[t]
    <3>1. task'[t] = [task[t] EXCEPT !.status = "CANCELLED", !.leased = NoTime] /\ task[t].status \notin Terminal
      BY <1>1, <2>3 DEF Stopped
    <3>2. task'[t] \in TaskStates /\ task'[t].status = "CANCELLED"
      BY <2>1, <3>1, NoTimeType DEF TaskStates, Terminal
    <3> QED  BY <3>1, <3>2 DEF Moves, Released, Terminal, Active
  <2> QED  BY <2>2, <2>3
<1>3. task' \in [Tasks -> TaskStates]
  BY <1>2 DEF Command
<1>4. StatusMoves
  <2>1. CASE c.action = "cancel_task"
    <3>1. status' = RefreshedStatus(status, task')
      BY <2>1 DEF Command
    <3> QED  BY <3>1, RefreshIsTrue DEF TypeOK, Becomes
  <2>2. CASE c.action = "cancel_mission" /\ status # "DONE"
    <3>1. status' = "CANCELLED" /\ \A t \in Tasks : task'[t] = Stopped(task[t])
      BY <2>2 DEF Command, StatusAfter
    <3>2. ASSUME NEW t \in Tasks  PROVE task'[t].status \in Terminal
      <4>1. task[t] \in TaskStates
        BY DEF TypeOK
      <4> QED  BY <3>1, <4>1 DEF Stopped, TaskStates, Terminal
    <3> QED  BY <3>1, <3>2 DEF StatusMoves, MissionStatuses, Terminal
  <2>3. CASE c.action # "cancel_task" /\ ~(c.action = "cancel_mission" /\ status # "DONE")
    <3>1. status' \in {status, "PAUSED", "READY"}
      BY <2>3 DEF Command, StatusAfter
    <3> QED  BY <3>1 DEF StatusMoves, MissionStatuses, TypeOK
  <2> QED  BY <2>1, <2>2, <2>3
<1> QED  BY <1>2, <1>3, <1>4 DEF TasksMove, NothingLeased

\* reconcile_restart.
LEMMA RestartMoves ==
    ASSUME TypeOK, Restart
    PROVE  TasksMove /\ StatusMoves /\ NothingLeased
<1>1. \A t \in Tasks : task'[t] = Reconciled(t)
  BY DEF Restart, Becomes
<1>2. ASSUME NEW t \in Tasks
      PROVE  /\ task'[t] \in TaskStates /\ Moves(t)
             /\ task'[t].status \in Active => task[t].status \in Active
  <2>1. task[t] \in TaskStates
    BY DEF TypeOK
  <2>2. CASE task'[t] = task[t]
    BY <2>1, <2>2 DEF Moves
  <2>3. CASE task'[t] # task[t]
    <3>1. /\ task[t].status \in Active \cup {"BLOCKED"}
          /\ \E s \in {"READY", "FAILED"}, l \in {NoTime, task[t].leased}, r \in {task[t].reason, "none", "retry_exhausted"} :
                task'[t] = [task[t] EXCEPT !.status = s, !.leased = l, !.reason = r]
      <4>1. task'[t] = Reconciled(t)
        BY <1>1
      <4>2. CASE Expired(task[t]) /\ task[t].attempt < MaxAttempts
        <5>1. task'[t] = [task[t] EXCEPT !.status = "READY", !.leased = NoTime]
          <6>1. ~(task[t].attempt >= MaxAttempts)
            BY <4>2, <2>1, LimitsAssumption DEF TaskStates
          <6>2. task[t].status # "BLOCKED"
            BY <4>2 DEF Expired, Active
          <6> QED  BY <4>1, <4>2, <6>1, <6>2 DEF Reconciled
        <5>2. task'[t] = [task[t] EXCEPT !.status = "READY", !.leased = NoTime, !.reason = task[t].reason]
          BY <5>1, <2>1 DEF TaskStates
        <5> QED  BY <5>2, <4>2 DEF Expired
      <4>3. CASE Expired(task[t]) /\ ~(task[t].attempt < MaxAttempts)
        <5>1. task[t].attempt >= MaxAttempts
          BY <4>3, <2>1, LimitsAssumption DEF TaskStates
        <5>2. task'[t] = [task[t] EXCEPT !.status = "FAILED", !.leased = NoTime, !.reason = "retry_exhausted"]
          <6>1. task[t].status # "BLOCKED"
            BY <4>3 DEF Expired, Active
          <6> QED  BY <4>1, <4>3, <5>1, <6>1 DEF Reconciled
        <5> QED  BY <5>2, <4>3 DEF Expired
      <4>4. CASE ~Expired(task[t])
        <5>1. /\ task[t].status = "BLOCKED"
              /\ task'[t] = [task[t] EXCEPT !.status = "READY", !.reason = "none"]
          BY <4>1, <4>4, <2>3 DEF Reconciled
        <5>2. task'[t] = [task[t] EXCEPT !.status = "READY", !.leased = task[t].leased, !.reason = "none"]
          BY <5>1, <2>1 DEF TaskStates
        <5> QED  BY <5>1, <5>2
      <4> QED  BY <4>2, <4>3, <4>4
    <3>2. PICK s \in {"READY", "FAILED"}, l \in {NoTime, task[t].leased}, r \in {task[t].reason, "none", "retry_exhausted"} :
             task'[t] = [task[t] EXCEPT !.status = s, !.leased = l, !.reason = r]
      BY <3>1
    <3>3. task'[t] \in TaskStates /\ task'[t].status = s
      BY <2>1, <3>2, NoTimeType DEF TaskStates, Terminal, Reasons
    <3> QED  BY <3>1, <3>3 DEF Moves, Released, Terminal, Active
  <2> QED  BY <2>2, <2>3
<1>3. task' \in [Tasks -> TaskStates]
  BY <1>2 DEF Restart, Becomes
<1>4. StatusMoves
  <2>1. Becomes([t \in Tasks |-> Reconciled(t)])
    BY DEF Restart
  <2> QED  BY <2>1, RefreshIsTrue DEF TypeOK
<1> QED  BY <1>2, <1>3, <1>4 DEF TasksMove, NothingLeased

-----------------------------------------------------------------------------
(* Every step.                                                             *)

\* Every call moves the tasks and the mission that way, and keeps within the limit.
LEMMA NextMoves ==
    ASSUME TypeOK, Next
    PROVE  \/ TasksMove /\ StatusMoves /\ (NothingLeased \/ (LeasesWithinLimit => LeasesWithinLimit'))
           \/ UNCHANGED <<mission, history>>
<1>1. CASE Tick \/ \E c \in Conditions : Change(c)
  BY <1>1 DEF Tick, Change
<1>2. CASE MissDeadline
  BY <1>2, MissDeadlineMoves
<1>3. CASE Schedule
  BY <1>3, ScheduleMoves
<1>4. CASE \E l \in issued : \/ MarkRunning(l[1], l) \/ Succeed(l[1], l)
                             \/ \E failure \in Failures : Fail(l[1], l, failure)
  BY <1>4, MarkRunningMoves, SucceedMoves, FailMoves
<1>5. CASE \E c \in Commands : Command(c)
  BY <1>5, CommandMoves
<1>6. CASE Restart
  BY <1>6, RestartMoves
<1> QED  BY <1>1, <1>2, <1>3, <1>4, <1>5, <1>6 DEF Next

\* History only grows.
LEMMA HistoryGrows ==
    ASSUME TypeOK, Next
    PROVE  issued \subseteq issued' /\ reported \subseteq reported'
BY DEF Next, Tick, Change, MissDeadline, Schedule, MarkRunning, Succeed, Fail, Report, Command, Restart

\* TypeOK holds at the start.
LEMMA InitTypeOK == Init => TypeOK
<1> SUFFICES ASSUME Init  PROVE TypeOK
  OBVIOUS
<1>1. \A t \in Tasks : Fresh(t) \in TaskStates
  <2>1. 0 \in 0..MaxAttempts
    BY LimitsAssumption
  <2>2. "none" \in Reasons /\ "owner_required" \in Reasons
    BY DEF Reasons
  <2> QED  BY <2>1, <2>2, NoTimeType DEF Fresh, TaskStates
<1>2. task \in [Tasks -> TaskStates]
  BY <1>1 DEF Init
<1>3. status \in MissionStatuses
  BY DEF Init, MissionStatuses
<1> QED  BY <1>2, <1>3 DEF Init, TypeOK

\* TypeOK is inductive.
LEMMA NextTypeOK == TypeOK /\ [Next]_vars => TypeOK'
<1> SUFFICES ASSUME TypeOK, [Next]_vars  PROVE TypeOK'
  OBVIOUS
<1>1. CASE UNCHANGED vars
  BY <1>1 DEF vars, TypeOK
<1>2. CASE Next
  <2>1. task' \in [Tasks -> TaskStates] /\ status' \in MissionStatuses
    BY <1>2, NextMoves DEF TasksMove, StatusMoves, TypeOK
  <2>2. now' \in Nat /\ env' \subseteq Conditions /\ events' \in Nat
    <3>1. CASE Tick
      BY <3>1 DEF Tick, TypeOK
    <3>2. CASE \E c \in Conditions : Change(c)
      BY <3>2 DEF Change, TypeOK
    <3>3. CASE UNCHANGED <<now, env, events>>
      BY <3>3 DEF TypeOK
    <3> QED  BY <1>2, <3>1, <3>2, <3>3 DEF Next, MissDeadline, Schedule, MarkRunning, Succeed, Fail, Report, Command, Restart
  <2>3. done' \subseteq Nat
    <3>1. \A c \in Commands : c.id \in Nat
      BY CommandsAssumption
    <3>2. done' = done \/ \E c \in Commands : done' = done \cup {c.id}
      <4>1. CASE \E c \in Commands : Command(c)
        BY <4>1 DEF Command
      <4>2. CASE ~\E c \in Commands : Command(c)
        BY <1>2, <4>2 DEF Next, Tick, Change, MissDeadline, Schedule, MarkRunning, Succeed, Fail, Report, Restart
      <4> QED  BY <4>1, <4>2
    <3>3. done \subseteq Nat
      BY DEF TypeOK
    <3>4. ASSUME NEW c \in Commands, done' = done \cup {c.id}  PROVE done' \subseteq Nat
      <4>1. c.id \in Nat
        BY <3>1
      <4> QED  BY <3>3, <3>4, <4>1
    <3> QED  BY <3>2, <3>3, <3>4
  <2>4. issued' \subseteq Tasks \X Nat \X Nat
    <3>1. CASE Schedule
      BY <3>1, ScheduleMoves
    <3>2. CASE ~Schedule
      BY <1>2, <3>2 DEF Next, Tick, Change, MissDeadline, MarkRunning, Succeed, Fail, Report, Command, Restart, TypeOK
    <3> QED  BY <3>1, <3>2
  <2>5. reported' \subseteq issued' \X (Failures \cup {"success"})
    <3>1. issued \subseteq issued'
      BY <1>2, HistoryGrows
    <3>2. reported' \subseteq issued \X (Failures \cup {"success"})
      <4>1. \/ reported' = reported
            \/ \E l \in issued, outcome \in Failures \cup {"success"} : reported' = reported \cup {<<l, outcome>>}
        BY <1>2 DEF Next, Tick, Change, MissDeadline, Schedule, MarkRunning, Succeed, Fail, Report, Command, Restart
      <4> QED  BY <4>1 DEF TypeOK
    <3> QED  BY <3>1, <3>2
  <2> QED  BY <2>1, <2>2, <2>3, <2>4, <2>5 DEF TypeOK
<1> QED  BY <1>1, <1>2

\* TypeOK holds of any mission: attempts never exceed the retry budget, whatever
\* the order of passes, reports, commands and restarts.
THEOREM TypeCorrect == Spec => []TypeOK
BY InitTypeOK, NextTypeOK, PTL DEF Spec

-----------------------------------------------------------------------------
(* The invariants.                                                         *)

\* What WorkIsAllowed needs to be inductive: a task that was released, although it
\* may be ready again or blocked, has its dependencies behind it.
ReleasedInOrder ==
    \A t \in Tasks : task[t].status \in Released => DepsDone(task, t) /\ Authority[t] <= MaxAuthority

Inv == LeasesWithinLimit /\ ReleasedInOrder /\ StatusIsTrue /\ DoneIsReported

\* Nothing is leased at the start.
LEMMA InitInv == Init => Inv
<1> SUFFICES ASSUME Init  PROVE Inv
  OBVIOUS
<1>1. \A t \in Tasks : task[t].status \in {"OWNER_REQUIRED", "PENDING"}
  BY DEF Init, Fresh
<1>2. ActiveTasks(task) = {}
  BY <1>1 DEF ActiveTasks, Active
<1>3. LeasesWithinLimit
  BY <1>2, FS_EmptySet, LimitsAssumption DEF LeasesWithinLimit
<1>4. ReleasedInOrder
  BY <1>1 DEF ReleasedInOrder, Released, Active
<1>5. status \in {"OWNER_REQUIRED", "PENDING"}
  BY DEF Init
<1>6. StatusIsTrue /\ DoneIsReported
  BY <1>1, <1>5 DEF StatusIsTrue, DoneIsReported
<1> QED  BY <1>3, <1>4, <1>6 DEF Inv

\* Inv is inductive.
LEMMA NextInv == TypeOK /\ Inv /\ [Next]_vars => Inv'
<1> SUFFICES ASSUME TypeOK, Inv, [Next]_vars  PROVE Inv'
  OBVIOUS
<1>1. CASE UNCHANGED <<mission, history>>
  BY <1>1 DEF Inv, LeasesWithinLimit, ActiveTasks, ReleasedInOrder, DepsDone, StatusIsTrue, DoneIsReported
<1>2. CASE Next /\ ~UNCHANGED <<mission, history>>
  <2>1. TasksMove /\ StatusMoves /\ (NothingLeased \/ (LeasesWithinLimit => LeasesWithinLimit'))
    BY <1>2, NextMoves
  <2>2. LeasesWithinLimit'
    <3>1. CASE NothingLeased
      <4>1. ActiveTasks(task)' \subseteq ActiveTasks(task) /\ ActiveTasks(task) \subseteq Tasks
        BY <3>1 DEF NothingLeased, ActiveTasks
      <4>2. Cardinality(ActiveTasks(task)) <= MaxParallel
        BY DEF Inv, LeasesWithinLimit
      <4> HIDE DEF mission
      <4> QED  BY <4>1, <4>2, SmallerWithinLimit DEF LeasesWithinLimit
    <3> QED  BY <2>1, <3>1 DEF Inv
  <2>3. \A t \in Tasks : task[t].status \in Terminal => task'[t] = task[t]
    BY <2>1 DEF TasksMove, Moves
  <2>4. ReleasedInOrder'
    <3>1. ASSUME NEW t \in Tasks, DepsDone(task, t)  PROVE DepsDone(task, t)'
      <4>1. Dependencies[t] \subseteq Tasks
        BY TasksAssumption
      <4> QED  BY <4>1, <3>1, <2>3 DEF DepsDone, Terminal
    <3>2. ASSUME NEW t \in Tasks, task'[t].status \in Released
          PROVE  DepsDone(task, t) /\ Authority[t] <= MaxAuthority
      BY <3>2, <2>1 DEF TasksMove, Moves, Inv, ReleasedInOrder
    <3> QED  BY <3>1, <3>2 DEF ReleasedInOrder
  <2>5. StatusIsTrue'
    <3>1. status' = "DONE" => \A t \in Tasks : task'[t].status = "DONE"
      BY <2>1, <2>3 DEF StatusMoves, Inv, StatusIsTrue, Terminal
    <3>2. status' = "CANCELLED" => \A t \in Tasks : task'[t].status \in Terminal
      BY <2>1, <2>3 DEF StatusMoves, Inv, StatusIsTrue
    <3> QED  BY <3>1, <3>2 DEF StatusIsTrue
  <2>6. DoneIsReported'
    <3>1. reported \subseteq reported'
      BY <1>2, HistoryGrows
    <3>2. ASSUME NEW t \in Tasks, task'[t].status = "DONE"
          PROVE  \E r \in reported' : r[2] = "success" /\ r[1][1] = t /\ r[1][2] = task'[t].attempt
      <4>1. CASE task[t].status = "DONE"
        <5>1. task'[t] = task[t]
          BY <4>1, <2>3 DEF Terminal
        <5> QED  BY <4>1, <5>1, <3>1 DEF Inv, DoneIsReported
      <4>2. CASE task[t].status # "DONE"
        BY <4>2, <3>2, <2>1 DEF TasksMove, Moves
      <4> QED  BY <4>1, <4>2
    <3> QED  BY <3>2 DEF DoneIsReported
  <2> QED  BY <2>2, <2>4, <2>5, <2>6 DEF Inv
<1> QED  BY <1>1, <1>2 DEF vars

\* Inv holds of any mission.
LEMMA InvHolds == Spec => []Inv
BY InitTypeOK, NextTypeOK, InitInv, NextInv, PTL DEF Spec

\* The ceiling of parallel leases holds, whatever tasks return to the queue.
THEOREM LimitHolds == Spec => []LeasesWithinLimit
<1>1. Inv => LeasesWithinLimit
  BY DEF Inv
<1> QED  BY <1>1, InvHolds, PTL

\* Nothing is worked on, or done, before what it depends on is done, nor without authority.
THEOREM WorkAllowed == Spec => []WorkIsAllowed
<1>1. Inv => WorkIsAllowed
  BY DEF Inv, ReleasedInOrder, Released, WorkIsAllowed, DepsDone
<1> QED  BY <1>1, InvHolds, PTL

\* DONE and CANCELLED are true of the tasks of the mission.
THEOREM StatusTrue == Spec => []StatusIsTrue
<1>1. Inv => StatusIsTrue
  BY DEF Inv
<1> QED  BY <1>1, InvHolds, PTL

\* A task is done because the worker of its last attempt reported success.
THEOREM DoneReported == Spec => []DoneIsReported
<1>1. Inv => DoneIsReported
  BY DEF Inv
<1> QED  BY <1>1, InvHolds, PTL

\* What a mission and its tasks claim is true, however reports are repeated and
\* delayed and whatever commands, restarts and deadlines come in between.
THEOREM ClaimsTrue == Spec => []ClaimsAreTrue
BY StatusTrue, DoneReported, PTL DEF ClaimsAreTrue

-----------------------------------------------------------------------------
(* One attempt of a task at a time.                                        *)

\* A lease that is not over is the one its task holds, and the task is worked on -
\* unless the task itself was ended: a cancelled task is never leased again.
LeaseIsCurrent(m) ==
    \/ task[m[1]].status \in Terminal
    \/ Over(m)
    \/ task[m[1]].status \in Active /\ m = Lease(m[1], task[m[1]].attempt, task[m[1]].leased)

LeasesAreCurrent == \A m \in issued : LeaseIsCurrent(m)

\* What is over stays over.
LEMMA OverStays ==
    ASSUME TypeOK, Next, NEW m \in issued, Over(m)
    PROVE  Over(m)'
<1>1. reported \subseteq reported'
  BY HistoryGrows
<1>2. now \in Nat /\ now' \in Nat /\ now <= now' /\ m[3] \in Nat /\ Timeout \in Nat
  <2>1. now' = now \/ now' = now + 1
    BY DEF Next, Tick, Change, MissDeadline, Schedule, MarkRunning, Succeed, Fail, Report, Command, Restart
  <2>2. now \in Nat /\ m[3] \in Nat /\ Timeout \in Nat
    BY LimitsAssumption DEF TypeOK
  <2> QED  BY <2>1, <2>2
<1>3. CASE \E r \in reported : r[1] = m
  BY <1>1, <1>3 DEF Over
<1>4. CASE m[3] + Timeout <= now
  <2>1. m[3] + Timeout <= now'
    BY <1>2, <1>4
  <2> QED  BY <2>1 DEF Over
<1> QED  BY <1>3, <1>4 DEF Over

\* The task a lease is current for goes on with it, or the lease is over.
LEMMA LeaseStaysCurrent ==
    ASSUME TypeOK, Next, NEW m \in issued, LeaseIsCurrent(m)
    PROVE  LeaseIsCurrent(m)'
<1> DEFINE t == m[1]
<1>1. t \in Tasks /\ task[t] \in TaskStates /\ task \in [Tasks -> TaskStates]
  BY DEF TypeOK
<1>2. CASE task[t].status \in Terminal
  <2>1. task'[t] = task[t]
    BY <1>1, <1>2, NextMoves DEF TasksMove, Moves
  <2> QED  BY <1>2, <2>1 DEF LeaseIsCurrent
<1>3. CASE Over(m)
  BY <1>3, OverStays DEF LeaseIsCurrent
<1>4. ASSUME task[t].status \in Active, m = Lease(t, task[t].attempt, task[t].leased)
      PROVE  LeaseIsCurrent(m)'
  <2>1. CASE task'[t] = task[t]
    BY <1>4, <2>1 DEF LeaseIsCurrent
  <2>2. CASE task'[t].status \in Terminal
    BY <2>2 DEF LeaseIsCurrent
  <2>3. CASE MissDeadline
    <3>1. task'[t].status = "FAILED"
      BY <1>1, <1>4, <2>3 DEF MissDeadline, TaskStates, Terminal, Active
    <3> QED  BY <3>1, <2>2 DEF Terminal
  <2>4. CASE Schedule
    <3> DEFINE ready == [u \in Tasks |-> Reviewed(task, u)]
    <3>1. ready[t] = task[t]
      BY <1>1, <1>4 DEF Reviewed, Active
    <3>2. task'[t] = Assigned(ready, t)
      BY <1>1, <2>4 DEF Schedule, Becomes
    <3> HIDE DEF ready
    <3>3. ~Reached(ready, t)
      BY <1>4, <3>1 DEF Reached, Active
    <3>4. task'[t] = ready[t]
      BY <3>2, <3>3 DEF Assigned, Leased
    <3> QED  BY <2>1, <3>1, <3>4
  <2>5. ASSUME NEW l \in issued, MarkRunning(l[1], l)  PROVE LeaseIsCurrent(m)'
    <3>1. CASE l[1] = t
      <4>1. task' = [task EXCEPT ![t].status = "RUNNING"]
        BY <2>5, <3>1 DEF MarkRunning, Becomes
      <4>2. task'[t].status = "RUNNING" /\ task'[t].attempt = task[t].attempt /\ task'[t].leased = task[t].leased
        BY <1>1, <4>1 DEF TaskStates
      <4> QED  BY <1>4, <4>2 DEF LeaseIsCurrent, Active, Lease
    <3>2. CASE l[1] # t
      BY <1>1, <2>1, <2>5, <3>2 DEF MarkRunning, Becomes
    <3> QED  BY <3>1, <3>2
  <2>6. ASSUME NEW l \in issued, Succeed(l[1], l)  PROVE LeaseIsCurrent(m)'
    <3>1. CASE l[1] = t
      <4>1. task'[t].status = "DONE"
        BY <1>1, <2>6, <3>1 DEF Succeed, Becomes, TaskStates
      <4> QED  BY <4>1, <2>2 DEF Terminal
    <3>2. CASE l[1] # t
      BY <1>1, <2>1, <2>6, <3>2 DEF Succeed, Becomes
    <3> QED  BY <3>1, <3>2
  <2>7. ASSUME NEW l \in issued, NEW failure \in Failures, Fail(l[1], l, failure)  PROVE LeaseIsCurrent(m)'
    <3>1. CASE l[1] = t
      <4>1. l = m
        BY <1>4, <2>7, <3>1 DEF Fail, Holds
      <4>2. <<m, failure>> \in reported'
        BY <2>7, <4>1 DEF Fail, Report
      <4>3. \E r \in reported' : r[1] = m
        BY <4>2
      <4> QED  BY <4>3 DEF LeaseIsCurrent, Over
    <3>2. CASE l[1] # t
      BY <1>1, <2>1, <2>7, <3>2 DEF Fail, Becomes
    <3> QED  BY <3>1, <3>2
  <2>8. CASE \E c \in Commands : Command(c)
    <3>1. task'[t] = task[t] \/ task'[t] = Stopped(task[t])
      BY <1>1, <2>8 DEF Command
    <3>2. Stopped(task[t]).status \in Terminal
      BY <1>1 DEF Stopped, TaskStates, Terminal
    <3> QED  BY <2>1, <2>2, <3>1, <3>2
  <2>9. CASE Restart
    <3>1. task'[t] = Reconciled(t)
      BY <1>1, <2>9 DEF Restart, Becomes
    <3>2. CASE Expired(task[t])
      <4>1. task[t].leased + Timeout <= now /\ m[3] = task[t].leased
        BY <1>4, <3>2 DEF Expired, Lease
      <4>2. Over(m)
        BY <4>1 DEF Over
      <4> QED  BY <1>3, <4>2
    <3>3. CASE ~Expired(task[t])
      <4>1. task[t].status # "BLOCKED"
        BY <1>4 DEF Active
      <4>2. task'[t] = task[t]
        BY <3>1, <3>3, <4>1 DEF Reconciled
      <4> QED  BY <2>1, <4>2
    <3> QED  BY <3>2, <3>3
  <2>10. CASE Tick \/ \E c \in Conditions : Change(c)
    BY <2>1, <2>10 DEF Tick, Change
  <2> QED  BY <2>3, <2>4, <2>5, <2>6, <2>7, <2>8, <2>9, <2>10 DEF Next
<1> QED  BY <1>2, <1>3, <1>4 DEF LeaseIsCurrent

\* The only leases a step issues are those of a pass, of tasks that waited.
LEMMA LeasedTasksWaited ==
    ASSUME TypeOK, Next, NEW l \in issued' \ issued
    PROVE  /\ l[1] \in Tasks
           /\ task[l[1]].status \in {"READY", "BLOCKED", "PENDING"}
           /\ task'[l[1]].status \in Active
           /\ l = Lease(l[1], task'[l[1]].attempt, task'[l[1]].leased)
<1> DEFINE ready == [u \in Tasks |-> Reviewed(task, u)]
<1>1. Schedule
  BY DEF Next, Tick, Change, MissDeadline, MarkRunning, Succeed, Fail, Report, Command, Restart
<1>2. PICK t \in Leased(ready) : l = Lease(t, ready[t].attempt + 1, now)
  BY <1>1 DEF Schedule
<1>3. t \in Tasks /\ l[1] = t
  BY <1>2 DEF Leased, Lease
<1>4. ready[t] = Reviewed(task, t) /\ task'[t] = Assigned(ready, t)
  BY <1>1, <1>3 DEF Schedule, Becomes
<1> HIDE DEF ready
<1>5. ready[t].status = "READY" /\ ~Exhausted(ready, t)
  BY DEF Leased, Reached
<1>6. task[t].status \in {"READY", "BLOCKED", "PENDING"}
  BY <1>3, <1>4, <1>5, ReviewedType
<1>7. task'[t] = [status |-> "LEASED", attempt |-> ready[t].attempt + 1, leased |-> now, reason |-> "none"]
  BY <1>4, <1>5 DEF Assigned
<1>8. task'[t].status \in Active /\ task'[t].attempt = ready[t].attempt + 1 /\ task'[t].leased = now
  BY <1>7 DEF Active
<1> QED  BY <1>2, <1>3, <1>6, <1>8

\* LeasesAreCurrent is inductive.
LEMMA NextLeasesAreCurrent == TypeOK /\ LeasesAreCurrent /\ [Next]_vars => LeasesAreCurrent'
<1> SUFFICES ASSUME TypeOK, LeasesAreCurrent, [Next]_vars  PROVE LeasesAreCurrent'
  OBVIOUS
<1>1. CASE UNCHANGED vars
  BY <1>1 DEF vars, LeasesAreCurrent, LeaseIsCurrent, Over
<1>2. CASE Next
  <2>1. ASSUME NEW m \in issued'  PROVE LeaseIsCurrent(m)'
    <3>1. CASE m \in issued
      BY <1>2, <3>1, LeaseStaysCurrent DEF LeasesAreCurrent
    <3>2. CASE m \notin issued
      BY <1>2, <3>2, LeasedTasksWaited DEF LeaseIsCurrent
    <3> QED  BY <3>1, <3>2
  <2> QED  BY <2>1 DEF LeasesAreCurrent
<1> QED  BY <1>1, <1>2

\* No lease is handed out while an earlier attempt of the same task may still be
\* worked on: it has reported, or its time is over.
THEOREM OneAttemptAtATime == Spec => AttemptsDoNotOverlap
<1>1. Init => LeasesAreCurrent
  BY DEF Init, LeasesAreCurrent
<1>2. TypeOK /\ LeasesAreCurrent /\ [Next]_vars =>
         [\A l \in issued' \ issued : \A m \in issued : m[1] = l[1] /\ m[2] < l[2] => Over(m)]_vars
  <2> SUFFICES ASSUME TypeOK, LeasesAreCurrent, Next,
                      NEW l \in issued' \ issued, NEW m \in issued, m[1] = l[1]
               PROVE  Over(m)
    BY DEF vars
  <2>1. task[m[1]].status \in {"READY", "BLOCKED", "PENDING"}
    BY LeasedTasksWaited
  <2>2. LeaseIsCurrent(m)
    BY DEF LeasesAreCurrent
  <2> QED  BY <2>1, <2>2 DEF LeaseIsCurrent, Terminal, Active
<1> QED  BY <1>1, <1>2, NextLeasesAreCurrent, InitTypeOK, NextTypeOK, PTL DEF Spec, AttemptsDoNotOverlap
=============================================================================
