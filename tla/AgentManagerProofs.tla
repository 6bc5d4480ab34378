------------------------- MODULE AgentManagerProofs -------------------------
(***************************************************************************)
(* Proofs about the agent manager, for any mission, any pool of workers    *)
(* and any number of faults.                                               *)
(***************************************************************************)
EXTENDS AgentManager, FiniteTheorems, FiniteSetTheorems, TLAPS

-----------------------------------------------------------------------------
(* The invariant.                                                          *)

Configurations == [Tasks -> TaskRecord]

\* What the record r of task t says about leases, with the grants g, the worker runs
\* that were started p and the leases with an artifact a.  A lease for work names the
\* producer; a task is verified by another worker than the one of its evidence; and the
\* result of an analysis waits for verification under a lease that is not dispatched.
Sound(t, r, g, p, a) ==
    /\ r.lease # NoLease => <<t, r.lease>> \in DOMAIN g
    /\ r.dispatch # NoLease => <<t, r.dispatch>> \in p
    /\ r.status = "LEASED" \/ (r.status = "RUNNING" /\ ~r.rca) =>
          /\ r.lease # NoLease
          /\ g[<<t, r.lease>>].role = "work"
          /\ g[<<t, r.lease>>].worker = r.producer
    /\ r.status = "VERIFYING" => r.evidence # NoLease
    /\ r.status = "VERIFYING" /\ r.rca => r.dispatch # r.lease
    /\ r.status = "DONE" \/ (r.status = "VERIFYING" /\ ~r.rca) =>
          /\ r.lease # NoLease
          /\ <<t, r.evidence>> \in a
          /\ g[<<t, r.evidence>>].role = "work"
          /\ g[<<t, r.lease>>].role = "verify"
          /\ g[<<t, r.evidence>>].worker # g[<<t, r.lease>>].worker
    /\ r.status = "DONE" => <<t, r.lease>> \in a

AllSound(c, g, p, a) == \A t \in Tasks : Sound(t, c[t], g, p, a)

\* The loop of the running step only has tasks that its condition selected, and none
\* of them waits for the verification of an analysis.
LoopInv ==
    /\ pc = "poll" => todo \subseteq Awaited(config)
    /\ pc = "dispatch" =>
          /\ todo \subseteq Undispatched(config)
          /\ \A t \in Tasks : ~(config[t].status = "VERIFYING" /\ config[t].rca)

\* Work follows the dependencies, and a task that needs its owner is never worked on.
Ordered(c) ==
    \A t \in Tasks :
        /\ t \in OwnerTasks => c[t].status \in {"PENDING", "OWNER_REQUIRED"}
        /\ c[t].status \notin {"PENDING", "OWNER_REQUIRED"} =>
              \A d \in Dependencies[t] : c[d].status = "DONE"

InProgress(c) == {t \in Tasks : c[t].status \in Active \cup {"TRIAGE"}}

\* The limits on the leases.
Within(c) ==
    /\ \A w \in Workers : Load(c, w, {}) <= Capacity[w]
    /\ Cardinality(InProgress(c)) <= MaxParallel

Good(c, g, p, a) == AllSound(c, g, p, a) /\ Ordered(c) /\ Within(c)

\* TypeOK, but for the leases of the configurations, which AllSound finds among the
\* grants.
Basics ==
    /\ cache \in Configurations /\ file \in Configurations /\ config \in Configurations
    /\ pc \in {"idle", "poll", "manage", "dispatch", "save"}
    /\ todo \subseteq Tasks /\ renewed \subseteq Tasks
    /\ grants \in [DOMAIN grants -> [worker : Workers, role : Roles]]
    /\ posted \subseteq DOMAIN grants /\ DOMAIN grants \subseteq Leases
    /\ DOMAIN artifacts \subseteq posted
    /\ artifacts \in [DOMAIN artifacts -> Result]
    /\ faults \in 0..MaxFaults

Inv ==
    /\ Basics
    /\ IsFiniteSet(DOMAIN grants)
    /\ Good(cache, grants, posted, DOMAIN artifacts)
    /\ Good(file, grants, posted, DOMAIN artifacts)
    /\ Good(config, grants, posted, DOMAIN artifacts)
    /\ LoopInv

-----------------------------------------------------------------------------
(* New leases.                                                             *)

\* A lease that is issued is one that no runtime and no worker run has seen.
LEMMA LeaseIsNew ==
    ASSUME TypeOK, IsFiniteSet(DOMAIN grants), NEW t \in Tasks
    PROVE  /\ NewLease(t) \in Nat \ {0}
           /\ <<t, NewLease(t)>> \in Leases
           /\ <<t, NewLease(t)>> \notin Seen
<1> DEFINE X == {m \in Seen : m[1] = t}
           f == [l \in X |-> l[2]]
           Y == {l[2] : l \in X}
           N == {NoLease} \cup Y
<1>1. Seen \subseteq DOMAIN grants /\ Seen \subseteq Leases
  BY DEF TypeOK, Seen, Configs
<1>2. IsFiniteSet(Y)
  <2>1. IsFiniteSet(X)
    BY <1>1, FS_Subset
  <2>2. f \in Surjection(X, Y)
    BY DEF Surjection
  <2> QED  BY <2>1, <2>2, FS_Surjection
<1>3. N \in SUBSET Nat
  BY <1>1 DEF Leases, NoLease
<1>4. IsFiniteSet(N) /\ N # {}
  BY <1>2, FS_Singleton, FS_Union
<1>5. PICK m \in N : \A u \in N : u <= m
  BY <1>3, <1>4, LargestExists
<1>6. Max(N) \in N /\ \A u \in N : Max(N) >= u
  <2>1. \A u \in N : m >= u
    BY <1>3, <1>5
  <2> HIDE DEF N
  <2> QED  BY <2>1 DEF Max
<1>7. NewLease(t) = 1 + Max(N)
  BY DEF NewLease
<1>8. Max(N) \in Nat
  BY <1>3, <1>6
<1>9. \A l \in X : NewLease(t) # l[2]
  <2> SUFFICES ASSUME NEW l \in X PROVE NewLease(t) # l[2]
    OBVIOUS
  <2>1. l[2] \in N /\ l[2] \in Nat
    BY <1>3
  <2> HIDE DEF N
  <2> QED  BY <2>1, <1>6, <1>7, <1>8
<1>10. NewLease(t) \in Nat \ {0}
  <2> HIDE DEF N
  <2> QED  BY <1>7, <1>8
<1>11. <<t, NewLease(t)>> \notin Seen
  <2> SUFFICES ASSUME <<t, NewLease(t)>> \in Seen PROVE FALSE
    OBVIOUS
  <2>1. <<t, NewLease(t)>> \in X
    OBVIOUS
  <2>2. NewLease(t) # <<t, NewLease(t)>>[2]
    BY <1>9, <2>1
  <2> QED  BY <2>2
<1> QED  BY <1>10, <1>11 DEF Leases

\* Granting leases to the tasks of S keeps every grant that is still referred to.
LEMMA GrantsGrow ==
    ASSUME TypeOK, IsFiniteSet(DOMAIN grants), NEW S \in SUBSET Tasks, NEW c, NEW roleOf,
           \A t \in S : c[t].worker \in Workers /\ roleOf[t] \in Roles,
           Grant(S, c, roleOf)
    PROVE  /\ DOMAIN grants' = Seen \cup {<<t, NewLease(t)>> : t \in S}
           /\ DOMAIN grants' \subseteq Leases
           /\ grants' \in [DOMAIN grants' -> [worker : Workers, role : Roles]]
           /\ IsFiniteSet(DOMAIN grants')
           /\ \A l \in Seen : grants'[l] = grants[l]
           /\ \A t \in S : /\ grants'[<<t, NewLease(t)>>].worker = c[t].worker
                           /\ grants'[<<t, NewLease(t)>>].role = roleOf[t]
<1> DEFINE new == {<<t, NewLease(t)>> : t \in S}
<1>1. Seen \subseteq DOMAIN grants /\ Seen \cap DOMAIN grants = Seen /\ DOMAIN grants \subseteq Leases
  BY DEF TypeOK, Seen, Configs
<1>2. new \subseteq Leases /\ new \cap Seen = {}
  BY LeaseIsNew
<1>3. grants' = [l \in new \cup Seen |->
                    IF l \in new THEN [worker |-> c[l[1]].worker, role |-> roleOf[l[1]]] ELSE grants[l]]
  BY <1>1 DEF Grant
<1>4. \A l \in Seen : grants'[l] = grants[l] /\ grants[l] \in [worker : Workers, role : Roles]
  BY <1>1, <1>2, <1>3 DEF TypeOK
<1>5. \A t \in S : grants'[<<t, NewLease(t)>>] = [worker |-> c[t].worker, role |-> roleOf[t]]
  <2> SUFFICES ASSUME NEW t \in S
               PROVE  grants'[<<t, NewLease(t)>>] = [worker |-> c[t].worker, role |-> roleOf[t]]
    OBVIOUS
  <2>1. <<t, NewLease(t)>> \in new /\ <<t, NewLease(t)>>[1] = t
    OBVIOUS
  <2> HIDE DEF new
  <2> QED  BY <2>1, <1>3
<1>6. DOMAIN grants' = Seen \cup new
  BY <1>3
<1>7. grants' \in [DOMAIN grants' -> [worker : Workers, role : Roles]]
  <2>1. \A t \in S : [worker |-> c[t].worker, role |-> roleOf[t]] \in [worker : Workers, role : Roles]
    OBVIOUS
  <2>2. \A l \in new : grants'[l] \in [worker : Workers, role : Roles]
    BY <1>5, <2>1
  <2> HIDE DEF new
  <2> QED  BY <2>2, <1>3, <1>4, <1>6
<1>8. IsFiniteSet(new)
  <2> DEFINE f == [t \in S |-> <<t, NewLease(t)>>]
  <2>1. IsFiniteSet(S)
    BY TasksAssumption, FS_Subset
  <2>2. f \in Surjection(S, new)
    BY DEF Surjection
  <2> QED  BY <2>1, <2>2, FS_Surjection
<1>9. IsFiniteSet(DOMAIN grants')
  <2>1. IsFiniteSet(Seen)
    BY <1>1, FS_Subset
  <2> QED  BY <2>1, <1>6, <1>8, FS_Union
<1>10. \A t \in S : /\ grants'[<<t, NewLease(t)>>].worker = c[t].worker
                    /\ grants'[<<t, NewLease(t)>>].role = roleOf[t]
  <2> TAKE t \in S
  <2>1. grants'[<<t, NewLease(t)>>] = [worker |-> c[t].worker, role |-> roleOf[t]]
    BY <1>5
  <2> QED  BY <2>1
<1>11. DOMAIN grants' \subseteq Leases
  BY <1>1, <1>2, <1>6
<1> QED  BY <1>4, <1>6, <1>7, <1>9, <1>10, <1>11

\* A record stays sound when worker runs are started, results arrive and grants are
\* added.
LEMMA SoundStays ==
    ASSUME NEW t, NEW r, NEW g, NEW p, NEW a, NEW h, NEW q, NEW b,
           Sound(t, r, g, p, a), a \subseteq p, p \subseteq DOMAIN g, p \subseteq q, a \subseteq b,
           \A l \in p \cup {<<t, r.lease>>} : l \in DOMAIN g => l \in DOMAIN h /\ h[l] = g[l]
    PROVE  Sound(t, r, h, q, b)
<1>1. r.lease # NoLease => <<t, r.lease>> \in DOMAIN h /\ h[<<t, r.lease>>] = g[<<t, r.lease>>]
  BY DEF Sound
<1>2. <<t, r.evidence>> \in a => h[<<t, r.evidence>>] = g[<<t, r.evidence>>]
  OBVIOUS
<1>3. r.dispatch # NoLease => <<t, r.dispatch>> \in q
  BY DEF Sound
<1> QED  BY <1>1, <1>2, <1>3 DEF Sound

-----------------------------------------------------------------------------
(* The passes of the manager over the tasks.                               *)

\* The values the passes assign.
LEMMA Values ==
    /\ {"PENDING", "READY", "TRIAGE", "BLOCKED", "DONE", "OWNER_REQUIRED",
        "LEASED", "RUNNING", "VERIFYING"} \subseteq Statuses
    /\ {"none", "owner", "no_verifier", "no_analyst", "specialized"} \subseteq Reasons
    /\ NoLease \in Nat /\ Nobody \in Workers \cup {Nobody} /\ {0, 1} \subseteq 0..1
BY DEF Statuses, Active, Reasons, NoLease

\* A pass leaves the record r of task t as it is or puts the task to rest, as e; a task
\* that is put to rest was released before, or is its owner's.  Leases are only dropped.
Rests(t, r, e) ==
    /\ e.lease \in {r.lease, NoLease} /\ e.dispatch \in {r.dispatch, NoLease}
    /\ \/ e = r
       \/ e.status \in {"READY", "BLOCKED"} /\ r.status \in Active \cup {"TRIAGE", "READY", "BLOCKED"}
       \/ e.status = "TRIAGE" /\ r.status \in Active
       \/ e.status = "OWNER_REQUIRED" /\ t \in OwnerTasks

AllRest(c, d) == d \in Configurations /\ \A t \in Tasks : Rests(t, c[t], d[t])

LEMMA RestsTwice ==
    ASSUME NEW c, NEW d, NEW e, AllRest(c, d), AllRest(d, e)
    PROVE  AllRest(c, e)
<1> SUFFICES ASSUME NEW t \in Tasks  PROVE Rests(t, c[t], e[t])
  BY DEF AllRest
<1>1. Rests(t, c[t], d[t]) /\ Rests(t, d[t], e[t])
  BY DEF AllRest
<1> QED  BY <1>1 DEF Rests, Active

LEMMA EnforceOwnerRests ==
    ASSUME NEW c \in Configurations
    PROVE  /\ AllRest(c, EnforceOwner(c))
           /\ \A t \in Tasks : IF t \in OwnerTasks THEN EnforceOwner(c)[t].status = "OWNER_REQUIRED"
                               ELSE EnforceOwner(c)[t] = c[t]
<1> SUFFICES ASSUME NEW t \in Tasks
             PROVE  /\ EnforceOwner(c)[t] \in TaskRecord /\ Rests(t, c[t], EnforceOwner(c)[t])
                    /\ IF t \in OwnerTasks THEN EnforceOwner(c)[t].status = "OWNER_REQUIRED"
                       ELSE EnforceOwner(c)[t] = c[t]
  BY DEF AllRest, Configurations, EnforceOwner
<1>1. PICK r \in TaskRecord : c[t] = r
  BY DEF Configurations
<1>2. CASE t \in OwnerTasks
  <2>1. EnforceOwner(c)[t] = [r EXCEPT !.status = "OWNER_REQUIRED", !.blocked = "owner",
                                       !.worker = Nobody, !.lease = NoLease]
    BY <1>1, <1>2 DEF EnforceOwner
  <2> DEFINE e == EnforceOwner(c)[t]
  <2>2. e \in TaskRecord
    BY <2>1, Values DEF TaskRecord
  <2>3. e.status = "OWNER_REQUIRED" /\ e.lease = NoLease /\ e.dispatch = r.dispatch
    BY <2>1 DEF TaskRecord
  <2> QED  BY <1>1, <1>2, <2>2, <2>3 DEF Rests
<1>3. CASE t \notin OwnerTasks
  BY <1>1, <1>3 DEF EnforceOwner, Rests
<1> QED  BY <1>2, <1>3

LEMMA RecoverAnalysedRests ==
    ASSUME NEW c \in Configurations
    PROVE  /\ AllRest(c, RecoverAnalysed(c))
           /\ \A t \in Tasks : ~AnalysisCompleted(RecoverAnalysed(c)[t])
<1> SUFFICES ASSUME NEW t \in Tasks
             PROVE  /\ RecoverAnalysed(c)[t] \in TaskRecord /\ Rests(t, c[t], RecoverAnalysed(c)[t])
                    /\ ~AnalysisCompleted(RecoverAnalysed(c)[t])
  BY DEF AllRest, Configurations, RecoverAnalysed
<1>1. PICK r \in TaskRecord : c[t] = r
  BY DEF Configurations
<1>2. CASE AnalysisCompleted(r)
  <2>1. RecoverAnalysed(c)[t] =
            [r EXCEPT !.status = "READY", !.worker = Nobody, !.verifier = Nobody,
                      !.lease = NoLease, !.dispatch = NoLease, !.rca = FALSE,
                      !.findings = r.evidence, !.evidence = NoLease, !.blocked = "none"]
    BY <1>1, <1>2 DEF RecoverAnalysed
  <2> DEFINE e == RecoverAnalysed(c)[t]
  <2>2. e \in TaskRecord
    BY <2>1, Values DEF TaskRecord
  <2>3. e.status = "READY" /\ e.lease = NoLease /\ e.dispatch = NoLease
    BY <2>1 DEF TaskRecord
  <2> QED  BY <1>1, <1>2, <2>2, <2>3 DEF Rests, AnalysisCompleted, Active
<1>3. CASE ~AnalysisCompleted(r)
  BY <1>1, <1>3 DEF RecoverAnalysed, Rests
<1> QED  BY <1>2, <1>3

LEMMA RecoverBoundedRests ==
    ASSUME NEW c \in Configurations
    PROVE  AllRest(c, RecoverBounded(c))
<1> SUFFICES ASSUME NEW t \in Tasks
             PROVE  RecoverBounded(c)[t] \in TaskRecord /\ Rests(t, c[t], RecoverBounded(c)[t])
  BY DEF AllRest, Configurations, RecoverBounded
<1>1. PICK r \in TaskRecord : c[t] = r
  BY DEF Configurations
<1>2. CASE RecoverBounded(c)[t] = r
  BY <1>1, <1>2 DEF Rests
<1>3. CASE /\ r.status = "BLOCKED"
           /\ RecoverBounded(c)[t] = [r EXCEPT !.status = "READY", !.blocked = "none", !.rca = FALSE]
  BY <1>1, <1>3 DEF TaskRecord, Rests, Statuses, Reasons
<1> QED  BY <1>1, <1>2, <1>3 DEF RecoverBounded

LEMMA BlockSpecializedRests ==
    ASSUME NEW c \in Configurations
    PROVE  AllRest(c, BlockSpecialized(c))
<1> SUFFICES ASSUME NEW t \in Tasks
             PROVE  BlockSpecialized(c)[t] \in TaskRecord /\ Rests(t, c[t], BlockSpecialized(c)[t])
  BY DEF AllRest, Configurations, BlockSpecialized
<1>1. PICK r \in TaskRecord : c[t] = r
  BY DEF Configurations
<1>2. CASE BlockSpecialized(c)[t] = r
  BY <1>1, <1>2 DEF Rests
<1>3. CASE /\ r.status \in {"TRIAGE", "READY", "BLOCKED"}
           /\ BlockSpecialized(c)[t] =
                  [r EXCEPT !.status = "BLOCKED", !.blocked = "specialized", !.rca = FALSE,
                            !.worker = Nobody, !.verifier = Nobody,
                            !.lease = NoLease, !.dispatch = NoLease]
  <2> DEFINE e == BlockSpecialized(c)[t]
  <2>1. e \in TaskRecord
    BY <1>3, Values DEF TaskRecord
  <2>2. e.status = "BLOCKED" /\ e.lease = NoLease /\ e.dispatch = NoLease
    BY <1>3 DEF TaskRecord
  <2> QED  BY <1>1, <1>3, <2>1, <2>2 DEF Rests
<1> QED  BY <1>1, <1>2, <1>3 DEF BlockSpecialized

LEMMA ExpireRests ==
    ASSUME NEW c \in Configurations, NEW late \in SUBSET ActiveTasks(c)
    PROVE  AllRest(c, Expire(c, late))
<1> SUFFICES ASSUME NEW t \in Tasks
             PROVE  Expire(c, late)[t] \in TaskRecord /\ Rests(t, c[t], Expire(c, late)[t])
  BY DEF AllRest, Configurations, Expire
<1>1. PICK r \in TaskRecord : c[t] = r
  BY DEF Configurations
<1>2. CASE t \in late
  <2>1. Expire(c, late)[t] = [r EXCEPT !.status = "TRIAGE", !.worker = Nobody] /\ r.status \in Active
    BY <1>1, <1>2 DEF Expire, ActiveTasks
  <2> QED  BY <1>1, <2>1 DEF TaskRecord, Rests, Statuses
<1>3. CASE t \notin late
  BY <1>1, <1>3 DEF Expire, Rests
<1> QED  BY <1>2, <1>3

\* The passes before the leases are looked at: afterwards no analysis waits for
\* verification, and the tasks of the owner are the owner's.
LEMMA RepairedRests ==
    ASSUME NEW c \in Configurations,
           \A t \in Tasks : c[t].status = "VERIFYING" => c[t].evidence # NoLease
    PROVE  /\ AllRest(c, Repaired(c))
           /\ \A t \in OwnerTasks : Repaired(c)[t].status = "OWNER_REQUIRED"
           /\ \A t \in Tasks : ~(Repaired(c)[t].status = "VERIFYING" /\ Repaired(c)[t].rca)
<1> DEFINE c1 == RecoverAnalysed(c)
           c2 == RecoverBounded(c1)
           c3 == BlockSpecialized(c2)
<1>1. AllRest(c, c1) /\ \A t \in Tasks : ~AnalysisCompleted(c1[t])
  BY RecoverAnalysedRests
<1>2. c1 \in Configurations
  BY <1>1 DEF AllRest
<1>3. AllRest(c1, c2)
  BY <1>2, RecoverBoundedRests
<1>4. c2 \in Configurations
  BY <1>3 DEF AllRest
<1>5. AllRest(c2, c3)
  BY <1>4, BlockSpecializedRests
<1>6. c3 \in Configurations
  BY <1>5 DEF AllRest
<1>7. Repaired(c) = EnforceOwner(c3)
  BY DEF Repaired
<1>8. /\ AllRest(c3, Repaired(c))
      /\ \A t \in Tasks : t \in OwnerTasks => Repaired(c)[t].status = "OWNER_REQUIRED"
  BY <1>6, <1>7, EnforceOwnerRests
<1> HIDE DEF c1, c2, c3
<1>9. AllRest(c1, Repaired(c))
  BY <1>3, <1>5, <1>8, RestsTwice
<1>10. ASSUME NEW t \in Tasks, Repaired(c)[t].status = "VERIFYING"  PROVE ~Repaired(c)[t].rca
  <2>1. Repaired(c)[t] = c1[t]
    BY <1>9, <1>10 DEF AllRest, Rests
  <2>2. c1[t] = c[t]
    BY <1>1, <1>10, <2>1 DEF AllRest, Rests
  <2>3. c[t].rca \in BOOLEAN
    BY DEF Configurations, TaskRecord
  <2> QED  BY <1>1, <1>10, <2>1, <2>2, <2>3 DEF AnalysisCompleted
<1> QED  BY <1>1, <1>8, <1>9, <1>10, RestsTwice, TasksAssumption

\* What route_triage makes of a task: an analysis under a new lease, or nothing.
LEMMA RouteTriageGives ==
    ASSUME TypeOK, IsFiniteSet(DOMAIN grants), NEW c \in Configurations, NEW a \in AnalystChoices(c)
    PROVE  /\ RouteTriage(c, a) \in Configurations
           /\ \A t \in Tasks :
                 LET e == RouteTriage(c, a)[t]
                 IN  IF t \in Triaged(c) /\ a[t] # Nobody
                     THEN /\ e.status = "RUNNING" /\ e.rca /\ e.worker = a[t] /\ a[t] \in Workers
                          /\ e.lease = NewLease(t) /\ e.dispatch = c[t].dispatch
                     ELSE Rests(t, c[t], e) \/ (c[t].status = "TRIAGE" /\ e.status \in {"READY", "BLOCKED"}
                                                /\ e.lease = c[t].lease /\ e.dispatch = c[t].dispatch)
           /\ \A t \in Tasks : RouteTriage(c, a)[t].status # "TRIAGE"
<1> DEFINE d == RouteTriage(c, a)
<1> SUFFICES ASSUME NEW t \in Tasks
             PROVE  /\ d[t] \in TaskRecord
                    /\ d[t].status # "TRIAGE"
                    /\ IF t \in Triaged(c) /\ a[t] # Nobody
                       THEN /\ d[t].status = "RUNNING" /\ d[t].rca /\ d[t].worker = a[t] /\ a[t] \in Workers
                            /\ d[t].lease = NewLease(t) /\ d[t].dispatch = c[t].dispatch
                       ELSE Rests(t, c[t], d[t]) \/ (c[t].status = "TRIAGE" /\ d[t].status \in {"READY", "BLOCKED"}
                                /\ d[t].lease = c[t].lease /\ d[t].dispatch = c[t].dispatch)
  BY DEF Configurations, RouteTriage
<1>1. PICK r \in TaskRecord : c[t] = r
  BY DEF Configurations
<1>2. CASE r.status # "TRIAGE"
  BY <1>1, <1>2 DEF RouteTriage, Triaged, Rests
<1>3. CASE r.status = "TRIAGE" /\ RetriesDirectly(r)
  <2>1. d[t] = [r EXCEPT !.status = "READY", !.retries = 1]
    BY <1>1, <1>3 DEF RouteTriage
  <2>2. d[t] \in TaskRecord
    BY <2>1, Values DEF TaskRecord
  <2>3. d[t].status = "READY" /\ d[t].lease = r.lease /\ d[t].dispatch = r.dispatch
    BY <2>1 DEF TaskRecord
  <2> QED  BY <1>1, <1>3, <2>2, <2>3 DEF Triaged, Rests
<1>4. CASE r.status = "TRIAGE" /\ ~RetriesDirectly(r) /\ a[t] = Nobody
  <2>1. d[t] = [r EXCEPT !.status = "BLOCKED", !.blocked = "no_analyst"]
    BY <1>1, <1>4 DEF RouteTriage
  <2>2. d[t] \in TaskRecord
    BY <2>1, Values DEF TaskRecord
  <2>3. d[t].status = "BLOCKED" /\ d[t].lease = r.lease /\ d[t].dispatch = r.dispatch
    BY <2>1 DEF TaskRecord
  <2> QED  BY <1>1, <1>4, <2>2, <2>3 DEF Triaged, Rests
<1>5. CASE r.status = "TRIAGE" /\ ~RetriesDirectly(r) /\ a[t] # Nobody
  <2>1. t \in Triaged(c)
    BY <1>1, <1>5 DEF Triaged
  <2>2. a[t] \in Workers
    BY <1>5, <2>1, RoutingAssumption DEF AnalystChoices, AnalystsFor
  <2>3. d[t] = [[r EXCEPT !.status = "RUNNING", !.worker = a[t], !.lease = NewLease(t)] EXCEPT !.rca = TRUE]
    BY <1>1, <1>5 DEF RouteTriage, Leased
  <2>4. NewLease(t) \in Nat
    BY LeaseIsNew
  <2>5. d[t] \in TaskRecord
    BY <2>2, <2>3, <2>4, Values DEF TaskRecord
  <2>6. /\ d[t].status = "RUNNING" /\ d[t].rca /\ d[t].worker = a[t]
        /\ d[t].lease = NewLease(t) /\ d[t].dispatch = r.dispatch
    BY <2>3 DEF TaskRecord
  <2> QED  BY <1>1, <1>5, <2>1, <2>2, <2>5, <2>6
<1> QED  BY <1>2, <1>3, <1>4, <1>5

\* release_ready_tasks
LEMMA ReleaseReadyGives ==
    ASSUME NEW c \in Configurations
    PROVE  /\ ReleaseReady(c) \in Configurations
           /\ \A t \in Tasks :
                 LET e == ReleaseReady(c)[t]
                 IN  \/ e = c[t]
                     \/ /\ c[t].status = "PENDING" /\ e.status = "READY"
                        /\ \A d \in Dependencies[t] : c[d].status = "DONE"
                        /\ e.lease = c[t].lease /\ e.dispatch = c[t].dispatch
<1> DEFINE b == ReleaseReady(c)
<1> SUFFICES ASSUME NEW t \in Tasks
             PROVE  /\ b[t] \in TaskRecord
                    /\ \/ b[t] = c[t]
                       \/ /\ c[t].status = "PENDING" /\ b[t].status = "READY"
                          /\ \A d \in Dependencies[t] : c[d].status = "DONE"
                          /\ b[t].lease = c[t].lease /\ b[t].dispatch = c[t].dispatch
  BY DEF Configurations, ReleaseReady
<1>1. PICK r \in TaskRecord : c[t] = r
  BY DEF Configurations
<1>2. CASE r.status = "PENDING" /\ \A d \in Dependencies[t] : c[d].status = "DONE"
  <2>1. b[t] = [r EXCEPT !.status = "READY"]
    BY <1>1, <1>2 DEF ReleaseReady
  <2>2. b[t] \in TaskRecord
    BY <2>1, Values DEF TaskRecord
  <2>3. b[t].status = "READY" /\ b[t].lease = r.lease /\ b[t].dispatch = r.dispatch
    BY <2>1 DEF TaskRecord
  <2> QED  BY <1>1, <1>2, <2>2, <2>3
<1>3. CASE ~(r.status = "PENDING" /\ \A d \in Dependencies[t] : c[d].status = "DONE")
  BY <1>1, <1>3 DEF ReleaseReady
<1> QED  BY <1>2, <1>3

\* assign_ready_tasks
LEMMA AssignReadyGives ==
    ASSUME TypeOK, IsFiniteSet(DOMAIN grants), NEW c \in Configurations, NEW a \in WorkerChoices(c)
    PROVE  /\ AssignReady(c, a) \in Configurations
           /\ \A t \in Tasks :
                 LET e == AssignReady(c, a)[t]
                 IN  IF t \in Ready(c) /\ a[t] # Nobody
                     THEN /\ e.status = "LEASED" /\ e.worker = a[t] /\ e.producer = a[t] /\ a[t] \in Workers
                          /\ e.lease = NewLease(t) /\ e.dispatch = c[t].dispatch
                     ELSE e = c[t]
<1> DEFINE d == AssignReady(c, a)
<1> SUFFICES ASSUME NEW t \in Tasks
             PROVE  /\ d[t] \in TaskRecord
                    /\ IF t \in Ready(c) /\ a[t] # Nobody
                       THEN /\ d[t].status = "LEASED" /\ d[t].worker = a[t] /\ d[t].producer = a[t] /\ a[t] \in Workers
                            /\ d[t].lease = NewLease(t) /\ d[t].dispatch = c[t].dispatch
                       ELSE d[t] = c[t]
  BY DEF Configurations, AssignReady
<1>1. PICK r \in TaskRecord : c[t] = r
  BY DEF Configurations
<1>2. CASE t \in Ready(c) /\ a[t] # Nobody
  <2>1. a[t] \in Workers
    BY <1>2 DEF WorkerChoices
  <2>2. d[t] = [[r EXCEPT !.status = "LEASED", !.worker = a[t], !.lease = NewLease(t)] EXCEPT !.producer = a[t]]
    BY <1>1, <1>2 DEF AssignReady, Leased
  <2>3. NewLease(t) \in Nat
    BY LeaseIsNew
  <2>4. d[t] \in TaskRecord
    BY <2>1, <2>2, <2>3, Values DEF TaskRecord
  <2>5. /\ d[t].status = "LEASED" /\ d[t].worker = a[t] /\ d[t].producer = a[t]
        /\ d[t].lease = NewLease(t) /\ d[t].dispatch = r.dispatch
    BY <2>2 DEF TaskRecord
  <2> QED  BY <1>1, <1>2, <2>1, <2>4, <2>5
<1>3. CASE ~(t \in Ready(c) /\ a[t] # Nobody)
  BY <1>1, <1>3 DEF AssignReady
<1> QED  BY <1>2, <1>3

-----------------------------------------------------------------------------
(* What keeps a configuration good.                                        *)

\* A worker has no more leases when it has them for fewer tasks.
LEMMA LoadShrinks ==
    ASSUME NEW c, NEW d, NEW w,
           \A t \in Tasks : d[t].status \in Active /\ d[t].worker = w => c[t].status \in Active /\ c[t].worker = w
    PROVE  Load(d, w, {}) <= Load(c, w, {})
<1> DEFINE C == {t \in ActiveTasks(c) \ {} : c[t].worker = w}
           D == {t \in ActiveTasks(d) \ {} : d[t].worker = w}
<1>1. D \subseteq C /\ C \subseteq Tasks
  BY DEF ActiveTasks
<1>2. IsFiniteSet(C)
  BY <1>1, TasksAssumption, FS_Subset
<1> QED  BY <1>1, <1>2, FS_Subset DEF Load

LEMMA ProgressShrinks ==
    ASSUME NEW c, NEW d, InProgress(d) \subseteq InProgress(c)
    PROVE  Cardinality(InProgress(d)) <= Cardinality(InProgress(c))
BY TasksAssumption, FS_Subset DEF InProgress

\* Loads and sizes are numbers.
LEMMA Counted ==
    ASSUME NEW c
    PROVE  /\ \A w, x : Load(c, w, x) \in Nat
           /\ Cardinality(InProgress(c)) \in Nat
<1>1. \A w, x : {t \in ActiveTasks(c) \ x : c[t].worker = w} \subseteq Tasks /\ InProgress(c) \subseteq Tasks
  BY DEF ActiveTasks, InProgress
<1>2. \A S \in SUBSET Tasks : Cardinality(S) \in Nat
  BY TasksAssumption, FS_Subset, FS_CardinalityType
<1> QED  BY <1>1, <1>2 DEF Load

LEMMA CapacityType == MaxParallel \in Nat /\ \A w \in Workers : Capacity[w] \in Nat
BY CapacityAssumption

\* The passes that put tasks to rest.
LEMMA RestWithin ==
    ASSUME NEW c, NEW d, AllRest(c, d), Within(c)
    PROVE  Within(d)
<1>1. ASSUME NEW w \in Workers  PROVE Load(d, w, {}) <= Capacity[w]
  <2>1. ASSUME NEW t \in Tasks, d[t].status \in Active  PROVE d[t] = c[t]
    BY <2>1 DEF AllRest, Rests, Active
  <2>2. Load(d, w, {}) <= Load(c, w, {})
    BY <2>1, LoadShrinks
  <2>3. Load(d, w, {}) \in Nat /\ Load(c, w, {}) \in Nat /\ Load(c, w, {}) <= Capacity[w]
    BY Counted DEF Within
  <2> QED  BY <2>2, <2>3, CapacityType
<1>2. InProgress(d) \subseteq InProgress(c)
  BY DEF InProgress, AllRest, Rests, Active
<1> QED  BY <1>1, <1>2, ProgressShrinks, Counted, CapacityType DEF Within

LEMMA RestOrdered ==
    ASSUME NEW c, NEW d, AllRest(c, d), Ordered(c)
    PROVE  Ordered(d)
<1>1. ASSUME NEW t \in Tasks, c[t].status = "DONE"  PROVE d[t].status = "DONE"
  BY <1>1 DEF AllRest, Rests, Ordered, Active
<1>2. ASSUME NEW t \in Tasks  PROVE d[t].status \notin {"PENDING", "OWNER_REQUIRED"} =>
                                        c[t].status \notin {"PENDING", "OWNER_REQUIRED"}
  BY DEF AllRest, Rests, Active
<1>3. \A t \in Tasks : Dependencies[t] \subseteq Tasks
  BY RoutingAssumption
<1> QED  BY <1>1, <1>2, <1>3 DEF Ordered

LEMMA RestSound ==
    ASSUME NEW t, NEW r, NEW e, NEW g, NEW p, NEW a, Sound(t, r, g, p, a), Rests(t, r, e)
    PROVE  Sound(t, e, g, p, a)
BY DEF Sound, Rests

LEMMA RestGood ==
    ASSUME NEW c, NEW d, NEW g, NEW p, NEW a, Good(c, g, p, a), AllRest(c, d)
    PROVE  Good(d, g, p, a)
BY RestWithin, RestOrdered, RestSound DEF Good, AllSound, AllRest

\* A step about one task that has a lease.
LEMMA OneOrdered ==
    ASSUME NEW c \in Configurations, NEW t \in Tasks, NEW e \in TaskRecord, Ordered(c),
           c[t].status \in Active, e.status \notin {"PENDING", "OWNER_REQUIRED"}
    PROVE  Ordered([c EXCEPT ![t] = e])
<1> DEFINE d == [c EXCEPT ![t] = e]
<1>1. \A u \in Tasks : c[u].status = "DONE" => d[u] = c[u]
  BY DEF Configurations, Active
<1>2. t \notin OwnerTasks /\ c[t].status \notin {"PENDING", "OWNER_REQUIRED"}
  BY DEF Ordered, Active
<1>3. d[t] = e /\ \A u \in Tasks \ {t} : d[u] = c[u]
  BY DEF Configurations
<1>4. \A u \in Tasks : Dependencies[u] \subseteq Tasks
  BY RoutingAssumption
<1> HIDE DEF d
<1> QED  BY <1>1, <1>2, <1>3, <1>4 DEF Ordered

LEMMA OneWithin ==
    ASSUME NEW c \in Configurations, NEW t \in Tasks, NEW e \in TaskRecord, Within(c),
           c[t].status \in Active,
           \/ e.status \notin Active
           \/ e.worker = c[t].worker
           \/ e.worker \in Workers /\ Load(c, e.worker, {t}) < Capacity[e.worker]
    PROVE  Within([c EXCEPT ![t] = e])
<1> DEFINE d == [c EXCEPT ![t] = e]
<1>1. d[t] = e /\ \A u \in Tasks \ {t} : d[u] = c[u]
  BY DEF Configurations
<1> HIDE DEF d
<1>2. InProgress(d) \subseteq InProgress(c)
  BY <1>1 DEF InProgress
<1>3. ASSUME NEW w \in Workers  PROVE Load(d, w, {}) <= Capacity[w]
  <2>1. CASE e.status \in Active => e.worker # w \/ c[t].worker = w
    <3>1. \A u \in Tasks : d[u].status \in Active /\ d[u].worker = w => c[u].status \in Active /\ c[u].worker = w
      BY <1>1, <2>1
    <3>2. Load(d, w, {}) <= Load(c, w, {})
      BY <3>1, LoadShrinks
    <3>3. Load(d, w, {}) \in Nat /\ Load(c, w, {}) \in Nat /\ Load(c, w, {}) <= Capacity[w]
      BY Counted DEF Within
    <3> QED  BY <3>2, <3>3, CapacityType
  <2>2. CASE e.status \in Active /\ e.worker = w /\ c[t].worker # w
    <3> DEFINE others == {u \in ActiveTasks(c) \ {t} : c[u].worker = w}
    <3>1. {u \in ActiveTasks(d) \ {} : d[u].worker = w} = others \cup {t}
      BY <1>1, <2>2 DEF ActiveTasks
    <3>2. IsFiniteSet(others) /\ t \notin others
      BY TasksAssumption, FS_Subset DEF ActiveTasks
    <3>3. Cardinality(others \cup {t}) = Cardinality(others) + 1
      BY <3>2, FS_AddElement
    <3>4. Load(d, w, {}) = Load(c, w, {t}) + 1
      BY <3>1, <3>3 DEF Load
    <3>5. Load(c, w, {t}) < Capacity[w]
      BY <2>2
    <3>6. Load(c, w, {t}) \in Nat
      BY Counted
    <3> QED  BY <3>4, <3>5, <3>6, CapacityType
  <2> QED  BY <2>1, <2>2
<1>4. Within(d)
  <2>1. Cardinality(InProgress(d)) <= Cardinality(InProgress(c))
    BY <1>2, ProgressShrinks
  <2>2. Cardinality(InProgress(d)) \in Nat /\ Cardinality(InProgress(c)) \in Nat
    BY Counted
  <2> QED  BY <1>3, <2>1, <2>2, CapacityType DEF Within
<1> QED  BY <1>4 DEF d

\* Grants that are added, worker runs that are started and results that arrive leave
\* every configuration good.
LEMMA GoodStays ==
    ASSUME NEW c, NEW g, NEW p, NEW a, NEW h, NEW q, NEW b,
           Good(c, g, p, a), a \subseteq p, p \subseteq DOMAIN g, p \subseteq q, a \subseteq b,
           DOMAIN g \subseteq Leases,
           \A l \in p \cup Held(c) : l \in DOMAIN h /\ h[l] = g[l]
    PROVE  Good(c, h, q, b)
<1> SUFFICES ASSUME NEW t \in Tasks  PROVE Sound(t, c[t], h, q, b)
  BY DEF Good, AllSound
<1>1. Sound(t, c[t], g, p, a)
  BY DEF Good, AllSound
<1>2. c[t].lease # NoLease => <<t, c[t].lease>> \in Held(c)
  BY DEF Held
<1>3. c[t].lease = NoLease => <<t, c[t].lease>> \notin DOMAIN g
  BY DEF Leases, NoLease
<1> QED  BY <1>1, <1>2, <1>3, SoundStays

LEMMA InvTypeOK == Inv => TypeOK
<1> SUFFICES ASSUME Inv  PROVE TypeOK
  OBVIOUS
<1>1. ASSUME NEW c, Good(c, grants, posted, DOMAIN artifacts)  PROVE Held(c) \subseteq DOMAIN grants
  BY <1>1 DEF Good, AllSound, Sound, Held
<1>2. \A c \in Configs : Held(c) \subseteq DOMAIN grants
  BY <1>1 DEF Inv, Configs
<1> QED  BY <1>2 DEF Inv, Basics, TypeOK, Configurations

-----------------------------------------------------------------------------
(* The initial state.                                                      *)

LEMMA InitInv == Init => Inv
<1> SUFFICES ASSUME Init  PROVE Inv
  OBVIOUS
<1>1. Fresh \in TaskRecord
  BY Values DEF Fresh, TaskRecord
<1>2. cache \in Configurations /\ file = cache /\ config = cache /\ \A t \in Tasks : cache[t] = Fresh
  BY <1>1 DEF Init, Configurations
<1>3. DOMAIN grants = {} /\ DOMAIN artifacts = {} /\ posted = {}
  BY DEF Init
<1>4. Basics
  BY <1>2, <1>3, CapacityAssumption DEF Init, Basics
<1>5. Good(cache, grants, posted, DOMAIN artifacts)
  <2>1. \A t \in Tasks : cache[t].status = "PENDING" /\ cache[t].lease = NoLease /\ cache[t].dispatch = NoLease
    BY <1>2 DEF Fresh
  <2>2. AllSound(cache, grants, posted, DOMAIN artifacts)
    BY <2>1 DEF AllSound, Sound
  <2>3. Ordered(cache)
    BY <2>1 DEF Ordered
  <2>4. ASSUME NEW w \in Workers  PROVE Load(cache, w, {}) <= Capacity[w]
    <3>1. {t \in ActiveTasks(cache) \ {} : cache[t].worker = w} = {}
      BY <2>1 DEF ActiveTasks, Active
    <3>2. Load(cache, w, {}) = 0
      BY <3>1, FS_EmptySet DEF Load
    <3> QED  BY <3>2, CapacityType
  <2>5. InProgress(cache) = {}
    BY <2>1 DEF InProgress, Active
  <2>6. Cardinality(InProgress(cache)) = 0
    BY <2>5, FS_EmptySet
  <2>7. Within(cache)
    BY <2>4, <2>6, CapacityType DEF Within
  <2> QED  BY <2>2, <2>3, <2>7 DEF Good
<1>6. LoopInv
  BY DEF Init, LoopInv
<1> QED  BY <1>2, <1>3, <1>4, <1>5, <1>6, FS_EmptySet DEF Inv

-----------------------------------------------------------------------------
(* The steps that copy a configuration.                                    *)

LEMMA StartJobInv == ASSUME Inv, StartJob  PROVE Inv'
<1>1. AllRest(cache, EnforceOwner(cache))
  BY EnforceOwnerRests DEF Inv, Basics
<1>2. config' \in Configurations /\ Good(config', grants, posted, DOMAIN artifacts)
  BY <1>1, RestGood DEF StartJob, AllRest, Inv
<1>3. Basics'
  BY <1>2 DEF StartJob, Inv, Basics, workerVars, Awaited
<1>4. LoopInv'
  BY DEF StartJob, LoopInv
<1> QED  BY <1>2, <1>3, <1>4 DEF Inv, StartJob, workerVars

LEMMA PollRaisesInv == ASSUME Inv, NEW t \in Tasks, PollRaises(t)  PROVE Inv'
<1>1. faults' \in 0..MaxFaults
  BY CapacityAssumption DEF PollRaises, Fault, Inv, Basics
<1> QED  BY <1>1 DEF PollRaises, Inv, Basics, LoopInv, workerVars

LEMMA EndPollInv == ASSUME Inv, EndPoll  PROVE Inv'
BY DEF EndPoll, Inv, Basics, LoopInv, workerVars

LEMMA ManageRaisesInv == ASSUME Inv, ManageRaises  PROVE Inv'
<1>1. faults' \in 0..MaxFaults
  BY CapacityAssumption DEF ManageRaises, Fault, Inv, Basics
<1> QED  BY <1>1 DEF ManageRaises, Inv, Basics, LoopInv, workerVars

LEMMA EndDispatchInv == ASSUME Inv, EndDispatch  PROVE Inv'
BY DEF EndDispatch, Inv, Basics, LoopInv, workerVars

LEMMA SaveCacheInv == ASSUME Inv, SaveCache  PROVE Inv'
BY DEF SaveCache, Inv, Basics, LoopInv, workerVars

LEMMA RunnerLostInv == ASSUME Inv, RunnerLost  PROVE Inv'
<1>1. faults' \in 0..MaxFaults
  BY CapacityAssumption DEF RunnerLost, Fault, Inv, Basics
<1> QED  BY <1>1 DEF RunnerLost, Inv, Basics, LoopInv, workerVars

LEMMA PollNothingInv == ASSUME Inv, NEW t \in Tasks, PollNothing(t)  PROVE Inv'
BY DEF PollNothing, Inv, Basics, LoopInv, workerVars

-----------------------------------------------------------------------------
(* The steps about one task.                                               *)

\* The grants that are referred to stay, and all are well formed.
GrantsKept ==
    /\ IsFiniteSet(DOMAIN grants') /\ DOMAIN grants' \subseteq Leases
    /\ grants' \in [DOMAIN grants' -> [worker : Workers, role : Roles]]
    /\ \A l \in Seen : l \in DOMAIN grants' /\ grants'[l] = grants[l]

LEMMA SameGrants == ASSUME Inv, UNCHANGED grants  PROVE GrantsKept
<1>1. Seen \subseteq DOMAIN grants
  BY InvTypeOK DEF TypeOK, Seen, Configs
<1> QED  BY <1>1 DEF GrantsKept, Inv, Basics

\* Kept grants leave the three configurations good, whatever else is started or uploaded.
LEMMA GrantsKeptGood ==
    ASSUME Inv, GrantsKept, posted \subseteq posted', DOMAIN artifacts \subseteq DOMAIN artifacts'
    PROVE  /\ Good(cache, grants', posted', DOMAIN artifacts')
           /\ Good(file, grants', posted', DOMAIN artifacts')
           /\ Good(config, grants', posted', DOMAIN artifacts')
<1> DEFINE g == grants
           p == posted
           a == DOMAIN artifacts
           h == grants'
           q == posted'
           b == DOMAIN artifacts'
<1>1. a \subseteq p /\ p \subseteq DOMAIN g /\ p \subseteq q /\ a \subseteq b /\ DOMAIN g \subseteq Leases
  BY DEF Inv, Basics
<1>2. \A l \in p \cup Held(cache) \cup Held(file) \cup Held(config) : l \in DOMAIN h /\ h[l] = g[l]
  BY DEF GrantsKept, Seen
<1>3. Good(cache, g, p, a) /\ Good(file, g, p, a) /\ Good(config, g, p, a)
  BY DEF Inv
<1> HIDE DEF g, p, a, h, q, b
<1>4. Good(cache, h, q, b) /\ Good(file, h, q, b) /\ Good(config, h, q, b)
  BY <1>1, <1>2, <1>3, GoodStays
<1> QED  BY <1>4 DEF h, q, b

\* A step of the running job that puts the record of a task with a lease to e.
LEMMA OneTaskGood ==
    ASSUME Inv, GrantsKept, posted \subseteq posted', DOMAIN artifacts \subseteq DOMAIN artifacts',
           NEW t \in Tasks, NEW e \in TaskRecord, config' = [config EXCEPT ![t] = e],
           config[t].status \in Active, e.status \notin {"PENDING", "OWNER_REQUIRED"},
           Sound(t, e, grants', posted', DOMAIN artifacts'),
           \/ e.status \notin Active
           \/ e.worker = config[t].worker
           \/ e.worker \in Workers /\ Load(config, e.worker, {t}) < Capacity[e.worker]
    PROVE  /\ config' \in Configurations
           /\ config'[t] = e /\ \A u \in Tasks \ {t} : config'[u] = config[u]
           /\ Good(config', grants', posted', DOMAIN artifacts')
<1>1. config \in Configurations
  BY DEF Inv, Basics
<1>2. config' \in Configurations /\ config'[t] = e /\ \A u \in Tasks \ {t} : config'[u] = config[u]
  BY <1>1 DEF Configurations
<1>3. Good(config, grants', posted', DOMAIN artifacts')
  BY GrantsKeptGood
<1>4. AllSound(config', grants', posted', DOMAIN artifacts')
  BY <1>2, <1>3 DEF Good, AllSound
<1>5. Ordered(config') /\ Within(config')
  BY <1>1, <1>3, OneOrdered, OneWithin DEF Good
<1> QED  BY <1>2, <1>4, <1>5 DEF Good

\* A task of the poll loop.
LEMMA Polled ==
    ASSUME Inv, pc = "poll", NEW t \in todo
    PROVE  /\ t \in Tasks /\ config[t] \in TaskRecord /\ config \in Configurations
           /\ config[t].status \in {"RUNNING", "VERIFYING"} /\ config[t].status \in Active
           /\ config[t].dispatch # NoLease /\ config[t].dispatch = config[t].lease
           /\ Sound(t, config[t], grants, posted, DOMAIN artifacts)
BY DEF Inv, Basics, LoopInv, Awaited, RESULT_WAITING, Active, Configurations, Good, AllSound

LEMMA PollStepInv ==
    ASSUME Inv, pc = "poll", NEW t \in todo, NEW e \in TaskRecord, config' = [config EXCEPT ![t] = e],
           GrantsKept, renewed' \subseteq Tasks, todo' = todo \ {t},
           UNCHANGED <<cache, pc, file, workerVars, faults>>,
           e.status \notin {"PENDING", "OWNER_REQUIRED"}, Sound(t, e, grants', posted, DOMAIN artifacts),
           \/ e.status \notin Active
           \/ e.worker = config[t].worker
           \/ e.worker \in Workers /\ Load(config, e.worker, {t}) < Capacity[e.worker]
    PROVE  Inv'
<1>1. t \in Tasks /\ config[t].status \in Active
  BY Polled
<1>2. posted' = posted /\ artifacts' = artifacts
  BY DEF workerVars
<1>3. /\ config' \in Configurations
      /\ config'[t] = e /\ \A u \in Tasks \ {t} : config'[u] = config[u]
      /\ Good(config', grants', posted', DOMAIN artifacts')
  BY <1>1, <1>2, OneTaskGood
<1>4. Good(cache', grants', posted', DOMAIN artifacts') /\ Good(file', grants', posted', DOMAIN artifacts')
  BY <1>2, GrantsKeptGood
<1>5. Basics'
  BY <1>2, <1>3 DEF Inv, Basics, GrantsKept, Seen
<1>6. LoopInv'
  BY <1>1, <1>3 DEF Inv, Basics, LoopInv, Awaited
<1> QED  BY <1>3, <1>4, <1>5, <1>6 DEF Inv, GrantsKept

LEMMA PollFailureInv == ASSUME Inv, NEW t \in Tasks, PollFailure(t)  PROVE Inv'
<1>1. pc = "poll" /\ t \in todo /\ HasArtifact(t, "failure")
  BY DEF PollFailure
<1>2. config[t] \in TaskRecord /\ config \in Configurations /\ Sound(t, config[t], grants, posted, DOMAIN artifacts)
  BY <1>1, Polled
<1>3. artifacts[Lease(t)].class \in FailureClasses \cup {"none"}
  BY <1>1 DEF HasArtifact, Inv, Basics, Result
<1> DEFINE e == [config[t] EXCEPT !.status = "TRIAGE", !.failure = artifacts[Lease(t)].class]
<1>4. config' = [config EXCEPT ![t] = e]
  BY <1>2 DEF PollFailure, Configurations, TaskRecord
<1>5. e \in TaskRecord
  BY <1>2, <1>3, Values DEF TaskRecord
<1>6. e.status = "TRIAGE" /\ e.lease = config[t].lease /\ e.dispatch = config[t].dispatch
  BY <1>2 DEF TaskRecord
<1>7. Sound(t, e, grants', posted, DOMAIN artifacts)
  BY <1>2, <1>6 DEF Sound, PollFailure
<1>8. GrantsKept /\ renewed' \subseteq Tasks
  BY SameGrants DEF PollFailure, Inv, Basics
<1> HIDE DEF e
<1> QED  BY <1>1, <1>4, <1>5, <1>6, <1>7, <1>8, PollStepInv DEF PollFailure, Active

LEMMA PollVerifiedInv == ASSUME Inv, NEW t \in Tasks, PollVerified(t)  PROVE Inv'
<1>1. pc = "poll" /\ t \in todo /\ Lease(t) \in DOMAIN artifacts /\ config[t].status = "VERIFYING"
  BY DEF PollVerified, HasArtifact
<1>2. /\ config[t] \in TaskRecord /\ config \in Configurations
      /\ config[t].dispatch = config[t].lease
      /\ Sound(t, config[t], grants, posted, DOMAIN artifacts)
  BY <1>1, Polled
<1> DEFINE e == [config[t] EXCEPT !.status = "DONE"]
<1>3. config' = [config EXCEPT ![t] = e]
  BY <1>2 DEF PollVerified, Configurations, TaskRecord
<1>4. e \in TaskRecord
  BY <1>2, Values DEF TaskRecord
<1>5. /\ e.status = "DONE" /\ e.lease = config[t].lease /\ e.dispatch = config[t].dispatch
      /\ e.evidence = config[t].evidence
  BY <1>2 DEF TaskRecord
<1>6. Sound(t, e, grants', posted, DOMAIN artifacts)
  <2>1. ~config[t].rca
    BY <1>1, <1>2 DEF Sound, TaskRecord
  <2>2. grants' = grants
    BY DEF PollVerified
  <2> QED  BY <1>1, <1>2, <1>5, <2>1, <2>2 DEF Sound, Lease
<1>7. GrantsKept /\ renewed' \subseteq Tasks
  BY SameGrants DEF PollVerified, Inv, Basics
<1> HIDE DEF e
<1> QED  BY <1>1, <1>3, <1>4, <1>5, <1>6, <1>7, PollStepInv DEF PollVerified, Active

LEMMA PollProducedInv == ASSUME Inv, NEW t \in Tasks, PollProduced(t)  PROVE Inv'
<1>1. pc = "poll" /\ t \in todo /\ Lease(t) \in DOMAIN artifacts /\ config[t].status # "VERIFYING"
  BY DEF PollProduced, HasArtifact
<1>2. /\ config[t] \in TaskRecord /\ config \in Configurations
      /\ config[t].status = "RUNNING" /\ config[t].dispatch # NoLease
      /\ config[t].dispatch = config[t].lease
      /\ Sound(t, config[t], grants, posted, DOMAIN artifacts)
  BY <1>1, Polled
<1> DEFINE produced == [config EXCEPT ![t].evidence = config[t].lease]
           r == [config[t] EXCEPT !.evidence = config[t].lease]
<1>3. produced[t] = r /\ produced = [config EXCEPT ![t] = r] /\ r \in TaskRecord
  BY <1>2 DEF Configurations, TaskRecord
<1>4. /\ todo' = todo \ {t}
      /\ UNCHANGED <<cache, pc, file, workerVars, faults>>
  BY DEF PollProduced
<1>5. CASE /\ config' = [produced EXCEPT ![t].status = "BLOCKED", ![t].blocked = "no_verifier"]
           /\ UNCHANGED <<grants, renewed>>
  <2> DEFINE e == [r EXCEPT !.status = "BLOCKED", !.blocked = "no_verifier"]
  <2>1. config' = [config EXCEPT ![t] = e]
    BY <1>2, <1>3, <1>5 DEF Configurations, TaskRecord
  <2>2. e \in TaskRecord
    BY <1>3, Values DEF TaskRecord
  <2>3. e.status = "BLOCKED" /\ e.lease = config[t].lease /\ e.dispatch = config[t].dispatch
    BY <1>2 DEF TaskRecord
  <2>4. Sound(t, e, grants', posted, DOMAIN artifacts)
    BY <1>2, <1>5, <2>3 DEF Sound
  <2>5. GrantsKept /\ renewed' \subseteq Tasks
    BY <1>5, SameGrants DEF Inv, Basics
  <2> HIDE DEF e, produced
  <2> QED  BY <1>1, <1>4, <2>1, <2>2, <2>3, <2>4, <2>5, PollStepInv DEF Active
<1>6. CASE \E w \in VerifiersFor(t) :
              /\ config' = [produced EXCEPT ![t] = [Leased(produced, t, w, "VERIFYING") EXCEPT !.verifier = w]]
              /\ Grant({t}, config', [x \in {t} |-> "verify"])
              /\ renewed' = renewed \cup {t}
  <2>1. PICK w \in VerifiersFor(t) :
              /\ config' = [produced EXCEPT ![t] = [Leased(produced, t, w, "VERIFYING") EXCEPT !.verifier = w]]
              /\ Grant({t}, config', [x \in {t} |-> "verify"])
              /\ renewed' = renewed \cup {t}
    BY <1>6
  <2>2. w \in Workers /\ w # config[t].producer /\ Load(config, w, {t}) < Capacity[w]
    BY RoutingAssumption DEF VerifiersFor
  <2> DEFINE n == NewLease(t)
             e == [[r EXCEPT !.status = "VERIFYING", !.worker = w, !.lease = n] EXCEPT !.verifier = w]
  <2>3. n \in Nat \ {0} /\ <<t, n>> \notin Seen
    BY InvTypeOK, LeaseIsNew DEF Inv
  <2>4. config' = [config EXCEPT ![t] = e]
    BY <1>2, <1>3, <2>1 DEF Leased, Configurations
  <2>5. e \in TaskRecord
    BY <1>3, <2>2, <2>3, Values DEF TaskRecord
  <2>6. /\ e.status = "VERIFYING" /\ e.worker = w /\ e.lease = n /\ e.dispatch = config[t].dispatch
        /\ e.evidence = config[t].lease /\ e.rca = config[t].rca
    BY <1>2 DEF TaskRecord
  <2>7. config'[t] = e
    BY <1>2, <2>4 DEF Configurations
  <2> HIDE DEF e, n, produced, r
  <2>8. /\ GrantsKept
        /\ <<t, n>> \in DOMAIN grants'
        /\ grants'[<<t, n>>].worker = w /\ grants'[<<t, n>>].role = "verify"
    <3>1. \A u \in {t} : config'[u].worker \in Workers /\ [x \in {t} |-> "verify"][u] \in Roles
      BY <2>2, <2>6, <2>7 DEF Roles
    <3>2. {t} \in SUBSET Tasks /\ TypeOK /\ IsFiniteSet(DOMAIN grants)
      BY InvTypeOK DEF Inv
    <3>3. /\ DOMAIN grants' = Seen \cup {<<u, NewLease(u)>> : u \in {t}}
          /\ DOMAIN grants' \subseteq Leases
          /\ grants' \in [DOMAIN grants' -> [worker : Workers, role : Roles]]
          /\ IsFiniteSet(DOMAIN grants')
          /\ \A l \in Seen : grants'[l] = grants[l]
          /\ \A u \in {t} : /\ grants'[<<u, NewLease(u)>>].worker = config'[u].worker
                            /\ grants'[<<u, NewLease(u)>>].role = [x \in {t} |-> "verify"][u]
      BY <2>1, <3>1, <3>2, GrantsGrow DEF Grant
    <3>4. GrantsKept
      BY <3>3 DEF GrantsKept
    <3> QED  BY <3>3, <3>4, <2>6, <2>7 DEF n
  <2>9. Sound(t, e, grants', posted, DOMAIN artifacts)
    <3>1. <<t, config[t].dispatch>> \in posted /\ posted \subseteq Seen
      BY <1>2 DEF Sound, Seen
    <3>2. e.dispatch # e.lease
      BY <2>3, <2>6, <3>1
    <3>3. grants'[<<t, e.evidence>>] = grants[<<t, config[t].lease>>] /\ <<t, e.evidence>> \in DOMAIN artifacts
      BY <1>1, <1>2, <2>6, <2>8, <3>1 DEF GrantsKept, Lease
    <3>4. e.evidence # NoLease
      BY <1>2, <2>6
    <3>5. ~config[t].rca => /\ grants[<<t, config[t].lease>>].role = "work"
                            /\ grants[<<t, config[t].lease>>].worker = config[t].producer
      BY <1>2 DEF Sound
    <3>6. e.lease # NoLease /\ <<t, e.dispatch>> \in posted
      BY <2>3, <2>6, <3>1 DEF NoLease
    <3> QED  BY <2>2, <2>6, <2>8, <3>2, <3>3, <3>4, <3>5, <3>6 DEF Sound
  <2>10. renewed' \subseteq Tasks
    BY <2>1 DEF Inv, Basics
  <2> QED
    BY <1>1, <1>4, <2>2, <2>4, <2>5, <2>6, <2>8, <2>9, <2>10, PollStepInv
<1> QED  BY <1>5, <1>6 DEF PollProduced

-----------------------------------------------------------------------------
(* The dispatch of leases, and what comes back.                            *)

LEMMA DispatchTaskInv == ASSUME Inv, NEW t \in Tasks, DispatchTask(t)  PROVE Inv'
<1>1. pc = "dispatch" /\ t \in todo
  BY DEF DispatchTask
<1>2. /\ config[t] \in TaskRecord /\ config \in Configurations
      /\ config[t].status \in Active /\ config[t].lease # NoLease
      /\ ~(config[t].status = "VERIFYING" /\ config[t].rca)
      /\ Sound(t, config[t], grants, posted, DOMAIN artifacts)
  BY <1>1 DEF Inv, Basics, LoopInv, Undispatched, Configurations, Good, AllSound
<1> DEFINE s == IF config[t].status = "LEASED" THEN "RUNNING" ELSE config[t].status
           e == [config[t] EXCEPT !.dispatch = config[t].lease, !.status = s]
<1>3. config' = [config EXCEPT ![t] = e]
  BY <1>2 DEF DispatchTask, Configurations, TaskRecord
<1>4. s \in Active /\ s \in Statuses
  BY <1>2 DEF Active, Statuses
<1>5. e \in TaskRecord
  BY <1>2, <1>4 DEF TaskRecord
<1>6. /\ e.status = s /\ e.lease = config[t].lease /\ e.dispatch = config[t].lease
      /\ e.evidence = config[t].evidence /\ e.rca = config[t].rca /\ e.producer = config[t].producer
      /\ e.worker = config[t].worker
  BY <1>2 DEF TaskRecord
<1>7. posted' = posted \cup {<<t, config[t].lease>>} /\ artifacts' = artifacts /\ grants' = grants
  BY DEF DispatchTask, Lease
<1>8. Sound(t, e, grants', posted', DOMAIN artifacts')
  BY <1>2, <1>6, <1>7 DEF Sound, Active
<1>9. GrantsKept
  BY <1>7, SameGrants
<1> HIDE DEF e
<1>10. /\ config' \in Configurations
       /\ config'[t] = e /\ \A u \in Tasks \ {t} : config'[u] = config[u]
       /\ Good(config', grants', posted', DOMAIN artifacts')
  BY <1>2, <1>3, <1>4, <1>5, <1>6, <1>7, <1>8, <1>9, OneTaskGood DEF Active
<1>11. Good(cache', grants', posted', DOMAIN artifacts') /\ Good(file', grants', posted', DOMAIN artifacts')
  BY <1>7, <1>9, GrantsKeptGood DEF DispatchTask
<1>12. Basics'
  BY <1>2, <1>7, <1>10 DEF Inv, Basics, DispatchTask, Sound
<1>13. LoopInv'
  <2>1. \A u \in todo' : u # t /\ u \in Undispatched(config)
    BY <1>1 DEF Inv, LoopInv, DispatchTask
  <2>2. todo' \subseteq Undispatched(config')
    BY <1>10, <2>1 DEF Undispatched
  <2>3. \A u \in Tasks : ~(config'[u].status = "VERIFYING" /\ config'[u].rca)
    BY <1>1, <1>2, <1>6, <1>10 DEF Inv, LoopInv
  <2> QED  BY <1>1, <2>2, <2>3 DEF LoopInv, DispatchTask
<1> QED  BY <1>10, <1>11, <1>12, <1>13, <1>7 DEF Inv

LEMMA DispatchRaisesInv == ASSUME Inv, NEW t \in Tasks, DispatchRaises(t)  PROVE Inv'
<1>1. pc = "dispatch" /\ t \in todo
  BY DEF DispatchRaises
<1>2. <<t, config[t].lease>> \in DOMAIN grants
  BY <1>1 DEF Inv, LoopInv, Undispatched, Good, AllSound, Sound
<1>3. grants' = grants /\ artifacts' = artifacts /\ posted \subseteq posted' /\ posted' \subseteq DOMAIN grants
  BY <1>2 DEF DispatchRaises, Lease, Inv, Basics
<1>4. /\ Good(cache, grants', posted', DOMAIN artifacts')
      /\ Good(file, grants', posted', DOMAIN artifacts')
  BY <1>3, SameGrants, GrantsKeptGood
<1>5. faults' \in 0..MaxFaults
  BY CapacityAssumption DEF DispatchRaises, Fault, Inv, Basics
<1>6. Basics'
  BY <1>3, <1>5 DEF DispatchRaises, Inv, Basics
<1> QED  BY <1>3, <1>4, <1>6 DEF DispatchRaises, Inv, LoopInv

LEMMA UploadInv == ASSUME Inv, NEW l \in posted, NEW result \in Result, Upload(l, result)  PROVE Inv'
<1>1. /\ DOMAIN artifacts' = DOMAIN artifacts \cup {l} /\ artifacts' \in [DOMAIN artifacts' -> Result]
      /\ grants' = grants /\ posted' = posted
  BY DEF Upload, Inv, Basics
<1>2. /\ Good(cache, grants', posted', DOMAIN artifacts')
      /\ Good(file, grants', posted', DOMAIN artifacts')
      /\ Good(config, grants', posted', DOMAIN artifacts')
  BY <1>1, SameGrants, GrantsKeptGood
<1>3. faults' \in 0..MaxFaults
  BY CapacityAssumption DEF Upload, Inv, Basics
<1>4. Basics'
  BY <1>1, <1>3 DEF Upload, jobVars, Inv, Basics
<1>5. LoopInv'
  BY DEF Upload, jobVars, Inv, LoopInv, Awaited, Undispatched
<1> QED  BY <1>1, <1>2, <1>4, <1>5 DEF Upload, jobVars, Inv

-----------------------------------------------------------------------------
(* The manager step.                                                       *)

\* Routing and assignment respect the limits: a worker that is given a lease has room
\* for all it is given, the others have what they had.
LEMMA RoutedWithin ==
    ASSUME TypeOK, IsFiniteSet(DOMAIN grants), NEW c \in Configurations, Within(c), NEW a \in AnalystChoices(c)
    PROVE  Within(RouteTriage(c, a))
<1> DEFINE d == RouteTriage(c, a)
<1>1. \A t \in Tasks :
         IF t \in Triaged(c) /\ a[t] # Nobody
         THEN c[t].status = "TRIAGE" /\ d[t].status = "RUNNING" /\ d[t].worker = a[t]
         ELSE d[t] = c[t] \/ d[t].status \notin Active \cup {"TRIAGE"}
  BY RouteTriageGives DEF Rests, Triaged, Active
<1>2. \A t \in Triaged(c) : a[t] # Nobody => Load(d, a[t], {}) <= Capacity[a[t]]
  BY DEF AnalystChoices
<1> HIDE DEF d
<1>3. ASSUME NEW w \in Workers  PROVE Load(d, w, {}) <= Capacity[w]
  <2>1. CASE \E t \in Triaged(c) : a[t] = w
    BY <1>2, <2>1, WorkersAssumption
  <2>2. CASE \A t \in Triaged(c) : a[t] # w
    <3>1. \A t \in Tasks : d[t].status \in Active /\ d[t].worker = w => c[t].status \in Active /\ c[t].worker = w
      BY <1>1, <2>2
    <3>2. Load(d, w, {}) <= Load(c, w, {})
      BY <3>1, LoadShrinks
    <3>3. Load(d, w, {}) \in Nat /\ Load(c, w, {}) \in Nat /\ Load(c, w, {}) <= Capacity[w]
      BY Counted DEF Within
    <3> QED  BY <3>2, <3>3, CapacityType
  <2> QED  BY <2>1, <2>2
<1>4. InProgress(d) \subseteq InProgress(c)
  BY <1>1 DEF InProgress, Active
<1>5. Within(d)
  <2>1. Cardinality(InProgress(d)) <= Cardinality(InProgress(c))
    BY <1>4, ProgressShrinks
  <2>2. Cardinality(InProgress(d)) \in Nat /\ Cardinality(InProgress(c)) \in Nat
    BY Counted
  <2> QED  BY <1>3, <2>1, <2>2, CapacityType DEF Within
<1> QED  BY <1>5 DEF d

LEMMA AssignedWithin ==
    ASSUME TypeOK, IsFiniteSet(DOMAIN grants), NEW c \in Configurations, Within(c), NEW a \in WorkerChoices(c),
           \A t \in Tasks : c[t].status # "TRIAGE"
    PROVE  Within(AssignReady(c, a))
<1> DEFINE d == AssignReady(c, a)
<1>1. \A t \in Tasks :
         IF t \in Ready(c) /\ a[t] # Nobody
         THEN d[t].status = "LEASED" /\ d[t].worker = a[t]
         ELSE d[t] = c[t]
  BY AssignReadyGives
<1>2. /\ \A t \in Ready(c) : a[t] # Nobody => Load(d, a[t], {}) <= Capacity[a[t]]
      /\ d # c => Cardinality(ActiveTasks(d)) <= MaxParallel
  BY DEF WorkerChoices
<1> HIDE DEF d
<1>3. ASSUME NEW w \in Workers  PROVE Load(d, w, {}) <= Capacity[w]
  <2>1. CASE \E t \in Ready(c) : a[t] = w
    BY <1>2, <2>1, WorkersAssumption
  <2>2. CASE \A t \in Ready(c) : a[t] # w
    <3>1. \A t \in Tasks : d[t].status \in Active /\ d[t].worker = w => c[t].status \in Active /\ c[t].worker = w
      BY <1>1, <2>2
    <3>2. Load(d, w, {}) <= Load(c, w, {})
      BY <3>1, LoadShrinks
    <3>3. Load(d, w, {}) \in Nat /\ Load(c, w, {}) \in Nat /\ Load(c, w, {}) <= Capacity[w]
      BY Counted DEF Within
    <3> QED  BY <3>2, <3>3, CapacityType
  <2> QED  BY <2>1, <2>2
<1>4. InProgress(d) = ActiveTasks(d)
  BY <1>1 DEF InProgress, ActiveTasks
<1>5. Within(d)
  BY <1>2, <1>3, <1>4 DEF Within
<1> QED  BY <1>5 DEF d

LEMMA ReleasedWithin ==
    ASSUME NEW c \in Configurations, Within(c)
    PROVE  Within(ReleaseReady(c))
<1> DEFINE d == ReleaseReady(c)
<1>1. \A t \in Tasks : d[t] = c[t] \/ d[t].status = "READY"
  BY ReleaseReadyGives
<1> HIDE DEF d
<1>2. ASSUME NEW w \in Workers  PROVE Load(d, w, {}) <= Capacity[w]
  <2>1. \A t \in Tasks : d[t].status \in Active /\ d[t].worker = w => c[t].status \in Active /\ c[t].worker = w
    BY <1>1 DEF Active
  <2>2. Load(d, w, {}) <= Load(c, w, {})
    BY <2>1, LoadShrinks
  <2>3. Load(d, w, {}) \in Nat /\ Load(c, w, {}) \in Nat /\ Load(c, w, {}) <= Capacity[w]
    BY Counted DEF Within
  <2> QED  BY <2>2, <2>3, CapacityType
<1>3. Cardinality(InProgress(d)) <= Cardinality(InProgress(c))
  BY <1>1, ProgressShrinks DEF InProgress, Active
<1>4. Cardinality(InProgress(d)) \in Nat /\ Cardinality(InProgress(c)) \in Nat
  BY Counted
<1>5. Within(d)
  BY <1>2, <1>3, <1>4, CapacityType DEF Within
<1> QED  BY <1>5 DEF d

\* What the passes before the assignment make of the runtime file: stale leases are
\* triaged, triaged tasks routed, and tasks released whose dependencies are done.
LEMMA Passes ==
    ASSUME Inv, NEW late \in SUBSET (ActiveTasks(Repaired(file)) \ renewed),
           NEW analyst \in AnalystChoices(Expire(Repaired(file), late))
    PROVE  LET c == Expire(Repaired(file), late)
               d == ReleaseReady(RouteTriage(c, analyst))
           IN  /\ c \in Configurations /\ Ordered(d) /\ Within(d) /\ d \in Configurations
               /\ \A t \in Tasks :
                     /\ d[t].status # "TRIAGE" /\ (t \in OwnerTasks => d[t].status = "OWNER_REQUIRED")
                     /\ d[t].status = "VERIFYING" => ~d[t].rca
                     /\ IF t \in Triaged(c) /\ analyst[t] # Nobody
                        THEN /\ d[t].status = "RUNNING" /\ d[t].rca /\ d[t].worker \in Workers
                             /\ d[t].lease = NewLease(t)
                             /\ d[t].dispatch # NoLease => <<t, d[t].dispatch>> \in posted
                        ELSE /\ Sound(t, d[t], grants, posted, DOMAIN artifacts)
                             /\ d[t].lease \in {file[t].lease, NoLease}
<1> DEFINE c0 == Repaired(file)
           c == Expire(c0, late)
           b == RouteTriage(c, analyst)
           d == ReleaseReady(b)
<1>0. TypeOK /\ IsFiniteSet(DOMAIN grants)
  BY InvTypeOK DEF Inv
<1>1. file \in Configurations /\ Good(file, grants, posted, DOMAIN artifacts)
  BY DEF Inv, Basics
<1>2. /\ AllRest(file, c0)
      /\ \A t \in OwnerTasks : c0[t].status = "OWNER_REQUIRED"
      /\ \A t \in Tasks : ~(c0[t].status = "VERIFYING" /\ c0[t].rca)
  BY <1>1, RepairedRests DEF Good, AllSound, Sound
<1>3. late \in SUBSET ActiveTasks(c0) /\ c0 \in Configurations
  BY <1>2 DEF AllRest
<1> HIDE DEF c0
<1>4. AllRest(c0, c)
  BY <1>3, ExpireRests
<1>5. AllRest(file, c) /\ c \in Configurations
  BY <1>2, <1>4, RestsTwice DEF AllRest
<1>6. \A t \in Tasks : /\ t \in OwnerTasks => c[t].status = "OWNER_REQUIRED"
                       /\ c[t].status = "VERIFYING" => ~c[t].rca
  BY <1>2, <1>4, TasksAssumption DEF AllRest, Rests, Active
<1>7. Good(c, grants, posted, DOMAIN artifacts)
  BY <1>1, <1>5, RestGood
<1>8. analyst \in AnalystChoices(c)
  BY DEF c0
<1> HIDE DEF c
<1>9. /\ b \in Configurations
      /\ \A t \in Tasks :
            IF t \in Triaged(c) /\ analyst[t] # Nobody
            THEN /\ b[t].status = "RUNNING" /\ b[t].rca /\ b[t].worker = analyst[t] /\ analyst[t] \in Workers
                 /\ b[t].lease = NewLease(t) /\ b[t].dispatch = c[t].dispatch
            ELSE Rests(t, c[t], b[t]) \/ (c[t].status = "TRIAGE" /\ b[t].status \in {"READY", "BLOCKED"}
                                          /\ b[t].lease = c[t].lease /\ b[t].dispatch = c[t].dispatch)
      /\ \A t \in Tasks : b[t].status # "TRIAGE"
  BY <1>0, <1>5, <1>8, RouteTriageGives
<1>10. Within(b)
  BY <1>0, <1>5, <1>7, <1>8, RoutedWithin DEF Good
<1> HIDE DEF b
<1>11. /\ d \in Configurations
       /\ \A t \in Tasks :
             \/ d[t] = b[t]
             \/ /\ b[t].status = "PENDING" /\ d[t].status = "READY"
                /\ \A u \in Dependencies[t] : b[u].status = "DONE"
                /\ d[t].lease = b[t].lease /\ d[t].dispatch = b[t].dispatch
  BY <1>9, ReleaseReadyGives
<1>12. Within(d)
  BY <1>9, <1>10, ReleasedWithin
<1> HIDE DEF d
<1>13. \A t \in Tasks :
          /\ c[t].status = "DONE" => b[t].status = "DONE"
          /\ b[t].status \notin {"PENDING", "OWNER_REQUIRED"} => c[t].status \notin {"PENDING", "OWNER_REQUIRED"}
          /\ b[t].status = "VERIFYING" => b[t] = c[t]
          /\ t \in OwnerTasks => b[t].status = "OWNER_REQUIRED"
  <2> TAKE t \in Tasks
  <2>1. t \in OwnerTasks => c[t].status = "OWNER_REQUIRED"
    BY <1>6
  <2>2. t \in Triaged(c) => c[t].status = "TRIAGE"
    BY DEF Triaged
  <2> QED  BY <1>9, <2>1, <2>2 DEF Rests, Active
<1>14. \A t \in Tasks :
          /\ c[t].status = "DONE" => d[t].status = "DONE"
          /\ b[t].status = "DONE" => d[t].status = "DONE"
          /\ d[t].status = "VERIFYING" => ~d[t].rca
          /\ t \in OwnerTasks => d[t].status = "OWNER_REQUIRED"
          /\ d[t].status # "TRIAGE"
  BY <1>6, <1>9, <1>11, <1>13
<1>15. Ordered(d)
  <2>1. \A t \in Tasks : Dependencies[t] \subseteq Tasks
    BY RoutingAssumption
  <2>2. Ordered(c)
    BY <1>7 DEF Good
  <2>3. ASSUME NEW t \in Tasks, d[t].status \notin {"PENDING", "OWNER_REQUIRED"}
        PROVE  \A u \in Dependencies[t] : d[u].status = "DONE"
    <3>1. CASE d[t] = b[t]
      BY <1>13, <1>14, <2>1, <2>2, <2>3, <3>1 DEF Ordered
    <3>2. CASE \A u \in Dependencies[t] : b[u].status = "DONE"
      BY <1>14, <2>1, <3>2
    <3> QED  BY <1>11, <3>1, <3>2
  <2> QED  BY <1>14, <2>3 DEF Ordered
<1>16. ASSUME NEW t \in Tasks, t \in Triaged(c), analyst[t] # Nobody
       PROVE  /\ d[t].status = "RUNNING" /\ d[t].rca /\ d[t].worker \in Workers
              /\ d[t].lease = NewLease(t)
              /\ d[t].dispatch # NoLease => <<t, d[t].dispatch>> \in posted
  <2>1. d[t] = b[t] /\ b[t].dispatch = c[t].dispatch
    BY <1>9, <1>11, <1>16
  <2>2. Sound(t, c[t], grants, posted, DOMAIN artifacts)
    BY <1>7 DEF Good, AllSound
  <2> QED  BY <1>9, <1>16, <2>1, <2>2 DEF Sound
<1>17. ASSUME NEW t \in Tasks, ~(t \in Triaged(c) /\ analyst[t] # Nobody)
       PROVE  /\ Sound(t, d[t], grants, posted, DOMAIN artifacts)
              /\ d[t].lease \in {file[t].lease, NoLease}
  <2>1. Sound(t, c[t], grants, posted, DOMAIN artifacts)
    BY <1>7 DEF Good, AllSound
  <2>2. c[t].lease \in {file[t].lease, NoLease}
    BY <1>5 DEF AllRest, Rests
  <2>3. Sound(t, b[t], grants, posted, DOMAIN artifacts) /\ b[t].lease \in {c[t].lease, NoLease}
    <3>1. CASE Rests(t, c[t], b[t])
      BY <2>1, <3>1, RestSound DEF Rests
    <3>2. CASE b[t].status \in {"READY", "BLOCKED"} /\ b[t].lease = c[t].lease /\ b[t].dispatch = c[t].dispatch
      BY <2>1, <3>2 DEF Sound
    <3> QED  BY <1>9, <1>17, <3>1, <3>2
  <2>4. CASE d[t] = b[t]
    BY <2>2, <2>3, <2>4
  <2>5. CASE d[t].status = "READY" /\ d[t].lease = b[t].lease /\ d[t].dispatch = b[t].dispatch
    BY <2>2, <2>3, <2>5 DEF Sound
  <2> QED  BY <1>11, <2>4, <2>5
<1>18. c \in Configurations /\ Ordered(d) /\ Within(d) /\ d \in Configurations
  BY <1>5, <1>11, <1>12, <1>15
<1> QED  BY <1>14, <1>16, <1>17, <1>18 DEF c0, c, b, d

\* The whole manager step: the leases it issues are new, those for analysis are running
\* and those for work name their producer.
LEMMA ManageInv == ASSUME Inv, Manage  PROVE Inv'
<1>0. TypeOK /\ IsFiniteSet(DOMAIN grants)
  BY InvTypeOK DEF Inv
<1>1. PICK late \in SUBSET (ActiveTasks(Repaired(file)) \ renewed) :
         LET c == Expire(Repaired(file), late)
         IN  /\ Fault(Cardinality(late))
             /\ \E analyst \in AnalystChoices(c) :
                   LET d == ReleaseReady(RouteTriage(c, analyst))
                       analysed == {t \in Triaged(c) : analyst[t] # Nobody}
                   IN  \E worker \in WorkerChoices(d) :
                          LET assigned == {t \in Ready(d) : worker[t] # Nobody}
                          IN  /\ config' = AssignReady(d, worker)
                              /\ Grant(analysed \cup assigned, config',
                                       [t \in Tasks |-> IF t \in analysed THEN "rca" ELSE "work"])
  BY DEF Manage
<1> DEFINE c == Expire(Repaired(file), late)
<1>2. PICK analyst \in AnalystChoices(c) :
         LET d == ReleaseReady(RouteTriage(c, analyst))
             analysed == {t \in Triaged(c) : analyst[t] # Nobody}
         IN  \E worker \in WorkerChoices(d) :
                LET assigned == {t \in Ready(d) : worker[t] # Nobody}
                IN  /\ config' = AssignReady(d, worker)
                    /\ Grant(analysed \cup assigned, config',
                             [t \in Tasks |-> IF t \in analysed THEN "rca" ELSE "work"])
  BY <1>1
<1> DEFINE d == ReleaseReady(RouteTriage(c, analyst))
           analysed == {t \in Triaged(c) : analyst[t] # Nobody}
           roleOf == [t \in Tasks |-> IF t \in analysed THEN "rca" ELSE "work"]
<1>3. PICK worker \in WorkerChoices(d) :
         LET assigned == {t \in Ready(d) : worker[t] # Nobody}
         IN  config' = AssignReady(d, worker) /\ Grant(analysed \cup assigned, config', roleOf)
  BY <1>2
<1> DEFINE assigned == {t \in Ready(d) : worker[t] # Nobody}
           S == analysed \cup assigned
<1>4. config' = AssignReady(d, worker) /\ Grant(S, config', roleOf)
  BY <1>3
<1>5. /\ Ordered(d) /\ Within(d) /\ d \in Configurations
      /\ \A t \in Tasks :
            /\ d[t].status # "TRIAGE" /\ (t \in OwnerTasks => d[t].status = "OWNER_REQUIRED")
            /\ d[t].status = "VERIFYING" => ~d[t].rca
            /\ IF t \in analysed
               THEN /\ d[t].status = "RUNNING" /\ d[t].rca /\ d[t].worker \in Workers
                    /\ d[t].lease = NewLease(t)
                    /\ d[t].dispatch # NoLease => <<t, d[t].dispatch>> \in posted
               ELSE /\ Sound(t, d[t], grants, posted, DOMAIN artifacts)
                    /\ d[t].lease \in {file[t].lease, NoLease}
  BY Passes
<1>6. faults' \in 0..MaxFaults
  <2>1. IsFiniteSet(late)
    BY TasksAssumption, FS_Subset DEF ActiveTasks
  <2>2. Cardinality(late) \in Nat
    BY <2>1, FS_CardinalityType
  <2>3. Fault(Cardinality(late))
    BY <1>1
  <2> QED  BY <2>2, <2>3, CapacityAssumption DEF Fault, Inv, Basics
<1>7. /\ analysed \subseteq Tasks /\ assigned \subseteq Tasks
      /\ \A t \in Tasks : t \in assigned <=> t \in Ready(d) /\ worker[t] # Nobody
      /\ \A t \in assigned : d[t].status = "READY"
      /\ roleOf = [t \in Tasks |-> IF t \in analysed THEN "rca" ELSE "work"]
  BY DEF Triaged, Ready
<1> HIDE DEF c, d, analysed, roleOf, assigned
<1>8. /\ config' \in Configurations
      /\ \A t \in Tasks :
            IF t \in assigned
            THEN /\ config'[t].status = "LEASED" /\ config'[t].producer = config'[t].worker
                 /\ config'[t].worker \in Workers
                 /\ config'[t].lease = NewLease(t) /\ config'[t].dispatch = d[t].dispatch
            ELSE config'[t] = d[t]
  BY <1>0, <1>3, <1>4, <1>5, <1>7, AssignReadyGives
<1>9. assigned \cap analysed = {}
  BY <1>5, <1>7
<1>10. \A t \in S : config'[t].worker \in Workers /\ roleOf[t] \in Roles
  BY <1>5, <1>7, <1>8 DEF Roles
<1>11. /\ DOMAIN grants' = Seen \cup {<<t, NewLease(t)>> : t \in S}
       /\ DOMAIN grants' \subseteq Leases
       /\ grants' \in [DOMAIN grants' -> [worker : Workers, role : Roles]]
       /\ IsFiniteSet(DOMAIN grants')
       /\ \A l \in Seen : grants'[l] = grants[l]
       /\ \A t \in S : /\ grants'[<<t, NewLease(t)>>].worker = config'[t].worker
                       /\ grants'[<<t, NewLease(t)>>].role = roleOf[t]
  <2>1. S \in SUBSET Tasks
    BY <1>7
  <2> HIDE DEF S
  <2> QED  BY <1>0, <1>4, <1>10, <2>1, GrantsGrow DEF Grant
<1>12. GrantsKept
  BY <1>11 DEF GrantsKept
<1>13. posted' = posted /\ artifacts' = artifacts /\ cache' = cache /\ file' = config' /\ pc' = "dispatch"
       /\ todo' = Undispatched(config') /\ renewed' = {}
  BY DEF Manage, workerVars
<1>14. Good(cache, grants', posted', DOMAIN artifacts')
  BY <1>12, <1>13, GrantsKeptGood
<1>15. \A t \in S : /\ <<t, NewLease(t)>> \in DOMAIN grants' /\ NewLease(t) # NoLease
                    /\ <<t, NewLease(t)>> \notin posted
  BY <1>0, <1>7, <1>11, LeaseIsNew DEF Seen, NoLease
<1>16. ASSUME NEW t \in Tasks  PROVE Sound(t, config'[t], grants', posted, DOMAIN artifacts)
  <2>1. CASE t \in analysed
    <3>1. config'[t] = d[t] /\ t \in S
      BY <1>8, <1>9, <2>1
    <3> QED  BY <1>5, <1>11, <1>15, <2>1, <3>1 DEF Sound
  <2>2. CASE t \in assigned
    <3>1. t \in S /\ t \notin analysed /\ roleOf[t] = "work"
      BY <1>7, <1>9, <2>2
    <3>2. d[t].dispatch # NoLease => <<t, d[t].dispatch>> \in posted
      BY <1>5, <3>1 DEF Sound
    <3> QED  BY <1>8, <1>11, <1>15, <2>2, <3>1, <3>2 DEF Sound
  <2>3. CASE t \notin S
    <3>1. config'[t] = d[t] /\ Sound(t, d[t], grants, posted, DOMAIN artifacts)
      BY <1>5, <1>8, <2>3
    <3>2. <<t, d[t].lease>> \in DOMAIN grants => <<t, d[t].lease>> \in Seen
      <4>1. d[t].lease = file[t].lease /\ d[t].lease # NoLease => <<t, d[t].lease>> \in Held(file)
        BY DEF Held
      <4>2. d[t].lease = NoLease => <<t, d[t].lease>> \notin DOMAIN grants
        BY DEF Inv, Basics, Leases, NoLease
      <4> QED  BY <1>5, <2>3, <4>1, <4>2 DEF Seen
    <3>3. \A l \in posted \cup {<<t, d[t].lease>>} : l \in DOMAIN grants => l \in DOMAIN grants' /\ grants'[l] = grants[l]
      BY <1>12, <3>2 DEF GrantsKept, Seen
    <3>4. DOMAIN artifacts \subseteq posted /\ posted \subseteq DOMAIN grants
      BY DEF Inv, Basics
    <3> QED  BY <3>1, <3>3, <3>4, SoundStays
  <2> QED  BY <2>1, <2>2, <2>3
<1>17. Ordered(config')
  <2>1. \A t \in Tasks : d[t].status = "DONE" => config'[t].status = "DONE"
    BY <1>7, <1>8
  <2>2. \A t \in Tasks : config'[t].status \notin {"PENDING", "OWNER_REQUIRED"} => d[t].status \notin {"PENDING", "OWNER_REQUIRED"}
    BY <1>7, <1>8
  <2>3. \A t \in OwnerTasks : t \in Tasks /\ config'[t].status = "OWNER_REQUIRED"
    BY <1>5, <1>7, <1>8, TasksAssumption
  <2>4. \A t \in Tasks : Dependencies[t] \subseteq Tasks
    BY RoutingAssumption
  <2> QED  BY <1>5, <2>1, <2>2, <2>3, <2>4 DEF Ordered
<1>18. Within(config')
  <2>1. \A t \in Tasks : d[t].status # "TRIAGE"
    BY <1>5
  <2>2. Within(AssignReady(d, worker))
    BY <1>0, <1>3, <1>5, <2>1, AssignedWithin
  <2> QED  BY <1>4, <2>2
<1>19. Good(config', grants', posted', DOMAIN artifacts')
  BY <1>13, <1>16, <1>17, <1>18 DEF Good, AllSound
<1>20. LoopInv'
  <2>1. \A t \in Tasks : ~(config'[t].status = "VERIFYING" /\ config'[t].rca)
    BY <1>5, <1>8
  <2> QED  BY <1>13, <2>1 DEF LoopInv
<1>21. Basics'
  <2>1. posted \subseteq DOMAIN grants'
    BY <1>11 DEF Seen
  <2>2. todo' \subseteq Tasks
    BY <1>13 DEF Undispatched
  <2> QED  BY <1>6, <1>8, <1>11, <1>13, <2>1, <2>2 DEF Inv, Basics
<1> QED  BY <1>11, <1>13, <1>14, <1>19, <1>20, <1>21 DEF Inv

-----------------------------------------------------------------------------
(* The invariant holds, and what follows from it.                          *)

LEMMA NextInv == Inv /\ [Next]_vars => Inv'
<1> SUFFICES ASSUME Inv, [Next]_vars  PROVE Inv'
  OBVIOUS
<1>1. CASE StartJob
  BY <1>1, StartJobInv
<1>2. CASE Poll
  BY <1>2, PollNothingInv, PollFailureInv, PollVerifiedInv, PollProducedInv, PollRaisesInv DEF Poll
<1>3. CASE EndPoll
  BY <1>3, EndPollInv
<1>4. CASE Manage
  BY <1>4, ManageInv
<1>5. CASE ManageRaises
  BY <1>5, ManageRaisesInv
<1>6. CASE Dispatch
  BY <1>6, DispatchTaskInv, DispatchRaisesInv DEF Dispatch
<1>7. CASE EndDispatch
  BY <1>7, EndDispatchInv
<1>8. CASE SaveCache
  BY <1>8, SaveCacheInv
<1>9. CASE RunnerLost
  BY <1>9, RunnerLostInv
<1>10. CASE \E l \in posted, result \in Result : Upload(l, result)
  BY <1>10, UploadInv
<1>11. CASE UNCHANGED vars
  BY <1>11 DEF vars, Inv, Basics, LoopInv
<1> QED  BY <1>1, <1>2, <1>3, <1>4, <1>5, <1>6, <1>7, <1>8, <1>9, <1>10, <1>11 DEF Next, Coordinator

LEMMA Invariant == Spec => []Inv
BY InitInv, NextInv, PTL DEF Spec

\* The three copies of the tasks, the leases, the worker runs and the results they
\* brought always fit together: a lease that a task holds was granted, and only a
\* granted lease is ever started at GitHub or answered.
THEOREM TypeCorrect == Spec => []TypeOK
BY Invariant, InvTypeOK, PTL

\* Whatever is late, lost, failed or repeated, no worker ever has more leases than it
\* may work on, and no more tasks are in progress than the policy allows: in the saved
\* runtime, in the file and in memory.
THEOREM CapacityRespected == Spec => []WorkersWithinCapacity
<1>1. Inv => WorkersWithinCapacity
  BY DEF Inv, Good, Within, WorkersWithinCapacity, Configs, InProgress
<1> QED  BY <1>1, Invariant, PTL

\* A task that is DONE was produced under a work lease and verified under a verify lease
\* of another worker, and both results were uploaded.
THEOREM VerifiedIndependently == Spec => []IndependentlyVerified
<1>1. Inv => IndependentlyVerified
  <2>1. ASSUME Inv, NEW c \in Configs, NEW t \in Tasks, c[t].status = "DONE"
        PROVE  /\ <<t, c[t].evidence>> \in DOMAIN artifacts /\ <<t, c[t].lease>> \in DOMAIN artifacts
               /\ grants[<<t, c[t].evidence>>].role = "work"
               /\ grants[<<t, c[t].lease>>].role = "verify"
               /\ grants[<<t, c[t].evidence>>].worker # grants[<<t, c[t].lease>>].worker
    <3>1. Sound(t, c[t], grants, posted, DOMAIN artifacts)
      BY <2>1 DEF Inv, Good, AllSound, Configs
    <3> QED  BY <2>1, <3>1 DEF Sound
  <2> QED  BY <2>1 DEF IndependentlyVerified
<1> QED  BY <1>1, Invariant, PTL

\* A task is leased, analysed, verified or finished only after everything it depends on
\* is DONE, also in the older runtime that a lost runner leaves behind.
THEOREM DependenciesComeFirst == Spec => []DependenciesFirst
<1>1. Inv => DependenciesFirst
  BY DEF Inv, Good, Ordered, Configs, DependenciesFirst
<1> QED  BY <1>1, Invariant, PTL
=============================================================================
