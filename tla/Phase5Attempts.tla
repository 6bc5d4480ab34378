--------------------------- MODULE Phase5Attempts ---------------------------
(***************************************************************************)
(* Attempt fencing (phase5_attempts.py) and typed independent verification *)
(* (phase5_verification.py) of one task, on top of the durable store.      *)
(*                                                                         *)
(* The supervisor begins an attempt for a lease, the worker's result comes *)
(* back late, repeatedly or after the attempt was superseded, a verifier   *)
(* builds a manifest from the task as it finds it, and the manifest is     *)
(* submitted when the task, the mission definition or the worker registry  *)
(* may have moved on.  Every accepted call is one durable update of the    *)
(* task (StoreIsRegister, Phase5StateStoreProofs); a rejected call raises  *)
(* before it changed anything and is not a step.  A recovery of the store  *)
(* puts the task back to an earlier durable state, and the later ones      *)
(* never come back (QuarantineIsFinal, Phase5StateStore).                  *)
(*                                                                         *)
(* SHA-256 digests are injective: an attempt_id is the tuple of its fields *)
(* and a result digest is the result.                                      *)
(***************************************************************************)
EXTENDS Integers, Sequences, FiniteSets

CONSTANTS
    Specs,          \* authorization specs of the task (spec_digest)
    CrossDomain,    \* specs whose mode is independent_trust_domain
    Workers,
    Domains,        \* trust domains
    Leases,
    Sources,        \* source_sha
    Evidence,       \* what a worker may report, outcome included
    NoAttempt, NoResult, NoManifest,
    MaxRecoveries,  \* bound: recoveries of an earlier durable state
    MaxAttempts,    \* MAX_TASK_ATTEMPTS
    MaxRevisions,   \* bound: revisions of the mission or the registry
    MaxManifests    \* bound: manifests in flight

ASSUME BoundsAssumption ==
    /\ MaxRecoveries \in Nat
    /\ MaxAttempts \in Nat \ {0}
    /\ MaxRevisions \in Nat
    /\ MaxManifests \in Nat
    /\ CrossDomain \subseteq Specs

Attempt ==
    [spec : Specs, number : Nat, fence : Nat, lease : Leases, worker : Workers, source : Sources]

ASSUME NoneAssumption ==
    /\ NoAttempt \notin Attempt
    /\ NoResult \notin Evidence

VARIABLES
    task,           \* the task as the newest durable generation has it
    past,           \* the durable states it can be recovered to, oldest first
    mission_revision,
    domain,         \* registry: worker -> trust_domain
    verifiers,      \* registry: enabled verifiers with capabilities and authority
    manifests,      \* manifests built and not recorded
    issued,         \* history: every attempt a worker was given
    newest,         \* history: the attempt issued last
    accepted,       \* history: every first acceptance of a result
    revisions,      \* number of revisions so far
    recoveries      \* number of recoveries so far

registry == <<domain, verifiers>>
history  == <<issued, newest, accepted>>
attemptsVars == <<task, past, mission_revision, registry, manifests, history, revisions, recoveries>>

-----------------------------------------------------------------------------
AttemptRecord ==
    [id : Attempt, status : {"ISSUED", "SUPERSEDED", "INGESTED"},
           result : Evidence \cup {NoResult}]

Manifest ==
    [attempt : Attempt, result : Evidence, producer_domain : Domains, mission_revision : Nat,
     verifier : Workers, verifier_domain : Domains, pass : BOOLEAN]

ASSUME ManifestAssumption == NoManifest \notin Manifest

Task ==
    [spec : Specs, status : {"READY", "RUNNING", "BLOCKED", "DONE"},
     fence        : Nat,                             \* fence_generation
     active       : Attempt \cup {NoAttempt},        \* active_attempt_id
     history      : Seq(AttemptRecord),              \* attempt_history
     verification : Manifest \cup {NoManifest}]      \* verification_evidence

\* The template's task: no runtime field is set.
Fresh(s) == [spec |-> s, status |-> "READY", fence |-> 0, active |-> NoAttempt,
             history |-> <<>>, verification |-> NoManifest]

\* Index of _current_record in the history.
IsCurrent(t, k) == k \in DOMAIN t.history /\ t.history[k].id = t.active

\* merge_compatible_runtime: the runtime fields are inherited for the same spec.
Merge(old, s) == IF old.spec = s THEN old ELSE Fresh(s)

AttemptsInit ==
    /\ \E s \in Specs : task = Fresh(s)
    /\ past = <<>>
    /\ mission_revision = 1
    /\ domain \in [Workers -> Domains]
    /\ verifiers \in SUBSET Workers
    /\ manifests = {}
    /\ issued = {}
    /\ newest = NoAttempt
    /\ accepted = {}
    /\ revisions = 0
    /\ recoveries = 0

\* The store commits t as the next generation.
Commit(t) == task' = t /\ past' = Append(past, task)

-----------------------------------------------------------------------------
(* begin_attempt, by a caller that leases a task that is not completed.    *)

\* The active attempt is this very issuance: it is returned as it is.
Reissued(w, l, src) ==
    \E k \in DOMAIN task.history :
        /\ IsCurrent(task, k)
        /\ task.history[k].status = "ISSUED"
        /\ LET a == task.history[k].id
           IN  a.worker = w /\ a.lease = l /\ a.spec = task.spec /\ a.source = src

\* An ISSUED current attempt is marked, the others are left alone.
Superseded(t) ==
    [k \in DOMAIN t.history |->
        IF IsCurrent(t, k) /\ t.history[k].status = "ISSUED"
        THEN [t.history[k] EXCEPT !.status = "SUPERSEDED"]
        ELSE t.history[k]]

NextAttempt(w, l, src) ==
    [spec |-> task.spec, number |-> Len(task.history) + 1, fence |-> task.fence + 1,
     lease |-> l, worker |-> w, source |-> src]

\* lease_id is a new uuid, or the one the active attempt already has.
Leasable(l) == (\A a \in issued : a.lease # l) \/ (task.active # NoAttempt /\ task.active.lease = l)

HasRoom == Len(task.history) < MaxAttempts

BeginAttempt(w, l, src) ==
    /\ task.status # "DONE"
    /\ Leasable(l)
    /\ ~Reissued(w, l, src)
    /\ HasRoom
    /\ LET a == NextAttempt(w, l, src)
       IN  /\ Commit([task EXCEPT !.status = "RUNNING",
                                  !.fence = a.fence,
                                  !.active = a,
                                  !.history = Append(Superseded(task),
                                      [id |-> a, status |-> "ISSUED", result |-> NoResult])])
           /\ issued' = issued \cup {a}
           /\ newest' = a
    /\ UNCHANGED <<mission_revision, registry, manifests, accepted, revisions, recoveries>>

-----------------------------------------------------------------------------
(* accept_result of what a worker built for attempt a.                     *)

\* Mutant of ResultIsCurrent: the lease alone identifies the attempt.
LeaseIsCurrent(a) ==
    /\ task.active # NoAttempt
    /\ a.lease = task.active.lease

\* The result is for the active attempt, the current fence and spec.
ResultIsCurrent(a) ==
    /\ task.active # NoAttempt
    /\ a = task.active
    /\ a.fence = task.fence
    /\ a.spec = task.spec

\* Mutant of Ingestible: an ingested attempt accepts another result.
IngestibleAgain(k) == task.history[k].status \in {"ISSUED", "INGESTED"}

Ingestible(k) == task.history[k].status = "ISSUED"

AcceptResult(a, e) ==
    /\ ResultIsCurrent(a)
    /\ \E k \in DOMAIN task.history :
          /\ IsCurrent(task, k)
          /\ Ingestible(k)
          /\ Commit([task EXCEPT !.history[k].status = "INGESTED", !.history[k].result = e])
    /\ accepted' = accepted \cup {[attempt |-> a, result |-> e]}
    /\ UNCHANGED <<mission_revision, registry, manifests, issued, newest, revisions, recoveries>>

-----------------------------------------------------------------------------
(* build_verification_manifest and accept_verification.                    *)

\* Mutant of Eligible: the verification mode is not looked at.
EligibleInAnyDomain(w, producer) == w # producer /\ w \in verifiers

\* eligible_verifiers: never the producer, and for the trust-domain mode
\* nobody of its domain.
Eligible(w, producer) ==
    /\ w # producer
    /\ w \in verifiers
    /\ task.spec \in CrossDomain => domain[w] # domain[producer]

\* _producer_subject: the current attempt is ingested with result e.
IsSubject(a, e) ==
    \E k \in DOMAIN task.history :
        /\ IsCurrent(task, k)
        /\ task.history[k].status = "INGESTED"
        /\ task.history[k].id = a
        /\ task.history[k].result = e
        /\ a.spec = task.spec

BuildManifest(w, e, pass) ==
    /\ task.active # NoAttempt
    /\ IsSubject(task.active, e)
    /\ Eligible(w, task.active.worker)
    /\ manifests' = manifests \cup
          {[attempt |-> task.active, result |-> e, producer_domain |-> domain[task.active.worker],
            mission_revision |-> mission_revision,
            verifier |-> w, verifier_domain |-> domain[w], pass |-> pass]}
    /\ Cardinality(manifests') <= MaxManifests
    /\ UNCHANGED <<task, past, mission_revision, registry, history, revisions, recoveries>>

\* Mutant of ManifestValid: what was checked when it was built is not checked again.
ManifestWasValid(m) == task.active = m.attempt

\* _validate_manifest, against the task and the registry of now.
ManifestValid(m) ==
    /\ IsSubject(m.attempt, m.result)
    /\ m.producer_domain = domain[m.attempt.worker]
    /\ m.mission_revision = mission_revision
    /\ Eligible(m.verifier, m.attempt.worker)
    /\ m.verifier_domain = domain[m.verifier]

\* Another decision is a VerificationConflict, the same one a no-op.
Undecided(m) == task.verification = NoManifest

\* Submitting a recorded manifest again changes nothing, and where it would be
\* accepted again it can be built again: it leaves the manifests in flight.
AcceptVerification(m) ==
    /\ ManifestValid(m)
    /\ Undecided(m)
    /\ Commit([task EXCEPT !.verification = m,
                           !.status = IF m.pass THEN "DONE" ELSE "BLOCKED"])
    /\ manifests' = manifests \ {m}
    /\ UNCHANGED <<mission_revision, registry, history, revisions, recoveries>>

-----------------------------------------------------------------------------
(* The world around the task.                                              *)

Revision == revisions < MaxRevisions /\ revisions' = revisions + 1

\* A new revision of the mission definition, with spec s for the task.
ReviseMission(s) ==
    /\ Revision
    /\ mission_revision' = mission_revision + 1
    /\ Commit(Merge(task, s))
    /\ UNCHANGED <<registry, manifests, history, recoveries>>

\* A worker moves to another trust domain, or stops or starts verifying.
ReviseRegistry(w) ==
    /\ Revision
    /\ \/ /\ \E d \in Domains \ {domain[w]} : domain' = [domain EXCEPT ![w] = d]
          /\ UNCHANGED verifiers
       \/ /\ verifiers' \in {verifiers \ {w}, verifiers \cup {w}} \ {verifiers}
          /\ UNCHANGED domain
    /\ UNCHANGED <<task, past, mission_revision, manifests, history, recoveries>>

\* recover_durable: the newest valid generation, under the current definition.
Recover(i) ==
    /\ recoveries < MaxRecoveries
    /\ recoveries' = recoveries + 1
    /\ task' = Merge(past[i], task.spec)
    /\ past' = SubSeq(past, 1, i - 1)
    /\ UNCHANGED <<mission_revision, registry, manifests, history, revisions>>

AttemptsNext ==
    \/ \E w \in Workers, l \in Leases, src \in Sources : BeginAttempt(w, l, src)
    \/ \E a \in issued, e \in Evidence : AcceptResult(a, e)
    \/ \E w \in Workers, e \in Evidence, pass \in BOOLEAN : BuildManifest(w, e, pass)
    \/ \E m \in manifests : AcceptVerification(m)
    \/ \E s \in Specs : ReviseMission(s)
    \/ \E w \in Workers : ReviseRegistry(w)
    \/ \E i \in DOMAIN past : Recover(i)

AttemptsSpec == AttemptsInit /\ [][AttemptsNext]_attemptsVars

-----------------------------------------------------------------------------
(* Properties.                                                             *)

AttemptsTypeOK ==
    /\ task \in Task
    /\ Len(task.history) <= MaxAttempts
    /\ past \in Seq(Task)
    /\ mission_revision \in Nat
    /\ domain \in [Workers -> Domains]
    /\ verifiers \subseteq Workers
    /\ manifests \subseteq Manifest
    /\ issued \subseteq Attempt
    /\ newest \in issued \cup {NoAttempt}
    /\ accepted \subseteq [attempt : Attempt, result : Evidence]
    /\ revisions \in 0..MaxRevisions
    /\ recoveries \in 0..MaxRecoveries

\* "Results from any lower fence are permanently stale" (begin_attempt): the
\* only attempt whose result is ever accepted is the one issued last, whatever
\* leases, workers and sources the late results share with it.
LowerFencesStayStale ==
    [][\A x \in accepted' \ accepted : x.attempt = newest]_attemptsVars

\* The same, until an earlier state of the task is recovered for the first time.
FencesHoldUntilRecovery ==
    [][recoveries = 0 => \A x \in accepted' \ accepted : x.attempt = newest]_attemptsVars

\* "Accept one result exactly once" (accept_result): until a recovery, no attempt
\* ever has two different accepted results.
OneResultPerAttempt ==
    recoveries = 0 =>
        \A x, y \in accepted : x.attempt = y.attempt => x.result = y.result

\* A completed task carries a passing manifest of another worker, in another
\* trust domain where the spec asks for it, on the result that was accepted for
\* the active attempt of the present spec: neither a superseded attempt nor a
\* revised spec, and no recovered state, passes for completed.
CompletionIsProven ==
    task.status = "DONE" =>
        LET m == task.verification
        IN  /\ m # NoManifest
            /\ m.pass
            /\ m.attempt = task.active
            /\ m.attempt.spec = task.spec
            /\ [attempt |-> m.attempt, result |-> m.result] \in accepted
            /\ m.verifier # m.attempt.worker
            /\ task.spec \in CrossDomain => m.verifier_domain # m.producer_domain

\* A decision is taken on the registry and the mission of the moment it is
\* recorded, not of the moment its manifest was built.
DecisionsAreCurrent ==
    [][\A m \in manifests :
          m = task'.verification /\ m # task.verification =>
              \/ recoveries' # recoveries
              \/ /\ m.mission_revision = mission_revision
                 /\ m.verifier \in verifiers
                 /\ m.verifier_domain = domain[m.verifier]
                 /\ m.producer_domain = domain[m.attempt.worker]]_attemptsVars

=============================================================================
