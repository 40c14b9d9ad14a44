------------------------ MODULE RequestAdmissionProofs ------------------------
(***************************************************************************)
(* For any number of requests, operations and closers and any limits: the  *)
(* counters are exact, the work is bounded by them, a drained close is     *)
(* quiet, and nothing starts after stop.                                   *)
(*                                                                         *)
(* The argument: what is queued or running is pending (PendingIsWork), so  *)
(* its permit is not refunded (PendingIsCounted); the counters being the   *)
(* number of such permits, the limits bound the work.  After stop every    *)
(* permit that is left is aborted (StopAborts), and the second look at the *)
(* signal stops what is queued.                                            *)
(***************************************************************************)
EXTENDS RequestAdmission, FiniteSetTheorems, TLAPS

PendingIsWork ==
  \A r \in Requests, o \in Operations :
    operation[r][o] \in {"queued", "running"} <=> o \in pending[r]

PendingIsCounted == \A r \in Requests : pending[r] # {} => counted(r)

StopAborts == ~accepting => \A r \in Requests : counted(r) => aborted[r]

ClosersStop == \A c \in Closers : closer[c] # "none" => ~accepting

DrainedIsEmpty == \A c \in Closers : closer[c] = "drained" => active = 0

AdmissionInv ==
  /\ TypeOK
  /\ CountersAreExact
  /\ PendingIsWork
  /\ PendingIsCounted
  /\ StopAborts
  /\ ClosersStop
  /\ DrainedIsEmpty

(* The steps that change neither permits nor counters.                     *)
quiet == UNCHANGED <<counters, permit>>
-----------------------------------------------------------------------------
\* One changed value leaves a function of its type.
LEMMA ExceptTyped ==
  ASSUME NEW S, NEW T, NEW f \in [S -> T], NEW x, NEW y \in T
  PROVE  [f EXCEPT ![x] = y] \in [S -> T]
OBVIOUS

\* Finitely many requests are held.
LEMMA HeldIsFinite == IsFiniteSet(held) /\ held \subseteq Requests
BY AdmissionAssumption, FS_Subset DEF held

\* The requests of a scope can be counted.
LEMMA ScopeIsFinite ==
  ASSUME NEW S \in SUBSET Requests, NEW scopeOf, NEW x
  PROVE  /\ IsFiniteSet(inScope(S, scopeOf, x))
         /\ Cardinality(inScope(S, scopeOf, x)) \in Nat
<1>1. inScope(S, scopeOf, x) \subseteq Requests
  BY DEF inScope
<1> QED
  BY <1>1, AdmissionAssumption, FS_Subset, FS_CardinalityType

(* A request more, or less, counts in its own scope and in no other.       *)
LEMMA ScopeGrows ==
  ASSUME NEW S \in SUBSET Requests, NEW r \in Requests, r \notin S,
         NEW scopeOf, NEW x
  PROVE  Cardinality(inScope(S \cup {r}, scopeOf, x)) =
           IF scopeOf[r] = x THEN Cardinality(inScope(S, scopeOf, x)) + 1
           ELSE Cardinality(inScope(S, scopeOf, x))
<1>1. CASE scopeOf[r] = x
  <2>1. inScope(S \cup {r}, scopeOf, x) = inScope(S, scopeOf, x) \cup {r}
    BY <1>1 DEF inScope
  <2>2. r \notin inScope(S, scopeOf, x)
    BY DEF inScope
  <2> QED
    BY <1>1, <2>1, <2>2, ScopeIsFinite, FS_AddElement
<1>2. CASE scopeOf[r] # x
  <2>1. inScope(S \cup {r}, scopeOf, x) = inScope(S, scopeOf, x)
    BY <1>2 DEF inScope
  <2> QED
    BY <1>2, <2>1
<1> QED
  BY <1>1, <1>2

\* A request that leaves takes one from its scope's count.
LEMMA ScopeShrinks ==
  ASSUME NEW S \in SUBSET Requests, NEW r \in S, NEW scopeOf, NEW x
  PROVE  Cardinality(inScope(S \ {r}, scopeOf, x)) =
           IF scopeOf[r] = x THEN Cardinality(inScope(S, scopeOf, x)) - 1
           ELSE Cardinality(inScope(S, scopeOf, x))
<1>1. CASE scopeOf[r] = x
  <2>1. inScope(S \ {r}, scopeOf, x) = inScope(S, scopeOf, x) \ {r}
    BY DEF inScope
  <2>2. r \in inScope(S, scopeOf, x)
    BY <1>1 DEF inScope
  <2>3. IsFiniteSet(inScope(S, scopeOf, x))
    BY ScopeIsFinite
  <2>4. Cardinality(inScope(S, scopeOf, x) \ {r}) = Cardinality(inScope(S, scopeOf, x)) - 1
    BY <2>2, <2>3, FS_RemoveElement
  <2> QED
    BY <1>1, <2>1, <2>4
<1>2. CASE scopeOf[r] # x
  <2>1. inScope(S \ {r}, scopeOf, x) = inScope(S, scopeOf, x)
    BY <1>2 DEF inScope
  <2> QED
    BY <1>2, <2>1
<1> QED
  BY <1>1, <1>2

\* A scope with a request counts at least one.
LEMMA ScopeIsPositive ==
  ASSUME NEW S \in SUBSET Requests, NEW r \in S, NEW scopeOf
  PROVE  Cardinality(inScope(S, scopeOf, scopeOf[r])) \in Nat \ {0}
<1>1. r \in inScope(S, scopeOf, scopeOf[r])
  BY DEF inScope
<1> QED
  BY <1>1, ScopeIsFinite, FS_EmptySet
-----------------------------------------------------------------------------
(* A new permit is one more to count, in its own scopes.                   *)
LEMMA AcquireCounts ==
  ASSUME TypeOK, CountersAreExact, NEW r \in Requests, acquire(r)
  PROVE  /\ CountersAreExact'
         /\ active' \in 0..global
         /\ actors' \in [Actors -> 0..actor]
         /\ projects' \in [Projects -> 0..project]
         /\ permit' \in [Requests -> Permits]
<1> USE AdmissionAssumption
<1>1. r \notin held /\ held' = held \cup {r}
  BY DEF acquire, held, counted, TypeOK
<1>2. Cardinality(held') = Cardinality(held) + 1
  BY <1>1, HeldIsFinite, FS_AddElement
<1>3. /\ active' = active + 1 /\ active < global
      /\ actors' = [actors EXCEPT ![actorOf[r]] = @ + 1] /\ actors[actorOf[r]] < actor
      /\ projects' = [projects EXCEPT ![projectOf[r]] = @ + 1]
      /\ projects[projectOf[r]] < project
  BY DEF acquire, hasRoom
<1>4. \A a \in Actors : actors'[a] = Cardinality(inScope(held', actorOf, a))
  <2> TAKE a \in Actors
  <2>1. Cardinality(inScope(held \cup {r}, actorOf, a)) =
          IF actorOf[r] = a THEN Cardinality(inScope(held, actorOf, a)) + 1
          ELSE Cardinality(inScope(held, actorOf, a))
    BY <1>1, ScopeGrows, HeldIsFinite
  <2> QED
    BY <1>1, <1>3, <2>1 DEF TypeOK, CountersAreExact
<1>5. \A p \in Projects : projects'[p] = Cardinality(inScope(held', projectOf, p))
  <2> TAKE p \in Projects
  <2>1. Cardinality(inScope(held \cup {r}, projectOf, p)) =
          IF projectOf[r] = p THEN Cardinality(inScope(held, projectOf, p)) + 1
          ELSE Cardinality(inScope(held, projectOf, p))
    BY <1>1, ScopeGrows, HeldIsFinite
  <2> QED
    BY <1>1, <1>3, <2>1 DEF TypeOK, CountersAreExact
<1>6. CountersAreExact'
  <2>1. active' = Cardinality(held')
    BY <1>2, <1>3 DEF CountersAreExact
  <2>2. /\ \A a \in Actors : actors'[a] = Cardinality(inScope(held, actorOf, a)')
        /\ \A p \in Projects : projects'[p] = Cardinality(inScope(held, projectOf, p)')
    BY <1>4, <1>5 DEF inScope
  <2> QED
    BY <2>1, <2>2 DEF CountersAreExact
<1>7. /\ active' \in 0..global
      /\ actors' \in [Actors -> 0..actor]
      /\ projects' \in [Projects -> 0..project]
  BY <1>3 DEF TypeOK
<1>8. permit' \in [Requests -> Permits]
  BY DEF acquire, TypeOK, Permits
<1> QED
  BY <1>6, <1>7, <1>8

(* A refund is one less, and only a counted permit is refunded.            *)
LEMMA RefundCounts ==
  ASSUME TypeOK, CountersAreExact, NEW r \in Requests, counted(r), refund(r)
  PROVE  /\ CountersAreExact'
         /\ active' \in 0..global
         /\ actors' \in [Actors -> 0..actor]
         /\ projects' \in [Projects -> 0..project]
         /\ permit' \in [Requests -> Permits]
         /\ closer' \in [Closers -> CloserStates]
<1> USE AdmissionAssumption
<1>1. r \in held /\ held' = held \ {r}
  BY DEF refund, held, counted, TypeOK
<1>2. Cardinality(held') = Cardinality(held) - 1 /\ Cardinality(held) # 0
  BY <1>1, HeldIsFinite, FS_RemoveElement, FS_EmptySet
<1>3. /\ active' = active - 1
      /\ actors' = [actors EXCEPT ![actorOf[r]] = @ - 1]
      /\ projects' = [projects EXCEPT ![projectOf[r]] = @ - 1]
  BY DEF refund
<1>4. \A a \in Actors : actors'[a] = Cardinality(inScope(held', actorOf, a))
  <2> TAKE a \in Actors
  <2>1. Cardinality(inScope(held \ {r}, actorOf, a)) =
          IF actorOf[r] = a THEN Cardinality(inScope(held, actorOf, a)) - 1
          ELSE Cardinality(inScope(held, actorOf, a))
    BY <1>1, ScopeShrinks, HeldIsFinite
  <2> QED
    BY <1>1, <1>3, <2>1 DEF TypeOK, CountersAreExact
<1>5. \A p \in Projects : projects'[p] = Cardinality(inScope(held', projectOf, p))
  <2> TAKE p \in Projects
  <2>1. Cardinality(inScope(held \ {r}, projectOf, p)) =
          IF projectOf[r] = p THEN Cardinality(inScope(held, projectOf, p)) - 1
          ELSE Cardinality(inScope(held, projectOf, p))
    BY <1>1, ScopeShrinks, HeldIsFinite
  <2> QED
    BY <1>1, <1>3, <2>1 DEF TypeOK, CountersAreExact
<1>6. CountersAreExact'
  <2>1. active' = Cardinality(held')
    BY <1>2, <1>3 DEF CountersAreExact
  <2>2. /\ \A a \in Actors : actors'[a] = Cardinality(inScope(held, actorOf, a)')
        /\ \A p \in Projects : projects'[p] = Cardinality(inScope(held, projectOf, p)')
    BY <1>4, <1>5 DEF inScope
  <2> QED
    BY <2>1, <2>2 DEF CountersAreExact
<1>7. /\ active # 0
      /\ actors[actorOf[r]] # 0
      /\ projects[projectOf[r]] # 0
  <2>1. Cardinality(inScope(held, actorOf, actorOf[r])) \in Nat \ {0}
    BY <1>1, ScopeIsPositive, HeldIsFinite
  <2>2. Cardinality(inScope(held, projectOf, projectOf[r])) \in Nat \ {0}
    BY <1>1, ScopeIsPositive, HeldIsFinite
  <2> QED
    BY <1>2, <2>1, <2>2 DEF CountersAreExact
<1>8. /\ active' \in 0..global
      /\ actors' \in [Actors -> 0..actor]
      /\ projects' \in [Projects -> 0..project]
  <2>1. active' \in 0..global
    BY <1>3, <1>7 DEF TypeOK
  <2>2. actors[actorOf[r]] - 1 \in 0..actor
    <3>1. actors[actorOf[r]] \in 0..actor
      BY DEF TypeOK
    <3> QED
      BY <1>7, <3>1
  <2>3. projects[projectOf[r]] - 1 \in 0..project
    <3>1. projects[projectOf[r]] \in 0..project
      BY DEF TypeOK
    <3> QED
      BY <1>7, <3>1
  <2>4. actors' \in [Actors -> 0..actor]
    BY <1>3, <2>2, ExceptTyped DEF TypeOK
  <2>5. projects' \in [Projects -> 0..project]
    BY <1>3, <2>3, ExceptTyped DEF TypeOK
  <2> QED
    BY <2>1, <2>4, <2>5
<1>9. /\ permit' \in [Requests -> Permits]
      /\ closer' \in [Closers -> CloserStates]
  BY DEF refund, TypeOK, Permits, CloserStates
<1> QED
  BY <1>6, <1>8, <1>9

\* A step that counts nothing keeps the counters exact.
LEMMA QuietCounts ==
  ASSUME CountersAreExact, quiet
  PROVE  CountersAreExact'
BY DEF CountersAreExact, quiet, counters, held, counted, inScope

\* While a request is counted the total is not zero.
LEMMA CountedIsActive ==
  ASSUME CountersAreExact, NEW r \in Requests, counted(r)
  PROVE  active # 0
<1>1. r \in held
  BY DEF held
<1> QED
  BY <1>1, HeldIsFinite, FS_EmptySet DEF CountersAreExact

\* Only a counted request is released.
LEMMA ReleaseIsCounted ==
  ASSUME NEW r \in Requests, release(r) \/ finishRelease(r)
  PROVE  counted(r)
BY DEF release, finishRelease, counted
-----------------------------------------------------------------------------
(* The steps: exact counters and shapes first.                             *)
LEMMA CountersStep ==
  ASSUME TypeOK, CountersAreExact, Next
  PROVE  TypeOK' /\ CountersAreExact'
<1> USE AdmissionAssumption
<1>1. ASSUME NEW r \in Requests, acquire(r)
      PROVE  TypeOK' /\ CountersAreExact'
  BY <1>1, AcquireCounts DEF acquire, TypeOK
<1>2. ASSUME NEW r \in Requests, abort(r)
      PROVE  TypeOK' /\ CountersAreExact'
  BY <1>2, QuietCounts DEF abort, quiet, counters, TypeOK
<1>3. ASSUME NEW r \in Requests, release(r)
      PROVE  TypeOK' /\ CountersAreExact'
  <2>1. CASE refund(r)
    BY <1>3, <2>1, RefundCounts, ReleaseIsCounted DEF release, TypeOK
  <2>2. CASE permit' = [permit EXCEPT ![r] = "releasing"] /\ UNCHANGED <<counters, closer>>
    <3>1. permit[r] = "held" /\ held' = held
      BY <1>3, <2>2 DEF release, held, counted, TypeOK
    <3>2. CountersAreExact'
      BY <2>2, <3>1 DEF CountersAreExact, counters, inScope
    <3> QED
      BY <1>3, <2>2, <3>2 DEF release, counters, TypeOK, Permits
  <2> QED
    BY <1>3, <2>1, <2>2 DEF release
<1>4. ASSUME NEW r \in Requests, finishRelease(r)
      PROVE  TypeOK' /\ CountersAreExact'
  BY <1>4, RefundCounts, ReleaseIsCounted DEF finishRelease, TypeOK
<1>5. ASSUME NEW r \in Requests, NEW o \in Operations, track(r, o)
      PROVE  TypeOK' /\ CountersAreExact'
  BY <1>5, QuietCounts DEF track, quiet, counters, TypeOK, OperationStates
<1>6. ASSUME NEW r \in Requests, NEW o \in Operations, run(r, o)
      PROVE  TypeOK' /\ CountersAreExact'
  <2>1. CountersAreExact'
    BY <1>6, QuietCounts DEF run, quiet, counters
  <2>2. CASE start(r, o)
    <3>1. /\ operation' \in [Requests -> [Operations -> OperationStates]]
          /\ pending' \in [Requests -> SUBSET Operations]
      <4>1. CASE /\ operation' = [operation EXCEPT ![r][o] = "running"]
                 /\ UNCHANGED pending
        BY <4>1 DEF TypeOK, OperationStates
      <4>2. CASE /\ operation' = [operation EXCEPT ![r][o] = "settled"]
                 /\ pending' = [pending EXCEPT ![r] = @ \ {o}]
        BY <4>2 DEF TypeOK, OperationStates
      <4> QED
        BY <2>2, <4>1, <4>2 DEF start
    <3> QED
      BY <1>6, <2>1, <3>1 DEF run, counters, TypeOK
  <2>3. CASE settle(r, o)
    <3>1. /\ operation' \in [Requests -> [Operations -> OperationStates]]
          /\ pending' \in [Requests -> SUBSET Operations]
      BY <2>3 DEF settle, TypeOK, OperationStates
    <3> QED
      BY <1>6, <2>1, <3>1 DEF run, counters, TypeOK
  <2> QED
    BY <1>6, <2>2, <2>3 DEF run
<1>7. ASSUME NEW c \in Closers, close(c)
      PROVE  TypeOK' /\ CountersAreExact'
  BY <1>7, QuietCounts DEF close, stop, quiet, counters, TypeOK, CloserStates
<1>8. ASSUME NEW c \in Closers, drainTimeout(c)
      PROVE  TypeOK' /\ CountersAreExact'
  BY <1>8, QuietCounts DEF drainTimeout, quiet, counters, TypeOK, CloserStates
<1> QED
  BY <1>1, <1>2, <1>3, <1>4, <1>5, <1>6, <1>7, <1>8 DEF Next

(* What works keeps its permit counted.                                    *)
LEMMA WorkStep ==
  ASSUME TypeOK, PendingIsWork, PendingIsCounted, Next
  PROVE  PendingIsWork' /\ PendingIsCounted'
<1> USE AdmissionAssumption DEF TypeOK, PendingIsWork, PendingIsCounted, counted
<1>1. ASSUME NEW r \in Requests, acquire(r)
      PROVE  PendingIsWork' /\ PendingIsCounted'
  BY <1>1 DEF acquire
<1>2. ASSUME NEW r \in Requests, abort(r)
      PROVE  PendingIsWork' /\ PendingIsCounted'
  BY <1>2 DEF abort
<1>3. ASSUME NEW r \in Requests, release(r)
      PROVE  PendingIsWork' /\ PendingIsCounted'
  BY <1>3 DEF release, refund
<1>4. ASSUME NEW r \in Requests, finishRelease(r)
      PROVE  PendingIsWork' /\ PendingIsCounted'
  BY <1>4 DEF finishRelease, refund
<1>5. ASSUME NEW r \in Requests, NEW o \in Operations, track(r, o)
      PROVE  PendingIsWork' /\ PendingIsCounted'
  BY <1>5 DEF track
<1>6. ASSUME NEW r \in Requests, NEW o \in Operations, run(r, o)
      PROVE  PendingIsWork' /\ PendingIsCounted'
  <2>1. CASE /\ operation[r][o] = "queued"
             /\ operation' = [operation EXCEPT ![r][o] = "running"]
             /\ UNCHANGED pending
    BY <1>6, <2>1 DEF run
  <2>2. CASE /\ operation[r][o] = "queued"
             /\ operation' = [operation EXCEPT ![r][o] = "settled"]
             /\ pending' = [pending EXCEPT ![r] = @ \ {o}]
    BY <1>6, <2>2 DEF run
  <2>3. CASE settle(r, o)
    BY <1>6, <2>3 DEF run, settle
  <2> QED
    BY <1>6, <2>1, <2>2, <2>3 DEF run, start
<1>7. ASSUME NEW c \in Closers, close(c)
      PROVE  PendingIsWork' /\ PendingIsCounted'
  BY <1>7 DEF close
<1>8. ASSUME NEW c \in Closers, drainTimeout(c)
      PROVE  PendingIsWork' /\ PendingIsCounted'
  BY <1>8 DEF drainTimeout
<1> QED
  BY <1>1, <1>2, <1>3, <1>4, <1>5, <1>6, <1>7, <1>8 DEF Next

(* Stopping is for good, and aborts every permit that is left.             *)
LEMMA StopStep ==
  ASSUME TypeOK, CountersAreExact, StopAborts, ClosersStop, DrainedIsEmpty, Next
  PROVE  StopAborts' /\ ClosersStop' /\ DrainedIsEmpty'
<1> USE AdmissionAssumption
    DEF TypeOK, StopAborts, ClosersStop, DrainedIsEmpty, counted, counters
<1>1. ASSUME NEW r \in Requests, acquire(r)
      PROVE  StopAborts' /\ ClosersStop' /\ DrainedIsEmpty'
  BY <1>1 DEF acquire
<1>2. ASSUME NEW r \in Requests, abort(r)
      PROVE  StopAborts' /\ ClosersStop' /\ DrainedIsEmpty'
  BY <1>2 DEF abort
<1>3. ASSUME NEW r \in Requests, refund(r), UNCHANGED <<accepting, aborted>>,
             permit[r] \in {"held", "releasing"}, active # 0
      PROVE  StopAborts' /\ ClosersStop' /\ DrainedIsEmpty'
  BY <1>3 DEF refund
<1>4. ASSUME NEW r \in Requests, release(r), active # 0
      PROVE  StopAborts' /\ ClosersStop' /\ DrainedIsEmpty'
  <2>1. CASE refund(r)
    BY <1>3, <1>4, <2>1 DEF release
  <2>2. CASE ~refund(r)
    BY <1>4, <2>2 DEF release
  <2> QED
    BY <2>1, <2>2
<1>5. ASSUME NEW r \in Requests, NEW o \in Operations, track(r, o) \/ run(r, o)
      PROVE  StopAborts' /\ ClosersStop' /\ DrainedIsEmpty'
  BY <1>5 DEF track, run
<1>6. ASSUME NEW c \in Closers, close(c)
      PROVE  StopAborts' /\ ClosersStop' /\ DrainedIsEmpty'
  BY <1>6 DEF close, stop
<1>7. ASSUME NEW c \in Closers, drainTimeout(c)
      PROVE  StopAborts' /\ ClosersStop' /\ DrainedIsEmpty'
  BY <1>7 DEF drainTimeout
<1> QED
  <2>1. \A r \in Requests : release(r) \/ finishRelease(r) => active # 0
    BY CountedIsActive, ReleaseIsCounted
  <2>2. \A r \in Requests : finishRelease(r) => StopAborts' /\ ClosersStop' /\ DrainedIsEmpty'
    BY <1>3, <2>1 DEF finishRelease
  <2>3. tracks \in [Requests -> SUBSET Operations]
    OBVIOUS
  <2> QED
    BY <1>1, <1>2, <1>4, <1>5, <1>6, <1>7, <2>1, <2>2, <2>3 DEF Next
-----------------------------------------------------------------------------
(* The inductive invariant holds of every reachable state.                 *)
THEOREM AdmissionInvariant == Spec => []AdmissionInv
<1>1. Init => AdmissionInv
  <2> SUFFICES ASSUME Init
               PROVE  AdmissionInv
    OBVIOUS
  <2> USE AdmissionAssumption DEF Init
  <2>1. TypeOK
    BY DEF TypeOK, Permits, OperationStates, CloserStates
  <2>2. CountersAreExact
    <3>1. held = {}
      BY DEF held, counted
    <3>2. \A S, x : inScope({}, S, x) = {}
      BY DEF inScope
    <3>3. Cardinality({}) = 0
      BY FS_EmptySet
    <3> QED
      BY <3>1, <3>2, <3>3 DEF CountersAreExact
  <2>3. PendingIsWork /\ PendingIsCounted
    BY DEF PendingIsWork, PendingIsCounted
  <2>4. StopAborts /\ ClosersStop /\ DrainedIsEmpty
    BY DEF StopAborts, ClosersStop, DrainedIsEmpty
  <2> QED
    BY <2>1, <2>2, <2>3, <2>4 DEF AdmissionInv
<1>2. AdmissionInv /\ [Next]_vars => AdmissionInv'
  <2> SUFFICES ASSUME AdmissionInv, [Next]_vars
               PROVE  AdmissionInv'
    OBVIOUS
  <2>1. CASE Next
    BY <2>1, CountersStep, WorkStep, StopStep DEF AdmissionInv
  <2>2. CASE UNCHANGED vars
    <3>1. CountersAreExact'
      BY <2>2, QuietCounts DEF AdmissionInv, vars, quiet, counters
    <3> QED
      BY <2>2, <3>1
      DEF vars, counters, counted, AdmissionInv, TypeOK, PendingIsWork,
          PendingIsCounted, StopAborts, ClosersStop, DrainedIsEmpty
  <2> QED
    BY <2>1, <2>2
<1> QED
  BY <1>1, <1>2, PTL DEF Spec

(* The shapes of the variables; no counter is ever beyond its limit.       *)
THEOREM AdmissionTypeOK == Spec => []TypeOK
<1>1. AdmissionInv => TypeOK
  BY DEF AdmissionInv
<1> QED
  BY <1>1, AdmissionInvariant, PTL

(* Each counter is the number of permits that are not refunded.            *)
THEOREM ExactCounters == Spec => []CountersAreExact
<1>1. AdmissionInv => CountersAreExact
  BY DEF AdmissionInv
<1> QED
  BY <1>1, AdmissionInvariant, PTL

\* A request at work holds its place.
LEMMA BusyIsHeld ==
  AdmissionInv => busy \subseteq held
BY DEF AdmissionInv, PendingIsWork, PendingIsCounted, busy, held, working

(* The limits bound the work that is queued or running.                    *)
THEOREM BoundedWork == Spec => []WorkIsBounded
<1>1. AdmissionInv => WorkIsBounded
  <2> SUFFICES ASSUME AdmissionInv
               PROVE  WorkIsBounded
    OBVIOUS
  <2> USE AdmissionAssumption
  <2>1. busy \subseteq held /\ held \subseteq Requests
    BY BusyIsHeld, HeldIsFinite
  <2>2. Cardinality(busy) <= global
    <3>1. Cardinality(busy) <= Cardinality(held) /\ IsFiniteSet(busy)
      BY <2>1, HeldIsFinite, FS_Subset
    <3>2. Cardinality(busy) \in Nat
      BY <3>1, FS_CardinalityType
    <3> QED
      BY <3>1, <3>2 DEF AdmissionInv, TypeOK, CountersAreExact
  <2>3. \A a \in Actors : Cardinality(inScope(busy, actorOf, a)) <= actor
    <3> TAKE a \in Actors
    <3>1. inScope(busy, actorOf, a) \subseteq inScope(held, actorOf, a)
      BY <2>1 DEF inScope
    <3>2. IsFiniteSet(inScope(held, actorOf, a))
      BY <2>1, ScopeIsFinite
    <3>3. Cardinality(inScope(busy, actorOf, a)) <= Cardinality(inScope(held, actorOf, a))
      BY <3>1, <3>2, FS_Subset
    <3>4. Cardinality(inScope(busy, actorOf, a)) \in Nat
      BY <2>1, ScopeIsFinite
    <3>5. Cardinality(inScope(held, actorOf, a)) \in 0..actor
      BY DEF AdmissionInv, TypeOK, CountersAreExact
    <3> QED
      BY <3>3, <3>4, <3>5
  <2>4. \A p \in Projects : Cardinality(inScope(busy, projectOf, p)) <= project
    <3> TAKE p \in Projects
    <3>1. inScope(busy, projectOf, p) \subseteq inScope(held, projectOf, p)
      BY <2>1 DEF inScope
    <3>2. IsFiniteSet(inScope(held, projectOf, p))
      BY <2>1, ScopeIsFinite
    <3>3. Cardinality(inScope(busy, projectOf, p))
            <= Cardinality(inScope(held, projectOf, p))
      BY <3>1, <3>2, FS_Subset
    <3>4. Cardinality(inScope(busy, projectOf, p)) \in Nat
      BY <2>1, ScopeIsFinite
    <3>5. Cardinality(inScope(held, projectOf, p)) \in 0..project
      BY DEF AdmissionInv, TypeOK, CountersAreExact
    <3> QED
      BY <3>3, <3>4, <3>5
  <2> QED
    BY <2>2, <2>3, <2>4 DEF WorkIsBounded
<1> QED
  BY <1>1, AdmissionInvariant, PTL

(* A close that resolved leaves no permit and no work behind.              *)
THEOREM QuietDrain == Spec => []DrainedIsQuiet
<1>1. AdmissionInv => DrainedIsQuiet
  <2> SUFFICES ASSUME AdmissionInv, NEW c \in Closers, closer[c] = "drained",
                      NEW r \in Requests
               PROVE  ~counted(r) /\ ~working(r)
    BY DEF DrainedIsQuiet
  <2>1. active = 0
    BY DEF AdmissionInv, DrainedIsEmpty
  <2>2. ~counted(r)
    BY <2>1, CountedIsActive DEF AdmissionInv
  <2>3. ~working(r)
    BY <2>2 DEF AdmissionInv, PendingIsWork, PendingIsCounted, working
  <2> QED
    BY <2>2, <2>3
<1> QED
  BY <1>1, AdmissionInvariant, PTL

(* After stop nothing that is queued starts.                               *)
THEOREM NothingStartsAfterStop == Spec => NoWorkAfterStop
<1>1. ASSUME AdmissionInv, [Next]_vars, ~accepting,
             NEW r \in Requests, NEW o \in Operations, operation'[r][o] = "running"
      PROVE  operation[r][o] = "running"
  <2> USE <1>1, AdmissionAssumption DEF AdmissionInv, TypeOK
  <2>1. ASSUME NEW q \in Requests, NEW e \in Operations, run(q, e)
        PROVE  operation[r][o] = "running"
    <3>1. operation[q][e] = "queued" => aborted[q]
      BY DEF PendingIsWork, PendingIsCounted, StopAborts
    <3>2. CASE start(q, e)
      <4>1. operation' = [operation EXCEPT ![q][e] = "settled"]
        BY <3>1, <3>2 DEF start
      <4> QED
        BY <4>1
    <3>3. CASE settle(q, e)
      BY <3>3 DEF settle
    <3> QED
      BY <2>1, <3>2, <3>3 DEF run
  <2>2. ASSUME NEW q \in Requests, NEW e \in Operations, track(q, e)
        PROVE  operation[r][o] = "running"
    BY <2>2 DEF track
  <2>3. CASE UNCHANGED operation
    BY <2>3
  <2> QED
    BY <2>1, <2>2, <2>3
    DEF Next, vars, acquire, abort, release, finishRelease, close, drainTimeout
<1>2. AdmissionInv /\ [Next]_vars =>
        [~accepting => \A r \in Requests, o \in Operations :
           operation'[r][o] = "running" => operation[r][o] = "running"]_vars
  BY <1>1
<1> QED
  BY <1>2, AdmissionInvariant, PTL DEF Spec, NoWorkAfterStop
=============================================================================
