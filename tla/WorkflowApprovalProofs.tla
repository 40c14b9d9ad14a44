----------------------- MODULE WorkflowApprovalProofs -----------------------
(***************************************************************************)
(* For any number of servers, handlers, reviewers, gates, revisions,       *)
(* deaths and failures: what is behind a gate is started at most once and  *)
(* only after an independent approval that was claimed, a draft has one    *)
(* open run, the two files agree, and what is over stays over.             *)
(*                                                                         *)
(* The argument: a request holds the lock of its record from the review to *)
(* its end, so each record has one handler (LockedOnce) and the handler's  *)
(* step tells the record's state (JobOK).  A run is in the hands of at     *)
(* most one handler (OwnedOnce), whose step tells the run's (OwnOK): the   *)
(* first request before any record exists, and later the one whose record  *)
(* repeats the run.  Two records of a run are of different gates           *)
(* (OneRecordPerGate), and the gate of a run never falls, so that a part   *)
(* that has started is behind the run for good (StartedOnce).              *)
(***************************************************************************)
EXTENDS WorkflowApproval, TLAPS

First == {"execute", "finish", "create"}
Claimed == {"begin", "block", "resume", "finishResumed", "createNext", "consume"}
Deciding == {"confirm", "write", "claim"} \cup Claimed
Approving == {"resume", "finishResumed", "createNext", "consume"}
Running == {"execute", "finish", "block", "resume", "finishResumed"}
Own == First \cup {"block", "resume", "finishResumed", "createNext"}
Between == {"claim", "begin", "create", "createNext"}

reviewable(run) == run \in RunRecords /\ run.state = "paused" /\ run.resumable /\ run.gate # 0
recordsOf(v) == {i \in ids : journal[i].revision = v}

\* What the step of a request says of its record.
JobOK(h) ==
  /\ pc[h] = "idle" => job[h] = NoJob
  /\ pc[h] \in First => job[h].revision \in Revisions /\ job[h].record = 0
  /\ pc[h] \in Deciding =>
       /\ job[h].record \in ids /\ job[h].record \in locked
       /\ job[h].revision = record(h).revision
       /\ job[h].by \in reviewers /\ job[h].outcome \in Outcomes
  /\ pc[h] \in {"confirm", "write"} => decidable(job[h].record)
  /\ pc[h] \in {"claim"} \cup Claimed => record(h).state = job[h].outcome
  /\ pc[h] = "claim" => job[h].record \notin claims
  /\ pc[h] \in Claimed => job[h].record \in claims
  /\ pc[h] \in Approving => job[h].outcome = "approved"

\* What the step of a request says of the run in its hands.
OwnOK(h) ==
  LET v == job[h].revision IN
  /\ pc[h] \in Running => runs[v] \in RunRecords /\ mayFinish(h, v)
  /\ pc[h] \in First => recordsOf(v) = {}
  /\ pc[h] \in {"execute", "finish"} => runs[v].gate = 0
  /\ pc[h] = "execute" => executed[v][0] = 0
  /\ pc[h] \in {"create", "createNext"} => reviewable(runs[v])
  /\ pc[h] \in {"block", "resume", "finishResumed"} => runs[v].gate = record(h).run.gate
  /\ pc[h] = "resume" => executed[v][runs[v].gate] = 0
  /\ pc[h] = "createNext" => \A i \in recordsOf(v) : journal[i].run.gate < runs[v].gate

RecordOK(i) ==
  LET v == journal[i].revision IN
  /\ reviewable(journal[i].run)
  /\ runs[v] \in RunRecords /\ journal[i].run.gate <= runs[v].gate
  /\ journal[i].state = "pending" => journal[i].by = None /\ i \notin claims /\ runs[v] = journal[i].run
  /\ journal[i].state # "pending" => journal[i].by \in reviewers
  /\ journal[i].state = "consumed" => i \in claims

\* A part that has started is behind its run, or is the one it is in.
StartedOK(v) ==
  \A g \in 0..Gates :
    /\ executed[v][g] <= 1
    /\ executed[v][g] # 0 =>
         /\ runs[v] \in RunRecords /\ g <= runs[v].gate
         /\ runs[v].state = "paused" => g # runs[v].gate

\* Who is at work on a run that is not over.
AttendedOK(v) ==
  runs[v] \in RunRecords /\ v \notin lost =>
    /\ runs[v].state = "running" => \E h \in Handlers : pc[h] \in Running /\ job[h].revision = v
    /\ runs[v].resumable =>
         \/ \E i \in recordsOf(v) : journal[i].state = "pending"
         \/ \E h \in Handlers : pc[h] \in Between /\ job[h].revision = v

LockedOnce ==
  \A h, k \in Handlers : pc[h] \in Deciding /\ pc[k] \in Deciding /\ job[h].record = job[k].record => h = k

OwnedOnce ==
  \A h, k \in Handlers : pc[h] \in Own /\ pc[k] \in Own /\ job[h].revision = job[k].revision => h = k

OneRecordPerGate ==
  \A i, j \in ids : journal[i].revision = journal[j].revision /\ journal[i].run.gate = journal[j].run.gate => i = j

LivesCounted == \A p \in Processes : life[p] <= crashes + 1 /\ crashes <= MaxCrashes

ApprovalInv ==
  /\ TypeOK
  /\ LivesCounted
  /\ \A h \in Handlers : JobOK(h)
  /\ \A h \in Handlers : OwnOK(h)
  /\ \A i \in ids : RecordOK(i)
  /\ \A v \in Revisions : StartedOK(v)
  /\ \A v \in Revisions : AttendedOK(v)
  /\ LockedOnce
  /\ OwnedOnce
  /\ OneRecordPerGate
  /\ ExecutionIsDecided
  /\ OneOpenRun

-----------------------------------------------------------------------------
(* Shapes *)

\* A handler without a request, and one with its first.
LEMMA NoJobTyped ==
  NoJob \in Jobs /\ \A v \in Revisions : [NoJob EXCEPT !.revision = v] \in Jobs
<1>1. 0 \in 0..MaxRevision /\ Revisions \subseteq 0..MaxRevision
  BY WorkflowAssumption, SMT DEF Revisions
<1>2. \A v \in 0..MaxRevision, i \in Nat, p \in People \cup {None}, o \in Outcomes \cup {None} :
        [revision |-> v, record |-> i, by |-> p, outcome |-> o] \in Jobs
  BY Zenon DEF Jobs
<1>3. NoJob \in Jobs
  BY <1>1, <1>2, SMT DEF NoJob
<1>4. \A j \in Jobs, v \in 0..MaxRevision : [j EXCEPT !.revision = v] \in Jobs
  BY Zenon DEF Jobs
<1> QED
  BY <1>1, <1>3, <1>4, Zenon

\* What a reviewer's request is about.
LEMMA DecisionTyped ==
  \A v \in Revisions, i \in Nat, p \in People, o \in Outcomes :
    [revision |-> v, record |-> i, by |-> p, outcome |-> o] \in Jobs
<1>1. Revisions \subseteq 0..MaxRevision
  BY WorkflowAssumption, SMT DEF Revisions
<1>2. \A v \in 0..MaxRevision, i \in Nat, p \in People \cup {None}, o \in Outcomes \cup {None} :
        [revision |-> v, record |-> i, by |-> p, outcome |-> o] \in Jobs
  BY Zenon DEF Jobs
<1> QED
  BY <1>1, <1>2

\* A decision that is found late is a decision.
LEMMA OutcomeClosed ==
  \A j \in Jobs, o \in Outcomes : [j EXCEPT !.outcome = o] \in Jobs
BY Zenon DEF Jobs

\* What becomes of a run is a run.
LEMMA RunsClosed ==
  \A r \in RunRecords, e \in Epochs, g \in 0..Gates, s \in {"running", "paused", "completed", "blocked"} :
    /\ finished(r, s, g) \in RunRecords
    /\ [r EXCEPT !.state = "running", !.resumable = FALSE, !.epoch = e] \in RunRecords
    /\ [state |-> "running", gate |-> 0, resumable |-> FALSE, epoch |-> e] \in RunRecords
<1> SUFFICES ASSUME NEW r \in RunRecords, NEW e \in Epochs, NEW g \in 0..Gates,
                    NEW s \in {"running", "paused", "completed", "blocked"}
             PROVE  /\ finished(r, s, g) \in RunRecords
                    /\ [r EXCEPT !.state = "running", !.resumable = FALSE, !.epoch = e] \in RunRecords
                    /\ [state |-> "running", gate |-> 0, resumable |-> FALSE, epoch |-> e] \in RunRecords
  OBVIOUS
<1>1. (s = "paused") \in BOOLEAN
  OBVIOUS
<1>2. \A b \in BOOLEAN : [r EXCEPT !.state = s, !.gate = g, !.resumable = b] \in RunRecords
  BY Zenon DEF RunRecords
<1>3. finished(r, s, g) \in RunRecords
  BY <1>1, <1>2, Zenon DEF finished
<1>4. "running" \in {"running", "paused", "completed", "blocked"} /\ FALSE \in BOOLEAN
  OBVIOUS
<1>5. \A t \in {"running", "paused", "completed", "blocked"}, b \in BOOLEAN :
        [r EXCEPT !.state = t, !.resumable = b, !.epoch = e] \in RunRecords
  BY Zenon DEF RunRecords
<1>6. [r EXCEPT !.state = "running", !.resumable = FALSE, !.epoch = e] \in RunRecords
  BY <1>4, <1>5, Zenon
<1>7. 0 \in 0..Gates
  BY WorkflowAssumption, SMT
<1>8. [state |-> "running", gate |-> 0, resumable |-> FALSE, epoch |-> e] \in RunRecords
  BY <1>4, <1>7, Zenon DEF RunRecords
<1> QED
  BY <1>3, <1>6, <1>8

\* The fields of what a run becomes.
LEMMA RunFields ==
  \A r \in RunRecords, e \in Epochs, g \in 0..Gates, s \in {"running", "paused", "completed", "blocked"} :
    LET f == finished(r, s, g)
        b == [r EXCEPT !.state = "running", !.resumable = FALSE, !.epoch = e]
    IN /\ f.state = s /\ f.gate = g /\ f.resumable = (s = "paused") /\ f.epoch = r.epoch
       /\ b.state = "running" /\ b.gate = r.gate /\ b.resumable = FALSE /\ b.epoch = e
BY SMT DEF finished, RunRecords

\* What becomes of an approval record is one.
LEMMA RecordsClosed ==
  /\ \A v \in Revisions, r \in RunRecords :
       [revision |-> v, run |-> r, state |-> "pending", by |-> None] \in Records
  /\ \A r \in Records, o \in Outcomes, p \in People : [[r EXCEPT !.state = o] EXCEPT !.by = p] \in Records
  /\ \A r \in Records : [r EXCEPT !.state = "consumed"] \in Records
<1>1. \A v \in Revisions, r \in RunRecords, s \in RecordStates, p \in People \cup {None} :
        [revision |-> v, run |-> r, state |-> s, by |-> p] \in Records
  BY Zenon DEF Records
<1>2. \A r \in Records, s \in RecordStates : [r EXCEPT !.state = s] \in Records
  BY Zenon DEF Records
<1>3. \A r \in Records, p \in People : [r EXCEPT !.by = p] \in Records
  BY Zenon DEF Records
<1>4. "pending" \in RecordStates /\ "consumed" \in RecordStates /\ Outcomes \subseteq RecordStates
  BY DEF RecordStates, Outcomes
<1> QED
  BY <1>1, <1>2, <1>3, <1>4

\* A process runs in an epoch.
LEMMA EpochTyped ==
  ASSUME TypeOK, NEW h \in Handlers
  PROVE  epochOf(h) \in Epochs
BY WorkflowAssumption DEF TypeOK, epochOf, Epochs

\* The end of a request keeps the shapes.
LEMMA EndTyped ==
  ASSUME TypeOK, NEW h \in Handlers, end(h)
  PROVE  pc' \in [Handlers -> Steps] /\ job' \in [Handlers -> Jobs] /\ locked' \subseteq ids
BY NoJobTyped, SMT DEF TypeOK, end, goto, Steps

-----------------------------------------------------------------------------
(* What a step of somebody else leaves to a request *)

Undisturbed(k) ==
  LET v == job[k].revision
      i == job[k].record IN
  /\ pc'[k] = pc[k] /\ job'[k] = job[k] /\ life'[home[k]] = life[home[k]]
  /\ pc[k] \in Deciding =>
       /\ i \in 1..Len(journal') /\ i \in locked' /\ journal'[i] = journal[i]
       /\ i \in claims' <=> i \in claims
  /\ pc[k] \in Own =>
       /\ runs'[v] = runs[v] /\ executed'[v] = executed[v]
       /\ \A j \in 1..Len(journal') : journal'[j].revision = v =>
            j \in recordsOf(v) /\ journal'[j].run = journal[j].run

\* A request that is left alone keeps what its step says.
LEMMA UndisturbedKeeps ==
  ASSUME NEW k \in Handlers, JobOK(k), OwnOK(k), Undisturbed(k)
  PROVE  JobOK(k)' /\ OwnOK(k)'
<1> USE DEF Undisturbed
<1>1. JobOK(k)'
  BY SMT DEF JobOK, First, Claimed, Deciding, Approving, record, ids, decidable, reviewers, NoJob
<1>2. epochOf(k)' = epochOf(k)
  BY DEF epochOf
<1>3. pc[k] \in Running \cup First \cup {"createNext"} => pc[k] \in Own
  BY DEF Running, Own, First
<1>4. pc[k] \in {"block", "resume", "finishResumed"} => pc[k] \in Deciding
  BY DEF Deciding, Claimed
<1>5. recordsOf(job[k].revision) \subseteq ids
  BY DEF recordsOf
<1>6. OwnOK(k)'
  BY <1>2, <1>3, <1>4, SMT DEF OwnOK, Own, Running, First, Deciding, Claimed, mayFinish, recordsOf, ids, record, reviewable
<1> QED
  BY <1>1, <1>6

\* The invariant, from its parts for the handler h of a step and for the others.
LEMMA ByHandler ==
  ASSUME ApprovalInv, NEW h \in Handlers, JobOK(h)', OwnOK(h)',
         \A k \in Handlers \ {h} : Undisturbed(k)
  PROVE  (\A k \in Handlers : JobOK(k))' /\ (\A k \in Handlers : OwnOK(k))'
<1>1. ASSUME NEW k \in Handlers
      PROVE  JobOK(k)' /\ OwnOK(k)'
  <2>1. CASE k = h
    BY <2>1
  <2>2. CASE k # h
    BY <2>2, UndisturbedKeeps DEF ApprovalInv
  <2> QED
    BY <2>1, <2>2
<1> QED
  BY <1>1

\* The revision a request is about, and the run that is its business.
LEMMA JobTyped ==
  ASSUME ApprovalInv, NEW h \in Handlers
  PROVE  /\ pc[h] \in Steps /\ job[h] \in Jobs /\ JobOK(h) /\ OwnOK(h)
         /\ pc[h] \in First \cup Deciding => job[h].revision \in Revisions
         /\ pc[h] \in Deciding =>
              /\ job[h].record \in ids /\ record(h) \in Records /\ RecordOK(job[h].record)
              /\ record(h).run \in RunRecords /\ record(h).revision = job[h].revision
         /\ pc[h] \in First \/ pc[h] \in Deciding \/ pc[h] = "idle"
<1>1. pc[h] \in Steps /\ job[h] \in Jobs /\ JobOK(h) /\ OwnOK(h)
  BY DEF ApprovalInv, TypeOK
<1>2. \A i \in ids : journal[i] \in Records /\ RecordOK(i)
  BY SMT DEF ApprovalInv, TypeOK, ids
<1>3. \A r \in Records : r.revision \in Revisions /\ r.run \in RunRecords
  BY DEF Records
<1>4. pc[h] \in Deciding =>
        /\ job[h].record \in ids /\ record(h) \in Records /\ RecordOK(job[h].record)
        /\ record(h).run \in RunRecords /\ record(h).revision = job[h].revision
  BY <1>1, <1>2, <1>3, Zenon DEF JobOK, record
<1>5. pc[h] \in First \cup Deciding => job[h].revision \in Revisions
  BY <1>1, <1>3, <1>4, Zenon DEF JobOK
<1>6. pc[h] \in First \/ pc[h] \in Deciding \/ pc[h] = "idle"
  BY <1>1, SMT DEF Steps, First, Deciding, Claimed
<1> QED
  BY <1>1, <1>4, <1>5, <1>6, Zenon

\* A step that changes neither file keeps what is said of them.
LEMMA StoreKeeps ==
  ASSUME ApprovalInv, UNCHANGED <<runs, journal, claims, executed>>
  PROVE  /\ (\A i \in ids : RecordOK(i))' /\ (\A v \in Revisions : StartedOK(v))'
         /\ OneRecordPerGate' /\ ExecutionIsDecided' /\ OneOpenRun'
<1> USE DEF ApprovalInv
<1>1. (\A i \in ids : RecordOK(i))'
  BY SMT DEF RecordOK, ids, reviewable
<1>2. (\A v \in Revisions : StartedOK(v))'
  BY SMT DEF StartedOK
<1>3. OneRecordPerGate'
  BY SMT DEF OneRecordPerGate, ids
<1>4. ExecutionIsDecided'
  BY SMT DEF ExecutionIsDecided
<1>5. OneOpenRun'
  BY Zenon DEF OneOpenRun, saved, blocksDraft
<1> QED
  BY <1>1, <1>2, <1>3, <1>4, <1>5

\* The end of a request takes nothing from the others.
LEMMA EndKeeps ==
  ASSUME ApprovalInv, NEW h \in Handlers, end(h)
  PROVE  /\ \A k \in Handlers \ {h} :
              /\ pc'[k] = pc[k] /\ job'[k] = job[k]
              /\ pc[k] \in Deciding => job[k].record \in locked'
         /\ pc'[h] = "idle" /\ job'[h] = NoJob /\ JobOK(h)' /\ OwnOK(h)'
         /\ LockedOnce' /\ OwnedOnce'
<1>1. /\ pc' = [pc EXCEPT ![h] = "idle"] /\ job' = [job EXCEPT ![h] = NoJob]
      /\ locked' = locked \ {job[h].record}
      /\ pc \in [Handlers -> Steps] /\ job \in [Handlers -> Jobs]
  BY DEF end, goto, ApprovalInv, TypeOK
<1>2. ASSUME NEW k \in Handlers \ {h}, pc[k] \in Deciding
      PROVE  job[k].record \in locked'
  <2>1. job[k].record \in locked /\ job[k].record \in ids
    BY <1>2, JobTyped DEF JobOK
  <2>2. pc[h] \in Deciding => job[h].record # job[k].record
    BY <1>2 DEF ApprovalInv, LockedOnce
  <2>3. pc[h] \notin Deciding => job[h].record = 0
    BY JobTyped DEF JobOK, NoJob
  <2>4. 0 \notin ids
    BY DEF ids
  <2> QED
    BY <1>1, <2>1, <2>2, <2>3, <2>4
<1>3. \A k \in Handlers \ {h} : pc'[k] = pc[k] /\ job'[k] = job[k]
  BY <1>1
<1>4. pc'[h] = "idle" /\ job'[h] = NoJob
  BY <1>1
<1>5. JobOK(h)' /\ OwnOK(h)'
  BY <1>4, SMT DEF JobOK, OwnOK, First, Deciding, Claimed, Approving, Running
<1>6. "idle" \notin Deciding /\ "idle" \notin Own
  BY DEF Deciding, Claimed, Own, First
<1>7. LockedOnce'
  BY <1>3, <1>4, <1>6 DEF LockedOnce, ApprovalInv
<1>8. OwnedOnce'
  BY <1>3, <1>4, <1>6 DEF OwnedOnce, ApprovalInv
<1> QED
  BY <1>2, <1>3, <1>4, <1>5, <1>7, <1>8

\* An abandoned request keeps the invariant: its run is lost, not taken.
LEMMA ThrowKeeps ==
  ASSUME ApprovalInv, NEW h \in Handlers, throw(h), failures' \in Nat, stale' \subseteq Debris
  PROVE  ApprovalInv'
<1>1. /\ pc[h] \in writing /\ lost' = lost \cup underway(h) /\ end(h)
      /\ UNCHANGED <<revision, runs, journal, claims, executed, life, crashes>>
  BY DEF throw
<1>2. /\ \A k \in Handlers \ {h} :
            /\ pc'[k] = pc[k] /\ job'[k] = job[k]
            /\ pc[k] \in Deciding => job[k].record \in locked'
      /\ pc'[h] = "idle" /\ job'[h] = NoJob /\ JobOK(h)' /\ OwnOK(h)'
      /\ LockedOnce' /\ OwnedOnce'
  BY <1>1, EndKeeps
<1>3. TypeOK'
  <2>1. job[h].revision \in Revisions
    BY <1>1, JobTyped DEF writing, Steps
  <2>2. lost' \subseteq Revisions
    BY <1>1, <2>1 DEF underway, ApprovalInv, TypeOK
  <2>3. pc' \in [Handlers -> Steps] /\ job' \in [Handlers -> Jobs] /\ locked' \subseteq ids
    BY <1>1, EndTyped DEF ApprovalInv
  <2> QED
    BY <1>1, <2>2, <2>3 DEF TypeOK, ApprovalInv, ids, saved
<1>4. LivesCounted'
  BY <1>1 DEF LivesCounted, ApprovalInv
<1>5. \A k \in Handlers \ {h} : Undisturbed(k)
  BY <1>1, <1>2, JobTyped, SMT DEF Undisturbed, recordsOf, ids, JobOK
<1>6. (\A k \in Handlers : JobOK(k))' /\ (\A k \in Handlers : OwnOK(k))'
  BY <1>2, <1>5, ByHandler
<1>7. (\A v \in Revisions : AttendedOK(v))'
  <2> SUFFICES ASSUME NEW v \in Revisions
               PROVE  AttendedOK(v)'
    OBVIOUS
  <2>1. AttendedOK(v)
    BY DEF ApprovalInv
  <2>2. v \notin lost' => v \notin lost /\ (pc[h] \in Running \cup Between => job[h].revision # v)
    BY <1>1, SMT DEF underway, writing, Running, Between, Steps
  <2>3. recordsOf(v)' = recordsOf(v)
    BY <1>1 DEF recordsOf, ids
  <2> QED
    BY <1>1, <1>2, <2>1, <2>2, <2>3, SMT DEF AttendedOK
<1> QED
  BY <1>1, <1>2, <1>3, <1>4, <1>6, <1>7, StoreKeeps DEF ApprovalInv

-----------------------------------------------------------------------------
(* Steps from one place of a request to the next *)

\* The next step of a request takes no record and no run from another.
LEMMA MoveKeeps ==
  ASSUME ApprovalInv, NEW h \in Handlers, NEW s \in Steps,
         pc' = [pc EXCEPT ![h] = s], job' \in [Handlers -> Jobs],
         job'[h].record = job[h].record, job'[h].revision = job[h].revision,
         \A k \in Handlers \ {h} : job'[k] = job[k],
         s \in Own => pc[h] \in Own, s \in Deciding => pc[h] \in Deciding
  PROVE  /\ pc' \in [Handlers -> Steps] /\ pc'[h] = s
         /\ \A k \in Handlers \ {h} : pc'[k] = pc[k] /\ job'[k] = job[k]
         /\ LockedOnce' /\ OwnedOnce'
<1>1. pc' \in [Handlers -> Steps] /\ pc'[h] = s /\ \A k \in Handlers \ {h} : pc'[k] = pc[k] /\ job'[k] = job[k]
  BY DEF ApprovalInv, TypeOK
<1>2. LockedOnce'
  BY <1>1, SMT DEF LockedOnce, ApprovalInv
<1>3. OwnedOnce'
  BY <1>1, SMT DEF OwnedOnce, ApprovalInv
<1> QED
  BY <1>1, <1>2, <1>3

\* Who is at work on a run stays at work on it.
LEMMA StillAttended ==
  ASSUME ApprovalInv, NEW h \in Handlers, UNCHANGED <<runs, journal, lost>>,
         \A k \in Handlers \ {h} : pc'[k] = pc[k] /\ job'[k] = job[k],
         pc[h] \in Running \cup Between => job'[h].revision = job[h].revision,
         pc[h] \in Running => pc'[h] \in Running,
         pc[h] \in Between => pc'[h] \in Between
  PROVE  (\A v \in Revisions : AttendedOK(v))'
<1> SUFFICES ASSUME NEW v \in Revisions
             PROVE  AttendedOK(v)'
  OBVIOUS
<1>1. AttendedOK(v) /\ recordsOf(v)' = recordsOf(v)
  BY DEF ApprovalInv, recordsOf, ids
<1>2. \A k \in Handlers : /\ pc[k] \in Running /\ job[k].revision = v => pc'[k] \in Running /\ job'[k].revision = v
                          /\ pc[k] \in Between /\ job[k].revision = v => pc'[k] \in Between /\ job'[k].revision = v
  OBVIOUS
<1> QED
  BY <1>1, <1>2, SMT DEF AttendedOK

\* Part g of run v starts, in the hands of h.
LEMMA StartKeeps ==
  ASSUME ApprovalInv, NEW h \in Handlers, pc[h] \in {"execute", "resume"},
         NEW v \in Revisions, v = job[h].revision, NEW g \in 0..Gates, g = runs[v].gate,
         executed[v][g] = 0, start(v, g), UNCHANGED runs
  PROVE  /\ executed' \in [Revisions -> [0..Gates -> Nat]]
         /\ \A w \in Revisions \ {v} : executed'[w] = executed[w]
         /\ \A f \in 0..Gates \ {g} : executed'[v][f] = executed[v][f]
         /\ (\A w \in Revisions : StartedOK(w))'
<1>1. executed \in [Revisions -> [0..Gates -> Nat]]
  BY DEF ApprovalInv, TypeOK
<1>2. executed' = [executed EXCEPT ![v] = [executed[v] EXCEPT ![g] = 1]]
  BY <1>1 DEF start
<1>3. executed' \in [Revisions -> [0..Gates -> Nat]]
  BY <1>1, <1>2
<1>4. \A w \in Revisions \ {v} : executed'[w] = executed[w]
  BY <1>1, <1>2
<1>5. executed'[v][g] = 1 /\ \A f \in 0..Gates \ {g} : executed'[v][f] = executed[v][f]
  BY <1>1, <1>2
<1>6. runs[v] \in RunRecords /\ runs[v].state = "running"
  BY DEF ApprovalInv, OwnOK, Running, mayFinish
<1>7. ASSUME NEW w \in Revisions
      PROVE  StartedOK(w)'
  <2>1. StartedOK(w)
    BY DEF ApprovalInv
  <2>2. CASE w # v
    BY <1>4, <2>1, <2>2, SMT DEF StartedOK
  <2>3. CASE w = v
    BY <1>5, <1>6, <2>1, <2>3, SMT DEF StartedOK
  <2> QED
    BY <2>2, <2>3
<1> QED
  BY <1>3, <1>4, <1>5, <1>7

\* Starting the first part keeps the invariant.
LEMMA ExecuteKeeps ==
  ASSUME ApprovalInv, NEW h \in Handlers, execute(h)
  PROVE  ApprovalInv'
<1> DEFINE v == job[h].revision
<1>1. /\ pc[h] = "execute" /\ start(v, 0) /\ pc' = [pc EXCEPT ![h] = "finish"]
      /\ UNCHANGED <<revision, runs, stale, journal, locked, claims, job, lost, life, crashes, failures>>
  BY DEF execute, goto, store, faults
<1>2. /\ v \in Revisions /\ JobOK(h) /\ OwnOK(h)
  BY <1>1, JobTyped DEF First
<1>3. /\ runs[v].gate = 0 /\ executed[v][0] = 0 /\ 0 \in 0..Gates
  BY <1>1, <1>2, WorkflowAssumption DEF OwnOK
<1>4. /\ executed' \in [Revisions -> [0..Gates -> Nat]]
      /\ \A w \in Revisions \ {v} : executed'[w] = executed[w]
      /\ \A f \in 0..Gates \ {0} : executed'[v][f] = executed[v][f]
      /\ (\A w \in Revisions : StartedOK(w))'
  BY <1>1, <1>2, <1>3, StartKeeps
<1>5. "finish" \in Steps /\ "execute" \in Own /\ "finish" \notin Deciding /\ job \in [Handlers -> Jobs]
  BY DEF Steps, Own, First, Deciding, Claimed, ApprovalInv, TypeOK
<1>6. /\ pc' \in [Handlers -> Steps] /\ pc'[h] = "finish"
      /\ \A k \in Handlers \ {h} : pc'[k] = pc[k] /\ job'[k] = job[k]
      /\ LockedOnce' /\ OwnedOnce'
  BY <1>1, <1>5, MoveKeeps
<1>7. TypeOK'
  BY <1>1, <1>4, <1>6 DEF TypeOK, ApprovalInv, ids, saved
<1>8. \A k \in Handlers \ {h} : Undisturbed(k)
  <2> SUFFICES ASSUME NEW k \in Handlers \ {h}
               PROVE  Undisturbed(k)
    OBVIOUS
  <2>1. pc[k] \in Own => job[k].revision # v /\ job[k].revision \in Revisions
    BY <1>1, <1>5, JobTyped DEF ApprovalInv, OwnedOnce, Own, First, Deciding, Claimed
  <2> QED
    BY <1>1, <1>4, <1>6, <2>1, JobTyped, SMT DEF Undisturbed, recordsOf, ids, JobOK
<1>9. JobOK(h)' /\ OwnOK(h)'
  <2>1. mayFinish(h, v)' /\ runs[v] \in RunRecords /\ recordsOf(v) = {}
    BY <1>1, <1>2, SMT DEF OwnOK, Running, First, mayFinish, epochOf
  <2>2. recordsOf(v)' = recordsOf(v)
    BY <1>1 DEF recordsOf, ids
  <2> QED
    BY <1>1, <1>2, <1>3, <1>6, <2>1, <2>2, SMT DEF JobOK, OwnOK, First, Deciding, Claimed, Approving, Running, mayFinish, epochOf, recordsOf, ids
<1>10. (\A k \in Handlers : JobOK(k))' /\ (\A k \in Handlers : OwnOK(k))'
  BY <1>8, <1>9, ByHandler
<1>11. (\A w \in Revisions : AttendedOK(w))'
  BY <1>1, <1>6, StillAttended DEF Running, Between
<1>12. /\ (\A i \in ids : RecordOK(i))' /\ OneRecordPerGate' /\ OneOpenRun' /\ LivesCounted'
  BY <1>1, SMT DEF ApprovalInv, RecordOK, reviewable, ids, OneRecordPerGate, OneOpenRun, saved, blocksDraft, LivesCounted
<1>13. ExecutionIsDecided'
  <2>1. \A w \in Revisions, g \in 1..Gates : executed'[w][g] = executed[w][g]
    BY <1>2, <1>4, SMT
  <2> QED
    BY <1>1, <2>1, SMT DEF ExecutionIsDecided, ApprovalInv
<1> QED
  BY <1>4, <1>6, <1>7, <1>10, <1>11, <1>12, <1>13 DEF ApprovalInv

\* Starting the part behind a gate keeps the invariant.
LEMMA ResumeKeeps ==
  ASSUME ApprovalInv, NEW h \in Handlers, resume(h)
  PROVE  ApprovalInv'
<1> DEFINE v == job[h].revision
           g == record(h).run.gate
<1>1. /\ pc[h] = "resume" /\ start(v, g) /\ pc' = [pc EXCEPT ![h] = "finishResumed"]
      /\ UNCHANGED <<revision, runs, stale, journal, locked, claims, job, lost, life, crashes, failures>>
  BY DEF resume, goto, store, faults
<1>2. /\ v \in Revisions /\ JobOK(h) /\ OwnOK(h) /\ job[h].record \in ids
      /\ record(h) \in Records /\ RecordOK(job[h].record) /\ record(h).revision = v
  BY <1>1, JobTyped DEF Deciding, Claimed
<1>3. /\ runs[v].gate = g /\ executed[v][g] = 0 /\ g # 0 /\ runs[v] \in RunRecords
  BY <1>1, <1>2, SMT DEF OwnOK, RecordOK, record, reviewable, Running
<1>4. g \in 0..Gates
  BY <1>3 DEF RunRecords
<1>5. PICK n \in 0..Gates : n = g
  BY <1>4
<1>6. /\ executed' \in [Revisions -> [0..Gates -> Nat]]
      /\ \A w \in Revisions \ {v} : executed'[w] = executed[w]
      /\ \A f \in 0..Gates \ {n} : executed'[v][f] = executed[v][f]
      /\ (\A w \in Revisions : StartedOK(w))'
  BY <1>1, <1>2, <1>3, <1>5, StartKeeps
<1>7. "finishResumed" \in Steps /\ "resume" \in Own /\ "resume" \in Deciding /\ job \in [Handlers -> Jobs]
  BY DEF Steps, Own, First, Deciding, Claimed, ApprovalInv, TypeOK
<1>8. /\ pc' \in [Handlers -> Steps] /\ pc'[h] = "finishResumed"
      /\ \A k \in Handlers \ {h} : pc'[k] = pc[k] /\ job'[k] = job[k]
      /\ LockedOnce' /\ OwnedOnce'
  BY <1>1, <1>7, MoveKeeps
<1>9. TypeOK'
  BY <1>1, <1>6, <1>8 DEF TypeOK, ApprovalInv, ids, saved
<1>10. \A k \in Handlers \ {h} : Undisturbed(k)
  <2> SUFFICES ASSUME NEW k \in Handlers \ {h}
               PROVE  Undisturbed(k)
    OBVIOUS
  <2>1. pc[k] \in Own => job[k].revision # v /\ job[k].revision \in Revisions
    BY <1>1, <1>7, JobTyped DEF ApprovalInv, OwnedOnce, Own, First, Deciding, Claimed
  <2> QED
    BY <1>1, <1>6, <1>8, <2>1, JobTyped, SMT DEF Undisturbed, recordsOf, ids, JobOK
<1>11. JobOK(h)' /\ OwnOK(h)'
  <2>1. mayFinish(h, v)'
    BY <1>1, <1>2, SMT DEF OwnOK, Running, mayFinish, epochOf
  <2>2. record(h)' = record(h)
    BY <1>1 DEF record
  <2>3. JobOK(h)'
    BY <1>1, <1>2, <1>8, <2>2, SMT DEF JobOK, First, Deciding, Claimed, Approving, ids
  <2> QED
    BY <1>1, <1>2, <1>3, <1>8, <2>1, <2>2, <2>3, SMT DEF OwnOK, First, Running
<1>12. (\A k \in Handlers : JobOK(k))' /\ (\A k \in Handlers : OwnOK(k))'
  BY <1>10, <1>11, ByHandler
<1>13. (\A w \in Revisions : AttendedOK(w))'
  BY <1>1, <1>8, StillAttended DEF Running, Between
<1>14. /\ (\A i \in ids : RecordOK(i))' /\ OneRecordPerGate' /\ OneOpenRun' /\ LivesCounted'
  BY <1>1, SMT DEF ApprovalInv, RecordOK, reviewable, ids, OneRecordPerGate, OneOpenRun, saved, blocksDraft, LivesCounted
<1>15. ExecutionIsDecided'
  <2> SUFFICES ASSUME NEW w \in Revisions, NEW f \in 1..Gates, executed'[w][f] > 0
               PROVE  \E i \in claims : /\ journal[i].revision = w /\ journal[i].run.gate = f
                                        /\ journal[i].state \in {"approved", "consumed"}
                                        /\ journal[i].by # Initiator
    BY <1>1, SMT DEF ExecutionIsDecided
  <2>1. CASE w = v /\ f = n
    <3>1. job[h].record \in claims /\ record(h).state = "approved"
      BY <1>1, <1>2 DEF JobOK, Claimed, Approving
    <3>2. record(h).by # Initiator
      BY <1>2, <3>1 DEF RecordOK, record, reviewers
    <3> QED
      BY <1>2, <1>5, <2>1, <3>1, <3>2 DEF record
  <2>2. CASE ~(w = v /\ f = n)
    <3>1. executed'[w][f] = executed[w][f]
      BY <1>2, <1>6, <2>2, SMT
    <3> QED
      BY <3>1 DEF ExecutionIsDecided, ApprovalInv
  <2> QED
    BY <2>1, <2>2
<1> QED
  BY <1>6, <1>8, <1>9, <1>12, <1>13, <1>14, <1>15 DEF ApprovalInv

\* A review locks a record nobody else has.
LEMMA ReviewKeeps ==
  ASSUME ApprovalInv, NEW h \in Handlers, review(h)
  PROVE  ApprovalInv'
<1>1. PICK i \in ids \ locked, p \in reviewers, o \in {"approved", "rejected"} :
        /\ decidable(i) /\ locked' = locked \cup {i}
        /\ job' = [job EXCEPT ![h] = [revision |-> journal[i].revision, record |-> i, by |-> p, outcome |-> o]]
  BY DEF review
<1>2. /\ pc[h] = "idle" /\ pc' = [pc EXCEPT ![h] = "confirm"]
      /\ UNCHANGED <<revision, runs, stale, journal, claims, executed, lost, life, crashes, failures>>
  BY DEF review, goto, history, faults
<1>3. /\ pc' \in [Handlers -> Steps] /\ pc'[h] = "confirm" /\ "confirm" \in Deciding /\ "confirm" \notin Own
      /\ \A k \in Handlers \ {h} : pc'[k] = pc[k] /\ job'[k] = job[k]
  BY <1>1, <1>2 DEF ApprovalInv, TypeOK, Steps, Deciding, Own, First
<1>4. journal[i] \in Records /\ journal[i].revision \in Revisions /\ i \in Nat
  <2>1. journal[i] \in Records /\ i \in Nat
    BY SMT DEF ApprovalInv, TypeOK, ids
  <2> QED
    BY <2>1 DEF Records
<1>5. job' \in [Handlers -> Jobs]
  BY <1>1, <1>4, DecisionTyped DEF ApprovalInv, TypeOK, reviewers, Outcomes
<1>6. job'[h] = [revision |-> journal[i].revision, record |-> i, by |-> p, outcome |-> o]
  BY <1>1 DEF ApprovalInv, TypeOK
<1>7. TypeOK'
  BY <1>1, <1>2, <1>3, <1>5 DEF TypeOK, ApprovalInv, ids, saved
<1>8. \A k \in Handlers \ {h} : pc[k] \in Deciding => job[k].record \in locked /\ job[k].record # i
  BY <1>1, JobTyped DEF JobOK
<1>9. LockedOnce'
  BY <1>3, <1>6, <1>8, SMT DEF LockedOnce, ApprovalInv
<1>10. OwnedOnce'
  BY <1>3 DEF OwnedOnce, ApprovalInv
<1>11. \A k \in Handlers \ {h} : Undisturbed(k)
  BY <1>1, <1>2, <1>3, JobTyped, SMT DEF Undisturbed, recordsOf, ids, JobOK
<1>12. JobOK(h)'
  BY <1>1, <1>2, <1>3, <1>6, SMT DEF JobOK, First, Deciding, Claimed, Approving, ids, record, decidable, Outcomes
<1>13. OwnOK(h)'
  BY <1>3, SMT DEF OwnOK, First, Running
<1>14. (\A k \in Handlers : JobOK(k))' /\ (\A k \in Handlers : OwnOK(k))'
  BY <1>11, <1>12, <1>13, ByHandler
<1>15. (\A w \in Revisions : AttendedOK(w))'
  BY <1>2, <1>3, StillAttended DEF Running, Between
<1>16. LivesCounted'
  BY <1>2 DEF LivesCounted, ApprovalInv
<1> QED
  BY <1>2, <1>7, <1>9, <1>10, <1>14, <1>15, <1>16, StoreKeeps DEF ApprovalInv

\* Confirming the review, late or not, keeps the invariant.
LEMMA ConfirmKeeps ==
  ASSUME ApprovalInv, NEW h \in Handlers, confirm(h)
  PROVE  ApprovalInv'
<1>1. /\ pc[h] = "confirm"
      /\ UNCHANGED <<revision, runs, stale, journal, claims, executed, lost, life, crashes, failures>>
  BY DEF confirm, history, faults
<1>2. /\ JobOK(h) /\ job[h] \in Jobs /\ job[h].outcome \in Outcomes /\ JobOK(h) /\ pc[h] \in Deciding
  BY <1>1, JobTyped DEF JobOK, Deciding
<1>3. CASE end(h)
  <2>1. TypeOK'
    BY <1>1, <1>3, EndTyped DEF TypeOK, ApprovalInv, ids, saved
  <2>2. /\ \A k \in Handlers \ {h} :
              /\ pc'[k] = pc[k] /\ job'[k] = job[k]
              /\ pc[k] \in Deciding => job[k].record \in locked'
        /\ JobOK(h)' /\ OwnOK(h)' /\ LockedOnce' /\ OwnedOnce'
    BY <1>3, EndKeeps
  <2>3. \A k \in Handlers \ {h} : Undisturbed(k)
    BY <1>1, <2>2, JobTyped, SMT DEF Undisturbed, recordsOf, ids, JobOK
  <2>4. (\A k \in Handlers : JobOK(k))' /\ (\A k \in Handlers : OwnOK(k))'
    BY <2>2, <2>3, ByHandler
  <2>5. (\A w \in Revisions : AttendedOK(w))'
    BY <1>1, <2>2, StillAttended DEF Running, Between
  <2>6. LivesCounted'
    BY <1>1 DEF LivesCounted, ApprovalInv
  <2> QED
    BY <1>1, <2>1, <2>2, <2>4, <2>5, <2>6, StoreKeeps DEF ApprovalInv
<1>4. CASE ~end(h)
  <2>1. PICK o \in Outcomes : job' = [job EXCEPT ![h] = [job[h] EXCEPT !.outcome = o]]
    BY <1>2, <1>4, SMT DEF confirm, Outcomes, ApprovalInv, TypeOK
  <2>2. pc' = [pc EXCEPT ![h] = "write"] /\ locked' = locked
    BY <1>4 DEF confirm, goto
  <2>3. /\ job' \in [Handlers -> Jobs] /\ \A k \in Handlers \ {h} : job'[k] = job[k]
    BY <1>2, <2>1, OutcomeClosed DEF ApprovalInv, TypeOK
  <2>4. /\ job'[h].record = job[h].record /\ job'[h].revision = job[h].revision /\ job'[h].by = job[h].by
        /\ job'[h].outcome = o
    BY <1>2, <2>1, SMT DEF ApprovalInv, TypeOK, Jobs
  <2>5. "write" \in Steps /\ "write" \notin Own
    BY DEF Steps, Own, First
  <2>6. /\ pc' \in [Handlers -> Steps] /\ pc'[h] = "write"
        /\ \A k \in Handlers \ {h} : pc'[k] = pc[k] /\ job'[k] = job[k]
        /\ LockedOnce' /\ OwnedOnce'
    BY <1>2, <2>2, <2>3, <2>4, <2>5, MoveKeeps
  <2>7. TypeOK'
    BY <1>1, <2>2, <2>3, <2>6 DEF TypeOK, ApprovalInv, ids, saved
  <2>8. \A k \in Handlers \ {h} : Undisturbed(k)
    BY <1>1, <2>2, <2>6, JobTyped, SMT DEF Undisturbed, recordsOf, ids, JobOK
  <2>9. JobOK(h)' /\ OwnOK(h)'
    <3>1. JobOK(h)'
      BY <1>1, <1>2, <2>2, <2>4, <2>6, SMT DEF JobOK, First, Deciding, Claimed, Approving, ids, record, decidable
    <3>2. OwnOK(h)'
      BY <2>6, SMT DEF OwnOK, First, Running
    <3> QED
      BY <3>1, <3>2
  <2>10. (\A k \in Handlers : JobOK(k))' /\ (\A k \in Handlers : OwnOK(k))'
    BY <2>8, <2>9, ByHandler
  <2>11. (\A w \in Revisions : AttendedOK(w))'
    BY <1>1, <2>6, StillAttended DEF Running, Between
  <2>12. LivesCounted'
    BY <1>1 DEF LivesCounted, ApprovalInv
  <2> QED
    BY <1>1, <2>6, <2>7, <2>10, <2>11, <2>12, StoreKeeps DEF ApprovalInv
<1> QED
  BY <1>3, <1>4

\* The permanent claim keeps the invariant.
LEMMA ClaimKeeps ==
  ASSUME ApprovalInv, NEW h \in Handlers, claim(h)
  PROVE  ApprovalInv'
<1>1. /\ pc[h] = "claim" /\ claims' = claims \cup {job[h].record} /\ pc' = [pc EXCEPT ![h] = "begin"]
      /\ UNCHANGED <<revision, runs, stale, journal, locked, job, executed, lost, life, crashes, failures>>
  BY DEF claim, goto, history, faults
<1>2. /\ JobOK(h) /\ OwnOK(h) /\ job[h].record \in ids /\ RecordOK(job[h].record) /\ pc[h] \in Deciding
  BY <1>1, JobTyped DEF Deciding
<1>3. "begin" \in Steps /\ "begin" \notin Own /\ job \in [Handlers -> Jobs]
  BY DEF Steps, Own, First, ApprovalInv, TypeOK
<1>4. /\ pc' \in [Handlers -> Steps] /\ pc'[h] = "begin"
      /\ \A k \in Handlers \ {h} : pc'[k] = pc[k] /\ job'[k] = job[k]
      /\ LockedOnce' /\ OwnedOnce'
  BY <1>1, <1>2, <1>3, MoveKeeps
<1>5. TypeOK'
  BY <1>1, <1>2, <1>4 DEF TypeOK, ApprovalInv, ids, saved
<1>6. \A k \in Handlers \ {h} : Undisturbed(k)
  <2> SUFFICES ASSUME NEW k \in Handlers \ {h}
               PROVE  Undisturbed(k)
    OBVIOUS
  <2>1. pc[k] \in Deciding => job[k].record # job[h].record
    BY <1>2 DEF ApprovalInv, LockedOnce
  <2> QED
    BY <1>1, <1>4, <2>1, JobTyped, SMT DEF Undisturbed, recordsOf, ids, JobOK
<1>7. JobOK(h)' /\ OwnOK(h)'
  <2>1. record(h)' = record(h)
    BY <1>1 DEF record
  <2>2. JobOK(h)'
    BY <1>1, <1>2, <1>4, <2>1, SMT DEF JobOK, First, Deciding, Claimed, Approving, ids
  <2>3. OwnOK(h)'
    BY <1>4, SMT DEF OwnOK, First, Running
  <2> QED
    BY <2>2, <2>3
<1>8. (\A k \in Handlers : JobOK(k))' /\ (\A k \in Handlers : OwnOK(k))'
  BY <1>6, <1>7, ByHandler
<1>9. (\A w \in Revisions : AttendedOK(w))'
  BY <1>1, <1>4, StillAttended DEF Running, Between
<1>10. journal[job[h].record].state # "pending"
  BY <1>1, <1>2 DEF JobOK, Deciding, Outcomes, record
<1>11. (\A i \in ids : RecordOK(i))'
  BY <1>1, <1>10, SMT DEF RecordOK, reviewable, ids, ApprovalInv
<1>12. /\ OneRecordPerGate' /\ OneOpenRun' /\ LivesCounted' /\ (\A v \in Revisions : StartedOK(v))'
  BY <1>1, SMT DEF ApprovalInv, ids, OneRecordPerGate, OneOpenRun, saved, blocksDraft, LivesCounted, StartedOK
<1>13. ExecutionIsDecided'
  BY <1>1, SMT DEF ExecutionIsDecided, ApprovalInv
<1> QED
  BY <1>4, <1>5, <1>8, <1>9, <1>11, <1>12, <1>13 DEF ApprovalInv

\* A new revision of the draft keeps the invariant.
LEMMA UpdateKeeps ==
  ASSUME ApprovalInv, update
  PROVE  ApprovalInv'
<1>1. /\ revision' = revision + 1 /\ revision < MaxRevision
      /\ UNCHANGED <<runs, stale, journal, locked, claims, pc, job, executed, lost, life, crashes, failures>>
  BY DEF update, control, history, faults
<1>2. TypeOK'
  <2>1. revision' \in Revisions
    BY <1>1, WorkflowAssumption, SMT DEF ApprovalInv, TypeOK, Revisions
  <2> QED
    BY <1>1, <2>1 DEF TypeOK, ApprovalInv, ids, saved
<1>3. \A k \in Handlers : Undisturbed(k)
  BY <1>1, JobTyped, SMT DEF Undisturbed, recordsOf, ids, JobOK
<1>4. (\A k \in Handlers : JobOK(k))' /\ (\A k \in Handlers : OwnOK(k))'
  BY <1>3, UndisturbedKeeps DEF ApprovalInv
<1>5. (\A w \in Revisions : AttendedOK(w))'
  <2> SUFFICES ASSUME NEW w \in Revisions
               PROVE  AttendedOK(w)'
    OBVIOUS
  <2>1. AttendedOK(w) /\ recordsOf(w)' = recordsOf(w)
    BY <1>1 DEF ApprovalInv, recordsOf, ids
  <2> QED
    BY <1>1, <2>1, SMT DEF AttendedOK
<1>6. LockedOnce' /\ OwnedOnce' /\ LivesCounted'
  BY <1>1 DEF ApprovalInv, LockedOnce, OwnedOnce, LivesCounted
<1> QED
  BY <1>1, <1>2, <1>4, <1>5, <1>6, StoreKeeps DEF ApprovalInv

\* The death of a process keeps the invariant: it runs in a new epoch.
LEMMA CrashKeeps ==
  ASSUME ApprovalInv, NEW p \in Processes, crash(p)
  PROVE  ApprovalInv'
<1> DEFINE dying == {h \in Handlers : home[h] = p}
<1>1. /\ crashes < MaxCrashes /\ crashes' = crashes + 1 /\ life' = [life EXCEPT ![p] = @ + 1]
      /\ \E left \in SUBSET (Locks \cup UNION {unfilled(x) : x \in dying}) : stale' = stale \cup left
      /\ lost' = lost \cup UNION {underway(h) : h \in dying}
      /\ pc' = [h \in Handlers |-> IF h \in dying THEN "idle" ELSE pc[h]]
      /\ job' = [h \in Handlers |-> IF h \in dying THEN NoJob ELSE job[h]]
      /\ UNCHANGED <<revision, runs, journal, locked, claims, executed, failures>>
  BY DEF crash
<1>2. LivesCounted'
  <2>1. life \in [Processes -> 1..(MaxCrashes + 1)] /\ crashes \in Nat /\ MaxCrashes \in Nat
    BY WorkflowAssumption DEF ApprovalInv, TypeOK
  <2>2. \A q \in Processes : life[q] \in Nat /\ life[q] <= crashes + 1
    BY <2>1, SMT DEF ApprovalInv, LivesCounted
  <2>3. \A q \in Processes : life'[q] <= life[q] + 1
    BY <1>1, <2>1, <2>2, SMT
  <2>4. \A q \in Processes : life'[q] \in Nat
    BY <1>1, <2>1, <2>2, SMT
  <2>5. crashes' = crashes + 1 /\ crashes' <= MaxCrashes
    BY <1>1, <2>1, SMT
  <2>6. \A q \in Processes : life'[q] <= crashes' + 1
    BY <2>1, <2>2, <2>3, <2>4, <2>5, SMT
  <2> QED
    BY <2>5, <2>6 DEF LivesCounted
<1>3. \A k \in Handlers : k \in dying => pc'[k] = "idle" /\ job'[k] = NoJob
  BY <1>1
<1>4. \A k \in Handlers : k \notin dying => pc'[k] = pc[k] /\ job'[k] = job[k]
  BY <1>1
<1>5. TypeOK'
  <2>1. life' \in [Processes -> 1..(MaxCrashes + 1)]
    BY <1>1, WorkflowAssumption, SMT DEF LivesCounted, ApprovalInv, TypeOK
  <2>2. \A h \in Handlers : underway(h) \subseteq Revisions
    BY JobTyped, SMT DEF underway, writing, Steps, First, Deciding, Claimed
  <2>3. lost' \subseteq Revisions
    BY <1>1, <2>2 DEF ApprovalInv, TypeOK
  <2>4. pc' \in [Handlers -> Steps]
    BY <1>1 DEF ApprovalInv, TypeOK, Steps
  <2>5. job' \in [Handlers -> Jobs]
    BY <1>1, NoJobTyped DEF ApprovalInv, TypeOK
  <2>6. stale' \subseteq Debris
    <3>1. \A x \in dying : unfilled(x) \subseteq Debris
      BY DEF unfilled, Debris
    <3>2. Locks \cup UNION {unfilled(x) : x \in dying} \subseteq Debris
      BY <3>1 DEF Debris
    <3> QED
      BY <1>1, <3>2 DEF ApprovalInv, TypeOK
  <2>7. crashes' \in Nat
    BY <1>1, SMT DEF ApprovalInv, TypeOK
  <2> QED
    BY <1>1, <2>1, <2>3, <2>4, <2>5, <2>6, <2>7 DEF TypeOK, ApprovalInv, ids, saved
<1>6. ASSUME NEW k \in Handlers
      PROVE  JobOK(k)' /\ OwnOK(k)'
  <2>1. CASE k \in dying
    BY <1>3, <2>1, SMT DEF JobOK, OwnOK, First, Deciding, Claimed, Approving, Running
  <2>2. CASE k \notin dying
    <3>1. life'[home[k]] = life[home[k]]
      BY <1>1, <2>2, WorkflowAssumption DEF ApprovalInv, TypeOK
    <3>2. Undisturbed(k)
      BY <1>1, <1>4, <2>2, <3>1, JobTyped, SMT DEF Undisturbed, recordsOf, ids, JobOK
    <3> QED
      BY <3>2, UndisturbedKeeps DEF ApprovalInv
  <2> QED
    BY <2>1, <2>2
<1>7. (\A w \in Revisions : AttendedOK(w))'
  <2> SUFFICES ASSUME NEW w \in Revisions
               PROVE  AttendedOK(w)'
    OBVIOUS
  <2>1. AttendedOK(w) /\ recordsOf(w)' = recordsOf(w)
    BY <1>1 DEF ApprovalInv, recordsOf, ids
  <2>2. ASSUME NEW k \in dying, w \notin lost', job[k].revision = w
        PROVE  pc[k] \notin Running \cup Between
    <3>1. w \notin underway(k)
      BY <1>1, <2>2
    <3> QED
      BY <2>2, <3>1, SMT DEF underway, writing, Running, Between, Steps
  <2>3. w \notin lost' => w \notin lost
    BY <1>1
  <2>4. w \notin lost' => \A k \in Handlers : pc[k] \in Running \cup Between /\ job[k].revision = w =>
                                               pc'[k] = pc[k] /\ job'[k] = job[k]
    BY <1>4, <2>2
  <2> QED
    BY <1>1, <2>1, <2>3, <2>4, SMT DEF AttendedOK
<1>8. LockedOnce' /\ OwnedOnce'
  <2>1. "idle" \notin Deciding /\ "idle" \notin Own
    BY DEF Deciding, Claimed, Own, First
  <2> QED
    BY <1>3, <1>4, <2>1 DEF ApprovalInv, LockedOnce, OwnedOnce
<1> QED
  BY <1>1, <1>2, <1>5, <1>6, <1>7, <1>8, StoreKeeps DEF ApprovalInv

-----------------------------------------------------------------------------
(* Steps that write a record *)

\* The record of h is written; no other request has it.
LEMMA WrittenAside ==
  ASSUME ApprovalInv, NEW h \in Handlers, pc[h] \in Deciding, NEW n \in ids, n = job[h].record,
         NEW r \in Records, journal' = [journal EXCEPT ![n] = r],
         r.revision = journal[n].revision, r.run = journal[n].run,
         UNCHANGED <<runs, claims, executed, life>>,
         \A k \in Handlers \ {h} :
           /\ pc'[k] = pc[k] /\ job'[k] = job[k]
           /\ pc[k] \in Deciding => job[k].record \in locked'
  PROVE  /\ journal' \in Seq(Records) /\ ids' = ids /\ journal'[n] = r
         /\ \A i \in ids \ {n} : journal'[i] = journal[i]
         /\ \A i \in ids : journal'[i].revision = journal[i].revision /\ journal'[i].run = journal[i].run
         /\ \A k \in Handlers \ {h} : Undisturbed(k)
         /\ OneRecordPerGate'
<1>1. journal \in Seq(Records)
  BY DEF ApprovalInv, TypeOK
<1>2. journal' \in Seq(Records) /\ Len(journal') = Len(journal) /\ journal'[n] = r
  BY <1>1, SMT DEF ids
<1>3. \A i \in ids \ {n} : journal'[i] = journal[i]
  BY <1>1, SMT DEF ids
<1>4. ids' = ids
  BY <1>2 DEF ids
<1>5. \A i \in ids : journal'[i].revision = journal[i].revision /\ journal'[i].run = journal[i].run
  BY <1>2, <1>3
<1>6. ASSUME NEW k \in Handlers \ {h}
      PROVE  Undisturbed(k)
  <2>1. pc[k] \in Deciding => job[k].record # n /\ job[k].record \in ids
    BY <1>6, JobTyped DEF ApprovalInv, LockedOnce
  <2>2. pc[k] \in Deciding => journal'[job[k].record] = journal[job[k].record]
    BY <1>3, <2>1
  <2>3. 1..Len(journal') = ids
    BY <1>2 DEF ids
  <2>4. life'[home[k]] = life[home[k]]
    OBVIOUS
  <2> QED
    BY <1>5, <2>1, <2>2, <2>3, <2>4, SMT DEF Undisturbed, recordsOf
<1>7. OneRecordPerGate'
  BY <1>4, <1>5, SMT DEF OneRecordPerGate, ApprovalInv
<1> QED
  BY <1>2, <1>3, <1>4, <1>5, <1>6, <1>7

\* Writing the decision keeps the invariant.
LEMMA WriteKeeps ==
  ASSUME ApprovalInv, NEW h \in Handlers, write(h)
  PROVE  ApprovalInv'
<1>1. PICK n : n = job[h].record
  OBVIOUS
<1>2. /\ pc[h] = "write" /\ pc' = [pc EXCEPT ![h] = "claim"]
      /\ journal' = [journal EXCEPT ![n].state = job[h].outcome, ![n].by = job[h].by]
      /\ UNCHANGED <<revision, runs, stale, locked, claims, job, executed, lost, life, crashes, failures>>
  BY <1>1 DEF write, goto, history, faults
<1>3. /\ JobOK(h) /\ n \in ids /\ journal[n] \in Records /\ RecordOK(n) /\ pc[h] \in Deciding
      /\ journal[n].revision = job[h].revision /\ job[h].revision \in Revisions
  BY <1>1, <1>2, JobTyped DEF Deciding, record
<1>4. /\ job[h].by \in reviewers /\ job[h].outcome \in Outcomes /\ journal[n].state = "pending" /\ n \notin claims
  BY <1>1, <1>2, <1>3 DEF JobOK, Deciding, decidable
<1>5. PICK r : r = [[journal[n] EXCEPT !.state = job[h].outcome] EXCEPT !.by = job[h].by]
  OBVIOUS
<1>6. r \in Records
  BY <1>3, <1>4, <1>5, RecordsClosed DEF reviewers
<1>7. /\ r.revision = journal[n].revision /\ r.run = journal[n].run
      /\ r.state = job[h].outcome /\ r.by = job[h].by
  BY <1>3, <1>5, SMT DEF Records
<1>8. journal' = [journal EXCEPT ![n] = r]
  <2>1. PICK s : s = [journal[n] EXCEPT !.state = job[h].outcome]
    OBVIOUS
  <2>2. PICK q : q = [journal EXCEPT ![n] = s]
    OBVIOUS
  <2>3. journal' = [q EXCEPT ![n] = [q[n] EXCEPT !.by = job[h].by]]
    BY <1>2, <2>1, <2>2
  <2>4. journal \in Seq(Records) /\ n \in DOMAIN journal
    BY <1>3, SMT DEF ApprovalInv, TypeOK, ids
  <2>5. q[n] = s /\ \A x : [q EXCEPT ![n] = x] = [journal EXCEPT ![n] = x]
    BY <2>2, <2>4
  <2> QED
    BY <1>5, <2>1, <2>3, <2>5
<1>9. "claim" \in Steps /\ "claim" \notin Own /\ job' \in [Handlers -> Jobs] /\ job' = job
  BY <1>2 DEF Steps, Own, First, ApprovalInv, TypeOK
<1>10. /\ pc' \in [Handlers -> Steps] /\ pc'[h] = "claim"
       /\ \A k \in Handlers \ {h} : pc'[k] = pc[k] /\ job'[k] = job[k]
       /\ LockedOnce' /\ OwnedOnce'
  BY <1>2, <1>3, <1>9, MoveKeeps
<1>11. \A k \in Handlers \ {h} : pc[k] \in Deciding => job[k].record \in locked'
  BY <1>2, JobTyped DEF JobOK
<1>12. /\ journal' \in Seq(Records) /\ ids' = ids /\ journal'[n] = r
       /\ \A i \in ids \ {n} : journal'[i] = journal[i]
       /\ \A i \in ids : journal'[i].revision = journal[i].revision /\ journal'[i].run = journal[i].run
       /\ \A k \in Handlers \ {h} : Undisturbed(k)
       /\ OneRecordPerGate'
  <2>1. UNCHANGED <<runs, claims, executed, life>>
    BY <1>2
  <2>2. \A k \in Handlers \ {h} :
          /\ pc'[k] = pc[k] /\ job'[k] = job[k]
          /\ pc[k] \in Deciding => job[k].record \in locked'
    BY <1>10, <1>11
  <2> QED
    BY <1>1, <1>3, <1>6, <1>7, <1>8, <2>1, <2>2, WrittenAside
<1>13. TypeOK'
  BY <1>2, <1>10, <1>12 DEF TypeOK, ApprovalInv, saved
<1>14. JobOK(h)' /\ OwnOK(h)'
  <2>1. record(h)' = r /\ job[h].record \in ids'
    BY <1>1, <1>3, <1>9, <1>12 DEF record
  <2>2. JobOK(h)'
    BY <1>1, <1>2, <1>3, <1>4, <1>7, <1>9, <1>10, <2>1, SMT DEF JobOK, First, Deciding, Claimed, Approving, record
  <2>3. OwnOK(h)'
    BY <1>10, SMT DEF OwnOK, First, Running
  <2> QED
    BY <2>2, <2>3
<1>15. (\A k \in Handlers : JobOK(k))' /\ (\A k \in Handlers : OwnOK(k))'
  BY <1>12, <1>14, ByHandler
<1>16. (\A w \in Revisions : AttendedOK(w))'
  <2> SUFFICES ASSUME NEW w \in Revisions
               PROVE  AttendedOK(w)'
    OBVIOUS
  <2>1. AttendedOK(w)
    BY DEF ApprovalInv
  <2>2. recordsOf(w)' = recordsOf(w)
    BY <1>12 DEF recordsOf
  <2>3. ASSUME NEW i \in recordsOf(w), journal[i].state = "pending"
        PROVE  \/ \E j \in recordsOf(w)' : journal'[j].state = "pending"
               \/ \E k \in Handlers : pc'[k] \in Between /\ job'[k].revision = w
    <3>1. CASE i = n
      BY <1>3, <1>9, <1>10, <2>3, <3>1 DEF recordsOf, Between
    <3>2. CASE i # n
      BY <1>12, <2>2, <2>3, <3>2 DEF recordsOf
    <3> QED
      BY <3>1, <3>2
  <2>4. \A k \in Handlers : /\ pc[k] \in Running => pc'[k] = pc[k] /\ job'[k] = job[k]
                            /\ pc[k] \in Between => pc'[k] = pc[k] /\ job'[k] = job[k]
    BY <1>2, <1>10 DEF Running, Between
  <2>5. (\E i \in recordsOf(w) : journal[i].state = "pending") =>
          \/ \E j \in recordsOf(w)' : journal'[j].state = "pending"
          \/ \E k \in Handlers : pc'[k] \in Between /\ job'[k].revision = w
    BY <2>3
  <2>6. runs' = runs /\ lost' = lost
    BY <1>2
  <2> QED
    BY <2>1, <2>4, <2>5, <2>6, SMT DEF AttendedOK
<1>17. (\A i \in ids : RecordOK(i))'
  <2> SUFFICES ASSUME NEW i \in ids'
               PROVE  RecordOK(i)'
    OBVIOUS
  <2>1. RecordOK(i) /\ i \in ids
    BY <1>12 DEF ApprovalInv
  <2>2. CASE i = n
    <3>1. r.state # "pending" /\ r.state # "consumed" /\ r.by \in reviewers
      BY <1>4, <1>7 DEF Outcomes
    <3>2. reviewers' = reviewers /\ runs' = runs /\ claims' = claims
      BY <1>2 DEF reviewers
    <3>3. journal'[i] = r /\ RecordOK(n) /\ r.revision = journal[n].revision /\ r.run = journal[n].run
      BY <1>3, <1>7, <1>12, <2>2
    <3>4. reviewable(r.run) /\ runs'[r.revision] \in RunRecords /\ r.run.gate <= runs'[r.revision].gate
      BY <3>2, <3>3 DEF RecordOK
    <3>5. reviewable(journal'[i].run) /\ runs'[journal'[i].revision] \in RunRecords
          /\ journal'[i].run.gate <= runs'[journal'[i].revision].gate
      BY <3>3, <3>4
    <3> QED
      BY <3>1, <3>2, <3>3, <3>5, SMT DEF RecordOK, reviewable
  <2>3. CASE i # n
    <3>1. journal'[i] = journal[i] /\ runs' = runs /\ claims' = claims
      BY <1>2, <1>12, <2>1, <2>3
    <3> QED
      BY <2>1, <3>1, SMT DEF RecordOK, reviewable
  <2> QED
    BY <2>2, <2>3
<1>18. OneOpenRun' /\ LivesCounted' /\ (\A v \in Revisions : StartedOK(v))'
  BY <1>2, SMT DEF ApprovalInv, OneOpenRun, saved, blocksDraft, LivesCounted, StartedOK
<1>19. ExecutionIsDecided'
  <2>1. \A i \in claims : i \in ids \ {n}
    BY <1>4 DEF ApprovalInv, TypeOK
  <2>2. \A i \in claims : journal'[i] = journal[i]
    BY <1>12, <2>1
  <2>3. claims' = claims /\ executed' = executed /\ ExecutionIsDecided
    BY <1>2 DEF ApprovalInv
  <2> QED
    BY <2>2, <2>3, SMT DEF ExecutionIsDecided
<1> QED
  BY <1>10, <1>12, <1>13, <1>15, <1>16, <1>17, <1>18, <1>19 DEF ApprovalInv

\* Consuming an approval keeps the invariant.
LEMMA ConsumeKeeps ==
  ASSUME ApprovalInv, NEW h \in Handlers, consume(h)
  PROVE  ApprovalInv'
<1>1. PICK n : n = job[h].record
  OBVIOUS
<1>2. /\ pc[h] = "consume" /\ end(h) /\ journal' = [journal EXCEPT ![n].state = "consumed"]
      /\ UNCHANGED <<revision, runs, stale, claims, executed, lost, life, crashes, failures>>
  BY <1>1 DEF consume, history, faults
<1>3. /\ JobOK(h) /\ n \in ids /\ journal[n] \in Records /\ RecordOK(n) /\ pc[h] \in Deciding
  BY <1>1, <1>2, JobTyped DEF Deciding, Claimed, record
<1>4. n \in claims /\ journal[n].state = "approved"
  BY <1>1, <1>2, <1>3 DEF JobOK, Claimed, Approving, record
<1>5. PICK r : r = [journal[n] EXCEPT !.state = "consumed"]
  OBVIOUS
<1>6. r \in Records
  BY <1>3, <1>5, RecordsClosed
<1>7. r.revision = journal[n].revision /\ r.run = journal[n].run /\ r.state = "consumed" /\ r.by = journal[n].by
  BY <1>3, <1>5, SMT DEF Records
<1>8. journal' = [journal EXCEPT ![n] = r]
  BY <1>2, <1>3, <1>5, SMT DEF ApprovalInv, TypeOK, ids
<1>9. /\ \A k \in Handlers \ {h} :
           /\ pc'[k] = pc[k] /\ job'[k] = job[k]
           /\ pc[k] \in Deciding => job[k].record \in locked'
      /\ JobOK(h)' /\ OwnOK(h)' /\ LockedOnce' /\ OwnedOnce'
  BY <1>2, EndKeeps
<1>10. /\ journal' \in Seq(Records) /\ ids' = ids /\ journal'[n] = r
       /\ \A i \in ids \ {n} : journal'[i] = journal[i]
       /\ \A i \in ids : journal'[i].revision = journal[i].revision /\ journal'[i].run = journal[i].run
       /\ \A k \in Handlers \ {h} : Undisturbed(k)
       /\ OneRecordPerGate'
  <2>1. UNCHANGED <<runs, claims, executed, life>>
    BY <1>2
  <2> QED
    BY <1>1, <1>3, <1>6, <1>7, <1>8, <1>9, <2>1, WrittenAside
<1>11. TypeOK'
  <2>1. pc' \in [Handlers -> Steps] /\ job' \in [Handlers -> Jobs] /\ locked' \subseteq ids
    BY <1>2, EndTyped DEF ApprovalInv
  <2> QED
    BY <1>2, <1>10, <2>1 DEF TypeOK, ApprovalInv, saved
<1>12. (\A k \in Handlers : JobOK(k))' /\ (\A k \in Handlers : OwnOK(k))'
  BY <1>9, <1>10, ByHandler
<1>13. (\A w \in Revisions : AttendedOK(w))'
  <2> SUFFICES ASSUME NEW w \in Revisions
               PROVE  AttendedOK(w)'
    OBVIOUS
  <2>1. AttendedOK(w)
    BY DEF ApprovalInv
  <2>2. recordsOf(w)' = recordsOf(w)
    BY <1>10 DEF recordsOf
  <2>3. \A i \in recordsOf(w) : journal[i].state = "pending" => i \in recordsOf(w)' /\ journal'[i].state = "pending"
    BY <1>4, <1>10, <2>2 DEF recordsOf
  <2>4. \A k \in Handlers : /\ pc[k] \in Running => pc'[k] = pc[k] /\ job'[k] = job[k]
                            /\ pc[k] \in Between => pc'[k] = pc[k] /\ job'[k] = job[k]
    BY <1>2, <1>9 DEF Running, Between
  <2> QED
    BY <1>2, <2>1, <2>3, <2>4, SMT DEF AttendedOK
<1>14. (\A i \in ids : RecordOK(i))'
  <2> SUFFICES ASSUME NEW i \in ids'
               PROVE  RecordOK(i)'
    OBVIOUS
  <2>1. RecordOK(i) /\ i \in ids
    BY <1>10 DEF ApprovalInv
  <2>2. CASE i = n
    BY <1>2, <1>3, <1>4, <1>7, <1>10, <2>1, <2>2, SMT DEF RecordOK, reviewable
  <2>3. CASE i # n
    BY <1>2, <1>10, <2>1, <2>3, SMT DEF RecordOK, reviewable
  <2> QED
    BY <2>2, <2>3
<1>15. OneOpenRun' /\ LivesCounted' /\ (\A v \in Revisions : StartedOK(v))'
  BY <1>2, SMT DEF ApprovalInv, OneOpenRun, saved, blocksDraft, LivesCounted, StartedOK
<1>16. ExecutionIsDecided'
  <2>1. claims \subseteq ids
    BY DEF ApprovalInv, TypeOK
  <2>2. \A i \in claims : /\ journal'[i].by = journal[i].by
                          /\ journal[i].state \in {"approved", "consumed"} => journal'[i].state \in {"approved", "consumed"}
    BY <1>7, <1>10, <2>1
  <2> QED
    BY <1>2, <1>10, <2>1, <2>2, SMT DEF ExecutionIsDecided, ApprovalInv
<1> QED
  BY <1>9, <1>10, <1>11, <1>12, <1>13, <1>14, <1>15, <1>16 DEF ApprovalInv

\* A pending record of the run in the hands of h is added.
LEMMA PendingAdded ==
  ASSUME ApprovalInv, NEW h \in Handlers, pc[h] \in {"create", "createNext"},
         NEW v \in Revisions, v = job[h].revision, journal' = withPending(v),
         UNCHANGED <<runs, claims, executed, lost, life>>,
         \A k \in Handlers \ {h} :
           /\ pc'[k] = pc[k] /\ job'[k] = job[k]
           /\ pc[k] \in Deciding => job[k].record \in locked'
  PROVE  /\ journal' \in Seq(Records) /\ ids \subseteq ids'
         /\ \A i \in ids : journal'[i] = journal[i]
         /\ \A k \in Handlers \ {h} : Undisturbed(k)
         /\ (\A i \in ids : RecordOK(i))' /\ OneRecordPerGate' /\ ExecutionIsDecided'
         /\ (\A w \in Revisions : AttendedOK(w))'
<1>1. PICK r : r = [revision |-> v, run |-> runs[v], state |-> "pending", by |-> None]
  OBVIOUS
<1>2. PICK n : n = Len(journal) + 1
  OBVIOUS
<1>3. journal \in Seq(Records) /\ claims \subseteq ids
  BY DEF ApprovalInv, TypeOK
<1>4. OwnOK(h) /\ reviewable(runs[v])
  BY JobTyped DEF OwnOK
<1>5. r \in Records
  BY <1>1, <1>4, RecordsClosed DEF reviewable
<1>6. /\ r.revision = v /\ r.run = runs[v] /\ r.state = "pending" /\ r.by = None
  BY <1>1
<1>7. journal' = Append(journal, r)
  BY <1>1 DEF withPending
<1>8. /\ journal' \in Seq(Records) /\ Len(journal') = n /\ n \in Nat /\ journal'[n] = r
      /\ \A i \in 1..Len(journal) : journal'[i] = journal[i]
  BY <1>2, <1>3, <1>5, <1>7, SMT
<1>9. ids' = ids \cup {n} /\ n \notin ids
  BY <1>2, <1>3, <1>8, SMT DEF ids
<1>10. \A i \in ids : journal'[i] = journal[i]
  BY <1>8 DEF ids
<1>11. ids' = 1..Len(journal')
  BY DEF ids
\* The gate of the run is ahead of those of its records.
<1>12. \A i \in ids : journal[i].revision = v => journal[i].run.gate # runs[v].gate
  <2>1. CASE pc[h] = "create"
    BY <1>4, <2>1, SMT DEF OwnOK, First, recordsOf
  <2>2. CASE pc[h] = "createNext"
    <3>1. \A i \in recordsOf(v) : journal[i].run.gate < runs[v].gate
      BY <1>4, <2>2 DEF OwnOK
    <3>2. \A i \in recordsOf(v) : journal[i].run.gate \in Nat
      <4>1. \A x \in Records : x.run.gate \in Nat
        BY SMT DEF Records, RunRecords
      <4>2. \A i \in ids : journal[i] \in Records
        BY <1>3, SMT DEF ids
      <4> QED
        BY <4>1, <4>2 DEF recordsOf
    <3> QED
      BY <3>1, <3>2, SMT DEF recordsOf
  <2> QED
    BY <2>1, <2>2
<1>13. ASSUME NEW k \in Handlers \ {h}
       PROVE  Undisturbed(k)
  <2>1. pc[k] \in Own => job[k].revision # v
    BY DEF ApprovalInv, OwnedOnce, Own, First
  <2>2. pc[k] \in Deciding => job[k].record \in ids /\ job[k].record \in locked'
    BY JobTyped
  <2>3. pc'[k] = pc[k] /\ job'[k] = job[k] /\ life'[home[k]] = life[home[k]]
    OBVIOUS
  <2>4. pc[k] \in Deciding => journal'[job[k].record] = journal[job[k].record] /\ job[k].record \in ids'
    BY <1>9, <1>10, <2>2
  <2>5. ASSUME NEW j \in ids', journal'[j].revision = job[k].revision, pc[k] \in Own
        PROVE  j \in recordsOf(job[k].revision) /\ journal'[j].run = journal[j].run
    <3>1. j # n
      BY <1>6, <1>8, <2>1, <2>5
    <3> QED
      BY <1>9, <1>10, <2>5, <3>1 DEF recordsOf
  <2> QED
    BY <1>11, <2>2, <2>3, <2>4, <2>5 DEF Undisturbed
<1>14. ASSUME NEW i \in ids'
       PROVE  RecordOK(i)'
  <2>1. CASE i = n
    <3>1. journal'[i] = r /\ n \notin claims' /\ runs' = runs
      BY <1>3, <1>8, <1>9, <2>1
    <3>2. runs[v] \in RunRecords /\ runs[v].gate \in Nat
      BY <1>4, SMT DEF reviewable, RunRecords
    <3> QED
      BY <1>4, <1>6, <2>1, <3>1, <3>2, SMT DEF RecordOK, reviewable
  <2>2. CASE i # n
    <3>1. RecordOK(i) /\ journal'[i] = journal[i] /\ runs' = runs /\ claims' = claims
      BY <1>9, <1>10, <2>2 DEF ApprovalInv
    <3> QED
      BY <3>1, SMT DEF RecordOK, reviewable
  <2> QED
    BY <2>1, <2>2
<1>15. OneRecordPerGate'
  <2> SUFFICES ASSUME NEW i \in ids', NEW j \in ids',
                      journal'[i].revision = journal'[j].revision, journal'[i].run.gate = journal'[j].run.gate
               PROVE  i = j
    BY DEF OneRecordPerGate
  <2>1. CASE i \in ids /\ j \in ids
    BY <1>10, <2>1 DEF OneRecordPerGate, ApprovalInv
  <2>2. CASE i = n /\ j \in ids
    BY <1>6, <1>8, <1>10, <1>12, <2>2
  <2>3. CASE i \in ids /\ j = n
    BY <1>6, <1>8, <1>10, <1>12, <2>3
  <2> QED
    BY <1>9, <2>1, <2>2, <2>3
<1>16. ExecutionIsDecided'
  <2>1. \A i \in claims : journal'[i] = journal[i]
    BY <1>3, <1>10
  <2>2. claims' = claims /\ executed' = executed /\ ExecutionIsDecided
    BY DEF ApprovalInv
  <2> QED
    BY <2>1, <2>2, SMT DEF ExecutionIsDecided
<1>17. ASSUME NEW w \in Revisions
       PROVE  AttendedOK(w)'
  <2>1. AttendedOK(w) /\ runs' = runs /\ lost' = lost
    BY DEF ApprovalInv
  <2>2. recordsOf(w) \subseteq recordsOf(w)' /\ \A i \in recordsOf(w) : journal'[i] = journal[i]
    BY <1>9, <1>10 DEF recordsOf
  <2>3. w = v => \E i \in recordsOf(w)' : journal'[i].state = "pending"
    BY <1>6, <1>8, <1>9 DEF recordsOf
  <2>4. \A k \in Handlers : /\ pc[k] \in Running => pc'[k] = pc[k] /\ job'[k] = job[k]
                            /\ w # v /\ pc[k] \in Between /\ job[k].revision = w => pc'[k] = pc[k] /\ job'[k] = job[k]
    BY DEF Running
  <2>5. w # v /\ (\E k \in Handlers : pc[k] \in Between /\ job[k].revision = w) =>
          \E k \in Handlers : pc'[k] \in Between /\ job'[k].revision = w
    BY <2>4
  <2>6. (\E i \in recordsOf(w) : journal[i].state = "pending") => \E i \in recordsOf(w)' : journal'[i].state = "pending"
    BY <2>2
  <2>7. (\E k \in Handlers : pc[k] \in Running /\ job[k].revision = w) =>
          \E k \in Handlers : pc'[k] \in Running /\ job'[k].revision = w
    BY <2>4
  <2> QED
    BY <2>1, <2>3, <2>5, <2>6, <2>7, SMT DEF AttendedOK
<1> QED
  BY <1>8, <1>9, <1>10, <1>13, <1>14, <1>15, <1>16, <1>17

\* The first record of a run keeps the invariant.
LEMMA CreateKeeps ==
  ASSUME ApprovalInv, NEW h \in Handlers, create(h)
  PROVE  ApprovalInv'
<1>1. PICK v : v = job[h].revision
  OBVIOUS
<1>2. /\ pc[h] = "create" /\ journal' = withPending(v) /\ end(h)
      /\ UNCHANGED <<revision, runs, stale, claims, executed, lost, life, crashes, failures>>
  BY <1>1 DEF create, history, faults
<1>3. v \in Revisions
  BY <1>1, <1>2, JobTyped DEF First
<1>4. /\ \A k \in Handlers \ {h} :
           /\ pc'[k] = pc[k] /\ job'[k] = job[k]
           /\ pc[k] \in Deciding => job[k].record \in locked'
      /\ JobOK(h)' /\ OwnOK(h)' /\ LockedOnce' /\ OwnedOnce'
  BY <1>2, EndKeeps
<1>5. UNCHANGED <<runs, claims, executed, lost, life>>
  BY <1>2
<1>6. pc[h] \in {"create", "createNext"}
  BY <1>2
<1>7. /\ journal' \in Seq(Records) /\ ids \subseteq ids'
      /\ \A i \in ids : journal'[i] = journal[i]
      /\ \A k \in Handlers \ {h} : Undisturbed(k)
      /\ (\A i \in ids : RecordOK(i))' /\ OneRecordPerGate' /\ ExecutionIsDecided'
      /\ (\A w \in Revisions : AttendedOK(w))'
  BY <1>1, <1>2, <1>3, <1>4, <1>5, <1>6, PendingAdded
<1>8. TypeOK'
  <2>1. pc' \in [Handlers -> Steps] /\ job' \in [Handlers -> Jobs] /\ locked' \subseteq ids
    BY <1>2, EndTyped DEF ApprovalInv
  <2>2. locked' \subseteq ids' /\ claims' \subseteq ids'
    BY <1>2, <1>7, <2>1 DEF ApprovalInv, TypeOK
  <2> QED
    BY <1>2, <1>7, <2>1, <2>2 DEF TypeOK, ApprovalInv, saved
<1>9. (\A k \in Handlers : JobOK(k))' /\ (\A k \in Handlers : OwnOK(k))'
  BY <1>4, <1>7, ByHandler
<1>10. OneOpenRun' /\ LivesCounted' /\ (\A w \in Revisions : StartedOK(w))'
  BY <1>2, SMT DEF ApprovalInv, OneOpenRun, saved, blocksDraft, LivesCounted, StartedOK
<1> QED
  BY <1>4, <1>7, <1>8, <1>9, <1>10 DEF ApprovalInv

\* The record of a later gate keeps the invariant.
LEMMA CreateNextKeeps ==
  ASSUME ApprovalInv, NEW h \in Handlers, createNext(h)
  PROVE  ApprovalInv'
<1>1. PICK v : v = job[h].revision
  OBVIOUS
<1>2. /\ pc[h] = "createNext" /\ journal' = withPending(v) /\ pc' = [pc EXCEPT ![h] = "consume"]
      /\ UNCHANGED <<revision, runs, stale, locked, claims, job, executed, lost, life, crashes, failures>>
  BY <1>1 DEF createNext, goto, history, faults
<1>3. /\ v \in Revisions /\ JobOK(h) /\ pc[h] \in Deciding
  BY <1>1, <1>2, JobTyped DEF Deciding, Claimed
<1>4. "consume" \in Steps /\ "consume" \notin Own /\ job' = job /\ job' \in [Handlers -> Jobs]
  BY <1>2 DEF Steps, Own, First, ApprovalInv, TypeOK
<1>5. /\ pc' \in [Handlers -> Steps] /\ pc'[h] = "consume"
      /\ \A k \in Handlers \ {h} : pc'[k] = pc[k] /\ job'[k] = job[k]
      /\ LockedOnce' /\ OwnedOnce'
  BY <1>2, <1>3, <1>4, MoveKeeps
<1>6. \A k \in Handlers \ {h} :
        /\ pc'[k] = pc[k] /\ job'[k] = job[k]
        /\ pc[k] \in Deciding => job[k].record \in locked'
  BY <1>2, <1>5, JobTyped DEF JobOK
<1>7. UNCHANGED <<runs, claims, executed, lost, life>> /\ pc[h] \in {"create", "createNext"}
  BY <1>2
<1>8. /\ journal' \in Seq(Records) /\ ids \subseteq ids'
      /\ \A i \in ids : journal'[i] = journal[i]
      /\ \A k \in Handlers \ {h} : Undisturbed(k)
      /\ (\A i \in ids : RecordOK(i))' /\ OneRecordPerGate' /\ ExecutionIsDecided'
      /\ (\A w \in Revisions : AttendedOK(w))'
  BY <1>1, <1>2, <1>3, <1>6, <1>7, PendingAdded
<1>9. TypeOK'
  <2>1. locked' \subseteq ids' /\ claims' \subseteq ids'
    BY <1>2, <1>8 DEF ApprovalInv, TypeOK
  <2> QED
    BY <1>2, <1>4, <1>5, <1>8, <2>1 DEF TypeOK, ApprovalInv, saved
<1>10. JobOK(h)' /\ OwnOK(h)'
  <2>1. record(h)' = record(h) /\ job[h].record \in ids'
    BY <1>3, <1>4, <1>8 DEF JobOK, record
  <2>2. JobOK(h)'
    BY <1>2, <1>3, <1>4, <1>5, <2>1, SMT DEF JobOK, First, Deciding, Claimed, Approving
  <2>3. OwnOK(h)'
    BY <1>5, SMT DEF OwnOK, First, Running
  <2> QED
    BY <2>2, <2>3
<1>11. (\A k \in Handlers : JobOK(k))' /\ (\A k \in Handlers : OwnOK(k))'
  BY <1>8, <1>10, ByHandler
<1>12. OneOpenRun' /\ LivesCounted' /\ (\A w \in Revisions : StartedOK(w))'
  BY <1>2, SMT DEF ApprovalInv, OneOpenRun, saved, blocksDraft, LivesCounted, StartedOK
<1> QED
  BY <1>5, <1>8, <1>9, <1>11, <1>12 DEF ApprovalInv

-----------------------------------------------------------------------------
(* Steps that change a run *)

\* The run in the hands of a request exists.
LEMMA OwnHasRun ==
  ASSUME ApprovalInv, NEW k \in Handlers, pc[k] \in Own
  PROVE  runs[job[k].revision] \in RunRecords /\ job[k].revision \in Revisions
<1>1. OwnOK(k) /\ job[k].revision \in Revisions
  BY JobTyped DEF Own, First, Deciding, Claimed
<1> QED
  BY <1>1, SMT DEF OwnOK, Own, First, Running, reviewable

\* A run that is not under review becomes r, in the hands of h only.
Changes(h, v, r) ==
  /\ runs' = [runs EXCEPT ![v] = r] /\ UNCHANGED <<journal, claims, executed, lost, life>>
  /\ \A k \in Handlers \ {h} :
       /\ pc'[k] = pc[k] /\ job'[k] = job[k]
       /\ pc[k] \in Deciding => job[k].record \in locked'
       /\ pc[k] \in Own => job[k].revision # v
  /\ pc[h] \in Running \cup Between => job[h].revision = v
  /\ r.state = "running" => pc'[h] \in Running /\ job'[h].revision = v
  /\ r.resumable => r.state = "paused" /\ pc'[h] \in Between /\ job'[h].revision = v
  /\ \A i \in recordsOf(v) : journal[i].state # "pending" /\ journal[i].run.gate <= r.gate
  /\ \A g \in 0..Gates : executed[v][g] # 0 => g <= r.gate /\ (r.state = "paused" => g # r.gate)
  /\ blocksDraft(r) => \A w \in saved \ {v} : ~blocksDraft(runs[w])

Changed(h, v, r) ==
  /\ runs' \in [Revisions -> {None} \cup RunRecords] /\ runs'[v] = r
  /\ (\A w \in saved : runs[w].resumable => runs[w].state = "paused")'
  /\ \A k \in Handlers \ {h} : Undisturbed(k)
  /\ (\A i \in ids : RecordOK(i))' /\ OneRecordPerGate' /\ ExecutionIsDecided'
  /\ (\A w \in Revisions : StartedOK(w))' /\ (\A w \in Revisions : AttendedOK(w))' /\ OneOpenRun'

\* A run that changes in the hands of one request disturbs nothing else.
LEMMA RunChanged ==
  ASSUME ApprovalInv, NEW h \in Handlers, NEW v \in Revisions, NEW r \in RunRecords, Changes(h, v, r)
  PROVE  Changed(h, v, r)
<1> USE DEF Changes
<1>1. runs \in [Revisions -> {None} \cup RunRecords]
  BY DEF ApprovalInv, TypeOK
<1>2. /\ runs' \in [Revisions -> {None} \cup RunRecords] /\ runs'[v] = r
      /\ \A w \in Revisions \ {v} : runs'[w] = runs[w]
  BY <1>1
<1>3. ids' = ids /\ \A w : recordsOf(w)' = recordsOf(w)
  BY DEF ids, recordsOf
<1>4. saved' = saved \cup {v}
  BY <1>2, NoneAssumption DEF saved
<1>5. (\A w \in saved : runs[w].resumable => runs[w].state = "paused")'
  <2> SUFFICES ASSUME NEW w \in saved'
               PROVE  runs'[w].resumable => runs'[w].state = "paused"
    OBVIOUS
  <2>1. CASE w = v
    BY <1>2, <2>1
  <2>2. CASE w # v
    BY <1>2, <1>4, <2>2 DEF saved, ApprovalInv, TypeOK
  <2> QED
    BY <2>1, <2>2
<1>6. ASSUME NEW k \in Handlers \ {h}
      PROVE  Undisturbed(k)
  <2>1. pc[k] \in Own => runs'[job[k].revision] = runs[job[k].revision]
    BY <1>2, OwnHasRun
  <2>2. pc[k] \in Deciding => job[k].record \in ids
    BY JobTyped
  <2> QED
    BY <2>1, <2>2, SMT DEF Undisturbed, recordsOf, ids
<1>7. ASSUME NEW i \in ids'
      PROVE  RecordOK(i)'
  <2>1. RecordOK(i) /\ i \in ids
    BY <1>3 DEF ApprovalInv
  <2>2. journal[i].revision \in Revisions
    <3>1. journal[i] \in Records
      BY <2>1, SMT DEF ApprovalInv, TypeOK, ids
    <3> QED
      BY <3>1 DEF Records
  <2>3. CASE journal[i].revision = v
    <3>1. journal[i].state # "pending" /\ journal[i].run.gate <= r.gate
      BY <2>1, <2>3 DEF recordsOf
    <3> QED
      BY <1>2, <2>1, <2>3, <3>1, SMT DEF RecordOK, reviewable
  <2>4. CASE journal[i].revision # v
    <3>1. runs'[journal[i].revision] = runs[journal[i].revision]
      BY <1>2, <2>2, <2>4
    <3> QED
      BY <2>1, <3>1, SMT DEF RecordOK, reviewable
  <2> QED
    BY <2>3, <2>4
<1>8. OneRecordPerGate'
  BY <1>3, SMT DEF OneRecordPerGate, ApprovalInv
<1>9. ExecutionIsDecided'
  BY SMT DEF ExecutionIsDecided, ApprovalInv
<1>10. ASSUME NEW w \in Revisions
       PROVE  StartedOK(w)'
  <2>1. StartedOK(w) /\ executed' = executed
    BY DEF ApprovalInv
  <2>2. CASE w = v
    BY <1>2, <2>1, <2>2, SMT DEF StartedOK
  <2>3. CASE w # v
    <3>1. runs'[w] = runs[w]
      BY <1>2, <2>3
    <3> QED
      BY <2>1, <3>1, SMT DEF StartedOK
  <2> QED
    BY <2>2, <2>3
<1>11. ASSUME NEW w \in Revisions
       PROVE  AttendedOK(w)'
  <2>1. AttendedOK(w) /\ recordsOf(w)' = recordsOf(w) /\ journal' = journal /\ lost' = lost
    BY <1>3 DEF ApprovalInv
  <2>2. CASE w = v
    <3>1. runs'[w] = r
      BY <1>2, <2>2
    <3> QED
      BY <2>2, <3>1, SMT DEF AttendedOK
  <2>3. CASE w # v
    <3>1. runs'[w] = runs[w]
      BY <1>2, <2>3
    <3>2. \A k \in Handlers : pc[k] \in Running \cup Between /\ job[k].revision = w =>
                                pc'[k] = pc[k] /\ job'[k] = job[k]
      BY <2>3
    <3> QED
      BY <2>1, <3>1, <3>2, SMT DEF AttendedOK
  <2> QED
    BY <2>2, <2>3
<1>12. OneOpenRun'
  <2> SUFFICES ASSUME NEW u \in saved', NEW w \in saved', blocksDraft(runs'[u]), blocksDraft(runs'[w])
               PROVE  u = w
    BY DEF OneOpenRun, blocksDraft
  <2>1. saved \subseteq Revisions
    BY DEF saved
  <2>2. CASE u # v /\ w # v
    <3>1. u \in saved /\ w \in saved /\ runs'[u] = runs[u] /\ runs'[w] = runs[w]
      BY <1>2, <1>4, <2>1, <2>2
    <3> QED
      BY <3>1 DEF OneOpenRun, ApprovalInv
  <2>3. CASE u = v /\ w # v
    <3>1. w \in saved \ {v} /\ runs'[w] = runs[w] /\ runs'[u] = r
      BY <1>2, <1>4, <2>1, <2>3
    <3> QED
      BY <3>1
  <2>4. CASE u # v /\ w = v
    <3>1. u \in saved \ {v} /\ runs'[u] = runs[u] /\ runs'[w] = r
      BY <1>2, <1>4, <2>1, <2>4
    <3> QED
      BY <3>1
  <2> QED
    BY <2>2, <2>3, <2>4
<1> QED
  BY <1>2, <1>5, <1>6, <1>7, <1>8, <1>9, <1>10, <1>11, <1>12 DEF Changed

\* A part ends at its own gate or at the next.
LEMMA EndingFacts ==
  ASSUME NEW g \in 0..Gates, NEW e \in endings(g)
  PROVE  /\ e[1] \in {"blocked", "paused", "completed"} /\ e[2] \in 0..Gates /\ g <= e[2]
         /\ e[1] = "paused" => g < e[2]
BY WorkflowAssumption, SMT DEF endings, gateAfter

\* The run in the hands of h, while it is running.
LEMMA RunningOwned ==
  ASSUME ApprovalInv, NEW h \in Handlers, pc[h] \in Running, NEW v, v = job[h].revision
  PROVE  /\ v \in Revisions /\ v \in saved /\ runs[v] \in RunRecords /\ runs[v].state = "running"
         /\ runs[v].epoch = epochOf(h) /\ runs[v].gate \in 0..Gates
         /\ \A k \in Handlers \ {h} : pc[k] \in Own => job[k].revision # v
         /\ \A i \in recordsOf(v) : journal[i].state # "pending" /\ journal[i].run.gate <= runs[v].gate
         /\ \A g \in 0..Gates : executed[v][g] # 0 => g <= runs[v].gate
         /\ \A w \in saved \ {v} : ~blocksDraft(runs[w])
<1>1. pc[h] \in Own /\ OwnOK(h)
  BY JobTyped DEF Own, First, Running
<1>2. v \in Revisions /\ runs[v] \in RunRecords /\ runs[v].state = "running" /\ runs[v].epoch = epochOf(h)
  BY <1>1, OwnHasRun DEF OwnOK, mayFinish
<1>3. v \in saved /\ runs[v].gate \in 0..Gates
  BY <1>2, NoneAssumption DEF saved, RunRecords
<1>4. \A k \in Handlers \ {h} : pc[k] \in Own => job[k].revision # v
  BY <1>1 DEF ApprovalInv, OwnedOnce
<1>5. ASSUME NEW i \in recordsOf(v)
      PROVE  journal[i].state # "pending" /\ journal[i].run.gate <= runs[v].gate
  <2>1. RecordOK(i) /\ journal[i].revision = v
    BY DEF recordsOf, ApprovalInv
  <2> QED
    BY <1>2, <2>1, SMT DEF RecordOK, reviewable
<1>6. \A g \in 0..Gates : executed[v][g] # 0 => g <= runs[v].gate
  BY <1>2, SMT DEF ApprovalInv, StartedOK
<1>7. \A w \in saved \ {v} : ~blocksDraft(runs[w])
  BY <1>2, <1>3 DEF ApprovalInv, OneOpenRun, blocksDraft
<1> QED
  BY <1>2, <1>3, <1>4, <1>5, <1>6, <1>7

\* A part ends: the run in the hands of h becomes r, which is not running.
Ends(h, v, s, g, r) ==
  /\ v = job[h].revision /\ r = finished(runs[v], s, g)
  /\ runs[v].gate <= g /\ (s = "paused" => runs[v].gate < g)
  /\ runs' = [runs EXCEPT ![v] = r] /\ UNCHANGED <<journal, claims, executed, lost, life>>
  /\ \A k \in Handlers \ {h} :
       /\ pc'[k] = pc[k] /\ job'[k] = job[k]
       /\ pc[k] \in Deciding => job[k].record \in locked'
  /\ s = "paused" => pc'[h] \in Between /\ job'[h].revision = v

\* The end of a part is such a change.
LEMMA RunEnds ==
  ASSUME ApprovalInv, NEW h \in Handlers, pc[h] \in Running, NEW v \in Revisions,
         NEW s \in {"blocked", "paused", "completed"}, NEW g \in 0..Gates, NEW r, Ends(h, v, s, g, r)
  PROVE  /\ Changed(h, v, r)
         /\ r \in RunRecords /\ r.state = s /\ r.gate = g /\ (r.resumable <=> s = "paused")
<1> USE DEF Ends
<1>1. /\ v \in saved /\ runs[v] \in RunRecords /\ runs[v].state = "running"
      /\ runs[v].epoch = epochOf(h) /\ runs[v].gate \in 0..Gates
      /\ \A k \in Handlers \ {h} : pc[k] \in Own => job[k].revision # v
      /\ \A i \in recordsOf(v) : journal[i].state # "pending" /\ journal[i].run.gate <= runs[v].gate
      /\ \A f \in 0..Gates : executed[v][f] # 0 => f <= runs[v].gate
      /\ \A w \in saved \ {v} : ~blocksDraft(runs[w])
  BY RunningOwned
<1>2. epochOf(h) \in Epochs
  BY EpochTyped DEF ApprovalInv
<1>3. r \in RunRecords
  BY <1>1, <1>2, RunsClosed
<1>4. r.state = s /\ r.gate = g /\ r.resumable = (s = "paused")
  BY <1>1, <1>2, RunFields
<1>5. \A i \in recordsOf(v) : journal[i].state # "pending" /\ journal[i].run.gate <= r.gate
  <2>1. \A i \in recordsOf(v) : journal[i].run.gate \in 0..Gates
    <3>1. \A i \in ids : RecordOK(i)
      BY DEF ApprovalInv
    <3> QED
      BY <3>1 DEF RecordOK, reviewable, RunRecords, recordsOf
  <2> QED
    BY <1>1, <1>4, <2>1, WorkflowAssumption, SMT
<1>6. \A f \in 0..Gates : executed[v][f] # 0 => f <= r.gate /\ (r.state = "paused" => f # r.gate)
  BY <1>1, <1>4, WorkflowAssumption, SMT
<1>7. Changes(h, v, r)
  BY <1>1, <1>4, <1>5, <1>6 DEF Changes
<1> QED
  BY <1>3, <1>4, <1>7, RunChanged

\* The end of the first part keeps the invariant.
LEMMA FinishFirstKeeps ==
  ASSUME ApprovalInv, NEW h \in Handlers, finishFirst(h)
  PROVE  ApprovalInv'
<1>1. PICK v : v = job[h].revision
  OBVIOUS
<1>2. /\ pc[h] = "finish" /\ pc[h] \in Running
      /\ UNCHANGED <<revision, stale, journal, claims, executed, lost, life, crashes, failures>>
  BY DEF finishFirst, history, faults, Running
<1>3. PICK e \in endings(0) :
        /\ runs' = [runs EXCEPT ![v] = finished(runs[v], e[1], e[2])]
        /\ IF e[1] = "paused" THEN goto(h, "create") /\ UNCHANGED <<job, locked>> ELSE end(h)
  BY <1>1 DEF finishFirst
<1>4. PICK s, g : s = e[1] /\ g = e[2]
  OBVIOUS
<1>5. OwnOK(h) /\ JobOK(h) /\ runs[v].gate = 0 /\ recordsOf(v) = {} /\ v \in Revisions /\ job[h].record = 0
  BY <1>1, <1>2, JobTyped DEF OwnOK, JobOK, First
<1>6. /\ s \in {"blocked", "paused", "completed"} /\ g \in 0..Gates /\ runs[v].gate <= g
      /\ s = "paused" => runs[v].gate < g
  BY <1>4, <1>5, EndingFacts, WorkflowAssumption, SMT
<1>7. PICK r : r = finished(runs[v], s, g)
  OBVIOUS
<1>8. runs' = [runs EXCEPT ![v] = r]
  BY <1>3, <1>4, <1>7
<1>9. UNCHANGED <<journal, claims, executed, lost, life>>
  BY <1>2
<1>10. CASE s = "paused"
  <2>1. pc' = [pc EXCEPT ![h] = "create"] /\ job' = job /\ locked' = locked
    BY <1>3, <1>4, <1>10 DEF goto
  <2>2. /\ "create" \in Steps /\ "create" \in Own /\ "create" \in Between /\ "create" \notin Deciding
        /\ "finish" \in Own /\ job' \in [Handlers -> Jobs]
    BY <2>1 DEF Steps, Own, First, Deciding, Claimed, Between, ApprovalInv, TypeOK
  <2>3. /\ pc' \in [Handlers -> Steps] /\ pc'[h] = "create"
        /\ \A k \in Handlers \ {h} : pc'[k] = pc[k] /\ job'[k] = job[k]
        /\ LockedOnce' /\ OwnedOnce'
    BY <1>2, <2>1, <2>2, MoveKeeps
  <2>4. \A k \in Handlers \ {h} :
          /\ pc'[k] = pc[k] /\ job'[k] = job[k]
          /\ pc[k] \in Deciding => job[k].record \in locked'
    BY <2>1, <2>3, JobTyped DEF JobOK
  <2>5. Ends(h, v, s, g, r)
    BY <1>1, <1>6, <1>7, <1>8, <1>9, <2>1, <2>2, <2>3, <2>4 DEF Ends
  <2>6. /\ Changed(h, v, r)
        /\ r \in RunRecords /\ r.state = s /\ r.gate = g /\ (r.resumable <=> s = "paused")
    BY <1>2, <1>5, <1>6, <2>5, RunEnds
  <2>7. TypeOK'
    BY <1>2, <2>1, <2>2, <2>3, <2>6 DEF TypeOK, ApprovalInv, Changed, ids
  <2>8. JobOK(h)'
    BY <1>1, <1>5, <2>1, <2>3, SMT DEF JobOK, First, Deciding, Claimed, Approving
  <2>9. OwnOK(h)'
    <3>1. reviewable(r)
      BY <1>5, <1>6, <1>10, <2>6, WorkflowAssumption, SMT DEF reviewable
    <3>2. job'[h].revision = v /\ runs'[v] = r
      BY <1>1, <2>1, <2>6 DEF Changed
    <3>3. recordsOf(job[h].revision)' = {}
      BY <1>1, <1>2, <1>5, <2>1 DEF recordsOf, ids
    <3> QED
      BY <2>3, <3>1, <3>2, <3>3, SMT DEF OwnOK, First, Running, reviewable
  <2>10. (\A k \in Handlers : JobOK(k))' /\ (\A k \in Handlers : OwnOK(k))'
    BY <2>6, <2>8, <2>9, ByHandler DEF Changed
  <2>11. LivesCounted'
    BY <1>2 DEF LivesCounted, ApprovalInv
  <2> QED
    BY <2>3, <2>6, <2>7, <2>10, <2>11 DEF ApprovalInv, Changed
<1>11. CASE s # "paused"
  <2>1. end(h)
    BY <1>3, <1>4, <1>11
  <2>2. /\ \A k \in Handlers \ {h} :
             /\ pc'[k] = pc[k] /\ job'[k] = job[k]
             /\ pc[k] \in Deciding => job[k].record \in locked'
        /\ JobOK(h)' /\ OwnOK(h)' /\ LockedOnce' /\ OwnedOnce'
    BY <2>1, EndKeeps
  <2>3. Ends(h, v, s, g, r)
    BY <1>1, <1>6, <1>7, <1>8, <1>9, <1>11, <2>2 DEF Ends
  <2>4. Changed(h, v, r)
    BY <1>2, <1>5, <1>6, <2>3, RunEnds
  <2>5. TypeOK'
    <3>1. pc' \in [Handlers -> Steps] /\ job' \in [Handlers -> Jobs] /\ locked' \subseteq ids
      BY <2>1, EndTyped DEF ApprovalInv
    <3> QED
      BY <1>2, <2>4, <3>1 DEF TypeOK, ApprovalInv, Changed, ids
  <2>6. (\A k \in Handlers : JobOK(k))' /\ (\A k \in Handlers : OwnOK(k))'
    BY <2>2, <2>4, ByHandler DEF Changed
  <2>7. LivesCounted'
    BY <1>2 DEF LivesCounted, ApprovalInv
  <2> QED
    BY <2>2, <2>4, <2>5, <2>6, <2>7 DEF ApprovalInv, Changed
<1> QED
  BY <1>10, <1>11

\* Blocking a rejected or expired run keeps the invariant.
LEMMA BlockKeeps ==
  ASSUME ApprovalInv, NEW h \in Handlers, block(h)
  PROVE  ApprovalInv'
<1>1. PICK v : v = job[h].revision
  OBVIOUS
<1>2. PICK g : g = runs[v].gate
  OBVIOUS
<1>3. PICK r : r = finished(runs[v], "blocked", g)
  OBVIOUS
<1>4. /\ pc[h] = "block" /\ pc[h] \in Running /\ end(h) /\ runs' = [runs EXCEPT ![v] = finished(@, "blocked", @.gate)]
      /\ UNCHANGED <<revision, stale, journal, claims, executed, lost, life, crashes, failures>>
  BY <1>1 DEF block, history, faults, Running
<1>5. v \in Revisions /\ g \in 0..Gates
  BY <1>1, <1>2, <1>4, RunningOwned
<1>6. runs' = [runs EXCEPT ![v] = r]
  BY <1>2, <1>3, <1>4
<1>7. /\ \A k \in Handlers \ {h} :
           /\ pc'[k] = pc[k] /\ job'[k] = job[k]
           /\ pc[k] \in Deciding => job[k].record \in locked'
      /\ JobOK(h)' /\ OwnOK(h)' /\ LockedOnce' /\ OwnedOnce'
  BY <1>4, EndKeeps
<1>8. g <= g
  BY <1>5, SMT
<1>9. Ends(h, v, "blocked", g, r)
  BY <1>1, <1>2, <1>3, <1>4, <1>6, <1>7, <1>8 DEF Ends
<1>10. Changed(h, v, r)
  BY <1>4, <1>5, <1>9, RunEnds
<1>11. TypeOK'
  <2>1. pc' \in [Handlers -> Steps] /\ job' \in [Handlers -> Jobs] /\ locked' \subseteq ids
    BY <1>4, EndTyped DEF ApprovalInv
  <2> QED
    BY <1>4, <1>10, <2>1 DEF TypeOK, ApprovalInv, Changed, ids
<1>12. (\A k \in Handlers : JobOK(k))' /\ (\A k \in Handlers : OwnOK(k))'
  BY <1>7, <1>10, ByHandler DEF Changed
<1>13. LivesCounted'
  BY <1>4 DEF LivesCounted, ApprovalInv
<1> QED
  BY <1>7, <1>10, <1>11, <1>12, <1>13 DEF ApprovalInv, Changed

\* The end of the part behind a gate keeps the invariant.
LEMMA FinishResumedKeeps ==
  ASSUME ApprovalInv, NEW h \in Handlers, finishResumed(h)
  PROVE  ApprovalInv'
<1>1. PICK v : v = job[h].revision
  OBVIOUS
<1>2. PICK n : n = job[h].record
  OBVIOUS
<1>3. /\ pc[h] = "finishResumed" /\ pc[h] \in Running /\ pc[h] \in Deciding /\ pc[h] \in Own
      /\ UNCHANGED <<revision, stale, journal, locked, claims, job, executed, lost, life, crashes, failures>>
  BY DEF finishResumed, history, faults, Running, Deciding, Claimed, Own
<1>4. PICK e \in endings(record(h).run.gate) :
        /\ runs' = [runs EXCEPT ![v] = finished(@, e[1], e[2])]
        /\ goto(h, IF e[1] = "paused" THEN "createNext" ELSE "consume")
  BY <1>1 DEF finishResumed
<1>5. PICK s, g : s = e[1] /\ g = e[2]
  OBVIOUS
<1>6. PICK next : next = IF s = "paused" THEN "createNext" ELSE "consume"
  OBVIOUS
<1>7. PICK r : r = finished(runs[v], s, g)
  OBVIOUS
<1>8. OwnOK(h) /\ JobOK(h) /\ runs[v].gate = record(h).run.gate
  BY <1>1, <1>3, JobTyped DEF OwnOK
<1>9. /\ v \in Revisions /\ runs[v].gate \in 0..Gates
      /\ \A i \in recordsOf(v) : journal[i].run.gate <= runs[v].gate
  BY <1>1, <1>3, RunningOwned
<1>10. /\ s \in {"blocked", "paused", "completed"} /\ g \in 0..Gates /\ runs[v].gate <= g
       /\ s = "paused" => runs[v].gate < g
  BY <1>4, <1>5, <1>8, <1>9, EndingFacts
<1>11. runs' = [runs EXCEPT ![v] = r] /\ pc' = [pc EXCEPT ![h] = next]
  BY <1>4, <1>5, <1>6, <1>7 DEF goto
<1>12. /\ next \in Steps /\ next \in Deciding /\ (s = "paused" => next = "createNext" /\ next \in Between)
       /\ (next = "createNext" => s = "paused") /\ job' = job /\ job' \in [Handlers -> Jobs]
       /\ next \in {"createNext", "consume"}
  BY <1>3, <1>6 DEF Steps, Deciding, Claimed, Between, ApprovalInv, TypeOK
<1>13. /\ pc' \in [Handlers -> Steps] /\ pc'[h] = next
       /\ \A k \in Handlers \ {h} : pc'[k] = pc[k] /\ job'[k] = job[k]
       /\ LockedOnce' /\ OwnedOnce'
  BY <1>3, <1>11, <1>12, MoveKeeps
<1>14. \A k \in Handlers \ {h} :
         /\ pc'[k] = pc[k] /\ job'[k] = job[k]
         /\ pc[k] \in Deciding => job[k].record \in locked'
  BY <1>3, <1>13, JobTyped DEF JobOK
<1>15. Ends(h, v, s, g, r)
  BY <1>1, <1>3, <1>7, <1>10, <1>11, <1>12, <1>13, <1>14 DEF Ends
<1>16. /\ Changed(h, v, r)
       /\ r \in RunRecords /\ r.state = s /\ r.gate = g /\ (r.resumable <=> s = "paused")
  BY <1>3, <1>9, <1>10, <1>15, RunEnds
<1>17. TypeOK'
  BY <1>3, <1>12, <1>13, <1>16 DEF TypeOK, ApprovalInv, Changed, ids
<1>18. JobOK(h)'
  <2>1. record(h)' = record(h) /\ ids' = ids
    BY <1>3 DEF record, ids
  <2> QED
    BY <1>3, <1>8, <1>12, <1>13, <2>1, SMT DEF JobOK, First, Deciding, Claimed, Approving
<1>19. OwnOK(h)'
  <2>1. CASE next = "createNext"
    <3>1. reviewable(r)
      BY <1>9, <1>10, <1>12, <1>16, <2>1, WorkflowAssumption, SMT DEF reviewable
    <3>2. job'[h].revision = v /\ runs'[v] = r /\ journal' = journal
      BY <1>1, <1>3, <1>16 DEF Changed
    <3>3. \A i \in recordsOf(v) : journal[i].run.gate < r.gate
      <4>1. \A i \in recordsOf(v) : journal[i].run.gate \in 0..Gates
        <5>1. \A i \in ids : RecordOK(i)
          BY DEF ApprovalInv
        <5> QED
          BY <5>1 DEF RecordOK, reviewable, RunRecords, recordsOf
      <4> QED
        BY <1>9, <1>10, <1>12, <1>16, <2>1, <4>1, WorkflowAssumption, SMT
    <3>4. recordsOf(job[h].revision)' = recordsOf(v)
      BY <1>1, <1>3 DEF recordsOf, ids
    <3> QED
      BY <1>13, <2>1, <3>1, <3>2, <3>3, <3>4, SMT DEF OwnOK, First, Running, reviewable
  <2>2. CASE next = "consume"
    BY <1>13, <2>2, SMT DEF OwnOK, First, Running
  <2> QED
    BY <1>12, <2>1, <2>2
<1>20. (\A k \in Handlers : JobOK(k))' /\ (\A k \in Handlers : OwnOK(k))'
  BY <1>16, <1>18, <1>19, ByHandler DEF Changed
<1>21. LivesCounted'
  BY <1>3 DEF LivesCounted, ApprovalInv
<1> QED
  BY <1>13, <1>16, <1>17, <1>20, <1>21 DEF ApprovalInv, Changed

\* Who resumes a run takes it into its hands, and nobody else has it.
LEMMA BeginResumeKeeps ==
  ASSUME ApprovalInv, NEW h \in Handlers, beginResume(h)
  PROVE  ApprovalInv'
<1>1. PICK v : v = job[h].revision
  OBVIOUS
<1>2. PICK n : n = job[h].record
  OBVIOUS
<1>3. PICK r : r = resumed(h, runs[v])
  OBVIOUS
<1>4. PICK next : next = IF job[h].outcome = "approved" THEN "resume" ELSE "block"
  OBVIOUS
<1>5. /\ pc[h] = "begin" /\ pc[h] \in Deciding /\ pc[h] \in Claimed
      /\ runs' = [runs EXCEPT ![v] = r] /\ pc' = [pc EXCEPT ![h] = next]
      /\ UNCHANGED <<revision, stale, journal, locked, claims, job, executed, lost, life, crashes, failures>>
  BY <1>1, <1>3, <1>4 DEF beginResume, goto, history, faults, Deciding, Claimed
<1>6. runs[v].state = "paused" /\ runs[v].resumable /\ runs[v] = journal[n].run
  BY <1>1, <1>2 DEF beginResume, mayResume, record
<1>7. /\ JobOK(h) /\ v \in Revisions /\ n \in ids /\ journal[n] \in Records /\ RecordOK(n)
      /\ journal[n].revision = v /\ n \in recordsOf(v)
  BY <1>1, <1>2, <1>5, JobTyped DEF record, recordsOf
<1>8. n \in claims /\ journal[n].state # "pending"
  BY <1>2, <1>5, <1>7 DEF JobOK, RecordOK
<1>9. runs[v] \in RunRecords /\ runs[v].gate # 0 /\ runs[v].gate \in 0..Gates /\ v \in saved
  BY <1>6, <1>7, NoneAssumption DEF RecordOK, reviewable, RunRecords, saved
<1>10. epochOf(h) \in Epochs
  BY EpochTyped DEF ApprovalInv
<1>11. r \in RunRecords
  BY <1>3, <1>9, <1>10, RunsClosed, WorkflowAssumption DEF resumed
<1>12. r.state = "running" /\ r.gate = runs[v].gate /\ r.resumable = FALSE /\ r.epoch = epochOf(h)
  BY <1>3, <1>9, <1>10, RunFields DEF resumed
<1>13. ASSUME NEW k \in Handlers \ {h}, pc[k] \in Own
       PROVE  job[k].revision # v
  <2>1. OwnOK(k)
    BY DEF ApprovalInv
  <2>2. CASE pc[k] \in Running
    BY <1>6, <2>1, <2>2 DEF OwnOK, mayFinish
  <2>3. CASE pc[k] = "create"
    BY <1>7, <2>1, <2>3 DEF OwnOK, First
  <2>4. CASE pc[k] = "createNext"
    <3>1. job[k].revision = v => journal[n].run.gate < runs[v].gate
      BY <1>7, <2>1, <2>4 DEF OwnOK
    <3> QED
      BY <1>6, <1>9, <3>1, SMT
  <2> QED
    BY <1>13, <2>2, <2>3, <2>4 DEF Own, First, Running
<1>14. /\ next \in Steps /\ next \in Deciding /\ next \in Running /\ next \in {"resume", "block"}
       /\ next = "resume" => job[h].outcome = "approved"
  BY <1>4 DEF Steps, Deciding, Claimed, Running
<1>15. job' = job /\ pc' \in [Handlers -> Steps] /\ pc'[h] = next /\ \A k \in Handlers \ {h} : pc'[k] = pc[k]
  BY <1>5, <1>14 DEF ApprovalInv, TypeOK
<1>16. LockedOnce'
  BY <1>5, <1>15, SMT DEF LockedOnce, ApprovalInv
<1>17. OwnedOnce'
  BY <1>1, <1>13, <1>15 DEF OwnedOnce, ApprovalInv
<1>18. \A k \in Handlers \ {h} :
         /\ pc'[k] = pc[k] /\ job'[k] = job[k]
         /\ pc[k] \in Deciding => job[k].record \in locked'
         /\ pc[k] \in Own => job[k].revision # v
  BY <1>5, <1>13, <1>15, JobTyped DEF JobOK
\* No other record of the run is pending: it would be of the same gate.
<1>19. ASSUME NEW i \in recordsOf(v)
       PROVE  journal[i].state # "pending" /\ journal[i].run.gate <= r.gate
  <2>1. RecordOK(i) /\ i \in ids /\ journal[i].revision = v
    BY DEF recordsOf, ApprovalInv
  <2>2. journal[i].state # "pending"
    BY <1>6, <1>7, <1>8, <2>1 DEF RecordOK, ApprovalInv, OneRecordPerGate
  <2> QED
    BY <1>12, <2>1, <2>2 DEF RecordOK
<1>20. \A g \in 0..Gates : executed[v][g] # 0 => g <= r.gate /\ (r.state = "paused" => g # r.gate)
  BY <1>7, <1>12, SMT DEF ApprovalInv, StartedOK
<1>21. \A w \in saved \ {v} : ~blocksDraft(runs[w])
  BY <1>6, <1>9 DEF ApprovalInv, OneOpenRun, blocksDraft
<1>22. Changes(h, v, r)
  BY <1>1, <1>5, <1>12, <1>14, <1>15, <1>18, <1>19, <1>20, <1>21 DEF Changes
<1>23. Changed(h, v, r)
  BY <1>7, <1>11, <1>22, RunChanged
<1>24. TypeOK'
  BY <1>5, <1>15, <1>23 DEF TypeOK, ApprovalInv, Changed, ids
<1>25. JobOK(h)' /\ OwnOK(h)'
  <2>1. record(h)' = record(h) /\ ids' = ids
    BY <1>5 DEF record, ids
  <2>2. JobOK(h)'
    BY <1>5, <1>7, <1>14, <1>15, <2>1, SMT DEF JobOK, First, Deciding, Claimed, Approving
  <2>3. runs'[v] = r /\ epochOf(h)' = epochOf(h) /\ job'[h].revision = v /\ r.gate = record(h)'.run.gate
    BY <1>1, <1>2, <1>5, <1>6, <1>12, <1>15, <1>23, <2>1 DEF Changed, epochOf, record
  <2>4. executed'[v][r.gate] = 0
    <3>1. executed[v][runs[v].gate] = 0
      BY <1>6, <1>7, <1>9 DEF ApprovalInv, StartedOK
    <3> QED
      BY <1>5, <1>12, <3>1
  <2>5. pc'[h] \notin First /\ pc'[h] # "createNext"
    BY <1>14, <1>15 DEF First
  <2>6. OwnOK(h)'
    BY <1>11, <1>12, <1>14, <1>15, <2>3, <2>4, <2>5, SMT DEF OwnOK, First, mayFinish
  <2> QED
    BY <2>2, <2>6
<1>26. (\A k \in Handlers : JobOK(k))' /\ (\A k \in Handlers : OwnOK(k))'
  BY <1>23, <1>25, ByHandler DEF Changed
<1>27. LivesCounted'
  BY <1>5 DEF LivesCounted, ApprovalInv
<1> QED
  BY <1>16, <1>17, <1>23, <1>24, <1>26, <1>27 DEF ApprovalInv, Changed

\* A new run keeps the invariant.
LEMMA ReserveRunKeeps ==
  ASSUME ApprovalInv, NEW h \in Handlers, reserveRun(h)
  PROVE  ApprovalInv'
<1>1. PICK v : v = revision
  OBVIOUS
<1>2. PICK r : r = [state |-> "running", gate |-> 0, resumable |-> FALSE, epoch |-> epochOf(h)]
  OBVIOUS
<1>3. PICK j : j = [NoJob EXCEPT !.revision = v]
  OBVIOUS
<1>4. /\ pc[h] = "idle" /\ runs[v] = None /\ \A w \in saved : ~blocksDraft(runs[w])
      /\ runs' = [runs EXCEPT ![v] = r] /\ job' = [job EXCEPT ![h] = j] /\ pc' = [pc EXCEPT ![h] = "execute"]
      /\ UNCHANGED <<revision, stale, journal, locked, claims, executed, lost, life, crashes, failures>>
  BY <1>1, <1>2, <1>3 DEF reserveRun, goto, history, faults
<1>5. v \in Revisions
  BY <1>1 DEF ApprovalInv, TypeOK
<1>6. epochOf(h) \in Epochs
  BY EpochTyped DEF ApprovalInv
<1>7. r \in RunRecords
  <2>1. \A e \in Epochs, b \in BOOLEAN, g \in 0..Gates :
          [state |-> "running", gate |-> g, resumable |-> b, epoch |-> e] \in RunRecords
    BY Zenon DEF RunRecords
  <2>2. 0 \in 0..Gates
    BY WorkflowAssumption, SMT
  <2> QED
    BY <1>2, <1>6, <2>1, <2>2
<1>8. r.state = "running" /\ r.gate = 0 /\ r.resumable = FALSE /\ r.epoch = epochOf(h)
  BY <1>2
<1>9. j \in Jobs /\ j.revision = v /\ j.record = 0
  BY <1>3, <1>5, NoJobTyped DEF NoJob
<1>10. /\ pc' \in [Handlers -> Steps] /\ pc'[h] = "execute" /\ job' \in [Handlers -> Jobs] /\ job'[h] = j
       /\ \A k \in Handlers \ {h} : pc'[k] = pc[k] /\ job'[k] = job[k]
  BY <1>4, <1>9 DEF ApprovalInv, TypeOK, Steps
<1>11. None \notin RunRecords
  BY NoneAssumption
<1>12. \A k \in Handlers \ {h} : pc[k] \in Own => job[k].revision # v
  BY <1>4, <1>11, OwnHasRun
<1>13. \A k \in Handlers \ {h} :
         /\ pc'[k] = pc[k] /\ job'[k] = job[k]
         /\ pc[k] \in Deciding => job[k].record \in locked'
         /\ pc[k] \in Own => job[k].revision # v
  BY <1>4, <1>10, <1>12, JobTyped DEF JobOK
<1>14. LockedOnce'
  <2>1. "execute" \notin Deciding
    BY DEF Deciding, Claimed
  <2> QED
    BY <1>10, <2>1 DEF LockedOnce, ApprovalInv
<1>15. OwnedOnce'
  BY <1>9, <1>10, <1>12 DEF OwnedOnce, ApprovalInv
<1>16. recordsOf(v) = {}
  BY <1>4, <1>11 DEF recordsOf, ApprovalInv, RecordOK
<1>17. \A g \in 0..Gates : executed[v][g] = 0
  <2>1. StartedOK(v)
    BY <1>5 DEF ApprovalInv
  <2> QED
    BY <1>4, <1>11, <2>1 DEF StartedOK
<1>18. pc[h] \notin Running \cup Between /\ pc'[h] \in Running
  BY <1>4, <1>10 DEF Running, Between
<1>19. Changes(h, v, r)
  BY <1>4, <1>8, <1>9, <1>10, <1>13, <1>16, <1>17, <1>18 DEF Changes
<1>20. Changed(h, v, r)
  BY <1>5, <1>7, <1>19, RunChanged
<1>21. TypeOK'
  BY <1>4, <1>10, <1>20 DEF TypeOK, ApprovalInv, Changed, ids
<1>22. JobOK(h)' /\ OwnOK(h)'
  <2>1. JobOK(h)'
    BY <1>5, <1>9, <1>10, SMT DEF JobOK, First, Deciding, Claimed, Approving
  <2>2. runs'[v] = r /\ epochOf(h)' = epochOf(h) /\ job'[h].revision = v /\ executed' = executed
    BY <1>4, <1>9, <1>10, <1>20 DEF Changed, epochOf
  <2>3. recordsOf(job[h].revision)' = {}
    BY <1>4, <1>9, <1>10, <1>16 DEF recordsOf, ids
  <2>4. executed[v][0] = 0
    BY <1>17, WorkflowAssumption
  <2>5. OwnOK(h)'
    BY <1>7, <1>8, <1>10, <2>2, <2>3, <2>4, SMT DEF OwnOK, First, Running, mayFinish
  <2> QED
    BY <2>1, <2>5
<1>23. (\A k \in Handlers : JobOK(k))' /\ (\A k \in Handlers : OwnOK(k))'
  BY <1>20, <1>22, ByHandler DEF Changed
<1>24. LivesCounted'
  BY <1>4 DEF LivesCounted, ApprovalInv
<1> QED
  BY <1>14, <1>15, <1>20, <1>21, <1>23, <1>24 DEF ApprovalInv, Changed
-----------------------------------------------------------------------------
(* The invariant of every behaviour *)

\* No draft has a run yet and no request is served.
LEMMA ApprovalInvInit == Init => ApprovalInv
<1> SUFFICES ASSUME Init
             PROVE  ApprovalInv
  OBVIOUS
<1> USE DEF Init
<1>1. TypeOK
  <2>1. revision \in Revisions /\ life \in [Processes -> 1..(MaxCrashes + 1)]
    BY WorkflowAssumption, SMT DEF Revisions
  <2>2. runs \in [Revisions -> {None} \cup RunRecords] /\ saved = {}
    BY DEF saved
  <2>3. journal \in Seq(Records)
    BY SMT
  <2>4. pc \in [Handlers -> Steps]
    BY DEF Steps
  <2>5. job \in [Handlers -> Jobs]
    BY NoJobTyped
  <2>6. executed \in [Revisions -> [0..Gates -> Nat]]
    OBVIOUS
  <2>7. stale \subseteq Debris /\ locked \subseteq ids /\ claims \subseteq ids /\ lost \subseteq Revisions
        /\ crashes \in Nat /\ failures \in Nat
    OBVIOUS
  <2> QED
    BY <2>1, <2>2, <2>3, <2>4, <2>5, <2>6, <2>7, Zenon DEF TypeOK
<1>2. LivesCounted
  BY WorkflowAssumption, SMT DEF LivesCounted
<1>3. \A h \in Handlers : JobOK(h) /\ OwnOK(h)
  BY SMT DEF JobOK, OwnOK, First, Claimed, Deciding, Approving, Running
<1>4. ids = {}
  BY SMT DEF ids
<1>5. \A v \in Revisions : runs[v] = None /\ None \notin RunRecords
  BY NoneAssumption
<1>6. \A v \in Revisions, g \in 0..Gates : executed[v][g] = 0
  OBVIOUS
<1>7. \A v \in Revisions : StartedOK(v) /\ AttendedOK(v)
  BY <1>5, <1>6, SMT DEF StartedOK, AttendedOK
<1>8. LockedOnce /\ OwnedOnce
  BY SMT DEF LockedOnce, OwnedOnce, Own, First, Deciding, Claimed
<1>9. ExecutionIsDecided
  BY <1>6, WorkflowAssumption, SMT DEF ExecutionIsDecided
<1>10. OneOpenRun /\ OneRecordPerGate /\ \A i \in ids : RecordOK(i)
  BY <1>4 DEF OneOpenRun, saved, OneRecordPerGate
<1> QED
  BY <1>1, <1>2, <1>3, <1>7, <1>8, <1>9, <1>10 DEF ApprovalInv

\* So does a step that changes nothing.
LEMMA ApprovalInvStutter ==
  ASSUME ApprovalInv, UNCHANGED vars
  PROVE  ApprovalInv'
<1> USE DEF vars, store, control, history, faults
<1>1. TypeOK'
  BY SMT DEF ApprovalInv, TypeOK, ids, saved
<1>2. LivesCounted' /\ LockedOnce' /\ OwnedOnce'
  BY DEF ApprovalInv, LivesCounted, LockedOnce, OwnedOnce
<1>3. ASSUME NEW k \in Handlers
      PROVE  JobOK(k)' /\ OwnOK(k)'
  <2>1. Undisturbed(k)
    BY JobTyped, SMT DEF Undisturbed, recordsOf, ids, JobOK
  <2> QED
    BY <2>1, UndisturbedKeeps DEF ApprovalInv
<1>4. (\A v \in Revisions : AttendedOK(v))'
  BY SMT DEF ApprovalInv, AttendedOK, recordsOf, ids
<1> QED
  BY <1>1, <1>2, <1>3, <1>4, StoreKeeps DEF ApprovalInv

\* Every step of a request keeps the invariant.
LEMMA ApprovalInvHandle ==
  ASSUME ApprovalInv, NEW h \in Handlers, handle(h)
  PROVE  ApprovalInv'
<1>1. CASE reserveRun(h) \/ execute(h) \/ finishFirst(h) \/ create(h)
  BY <1>1, ReserveRunKeeps, ExecuteKeeps, FinishFirstKeeps, CreateKeeps
<1>2. CASE review(h) \/ confirm(h) \/ write(h) \/ claim(h)
  BY <1>2, ReviewKeeps, ConfirmKeeps, WriteKeeps, ClaimKeeps
<1>3. CASE beginResume(h) \/ block(h) \/ resume(h) \/ finishResumed(h)
  BY <1>3, BeginResumeKeeps, BlockKeeps, ResumeKeeps, FinishResumedKeeps
<1>4. CASE createNext(h) \/ consume(h)
  BY <1>4, CreateNextKeeps, ConsumeKeeps
<1> QED
  BY <1>1, <1>2, <1>3, <1>4 DEF handle

\* Every step keeps the invariant.
LEMMA ApprovalInvNext ==
  ASSUME ApprovalInv, [Next]_vars
  PROVE  ApprovalInv'
<1>1. CASE \E h \in Handlers : handle(h) \/ fail(h) \/ refuse(h)
  <2> PICK h \in Handlers : handle(h) \/ fail(h) \/ refuse(h)
    BY <1>1
  <2>1. CASE handle(h)
    BY <2>1, ApprovalInvHandle
  <2>2. CASE fail(h)
    <3>1. unfilled(h) \subseteq Debris
      BY DEF unfilled, Debris
    <3>2. throw(h) /\ failures' \in Nat /\ stale' \subseteq Debris
      BY <2>2, <3>1 DEF fail, ApprovalInv, TypeOK
    <3> QED
      BY <3>2, ThrowKeeps
  <2>3. CASE refuse(h)
    <3>1. throw(h) /\ failures' \in Nat /\ stale' \subseteq Debris
      BY <2>3 DEF refuse, ApprovalInv, TypeOK
    <3> QED
      BY <3>1, ThrowKeeps
  <2> QED
    BY <2>1, <2>2, <2>3
<1>2. CASE \E p \in Processes : crash(p)
  BY <1>2, CrashKeeps
<1>3. CASE update
  BY <1>3, UpdateKeeps
<1>4. CASE UNCHANGED vars
  BY <1>4, ApprovalInvStutter
<1> QED
  BY <1>1, <1>2, <1>3, <1>4 DEF Next

\* The inductive invariant behind the theorems below.
THEOREM ApprovalInvariant == Spec => []ApprovalInv
BY ApprovalInvInit, ApprovalInvNext, PTL DEF Spec
-----------------------------------------------------------------------------
(* What the runs of TLC check, for every value of the constants *)

\* The run of a draft, its records, their claims and the requests keep their
\* shapes, and only a paused run can be resumed.
THEOREM ApprovalTypes == Spec => []TypeOK
<1>1. ApprovalInv => TypeOK
  BY DEF ApprovalInv
<1> QED
  BY <1>1, ApprovalInvariant, PTL

\* No part of a run starts twice, whatever is decided twice, dies or fails.
THEOREM PartsStartOnceAlways == Spec => []PartsStartOnce
<1>1. ApprovalInv => PartsStartOnce
  BY DEF ApprovalInv, StartedOK, PartsStartOnce
<1> QED
  BY <1>1, ApprovalInvariant, PTL

\* What is behind a gate ran only after a claimed approval of somebody else.
THEOREM ExecutionIsDecidedAlways == Spec => []ExecutionIsDecided
<1>1. ApprovalInv => ExecutionIsDecided
  BY DEF ApprovalInv
<1> QED
  BY <1>1, ApprovalInvariant, PTL

\* At most one run of a draft executes or waits for a review.
THEOREM OneOpenRunAlways == Spec => []OneOpenRun
<1>1. ApprovalInv => OneOpenRun
  BY DEF ApprovalInv
<1> QED
  BY <1>1, ApprovalInvariant, PTL

\* Only a death strands the lock of a record, and only a death or a failed write
\* leaves anything else behind.
LeftBehind ==
  /\ crashes = 0 => \A i \in locked : \E h \in Handlers : pc[h] \in Deciding /\ job[h].record = i
  /\ crashes = 0 /\ failures = 0 => stale = {}

\* No lock is stranded by a request that moves on, with its lock or without one, or
\* that ends.
LEMMA NothingStranded ==
  ASSUME ApprovalInv, LeftBehind, NEW h \in Handlers, UNCHANGED crashes,
         crashes = 0 /\ failures' = 0 => failures = 0 /\ UNCHANGED stale,
         \/ end(h)
         \/ /\ UNCHANGED locked
            /\ \A k \in Handlers \ {h} : pc'[k] = pc[k] /\ job'[k] = job[k]
            /\ pc[h] \in Deciding => pc'[h] \in Deciding /\ job'[h].record = job[h].record
  PROVE  LeftBehind'
<1>1. ASSUME crashes' = 0, NEW i \in locked'
      PROVE  \E k \in Handlers : pc'[k] \in Deciding /\ job'[k].record = i
  <2>1. CASE end(h)
    <3>1. /\ pc' = [pc EXCEPT ![h] = "idle"] /\ job' = [job EXCEPT ![h] = NoJob]
          /\ locked' = locked \ {job[h].record}
      BY <2>1 DEF end, goto
    <3>2. \A k \in Handlers \ {h} : pc'[k] = pc[k] /\ job'[k] = job[k]
      BY <3>1 DEF ApprovalInv, TypeOK
    <3>3. i \in locked /\ i # job[h].record
      BY <1>1, <3>1
    <3>4. PICK k \in Handlers : pc[k] \in Deciding /\ job[k].record = i
      BY <1>1, <3>3 DEF LeftBehind
    <3> QED
      BY <3>2, <3>3, <3>4
  <2>2. CASE ~end(h)
    BY <1>1, <2>2 DEF LeftBehind
  <2> QED
    BY <2>1, <2>2
<1>2. crashes' = 0 /\ failures' = 0 => stale' = {}
  BY DEF LeftBehind
<1> QED
  BY <1>1, <1>2 DEF LeftBehind

\* Every step keeps to it.
LEMMA LeftBehindNext ==
  ASSUME ApprovalInv, LeftBehind, [Next]_vars
  PROVE  LeftBehind'
<1>1. CASE \E h \in Handlers : handle(h) \/ fail(h) \/ refuse(h)
  <2> PICK h \in Handlers : handle(h) \/ fail(h) \/ refuse(h)
    BY <1>1
  <2>1. CASE handle(h)
    <3>1. pc \in [Handlers -> Steps] /\ job \in [Handlers -> Jobs]
      BY DEF ApprovalInv, TypeOK
    <3>2. UNCHANGED <<crashes, failures, stale>>
      BY <2>1 DEF handle, reserveRun, execute, finishFirst, create, review, confirm, write, claim,
             beginResume, block, resume, finishResumed, createNext, consume, faults, store
    <3>3. CASE create(h) \/ block(h) \/ consume(h) \/ (confirm(h) /\ end(h)) \/ (finishFirst(h) /\ end(h))
      <4>1. end(h)
        BY <3>3 DEF create, block, consume
      <4> QED
        BY <3>2, <4>1, NothingStranded
    <3>4. CASE reserveRun(h) \/ execute(h) \/ (finishFirst(h) /\ ~end(h))
      <4>1. /\ UNCHANGED locked /\ pc[h] \in {"idle", "execute", "finish"}
            /\ \A k \in Handlers \ {h} : pc'[k] = pc[k] /\ job'[k] = job[k]
        BY <3>1, <3>4 DEF reserveRun, execute, finishFirst, goto, store
      <4>2. pc[h] \notin Deciding
        BY <4>1 DEF Deciding, Claimed
      <4> QED
        BY <3>2, <4>1, <4>2, NothingStranded
    <3>5. CASE review(h)
      <4>1. PICK i \in ids \ locked :
              /\ locked' = locked \cup {i} /\ pc' = [pc EXCEPT ![h] = "confirm"] /\ pc[h] = "idle"
              /\ \E j : j.record = i /\ job' = [job EXCEPT ![h] = j]
        BY <3>5 DEF review, goto
      <4>2. /\ pc'[h] \in Deciding /\ job'[h].record = i /\ pc[h] \notin Deciding
            /\ \A k \in Handlers \ {h} : pc'[k] = pc[k] /\ job'[k] = job[k]
        BY <3>1, <4>1 DEF Deciding, Claimed
      <4> QED
        BY <3>2, <4>1, <4>2 DEF LeftBehind
    <3>6. CASE confirm(h) /\ ~end(h)
      <4>1. /\ UNCHANGED locked /\ pc' = [pc EXCEPT ![h] = "write"]
            /\ \E o : job' = [job EXCEPT ![h].outcome = o]
        BY <3>6 DEF confirm, goto
      <4>2. /\ pc'[h] \in Deciding /\ job'[h].record = job[h].record
            /\ \A k \in Handlers \ {h} : pc'[k] = pc[k] /\ job'[k] = job[k]
        BY <3>1, <4>1 DEF Deciding, Jobs
      <4> QED
        BY <3>2, <4>1, <4>2, NothingStranded
    <3>7. CASE write(h) \/ claim(h) \/ beginResume(h) \/ resume(h) \/ finishResumed(h) \/ createNext(h)
      <4>1. /\ UNCHANGED <<locked, job>>
            /\ \E s \in Claimed \cup {"claim"} : pc' = [pc EXCEPT ![h] = s]
        BY <3>7 DEF write, claim, beginResume, resume, finishResumed, createNext, goto, Claimed, store
      <4>2. /\ pc'[h] \in Deciding
            /\ \A k \in Handlers \ {h} : pc'[k] = pc[k]
        BY <3>1, <4>1 DEF Deciding, Claimed
      <4> QED
        BY <3>2, <4>1, <4>2, NothingStranded
    <3> QED
      BY <2>1, <3>3, <3>4, <3>5, <3>6, <3>7 DEF handle
  <2>2. CASE fail(h)
    <3>1. end(h) /\ UNCHANGED crashes /\ failures \in Nat /\ failures' = failures + 1
      BY <2>2 DEF fail, throw, ApprovalInv, TypeOK
    <3>2. failures' # 0
      BY <3>1, SMT
    <3> QED
      BY <3>1, <3>2, NothingStranded
  <2>3. CASE refuse(h)
    <3>1. end(h) /\ UNCHANGED <<crashes, failures, stale>>
      BY <2>3 DEF refuse, throw
    <3> QED
      BY <3>1, NothingStranded
  <2> QED
    BY <2>1, <2>2, <2>3
<1>2. CASE \E p \in Processes : crash(p)
  <2>1. crashes \in Nat /\ crashes' = crashes + 1
    BY <1>2 DEF crash, ApprovalInv, TypeOK
  <2>2. crashes' # 0
    BY <2>1, SMT
  <2> QED
    BY <2>2 DEF LeftBehind
<1>3. CASE update
  BY <1>3 DEF update, control, faults, LeftBehind
<1>4. CASE UNCHANGED vars
  BY <1>4 DEF vars, store, control, faults, LeftBehind
<1> QED
  BY <1>1, <1>2, <1>3, <1>4 DEF Next

\* Journal, claims and runs satisfy the offline snapshot once nobody is at work and
\* nothing was abandoned or left behind, and nothing is unless something went wrong.
THEOREM SnapshotWhenQuietAlways == Spec => []SnapshotWhenQuiet
<1>1. ASSUME ApprovalInv, LeftBehind
      PROVE  SnapshotWhenQuiet
  <2>1. journalFollowsRuns
    BY <1>1, NoneAssumption DEF ApprovalInv, RecordOK, reviewable, journalFollowsRuns
  <2>2. ASSUME quiet, NEW v \in saved, runs[v].resumable
        PROVE  underReview(v)
    <3>1. v \in Revisions /\ runs[v] \in RunRecords
      BY <1>1, <2>2 DEF saved, ApprovalInv, TypeOK
    <3>2. AttendedOK(v) /\ "idle" \notin Between /\ lost = {} /\ \A h \in Handlers : pc[h] = "idle"
      BY <1>1, <2>2, <3>1 DEF ApprovalInv, Between, quiet
    <3>3. PICK i \in recordsOf(v) : journal[i].state = "pending"
      BY <2>2, <3>1, <3>2 DEF AttendedOK
    <3> QED
      BY <3>3 DEF underReview, recordsOf
  <2>3. claims \subseteq ids
    BY <1>1 DEF ApprovalInv, TypeOK
  <2>4. ASSUME quiet, crashes = 0, failures = 0
        PROVE  nothingLeft
    <3>1. "idle" \notin Deciding
      BY DEF Deciding, Claimed
    <3> QED
      BY <1>1, <2>4, <3>1 DEF LeftBehind, quiet, nothingLeft
  <2> QED
    BY <2>1, <2>2, <2>3, <2>4 DEF SnapshotWhenQuiet, validateEntries
<1>2. Init => LeftBehind
  BY DEF Init, LeftBehind
<1>3. Spec => []LeftBehind
  BY <1>2, LeftBehindNext, ApprovalInvariant, PTL DEF Spec
<1> QED
  BY <1>1, <1>3, ApprovalInvariant, PTL

\* A running run is in the hands of a process that may finish it, unless its
\* request was abandoned.
THEOREM RunningIsAttendedAlways == Spec => []RunningIsAttended
<1>1. ASSUME ApprovalInv
      PROVE  RunningIsAttended
  <2> SUFFICES ASSUME NEW v \in saved \ lost, runs[v].state = "running"
               PROVE  \E h \in Handlers : job[h].revision = v /\ mayFinish(h, v)
    BY DEF RunningIsAttended
  <2>1. v \in Revisions /\ runs[v] \in RunRecords
    BY <1>1 DEF saved, ApprovalInv, TypeOK
  <2>2. AttendedOK(v)
    BY <1>1, <2>1 DEF ApprovalInv
  <2>3. PICK h \in Handlers : pc[h] \in Running /\ job[h].revision = v
    BY <2>1, <2>2 DEF AttendedOK
  <2>4. OwnOK(h)
    BY <1>1 DEF ApprovalInv
  <2> QED
    BY <2>3, <2>4 DEF OwnOK
<1> QED
  BY <1>1, ApprovalInvariant, PTL

-----------------------------------------------------------------------------
(* What is over stays over *)

ClosedRuns == \A v \in saved : closed(v) => runs'[v] = runs[v]

ClosedRecords ==
  /\ \A i \in ids : journal[i].state \in {"rejected", "expired", "consumed"} => journal'[i] = journal[i]
  /\ \A i \in ids : journal[i].by # None => journal'[i].by = journal[i].by

Closing == ClosedRuns /\ ClosedRecords /\ claims \subseteq claims'

\* A run that some process may finish is not over: that process reports it running.
LEMMA MayFinishIsOpen ==
  ASSUME NEW h \in Handlers, NEW v, mayFinish(h, v)
  PROVE  ~closed(v)
<1>1. home[h] \in Processes
  BY WorkflowAssumption
<1>2. visible(home[h], v).state = "running"
  BY DEF mayFinish, visible, epochOf
<1> QED
  BY <1>1, <1>2 DEF closed

\* A change of an open run closes no other and reopens none.
LEMMA OpenRunMoves ==
  ASSUME ApprovalInv, NEW v \in Revisions, NEW r, runs' = [runs EXCEPT ![v] = r],
         v \in saved => ~closed(v)
  PROVE  ClosedRuns
<1>1. saved \subseteq Revisions /\ runs \in [Revisions -> {None} \cup RunRecords]
  BY DEF saved, ApprovalInv, TypeOK
<1> QED
  BY <1>1 DEF ClosedRuns

\* A step that changes no run, or no record, reopens none.
LEMMA NoneReopened ==
  /\ UNCHANGED runs => ClosedRuns
  /\ UNCHANGED journal => ClosedRecords
BY DEF ClosedRuns, ClosedRecords

\* A new record changes no other.
LEMMA RecordAdded ==
  ASSUME ApprovalInv, NEW v \in Revisions, journal' = withPending(v)
  PROVE  ClosedRecords
<1>1. journal \in Seq(Records)
  BY DEF ApprovalInv, TypeOK
<1>2. \A i \in ids : journal'[i] = journal[i]
  BY <1>1, SMT DEF withPending, ids
<1> QED
  BY <1>2 DEF ClosedRecords

\* The steps that change a run change an open one.
LEMMA RunStepsClose ==
  ASSUME ApprovalInv, NEW h \in Handlers,
         reserveRun(h) \/ finishFirst(h) \/ beginResume(h) \/ block(h) \/ finishResumed(h)
  PROVE  Closing
<1>1. UNCHANGED journal /\ UNCHANGED claims
  BY DEF reserveRun, finishFirst, beginResume, block, finishResumed
<1> SUFFICES ClosedRuns
  BY <1>1, NoneReopened DEF Closing
<1>2. CASE reserveRun(h)
  <2>1. /\ revision \in Revisions /\ revision \notin saved
        /\ \E r : runs' = [runs EXCEPT ![revision] = r]
    BY <1>2 DEF reserveRun, saved, ApprovalInv, TypeOK
  <2> QED
    BY <2>1, OpenRunMoves
<1>3. CASE finishFirst(h) \/ block(h) \/ finishResumed(h)
  <2>1. PICK v : v = job[h].revision
    OBVIOUS
  <2>2. mayFinish(h, v) /\ \E r : runs' = [runs EXCEPT ![v] = r]
    BY <1>3, <2>1 DEF finishFirst, block, finishResumed
  <2>3. v \in Revisions
    BY <1>3, <2>1, JobTyped DEF finishFirst, block, finishResumed, First, Deciding, Claimed
  <2> QED
    BY <2>2, <2>3, MayFinishIsOpen, OpenRunMoves
<1>4. CASE beginResume(h)
  <2>1. PICK v : v = job[h].revision
    OBVIOUS
  <2>2. runs[v].state = "paused" /\ \E r : runs' = [runs EXCEPT ![v] = r]
    BY <1>4, <2>1 DEF beginResume, mayResume
  <2>3. v \in Revisions
    BY <1>4, <2>1, JobTyped DEF beginResume, Deciding, Claimed
  <2>4. ~closed(v)
    <3>1. home[h] \in Processes
      BY WorkflowAssumption
    <3> QED
      BY <2>2, <3>1 DEF closed, visible
  <2> QED
    BY <2>2, <2>3, <2>4, OpenRunMoves
<1> QED
  BY <1>2, <1>3, <1>4

\* The steps that change a record change one that is not yet closed.
LEMMA JournalStepsClose ==
  ASSUME ApprovalInv, NEW h \in Handlers, create(h) \/ write(h) \/ createNext(h) \/ consume(h)
  PROVE  Closing
<1>1. UNCHANGED runs /\ UNCHANGED claims
  BY DEF create, write, createNext, consume
<1> SUFFICES ClosedRecords
  BY <1>1, NoneReopened DEF Closing
<1>2. journal \in Seq(Records)
  BY DEF ApprovalInv, TypeOK
<1>3. CASE create(h) \/ createNext(h)
  <2>1. job[h].revision \in Revisions /\ journal' = withPending(job[h].revision)
    BY <1>3, JobTyped DEF create, createNext, First, Deciding, Claimed
  <2> QED
    BY <2>1, RecordAdded
<1>4. CASE write(h)
  <2>1. PICK i : i = job[h].record
    OBVIOUS
  <2>2. /\ pc[h] \in Deciding /\ pc[h] = "write"
        /\ journal' = [journal EXCEPT ![i].state = job[h].outcome, ![i].by = job[h].by]
    BY <1>4, <2>1 DEF write, Deciding
  <2>3. i \in ids /\ RecordOK(i) /\ journal[i].state = "pending"
    BY <2>1, <2>2, JobTyped DEF JobOK, decidable
  <2>4. journal[i].by = None
    BY <2>3 DEF RecordOK
  <2>5. \A j \in ids \ {i} : journal'[j] = journal[j]
    BY <1>2, <2>2, <2>3, SMT DEF ids
  <2> QED
    BY <2>3, <2>4, <2>5 DEF ClosedRecords
<1>5. CASE consume(h)
  <2>1. PICK i : i = job[h].record
    OBVIOUS
  <2>2. pc[h] = "consume" /\ journal' = [journal EXCEPT ![i].state = "consumed"]
    BY <1>5, <2>1 DEF consume
  <2>3. i \in ids /\ journal[i].state = "approved"
    BY <2>1, <2>2, JobTyped DEF JobOK, Approving, Claimed, Deciding, record
  <2>4. \A j \in ids \ {i} : journal'[j] = journal[j]
    BY <1>2, <2>2, <2>3, SMT DEF ids
  <2>5. journal[i] \in Records
    BY <1>2, <2>3, SMT DEF ids
  <2>6. journal'[i] = [journal[i] EXCEPT !.state = "consumed"]
    BY <1>2, <2>2, <2>3, SMT DEF ids
  <2>7. journal'[i].by = journal[i].by
    BY <2>5, <2>6, SMT DEF Records
  <2> QED
    BY <2>3, <2>4, <2>7 DEF ClosedRecords
<1> QED
  BY <1>3, <1>4, <1>5

\* A run that every process reports over, a decided record and a claim are for good,
\* whatever is decided, saved, abandoned or restarted afterwards.
THEOREM ClosedStaysClosedAlways == Spec => ClosedStaysClosed
<1>1. ASSUME ApprovalInv, [Next]_vars
      PROVE  [Closing]_vars
  <2>1. ASSUME NEW h \in Handlers, handle(h)
        PROVE  Closing
    <3>1. CASE reserveRun(h) \/ finishFirst(h) \/ beginResume(h) \/ block(h) \/ finishResumed(h)
      BY <1>1, <3>1, RunStepsClose
    <3>2. CASE create(h) \/ write(h) \/ createNext(h) \/ consume(h)
      BY <1>1, <3>2, JournalStepsClose
    <3>3. CASE execute(h) \/ review(h) \/ confirm(h) \/ claim(h) \/ resume(h)
      <4>1. UNCHANGED runs /\ UNCHANGED journal /\ claims \subseteq claims'
        BY <3>3 DEF execute, review, confirm, claim, resume, store
      <4> QED
        BY <4>1, NoneReopened DEF Closing
    <3> QED
      BY <2>1, <3>1, <3>2, <3>3 DEF handle
  <2>2. ASSUME NEW h \in Handlers, fail(h) \/ refuse(h)
        PROVE  Closing
    <3>1. UNCHANGED runs /\ UNCHANGED journal /\ UNCHANGED claims
      BY <2>2 DEF fail, refuse, throw
    <3> QED
      BY <3>1, NoneReopened DEF Closing
  <2>3. ASSUME (\E p \in Processes : crash(p)) \/ update
        PROVE  Closing
    <3>1. UNCHANGED runs /\ UNCHANGED journal /\ UNCHANGED claims
      BY <2>3 DEF crash, update
    <3> QED
      BY <3>1, NoneReopened DEF Closing
  <2> QED
    BY <1>1, <2>1, <2>2, <2>3 DEF Next
<1>2. Spec => [][Closing]_vars
  BY <1>1, ApprovalInvariant, PTL DEF Spec
<1>3. [Closing]_vars <=>
        [/\ \A v \in saved : closed(v) => runs'[v] = runs[v]
         /\ \A i \in ids : journal[i].state \in {"rejected", "expired", "consumed"}
                            => journal'[i] = journal[i]
         /\ \A i \in ids : journal[i].by # None => journal'[i].by = journal[i].by
         /\ claims \subseteq claims']_vars
  BY DEF Closing, ClosedRuns, ClosedRecords
<1> QED
  BY <1>2, <1>3, PTL DEF ClosedStaysClosed
=============================================================================
