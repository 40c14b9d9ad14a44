--------------------------- MODULE WorkflowApproval ---------------------------
(***************************************************************************)
(* Runs of one workflow draft that stop at approval gates, and the         *)
(* decisions that resume them: POST .../runs and POST .../decisions over   *)
(* the workspace file (the runs) and the approval journal (the records,    *)
(* their lock directories and their permanent claims).                     *)
(*                                                                         *)
(* Several server processes share the files.  A handler serves one request *)
(* at a time in its process, and each action is what it does between two   *)
(* awaits that others can observe.  A mutation of the workspace file is    *)
(* one step: it runs under the lock of that file, which every writer takes *)
(* and nobody takes over, and is published by one rename.                  *)
(*                                                                         *)
(* A request that is refused before its first write leaves nothing behind  *)
(* and is not a step.  So only the requests that find their record pending *)
(* take its lock here, and the lock goes with the last step: a decided     *)
(* record is refused with or without its lock.                             *)
(*                                                                         *)
(* The engine is the sequence of a run's Gates (a graph whose gates can be *)
(* avoided is blocked before it runs): part 0 runs up to the first gate,   *)
(* part g is what gate g lets through.                                     *)
(***************************************************************************)
EXTENDS Naturals, Sequences, FiniteSets

CONSTANTS
  Processes,
  Handlers,
  home,         \* home[h]: the process of a handler
  People, Initiator,
  Gates,        \* approval gates of the graph
  MAX_RUNS,
  MaxRevision,  \* bound on the saved revisions of the draft
  MaxCrashes,   \* bound on the process deaths
  MaxMishaps,   \* bound on the deaths and the errors thrown in the middle of a request
  None

ASSUME WorkflowAssumption ==
  /\ home \in [Handlers -> Processes]
  /\ Initiator \in People
  /\ Gates \in Nat
  /\ MAX_RUNS \in Nat
  /\ MaxRevision \in Nat \ {0}
  /\ MaxCrashes \in Nat
  /\ MaxMishaps \in Nat

VARIABLES
  revision,  \* of the draft
  runs,      \* runs[v]: the run of revision v, or None
  stale,     \* what was left behind: shared lock directories, a journal temporary
  journal,   \* the approval records, in the order they were created
  locked,    \* the records whose lock directory exists
  claims,    \* the records that are claimed for ever
  life,      \* life[p]: which incarnation of process p: its executionEpoch
  pc, job,   \* the step of a handler and what its request is about
  executed,  \* history: executed[v][g]: how often part g of run v has started
  lost,      \* history: the runs whose handler died or failed half-way
  crashes, failures

store == <<revision, runs, stale, journal, locked, claims>>
control == <<pc, job>>
history == <<executed, lost>>
faults == <<life, crashes, failures>>
vars == <<store, control, history, faults>>

Revisions == 1..MaxRevision
Epochs == [process : Processes, life : 1..(MaxCrashes + 1)]
RunRecords ==
  [state : {"running", "paused", "completed", "blocked"}, gate : 0..Gates,
   resumable : BOOLEAN, epoch : Epochs]
Outcomes == {"approved", "rejected", "expired"}
RecordStates == Outcomes \cup {"pending", "consumed"}
Records ==
  [revision : Revisions, run : RunRecords, state : RecordStates, by : People \cup {None}]

Locks == {"workspace", "key"}
Debris == Locks \cup {"temporary"}
Steps ==
  {"idle", "execute", "finish", "create",
   "confirm", "write", "claim", "begin", "block", "resume", "finishResumed",
   "createNext", "consume"}

NoJob == [revision |-> 0, record |-> 0, by |-> None, outcome |-> None]
Jobs == [revision : 0..MaxRevision, record : Nat, by : People \cup {None}, outcome : Outcomes \cup {None}]

ASSUME NoneAssumption == None \notin RunRecords \cup People

goto(h, step) == pc' = [pc EXCEPT ![h] = step]
epochOf(h) == [process |-> home[h], life |-> life[home[h]]]
ids == 1..Len(journal)
free(lock) == lock \notin stale

Init ==
  /\ revision = 1
  /\ runs = [v \in Revisions |-> None]
  /\ stale = {}
  /\ journal = <<>>
  /\ locked = {}
  /\ claims = {}
  /\ life = [p \in Processes |-> 1]
  /\ pc = [h \in Handlers |-> "idle"]
  /\ job = [h \in Handlers |-> NoJob]
  /\ executed = [v \in Revisions |-> [g \in 0..Gates |-> 0]]
  /\ lost = {}
  /\ crashes = 0
  /\ failures = 0
-----------------------------------------------------------------------------
(* The operations of the workspace file.                                   *)

saved == {v \in Revisions : runs[v] # None}

blocksWhileRunning(run) == run.state = "running"

blocksDraft(run) == run.resumable \/ run.state = "running"

(* update: the graph of a draft is saved again.                            *)
update ==
  /\ free("workspace")
  /\ revision < MaxRevision
  /\ revision' = revision + 1
  /\ UNCHANGED <<runs, stale, journal, locked, claims, control, history, faults>>

(* reserveRun: one run for a revision, and none while another is open.     *)
reserveRun(h) ==
  /\ pc[h] = "idle"
  /\ free("workspace")
  /\ runs[revision] = None
  /\ \A v \in saved : ~blocksDraft(runs[v])
  /\ Cardinality(saved) < MAX_RUNS
  /\ runs' = [runs EXCEPT ![revision] =
       [state |-> "running", gate |-> 0, resumable |-> FALSE, epoch |-> epochOf(h)]]
  /\ job' = [job EXCEPT ![h] = [NoJob EXCEPT !.revision = revision]]
  /\ goto(h, "execute")
  /\ UNCHANGED <<revision, stale, journal, locked, claims, history, faults>>

(* finishRun: what becomes of the run when a part ended so.                *)
finishedResumable(run, state, gate) ==
  [run EXCEPT !.state = state, !.gate = gate, !.resumable = (state # "completed")]

finished(run, state, gate) ==
  [run EXCEPT !.state = state, !.gate = gate, !.resumable = (state = "paused")]

mayFinish(h, v) == runs[v].state = "running" /\ runs[v].epoch = epochOf(h)

(* beginResume: the run as it was reviewed is taken over by this process.  *)
resumedInOldEpoch(h, run) == [run EXCEPT !.state = "running", !.resumable = FALSE]

resumed(h, run) ==
  [run EXCEPT !.state = "running", !.resumable = FALSE, !.epoch = epochOf(h)]

mayResume(v, expected) ==
  /\ runs[v].state = "paused"
  /\ runs[v].resumable
  /\ runs[v] = expected

(* approvals.store.create: a new pending record of a paused run.           *)
withPending(v) ==
  Append(journal, [revision |-> v, run |-> runs[v], state |-> "pending",
                   by |-> None])

(* The request ends; the lock of its record, if it holds one, is removed.  *)
end(h) ==
  /\ goto(h, "idle")
  /\ job' = [job EXCEPT ![h] = NoJob]
  /\ locked' = locked \ {job[h].record}

(* How part g of a run ends: in error, at the next gate or at the output.  *)
gateAgain(g) == g
gateAfter(g) == g + 1

endings(g) ==
  {<<"blocked", g>>} \cup
  IF g < Gates THEN {<<"paused", gateAfter(g)>>} ELSE {<<"completed", g>>}

start(v, g) == executed' = [executed EXCEPT ![v][g] = @ + 1]
-----------------------------------------------------------------------------
(* POST .../runs.                                                          *)

execute(h) ==
  /\ pc[h] = "execute"
  /\ start(job[h].revision, 0)
  /\ goto(h, "finish")
  /\ UNCHANGED <<store, job, lost, faults>>

finishFirst(h) ==
  LET v == job[h].revision IN
  /\ pc[h] = "finish"
  /\ free("workspace")
  /\ mayFinish(h, v)
  /\ \E e \in endings(0) :
       /\ runs' = [runs EXCEPT ![v] = finished(@, e[1], e[2])]
       /\ IF e[1] = "paused"
          THEN goto(h, "create") /\ UNCHANGED <<job, locked>>
          ELSE end(h)
  /\ UNCHANGED <<revision, stale, journal, claims, history, faults>>

create(h) ==
  /\ pc[h] = "create"
  /\ free("key")
  /\ journal' = withPending(job[h].revision)
  /\ end(h)
  /\ UNCHANGED <<revision, runs, stale, claims, history, faults>>
-----------------------------------------------------------------------------
(* POST .../decisions: the decision write, the permanent claim, the change *)
(* of the run, the restored execution, in this order.                      *)

record(h) == journal[job[h].record]

notClaimed(i) == i \notin claims
decidable(i) == journal[i].state = "pending" /\ i \notin claims

(* authorized: never the initiator; the host's policy may refuse anybody.  *)
reviewers == People \ {Initiator}

(* The lock of the record, its state, the authority of the reviewer.       *)
review(h) ==
  /\ pc[h] = "idle"
  /\ \E i \in ids \ locked, p \in reviewers, o \in {"approved", "rejected"} :
       /\ decidable(i)
       /\ locked' = locked \cup {i}
       /\ job' = [job EXCEPT ![h] =
            [revision |-> journal[i].revision, record |-> i, by |-> p, outcome |-> o]]
  /\ goto(h, "confirm")
  /\ UNCHANGED <<revision, runs, stale, journal, claims, history, faults>>

(* The run is still the one under review, and the policy is asked again.   *)
(* By now the record may have expired, whatever the decision is.           *)
confirm(h) ==
  /\ pc[h] = "confirm"
  /\ \/ /\ runs[job[h].revision] = record(h).run
        /\ \E late \in BOOLEAN :
             job' = [job EXCEPT ![h].outcome = IF late THEN "expired" ELSE @]
        /\ goto(h, "write")
        /\ UNCHANGED locked
     \/ end(h)
  /\ UNCHANGED <<revision, runs, stale, journal, claims, history, faults>>

write(h) ==
  /\ pc[h] = "write"
  /\ journal' = [journal EXCEPT ![job[h].record].state = job[h].outcome,
                                ![job[h].record].by = job[h].by]
  /\ goto(h, "claim")
  /\ UNCHANGED <<revision, runs, stale, locked, claims, job, history, faults>>

claimSkipped(h) ==
  /\ pc[h] = "claim"
  /\ goto(h, "begin")
  /\ UNCHANGED <<store, job, history, faults>>

claim(h) ==
  /\ pc[h] = "claim"
  /\ job[h].record \notin claims
  /\ claims' = claims \cup {job[h].record}
  /\ goto(h, "begin")
  /\ UNCHANGED <<revision, runs, stale, journal, locked, job, history, faults>>

beginResume(h) ==
  LET v == job[h].revision IN
  /\ pc[h] = "begin"
  /\ free("workspace")
  /\ mayResume(v, record(h).run)
  /\ runs' = [runs EXCEPT ![v] = resumed(h, @)]
  /\ goto(h, IF job[h].outcome = "approved" THEN "resume" ELSE "block")
  /\ UNCHANGED <<revision, stale, journal, locked, claims, job, history, faults>>

(* A rejected or an expired gate blocks the run.                           *)
block(h) ==
  LET v == job[h].revision IN
  /\ pc[h] = "block"
  /\ free("workspace")
  /\ mayFinish(h, v)
  /\ runs' = [runs EXCEPT ![v] = finished(@, "blocked", @.gate)]
  /\ end(h)
  /\ UNCHANGED <<revision, stale, journal, claims, history, faults>>

resume(h) ==
  /\ pc[h] = "resume"
  /\ start(job[h].revision, record(h).run.gate)
  /\ goto(h, "finishResumed")
  /\ UNCHANGED <<store, job, lost, faults>>

finishWithoutNext(h) ==
  LET v == job[h].revision IN
  /\ pc[h] = "finishResumed"
  /\ free("workspace")
  /\ mayFinish(h, v)
  /\ \E e \in endings(record(h).run.gate) :
       runs' = [runs EXCEPT ![v] = finished(@, e[1], e[2])]
  /\ goto(h, "consume")
  /\ UNCHANGED <<revision, stale, journal, locked, claims, job, history, faults>>

finishResumed(h) ==
  LET v == job[h].revision IN
  /\ pc[h] = "finishResumed"
  /\ free("workspace")
  /\ mayFinish(h, v)
  /\ \E e \in endings(record(h).run.gate) :
       /\ runs' = [runs EXCEPT ![v] = finished(@, e[1], e[2])]
       /\ goto(h, IF e[1] = "paused" THEN "createNext" ELSE "consume")
  /\ UNCHANGED <<revision, stale, journal, locked, claims, job, history, faults>>

createNext(h) ==
  /\ pc[h] = "createNext"
  /\ free("key")
  /\ journal' = withPending(job[h].revision)
  /\ goto(h, "consume")
  /\ UNCHANGED <<revision, runs, stale, locked, claims, job, history, faults>>

consume(h) ==
  /\ pc[h] = "consume"
  /\ journal' = [journal EXCEPT ![job[h].record].state = "consumed"]
  /\ end(h)
  /\ UNCHANGED <<revision, runs, stale, claims, history, faults>>
-----------------------------------------------------------------------------
(* What goes wrong.                                                        *)

writing == Steps \ {"idle", "confirm"}

(* The run of a request that is abandoned between two writes it made or    *)
(* had to make together.                                                   *)
underway(h) ==
  IF pc[h] \in writing \ {"write", "consume"} THEN {job[h].revision} ELSE {}

throw(h) ==
  /\ pc[h] \in writing
  /\ lost' = lost \cup underway(h)
  /\ end(h)
  /\ UNCHANGED <<revision, runs, journal, claims, executed, life, crashes>>

(* The temporary of a journal write that ends half-way: its writer removes *)
(* it only once it is filled.                                              *)
unfilled(h) ==
  IF pc[h] \in {"create", "write", "createNext", "consume"} THEN {"temporary"} ELSE {}

(* A write, the engine or the restore throws: before its effect, or after  *)
(* it when the step before has been taken.                                 *)
fail(h) ==
  /\ crashes + failures < MaxMishaps
  /\ failures' = failures + 1
  /\ \E left \in SUBSET unfilled(h) : stale' = stale \cup left
  /\ throw(h)

(* What a store answers with 409: a shared lock that was left behind, a    *)
(* run that moved or that another process runs, a claim that exists.       *)
refused(h) ==
  LET v == job[h].revision IN
  CASE pc[h] = "claim" -> job[h].record \in claims
    [] pc[h] = "begin" -> ~(free("workspace") /\ mayResume(v, record(h).run))
    [] pc[h] \in {"finish", "block", "finishResumed"} ->
         ~(free("workspace") /\ mayFinish(h, v))
    [] pc[h] \in {"create", "createNext"} -> ~free("key")
    [] OTHER -> FALSE

refuse(h) ==
  /\ refused(h)
  /\ throw(h)
  /\ UNCHANGED <<stale, failures>>

(* A process dies and is started again.  The locks it held stay, shared    *)
(* ones of whatever request of it was in them too, and the temporaries of  *)
(* its journal writes.  (One of the workspace file lies beside its lock.)  *)
crash(p) ==
  LET dying == {h \in Handlers : home[h] = p} IN
  /\ crashes < MaxCrashes
  /\ crashes + failures < MaxMishaps
  /\ crashes' = crashes + 1
  /\ life' = [life EXCEPT ![p] = @ + 1]
  /\ \E left \in SUBSET (Locks \cup UNION {unfilled(h) : h \in dying}) :
       stale' = stale \cup left
  /\ lost' = lost \cup UNION {underway(h) : h \in dying}
  /\ pc' = [h \in Handlers |-> IF h \in dying THEN "idle" ELSE pc[h]]
  /\ job' = [h \in Handlers |-> IF h \in dying THEN NoJob ELSE job[h]]
  /\ UNCHANGED <<revision, runs, journal, locked, claims, executed, failures>>

handle(h) ==
  \/ reserveRun(h) \/ execute(h) \/ finishFirst(h) \/ create(h)
  \/ review(h) \/ confirm(h) \/ write(h) \/ claim(h)
  \/ beginResume(h) \/ block(h) \/ resume(h) \/ finishResumed(h)
  \/ createNext(h) \/ consume(h)

Next ==
  \/ \E h \in Handlers : handle(h) \/ fail(h) \/ refuse(h)
  \/ \E p \in Processes : crash(p)
  \/ update

Spec == Init /\ [][Next]_vars
-----------------------------------------------------------------------------
(* The shapes of the variables, with what runSchema asks of a run: only a  *)
(* paused one is resumable.                                                *)
TypeOK ==
  /\ revision \in Revisions
  /\ runs \in [Revisions -> {None} \cup RunRecords]
  /\ \A v \in saved : runs[v].resumable => runs[v].state = "paused"
  /\ stale \subseteq Debris
  /\ journal \in Seq(Records)
  /\ locked \subseteq ids
  /\ claims \subseteq ids
  /\ life \in [Processes -> 1..(MaxCrashes + 1)]
  /\ pc \in [Handlers -> Steps]
  /\ job \in [Handlers -> Jobs]
  /\ executed \in [Revisions -> [0..Gates -> Nat]]
  /\ lost \subseteq Revisions
  /\ crashes \in Nat
  /\ failures \in Nat

(* Effects are at most once: no part of a run is ever started twice,       *)
(* whatever is decided twice, fails, dies or is started again.             *)
PartsStartOnce ==
  \A v \in Revisions, g \in 0..Gates : executed[v][g] <= 1

(* What is behind a gate ran only after somebody else than the initiator   *)
(* approved it, and the approval and the permanent claim are there to tell.*)
ExecutionIsDecided ==
  \A v \in Revisions, g \in 1..Gates :
    executed[v][g] > 0 =>
      \E i \in claims :
        /\ journal[i].revision = v
        /\ journal[i].run.gate = g
        /\ journal[i].state \in {"approved", "consumed"}
        /\ journal[i].by # Initiator

(* A draft has at most one run that executes or waits for a review, also   *)
(* when it is saved again in between.                                      *)
OneOpenRun ==
  \A v, w \in saved : blocksDraft(runs[v]) /\ blocksDraft(runs[w]) => v = w

(* What the offline snapshot asks of the two files and of the names beside *)
(* them (validateEntries).  No name may be a lock's or a temporary's.      *)
nothingLeft == stale = {} /\ locked = {}

journalFollowsRuns ==
  \A i \in ids :
    /\ journal[i].run.state = "paused"
    /\ runs[journal[i].revision] # None
    /\ journal[i].state = "pending" => runs[journal[i].revision] = journal[i].run
    /\ journal[i].state = "consumed" => i \in claims

underReview(v) ==
  \E i \in ids : journal[i].revision = v /\ journal[i].state = "pending"

validateEntries ==
  /\ nothingLeft
  /\ journalFollowsRuns
  /\ claims \subseteq ids
  /\ \A v \in saved : runs[v].resumable => underReview(v)

quiet == lost = {} /\ \A h \in Handlers : pc[h] = "idle"

(* A snapshot may be taken of the state directory whenever nobody is at    *)
(* work on it, no request was abandoned half-way, and neither a lock nor a *)
(* temporary was left there; and none ever is as long as no process dies   *)
(* and no write fails.  The journal agrees with the runs at any time: what *)
(* an abandoned request breaks is only that a waiting run is under review. *)
SnapshotWhenQuiet ==
  /\ journalFollowsRuns
  /\ quiet /\ nothingLeft => validateEntries
  /\ quiet /\ crashes = 0 /\ failures = 0 => validateEntries

(* A run that is running is being worked on by a process that may finish   *)
(* it, unless its request was abandoned.                                   *)
RunningIsAttended ==
  \A v \in saved \ lost :
    runs[v].state = "running" =>
      \E h \in Handlers : job[h].revision = v /\ mayFinish(h, v)

(* A run as process p reports it: whatever it does not run itself, it      *)
(* calls interrupted, also what another process is at work on.             *)
visible(p, v) ==
  IF runs[v].state = "running" /\ runs[v].epoch # [process |-> p, life |-> life[p]]
  THEN [runs[v] EXCEPT !.state = "interrupted"]
  ELSE runs[v]

(* Over, whichever process is asked.                                       *)
closed(v) ==
  \A p \in Processes : visible(p, v).state \in {"completed", "blocked", "interrupted"}

(* What is over stays over: a run that every process reports as finished   *)
(* or interrupted and a decided record never change again, and no claim is *)
(* given back.  That one process reports it interrupted is not enough.     *)
ClosedStaysClosed ==
  [][/\ \A v \in saved : closed(v) => runs'[v] = runs[v]
     /\ \A i \in ids : journal[i].state \in {"rejected", "expired", "consumed"}
                        => journal'[i] = journal[i]
     /\ \A i \in ids : journal[i].by # None => journal'[i].by = journal[i].by
     /\ claims \subseteq claims']_vars
=============================================================================
