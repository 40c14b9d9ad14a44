# Flightdeck in TLA+

TLA+ models of the parts of Flightdeck whose correctness depends on the order
in which things happen: who may reuse a generated artifact, how several
processes share files, how a workflow runs, pauses and resumes across reviewers
and restarts, how much model work a server admits, when a query on sensitive
data is allowed, how the host passes a request on, and how generated files
reach the disk. TLC checks each model on small instances, and TLAPS proves their
safety properties for all values of the constants. Paths are relative to the repository root; `PROJECT.json` writes
them with a leading `src/`.

## 1. The system

Flightdeck turns a description of an application into a checked, signed and
registered sub-app. Its core is a set of TypeScript packages, plus a Fastify
server that exposes them. Nearly all durable state is JSON in files that
several processes share; there is no database.

| Component | State it keeps | Operations | What is hard | What makes it correct |
|---|---|---|---|---|
| Registry ledger (`packages/registry/src/ledger.ts`, `states.ts`, `history.ts`, `entry.ts`, `actor.ts`) | lifecycle of content-addressed revisions, signatures, enablement rows for the Function (`*`) and for projects, an append-only history | propose, approve, reject, register, retire, enable/disable for the Function and for a project, reuseDecision | long command sequences; one command changes several things | one registered revision; a reuse rests on an independent signature over that content and on human consent; ended is ended; the history tells the ledger |
| File store (`packages/store/src/atomic-file.ts`) | a JSON file, its lock file, temporary files | withFileLock, updateFile, atomicWriteFile | processes that race, die with the lock, or overstay it | no half-written file, no lost update, a dead writer does not block the store |
| Ledger file (`packages/registry/src/file-ledger.ts`) | the ledger in one file | updateLedger | inherits both rows above | as above |
| Workflow approvals (`server/workflow-approval.ts`, `-store.ts`, `server/workflow-workspace.ts`) | approval records, lock directories, permanent claims | POST runs, POST decisions | two files, four writes in a fixed order, several servers, restarts in between | nothing behind a gate runs without an independent approval, and never twice |
| Workflow workspace store (`packages/studio-drafts/server/workflow-workspace-store.ts`) | drafts and runs, tagged with the epoch of the executing process | reserveRun, beginResume, finishRun, update | compare-and-set against what was reviewed, process restarts | one open run per draft; a closed run stays closed |
| Workflow engine (`packages/studio-drafts/packages/workflow/engine.ts`, `graph.ts`, `checkpoint.ts`) | position in the graph, values, trace, the pauses that may be resumed, a checkpoint | run, resume, checkpoint, restore | gates that can be avoided, resumes that overlap, checkpoints changed on disk | no output without every gate approved by somebody else; no adapter called twice |
| Offline snapshot (`server/workflow-backup.ts`) | an archive of the two stores | create, restore | what it demands must be reachable | a directory that is quiet can be archived |
| Request admission (`server/request-admission.ts`) | three counters, permits, pending work, waiting closers | acquire, track, release, stop, close | aborts, deadlines, work that outlives its route, shutdown in every order | exact counters, bounded work, a truthful drain, no lost room |
| Grant approvals (`packages/approvals/src`) | ceiling row, project row, approvals in files, an identity directory | effectiveGrant, storeMoved, assertUsable; put and revoke rows and approvals | reads across awaits against concurrent revocation | a decision that is given held as a whole at one instant, and expires soon |
| Codegen apply (`packages/codegen/src/apply.ts`) | a target tree, staged files, an intent journal | preflight, stage, commit, rollback, read-back | a crash or an error between any two renames, edits by hand | the report tells the truth; a rerun needs no force; nobody's file is overwritten without it |
| Ship (`packages/conformance/src/ship.ts`) | a target directory and backups | ship, rollback | partial failure | either everything is in place or nothing is |
| Host authority (`packages/host-bridge/authority.ts`, `transport.ts`, `draft-store.ts`) | single-use handles bound to a host session and a policy | preflight, issue, consume, check, confirm, finish, close | three awaited reads in every check | a check that passes saw its whole authority at one instant; a handle serves once |
| Anthropic session setup (`server/anthropic-session-setup.ts`) | a credential and its epoch | configure, clear, call, close | a late answer of an older epoch | no call outlives its credential |
| Resource store (`packages/resources/store.ts`, `registry.ts`) | revision files, a head pointer, a lock | propose, revise, activate, get | overlapping calls, a crash between the revision file and the head | the revisions are a history that only grows |
| Pseudonym vault (`packages/pseudonym/src/vault.ts`) | value-to-tag tables | intern, resolve, seal | capacity, sealing | one tag per value |
| Model router (`server/deterministic-model-router.ts`) | none | select | rounding and ties | the cheapest admissible model |
| Authoring harness, sub-app workspace store, browser state, spec and emitters, designer | see `PROJECT.json` | | | |

How they interact. The ledger is a pure value; `file-ledger.ts` applies one
ledger command inside one `updateFile`, so the file store gives it its
atomicity. `packages/approvals/src/file-store.ts` keeps grants the same way.
The two workflow routes write two stores, the workspace file and the approval
journal, each under a `mkdir` lock which nobody ever takes over, and relate
them only by the order of their writes. Every route that may call a model or
an adapter first acquires a permit of the request admission, hands its signal
to the adapters, tracks what they start, and releases the permit in its
`finally`. The offline snapshot reads both workflow stores when the server is
down and checks that they agree. The routes run the workflow engine between
their writes; the engine's checkpoint is what a paused run keeps in the
workspace file. The host reaches the Studio's draft service only through the
host authority.

## 2. Modules

| Module | Models | Proofs |
|---|---|---|
| `ReuseCatalogue` | the abstract promise of the registry | |
| `RegistryLedger` | the ledger, one action per command; refines `ReuseCatalogue` | `RegistryLedgerProofs` |
| `FileStore` | `withFileLock`, `updateFile`, `atomicWriteFile`, one action per file-system call | `DiskProofs` |
| `WorkflowApproval` | the two POST routes over both workflow stores, several servers, deaths and failures | `WorkflowApprovalProofs` |
| `WorkflowEngine` | one graph and its runner, with resumes, checkpoints and restores | `WorkflowEngineProofs` |
| `RequestAdmission` | permits, tracked work, shutdown | `RequestAdmissionProofs` |
| `GrantDecision` | `effectiveGrant` against operators who write between its reads | `GrantDecisionProofs` |
| `HostBridge` | browser request, host, Studio and draft store, over one handle registry | `HostBridgeProofs` |
| `CodegenApply` | `applyWrites` as a whole, again and again on one tree | `DiskProofs` |
| `ResourceHistory` | the abstract promise of the resource store | |
| `ResourceStore` | one resource on disk, one action per file-system call; refines `ResourceHistory` | `ResourceStoreProofs` |
| `MC...` | the instances for TLC | |

`PROJECT.json` maps every definition to the lines it stands for.

### RegistryLedger

The ledger of the code is an immutable value: a command returns a new one, or
refuses and returns its argument. A refusal is no step here; all guards of a
command are the conjuncts of its action, in the order the code tests them.

| TLA+ | Code |
|---|---|
| `state`, `proposedBy`, `approval`, `supersededBy` | the fields of a `RegistryEntry`; `"absent"` is an entry that is not there |
| `rows[a][p]` | the enablement row of artifact `a` for project `p` or for `*` |
| `history` | the audit log; an event keeps its name, revision and project |
| a revision (a record) | an artifact's content: the code's hash covers exactly id, kind, version, capabilities and files (path and text), so the record is its own hash. `files` is one opaque value, and two revisions may differ in it alone |
| `reuseDecision(a, p, presented)` | the question with the bytes or the hash on hand, or without either (`None`), which skips the comparison and is answered as unverified; `p` may be `*`, which needs no project row |
| an actor's `key`, `named` | the id trimmed and lower-cased; the verdict of guardrails' `isNamedHuman`, an external package |

Three details that the properties rest on are easily lost. `register`
supersedes the incumbent in the same call, logging two events. It also rewrites
the version and scopes of an existing ceiling row without opening it. `retire`
of the registered revision closes the ceiling, in the same call and with its
own event, and leaves the project rows alone.

`ReuseCatalogue` is what a reusing project may rely on. The refinement mapping
reads `signed`, `ended`, `offered`, `open` and `consented` off the ledger;
`register` over an incumbent is one `Offer`, `retire` of the registered
revision one `Withdraw`, and propose a stutter.

### FileStore

`pc[w]` is the next file-system call of writer `w`:
`open` (creation with `wx`), `stat`, `unlink` (the stale lock), `read`,
`compare` (the second read), `stage`, `rename`, `release` (the `finally`).
The content of the file is the set of the marks that the writes left, so that a
lost update is a mark that is gone. The lock carries its owner, at which only
`age` and the properties look: the code removes it by name, and so does `removeLock`.
`age` is the passing of `STALE_LOCK_MS`: always possible over a dead owner's
lock, over a live one's only when `MayOverstay` (a process that is suspended, or a
change function that takes long). The 10 ms spin between two attempts is not
modelled: an attempt takes any time.

### WorkflowApproval

One draft, its runs (at most one per revision), and the records of the approval
journal. A mutation of the workspace file is one step, since it runs under that
file's lock and is published by one rename; everything else is one step per
`await` that others can observe. The lock of a record is a variable of its own
(`locked`), because a request holds it across many steps.

| TLA+ | Code |
|---|---|
| `reserveRun`, `execute`, `finishFirst`, `create` | POST runs |
| `review`, `confirm`, `write`, `claim`, `beginResume`, `block` or `resume`, `finishResumed`, `createNext`, `consume` | POST decisions |
| `life[p]` | `executionEpoch`, drawn once per process |
| `stale` | what was left behind: a shared lock directory (workspace file, integrity key) by a process that died, or the temporary of a journal write that ended half-way (one of the workspace file lies beside its lock, and is not told apart from it) |
| `visible`, `closed` | a run as one process reports it (a running run that is not its own is interrupted, whoever runs it); a run that every process reports as over |
| `nothingLeft`, `validateEntries` | no name in the directory is a lock's or a temporary's; this and the demands on journal, claims and runs |
| `fail`, `refuse` | an exception in the middle of a request; a 409 of a store |
| `crash` | the process dies in any step of any of its requests and comes back |
| `executed`, `lost` | history variables of the properties |

The engine appears as a run's sequence of gates: `WorkflowEngine` shows that no
output is reached around a gate, and that a restored run goes on from where it
paused, which is what this module takes from it. `validateEntries` is the
condition the offline snapshot puts on the two stores, for a directory that has
been initialised (integrity key, workspace and grants files, both directories)
and in which the grants and resources of other components are in order.
`SnapshotWhenQuiet` says when it holds: nobody at work, no request abandoned,
nothing left behind. A death can break it for good while idle, since the
snapshot refuses any lock and any temporary.

### RequestAdmission

Each synchronous stretch of the code is one step; promise callbacks come in any
order. `pending` and `operation` differ on purpose: `pending` is what the code
waits for, `operation` what is really going on, and `WorkIsBounded` is about the
second. `abort` stands for the deadline, the request's `aborted` event and a
closed socket; the second branch of `start` also covers a caller's own signal.

### WorkflowEngine

A node is its place in the order in which the runner visits the graph, so that
every edge leads upwards; the module says nothing of which topological order
the code finds. The three node types that leave the process (`http`,
`resource`, `llm`) are one, `adapter`. A value is known as far as a condition
tells it apart.

| TLA+ | Code |
|---|---|
| `start`, `skip`, `refuse`, `compute`, `call`, `answer`, `fail`, `pause`, `complete` | `advance`, one node at a time; other runs move only where it awaits |
| `ask`, `authorized`, `notAuthorized` | `resume` before and after it awaits the adapter's `authorize` |
| `pauses` | the results that `resume` and `checkpoint` still know |
| `checkpoint`, `restore`, `accepted`, `validNode` | the file and `validateCheckpointState` |
| `damaged` | a checkpoint with one entry changed behind the program's back |
| `admissible`, `avoids` | the check that no output can be reached without a gate |

A resume that is refused at once changes nothing and is no step. An adapter
whose result leads to no output may run without an approval: the code asks it
of outputs only, and so does `OutputIsApproved`.

### GrantDecision

One tool, project and data source. `call` is the query in progress, then its
decision; each of `resolve`, `readCeiling`, `readProject`, `readApprovals`,
`admitNext` (one record, with its look into the directory), `confirmCeiling`,
`confirmProject` and `confirmApprovals` is one awaited read, between which
operators act: `putGrantRow`, `revokeGrantRow`, `putApproval`,
`revokeApproval`, `changeDirectory`. A payload is its data tier, an approval
whether it fits the payload. `lastHeld` and `restored` are history variables:
the last instant at which every layer held, and whether a row was put back,
during the call, to what the call had read. The second is an exception to the
property: a comparison of values cannot see such a change (nobody's
revocation is lost by it, since the row is in force again).

### HostBridge

A request of the host runs `preflight`, `issue`, `call`, `answer`, `confirm`;
an invocation of the Studio `consume`, `check`, `access`, `check` again. The
digit of a step tells the read it comes to: session, policy, session. The
registry's entry is `open`, `consumed` or `finished`; every entry point prunes
the lapsed ones first, which is part of its action. `duplicate` presents a
handle a second time. `sessionChanges`, `policyChanges`, `lapse` and `close`
happen at any time. That the host moves its version with every change of the
session is an assumption on a program outside this repository. What a checked
invocation writes may land although the host gives up afterwards.

### CodegenApply

The files of one sub-app, numbered in the order of their commit, and hashes of
contents. `disk` is the tree and `journal` the intent record; `slot` holds what
`applyWrites` keeps of each file in memory (its status, what preflight saw, the
backup); `run` is the phase and, afterwards, the report.

| TLA+ | Code |
|---|---|
| `begin`, `disposition`, `preflightFails` | preflight, with the six dispositions; refusal, nothing to do, dry run |
| `stage`, `stageFails`, `stageAborted`, `writeIntent`, `intentFails` | staging and the intent record |
| `setAside`, `moveIn`, `commitFails`, `commitAborted` | the two renames per file |
| `undo`, `undoFails`, `finishUndo` | `rollback`, from the last file to the first |
| `verify` | read-back, removal of the backups, the completed journal |
| `crash`, `edit`, `loseJournal` | the process dies; a person changes a file or deletes the journal |

### ResourceStore

One resource: a file per revision, a head, and a lock directory around a change.
`call[c]` says which file operation a client is at (`step`) and what it reads
for (`after`): a `get` on its own, the registry's read before an activation,
the read under the lock, or the read-back. `ResourceHistory` promises a
sequence of revisions to which a change adds one; the mapping takes the files up
to the head, so that a proposal, a revision or an activation is the move of
the head and everything before it stutters. Any operation of a call may fail. An error promises nothing: the
read-back of `propose` and `change` can answer 503 although the change landed.

## 3. What the runs check

| Run | States | Checks |
|---|---|---|
| `registry_ledger` | 174 thousand | type, five invariants, `SignatureIsFinal`, and the refinement `CataloguePromise` |
| `registry_rows` | counterexample | `ProjectRowWithinCeiling`, see section 6 |
| `file_store` | 644 thousand | type, exclusion and loss, `StoreRecovers` under fairness |
| `file_store_takeover` | counterexample | `MissedLockIsLoud`, see section 6 |
| `workflow_approval` | 843 thousand | type, five invariants, `ClosedStaysClosed` |
| `request_admission` | 240 thousand | type, three invariants, `NoWorkAfterStop`, `RoomComesBack` under fairness |
| `codegen_apply` | 394 thousand | `FailureRestores`, `StatusTellsDisk`, `RerunNeedsNoForce`, `OnlyForceOverwrites` |
| `grant_decision` | 2.2 million | type, `AllowedHeldAtOnce`, `StaleAtMostTTL` |
| `grant_directory` | counterexample | `DepartureIsSeen`, see section 6 |
| `host_bridge` | 821 thousand | type, `FreshAuthority`, `UsedOnce` |
| `workflow_engine` | 84 thousand | type, `OutputIsApproved`, `EffectsOnce`, `PausesRestore` |
| `resource_store` | 985 thousand | the refinement `HistoryPromise` |

Deadlock is checked in `codegen_apply`, whose only end is the bound on applies
(the step `halted`), in the two grant runs and in `resource_store`. The others
may really stop: every revision ended, every writer done, every permit released
after the shutdown, a workflow whose locks are stranded, every request and
invocation answered, every run over.

**Registry** (`MCRegistryLedger`). One artifact, one project and four revisions
under one id: as an app two that differ in nothing but their files, as a script a
revision and a narrower successor. The kind is fixed by what is proposed first,
which exercises the one-kind rule. The first two files are interchangeable, hence
the symmetry. The actors are a person who may sign what others propose, an agent,
and a person whose account differs from the artifact's id only in case.
`MaxHistory` is 9 (10 in `registry_rows`), which is enough for a register over an incumbent under an
open ceiling and a switch after it, and for a successor that is registered after
the retirement of the first closed the ceiling. Two artifacts never share a row or an entry; the proofs cover any numbers.

**File store**. Three writers are needed: one that dies with the lock, and two
that both found its lock stale. One call each suffices to lose an update;
`LOCK_ATTEMPTS` is 2 (50 in the code), the smallest number with which a writer
that removed a stale lock can still take it. One death and one failed write
occur at any step. `file_store_takeover` disallows overstaying, to show that
the takeover alone suffices.

**Workflow** (`MCWorkflowApproval`). A server with two concurrent requests and
one with one, the smallest setting with a race inside a process, a race between
processes, and a restart that hits an innocent request. Two gates make a
resumed run pause again; two revisions let a draft be saved while its run
waits. One death or one exception occurs anywhere (`MaxMishaps`); a death leaves any
of the two shared locks, and either leaves the temporary of a journal write. An
abandoned run blocks its draft for good, so that a second mishap would find
little left to disturb; the theorems cover any number. The two handlers of the first
server are interchangeable, hence the symmetry.

**Admission** (`MCRequestAdmission`). The global limit is 2, the others are 1,
and of the four requests two share an actor, two a project, and the rest only
the server, so that each limit is the one that refuses in some state. One
request tracks two operations. Both close hooks of the server may run.

**Codegen apply** (`MCCodegenApply`). Two files, so that a commit can fail
between them; two generated contents and one foreign one; three applies, the
fewest in which a plan changes and changes back; two mishaps, because what is
hard is a failure, a crash or an edit in the aftermath of another. The two
generated contents are interchangeable.

**Grants** (`MCGrantDecision.cfg`, `MCGrantDirectory.cfg`). A tier below the
named ones and a named one, the requester and an approver, two approvals, three
writes of operators in one call (enough to spoil two layers and mend one), two
ticks against a window of one.

**Host bridge** (`MCHostBridge`). Two requests and two invocations, interchangeable
among themselves, in a registry with one place. The session changes once, since
a check compares versions for equality only; the policy denies and permits
again as often as it likes.

**Workflow engine** (`MCWorkflowEngine`). Every wiring of a trigger, a condition,
a gate, an adapter and an output, admissible or not, and six larger graphs with
two gates, a fork, mapped inputs, an unconfigured node, and more nodes than
`maxSteps` allows. Two resumes overlap, one run is started, one is restored,
and the process restarts once.

**Resource store** (`MCResourceStore`). Two clients, two persons, three
revisions (a draft, an active one, a draft again), one failed operation and one
crash. One definition: with two, the run takes longer than a check should, and
the theorem covers any number. Its `TypeOK` and that of `CodegenApply` are in no run, since they are proved.

The properties, and the hazards that each is for, are in `PROJECT.json`; every
property also has a mutant there, a plausible bug of the code that breaks it.

### Fairness

* `FileStore!FairSpec`: weak fairness of each live writer's next call, and of
  `age`. The code runs synchronously inside a call and retries in a bounded
  loop, and the clock advances. A refused caller calls again, which is the
  policy of the callers and not of the module. Crashes and failures are never
  forced.
* `RequestAdmission!FairSpec`: weak fairness of `finishRelease` and
  `drainTimeout` only: promise callbacks and timers run. No work has to end, no
  route has to release, nobody has to abort.
* The other modules claim no liveness, and the code promises none. A crashed
  workflow request leaves its run for a person to look at, and its locks for a
  person to remove. The host bridge waits for its adapter without a timeout.
  A resource whose revision file was written while its head was not cannot be
  changed any more (section 6).

## 4. What is proved

TLAPS checks the following for any values of the constants that satisfy the
modules' assumptions.

**RegistryLedger** (`LedgerAssumption`: shapes of the constants, `*` is no
project). The inductive invariant `LedgerInv` adds to the checked invariants
what they need from the past. `SignatureInv`: a signature covers its own content
and comes from somebody who may sign it, an approved or registered revision has
one, and a revision that is not approved yet has none. `OpenedByHuman`: an open
row was last written by a named human. From it follow `LedgerTypeOK`,
`OneRegistered`, `OpenCeiling`, `CeilingBeforeProject`,
`ReuseNeedsConsent` and `SignaturesAreFinal`. `ReuseNeedsConsent` is about the
registered revision; of the bytes about to run it speaks only if they, or their
hash, were presented. `ImplementsCatalogue` shows that
each command is a step of `ReuseCatalogue` or stutters. The delicate point is
that the offered revision is a `CHOOSE` over the registered ones, so that
`OneRegistered` is needed to say what a command does to it. `LogTellsLedger`
is proved over logs as values: an entry more explains the one revision or row
it is about and leaves the last entries of the others what they were
(`LifecycleLogged`, `SwitchLogged`); commands with two entries use it twice.

**FileStore** (`StoreAssumption`). `StoreInv` conjoins: while no live lock was
stolen, a writer that is inside owns the lock (`OwnsLock`, from which exclusion
follows), what it read is what is there (`ReadIsCurrent`), and the file is what
landed; and at all times a staged file about to be renamed is whole
(`StagedIsWhole`). It yields `StoreTypes`, `Exclusive` and
`NoLossWithoutTheft`, for any number of writers, calls, crashes and failures.
`UpdatesAreWhole` is what the models of the ledger and of the grants rely on when
they take a command for one action: until a theft, a step either leaves the file
alone or is one whole update of what the file holds at that moment.

**CodegenApply** (`SizeAssumption`, `HashAssumption`: what people write and what the
tool writes are different bytes; `BoundsAssumption`). None of its properties is
inductive. `ApplyInv` says where each file is while the commit loop and the
rollback move it. A file nobody else touched is at its destination as preflight
found it, set aside, or replaced, as its slot says (`DiskTracked`), in the order of
the two loops (`CommitOrder`, `UndoOrder`); so the report of any ending is true
(`ReportsAreTrue`), what a rename removes is never a person's (`PeopleKeepTheirFiles`),
and an apply that gives up before the read-back restores every file or warns of it
(`GivingUpRestores`; `StatusTellsDisk` alone would let a file keep its new bytes after
a failure, as long as its status said so). A file a person
did touch can hold generated bytes only as preflight saw them or as the plan wants
them (`OldBytes`); the intent record names both (`RecordCovers`), and a completed
record needs only the second, since every file is then in place
(`CompletedCovers`). So the journal knows all generated bytes in the tree in every
state, also when the process dies there, and `RepairNeedsNoForce` follows.
TLC checked `ApplyInv` on the instance of `codegen_apply` before it was proved.

**RequestAdmission** (`AdmissionAssumption`: finitely many requests, positive
limits). `AdmissionInv` relates the code's bookkeeping to the truth: work that
is queued or running is pending, what is pending keeps its permit counted, a
stop aborted every permit that is counted, a closer that has begun has stopped
the admission, and one that drained found no permit. With the exact counters as
cardinalities it yields `AdmissionTypeOK`, `ExactCounters`, `BoundedWork`, `QuietDrain` and
`NothingStartsAfterStop`.

**WorkflowApproval** (`WorkflowAssumption`; `None` is no run and no person).
A request holds the lock of its record from the review to its end, so each
record has one handler (`LockedOnce`), and the handler's step tells the
record's state (`JobOK`). A run is in the hands of at most one request
(`OwnedOnce`, `OwnOK`): the first one before any record exists, later the one
whose record repeats the run. Two records of a run are of different gates
(`OneRecordPerGate`), and a run's gate never falls, so that a part that has
started is behind the run for good (`StartedOK`): it cannot start twice. Who
is at work on an open run is in `AttendedOK`. `ApprovalInv` is the conjunction
of these; it is inductive, and beside it `LeftBehind`: a shared lock or a temporary
is left only by a death or a failed write, and a record's lock without a holder
only by a death. Every checked property of the module follows, for any servers, handlers, reviewers, gates,
revisions, deaths and failures.

**WorkflowEngine** (`WorkflowAssumption`, `GraphAssumption`: what the schema lets
through). A completed node is the root or has a completed source (`Behind`).
Were an output completed and a gate not, the completed nodes would lie in the
set that a walk from the root reaches without the gate (`CompletedAvoid`, by
the least node outside it), where admission found no output. A restored run
gets the same from the validator's recomputation (`AcceptedBehind`), whatever
was done to the file. This yields `OutputPassesGates`, `AdaptersCalledOnce`
and `EngineTypes`, for graphs of any size. A second invariant, `ReplayInv`, says
that a run can be recomputed from its state: what the validator asks of a node
depends on the nodes before it only (`BeforeDecides`), so a node that was passed
stays valid, the steps are the nodes entered, a resume still holds the data its
gate was given (`Waits`), and an accepted checkpoint, damaged or not, is again
such a state (`AcceptedReplays`). With it `CheckpointsRestore`: the validator
takes back whatever the engine writes out.

**GrantDecision** and **HostBridge** say that several awaited reads agree with
*one* instant. In
`GrantDecision` it is the look into the directory that admitted a signature
(or, below the named tiers, the read of the project row): the invariant says, at
each stage of the confirmation, that if what is still to be confirmed equals
what was read, every layer has held at once since the call began. Rows can
only become equal again by being put back, and approvals only grow. In
`HostBridge` it is the read of the policy between the two reads of the
session: versions only grow, and what is gone (connection, time, handle,
registry) stays gone. `UsedOnce` rests on one serving invocation per claimed
entry. They yield `AllowanceHeldAtOnce`, `UsableIsRecent`, `ChecksSawAuthority`
and `HandleServesOnce`.

**ResourceStore** (`ResourceAssumption`). `StoreInv`: at most one call is between
opening a revision file and moving the head, because it holds the lock or is
the resource's only proposal; the head is still where that call read it; and
the file beside the head holds what it wrote. So the move of the head is the
history's `Land`, and `StoreKeepsPromise` shows the refinement.

Only model-checked: the liveness properties `StoreRecovers` and `RoomComesBack`,
since liveness under fairness is out of the prover's reach. Every invariant and
every action property of a run is proved.

## 5. Not modelled

* Data that no property tells apart: hashes, timestamps, notes, reasons,
  wording, schemas beyond their shapes, MACs of the approval records.
* In `FileStore`: the reading of a malformed file, directory fsync, permissions,
  and a `writeSync` that writes less than it was given: its result is ignored
  (`atomic-file.ts:82`), and the short file would be renamed into place.
* In `WorkflowApproval`: creation of further drafts, the read-only routes, the
  expiry time itself (expiry is a choice at each decision), and the durability
  barriers against power loss; a lock or a temporary whose removal fails although the
  process lives on. The host's policy is a choice at each of its two
  calls. The engine's graph is a sequence of gates.
* In `WorkflowEngine`: literal mappings, size limits on data, the captured
  diagnostics of a run. `EffectsOnce` counts along one lineage: a run and a restored
  copy of it could each call an adapter, and only the approval journal's claim
  (`PartsStartOnce`) keeps them from both going on.
* In `RequestAdmission`: `admittedModel`, one flag in front of `track`. Requests
  without a project share the project `@unscoped`, an element of `Projects` like
  any other.
* In `GrantDecision`: the classification of a payload, the seal and the audit
  body of a decision, and the stateless queries beside `effectiveGrant`. An `at`
  given by the caller (`decision.ts:350`) would shift the window of the decision;
  no caller outside the tests gives one, and `StaleAtMostTTL` is about the default,
  the clock.
* In `HostBridge`: the binding of a handle to method, path and body (a request
  is one value), HTTP framing, CSRF, the checks of the DTOs. Between a check and
  the access it guards the authority may go; the model has these behaviours, no
  property forbids them, and the code says that the two are not atomic.
* In `CodegenApply`: path confinement, the reconciliation walk (it changes
  nothing), and a second applier at the same time, against which the code takes
  no lock.
* In `ResourceStore`: `list` and `history`, which read the same files, and the
  execution of a resource over the network.
* `RegistryLedger` and `FileStore` are not composed, so that no theorem says
  what a command of the ledger means for two processes.
* Ship repeats the commit and rollback of codegen apply with backups of its own.
  It deletes the backups after a rollback, also when the rollback failed.
* Session setup compares one epoch before and after a model call and has no
  steps to interleave. Vault and model router: pure functions. Authoring harness
  and browser state: sequential loops around a model or a page. Sub-app
  workspace store: the discipline of the workflow workspace store, without runs.
* Specs, emitters, conformance checks and guardrails: stateless functions of
  large texts, out of TLC's reach. Designer: mirrored or generated user
  interface.

The last item is most of the repository: the generated designer bundles and the
emitters are about half of its implementation lines. The modules therefore
cover a small share of the lines, and of the places where state is shared across
processes, awaits or crashes the ones with the most at stake.

## 6. Where the code and its comments disagree

* `registry_rows`. `entry.ts:120-121` and `ledger.ts:647-648` say that a project
  row cannot record a wider set than the ceiling row. It can: enable a project
  under a wide revision, then register a narrower one. `reuseDecision` answers
  with the ceiling's scopes, so the recorded set is stale, not effective.
* `file_store_takeover`. `atomic-file.ts:28-29` says that the conflict check
  makes a missed lock loud. Two writers that found the same dead writer's lock
  stale can both get in (the second removes the lock that the first has just
  created), both pass the check, and the second rename drops the first update
  without an error.
* `grant_directory`. `decision.ts:81-82` says that everything the answer rests
  on is read again and compared. The identity directory is not: a signer who is
  deactivated after the look that admitted the signature is not noticed.

Found on the way, with no run of their own:

* `docs/workflow-workspace.md:49` says that records left running by an exited
  process are reported as interrupted. `visible` reports every running run but
  the process's own so, also one that another live server then completes. The same
  document advises against servers that share the file.
* A journal write that fails while it fills its temporary leaves it there
  (`workflow-approval-store.ts:138-146`; only the part from the rename on removes it), and the
  offline snapshot then refuses the directory.
* `apply.ts:51-53` says that every action carries a terminal status. After a
  commit that failed, the files behind the one that failed keep `staged`.
* `apply.ts:360-363` says that the signal is checked before the commit phase; the
  code looks at it after the last rename, and rolls back.
* An apply with force over a foreign file that dies or rolls back leaves an intent
  record without that file's old hash, so that a rerun calls it drift and asks
  for force again (`overridden` in `RerunNeedsNoForce`). What a person writes
  between preflight and commit is overwritten (`edited` in `OnlyForceOverwrites`).
* A resource whose head was not moved after its revision file was written, by a
  failed write or a crash, answers every later change with `EEXIST`; nothing in
  `resources/store.ts` recovers.

## 7. Plan

Done: every component whose order of steps matters most, with the theorems of
section 4. What would come next, in this order:

1. `LedgerFile`: `FileStore` composed with `RegistryLedger`: without theft the
   file goes through ledger states only, and each command that returned is in it.
2. `Ship` as a variant of `CodegenApply`, with the backups that a failed rollback
   leaves.
3. The pure algorithms, each against a reference definition: model router, vault
   interning.
