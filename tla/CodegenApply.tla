---------------------------- MODULE CodegenApply ----------------------------
(***************************************************************************)
(* How a generated plan reaches the disk: applyWrites of                   *)
(* packages/codegen/src/apply.ts.  One sub-app is applied again and again, *)
(* with changing plans, by a process that may be refused, aborted, fail at *)
(* any file operation or die, while a person edits the same tree.  The     *)
(* files are numbered by their commit order; a file's bytes are known by   *)
(* their hash, so equal hashes are equal contents here.                    *)
(***************************************************************************)
EXTENDS Integers, FiniteSets

CONSTANTS
  N,           \* files of the tree, numbered in commit order
  Contents,    \* hashes of what the emitters generate
  Foreign,     \* hashes of what a person writes
  Blocked,     \* the destination is a symlink or a directory; calls on it may fail or not
  Gone,        \* no file; in a plan, the file is not part of it
  MaxApplies,  \* bound: applies of a run
  MaxMishaps   \* bound: failed calls, crashes and a person's changes, together

ASSUME SizeAssumption == N \in Nat \ {0}
ASSUME BoundsAssumption == MaxApplies \in Nat /\ MaxMishaps \in Nat
ASSUME HashAssumption ==
  /\ Contents \cap Foreign = {}
  /\ Gone \notin Contents \cup Foreign /\ Blocked \notin Contents \cup Foreign
  /\ Gone # Blocked

VARIABLES
  disk,        \* what each destination holds
  journal,     \* per file: the entry of .flightdeck-codegen/<id>.json
  run,         \* the applier: its phase and options, or its last report
  slot,        \* per file: the Slot of that applier
  overridden,  \* files the last intent record took over by force
  edited,      \* files a person changed since the applier last looked
  spent        \* what is used of each bound

vars == <<disk, journal, run, slot, overridden, edited, spent>>

Files == 1 .. N
Hashes == Contents \cup Foreign
NoEntry == [sha |-> Gone, supersedes |-> Gone]
Phases == {"idle", "stage", "intent", "commit", "undo", "verify"}
Outcomes == {"none", "applied", "no-op", "refused", "failed", "aborted"}
Statuses == {"unplanned", "pending", "staged", "committed", "already-applied",
             "refused", "failed", "aborted", "rolled-back"}

planned == {f \in Files : run.plan[f] # Gone}
todo == {f \in planned : slot[f].pending}
committed == {f \in Files : slot[f].committed}
backedUp == {f \in Files : slot[f].bak # Gone}

TypeOK ==
  /\ disk \in [Files -> {Gone, Blocked} \cup Hashes]
  /\ journal \in [Files -> [sha : {Gone} \cup Contents, supersedes : {Gone} \cup Contents]]
  /\ run \in [pc : Phases, outcome : Outcomes, plan : [Files -> {Gone} \cup Contents],
              force : BOOLEAN, at : 0 .. N + 1, phase : {"none", "preflight", "stage", "journal", "commit", "verify"}]
  /\ slot \in [Files -> [status : Statuses, pending : BOOLEAN, seen : {Gone, Blocked} \cup Hashes,
                         ours : BOOLEAN, bak : {Gone, Blocked} \cup Hashes, committed : BOOLEAN, warned : BOOLEAN]]
  /\ overridden \subseteq Files /\ edited \subseteq Files
  /\ spent \in [applies : 0 .. MaxApplies, mishaps : 0 .. MaxMishaps]

blankSlot == [status |-> "unplanned", pending |-> FALSE, seen |-> Gone, ours |-> FALSE,
              bak |-> Gone, committed |-> FALSE, warned |-> FALSE]

\* A host tree before the first apply: somebody's files may be in the way.
Init ==
  /\ disk \in [Files -> {Gone} \cup Foreign]
  /\ journal = [f \in Files |-> NoEntry]
  /\ run = [pc |-> "idle", outcome |-> "none", plan |-> [f \in Files |-> Gone],
            force |-> FALSE, at |-> 0, phase |-> "none"]
  /\ slot = [f \in Files |-> blankSlot]
  /\ overridden = {} /\ edited = {}
  /\ spent = [applies |-> 0, mishaps |-> 0]

mishap == spent.mishaps < MaxMishaps /\ spent' = [spent EXCEPT !.mishaps = @ + 1]

-----------------------------------------------------------------------------
(* PREFLIGHT *)

oursIfLast(f) == journal[f] # NoEntry /\ disk[f] = journal[f].sha

\* The bytes on disk are the ones the journal last committed, or the ones
\* that commit replaced.
ours(f) == journal[f] # NoEntry /\ disk[f] \in {journal[f].sha, journal[f].supersedes}

disposition(f, c) ==
  IF disk[f] = Blocked THEN "clash"
  ELSE IF disk[f] = Gone THEN IF journal[f] = NoEntry THEN "create" ELSE "resume"
  ELSE IF disk[f] = c THEN "identical"
  ELSE IF ours(f) THEN "refresh"
  ELSE IF journal[f] = NoEntry THEN "clash" ELSE "drift"

refusedOnClash(f, c, force) == disposition(f, c) = "clash" /\ (disk[f] = Blocked \/ ~force)

\* --force unlocks clash and drift, and nothing else.
refused(f, c, force) == disposition(f, c) \in {"clash", "drift"} /\ (disk[f] = Blocked \/ ~force)

slotOf(f, c, force) ==
  IF c = Gone THEN blankSlot
  ELSE [blankSlot EXCEPT
          !.status = CASE refused(f, c, force) -> "refused"
                       [] disposition(f, c) = "identical" -> "already-applied"
                       [] OTHER -> "pending",
          !.pending = ~refused(f, c, force) /\ disposition(f, c) # "identical",
          !.seen = disk[f],
          !.ours = IF disk[f] = Gone THEN journal[f] # NoEntry ELSE ours(f)]

\* touchJournal: the intent record keeps the hash each file held, when that
\* was ours; the completed record needs it no longer.
touchJournal(completed) ==
  [f \in Files |-> IF run'.plan[f] = Gone THEN NoEntry
                   ELSE [sha |-> run'.plan[f],
                         supersedes |-> IF completed \/ ~slot'[f].ours THEN Gone ELSE slot'[f].seen]]

report(outcome, phase) == run' = [run EXCEPT !.pc = "idle", !.outcome = outcome, !.phase = phase]

\* applyWrites up to the first write: classify every destination, then refuse,
\* find nothing to do, or begin.  A dry run stops here.
begin(plan, force, dryRun) ==
  LET slots == [f \in Files |-> slotOf(f, plan[f], force)]
      refusals == {f \in Files : slots[f].status = "refused"}
      work == {f \in Files : slots[f].pending}
  IN /\ run.pc = "idle"
     /\ spent.applies < MaxApplies /\ spent' = [spent EXCEPT !.applies = @ + 1]
     /\ slot' = slots
     /\ edited' = {}
     /\ run' = [pc |-> IF refusals # {} \/ work = {} \/ dryRun THEN "idle" ELSE "stage",
                outcome |-> CASE refusals # {} -> "refused"
                              [] refusals = {} /\ work = {} -> "no-op"
                              [] refusals = {} /\ work # {} /\ dryRun -> "applied"
                              [] OTHER -> "none",
                plan |-> plan, force |-> force, at |-> 0, phase |-> "none"]
     /\ IF refusals = {} /\ work = {} /\ ~dryRun
        THEN journal' = touchJournal(TRUE) /\ overridden' = {}
        ELSE UNCHANGED <<journal, overridden>>
     /\ UNCHANGED disk

Plans == [Files -> {Gone} \cup Contents] \ {[f \in Files |-> Gone]}

apply == \E plan \in Plans :
  begin(plan, FALSE, FALSE) \/ begin(plan, TRUE, FALSE) \/ begin(plan, FALSE, TRUE)

\* Preflight cannot read a file it has to hash: that is a failure, before any write.
preflightFails ==
  /\ run.pc = "idle"
  /\ spent.applies < MaxApplies /\ spent.mishaps < MaxMishaps
  /\ spent' = [applies |-> spent.applies + 1, mishaps |-> spent.mishaps + 1]
  /\ \E plan \in Plans, force \in BOOLEAN, f \in Files :
       /\ plan[f] # Gone /\ disk[f] \in Hashes
       /\ slot' = [g \in Files |-> IF g = f THEN [blankSlot EXCEPT !.status = "failed", !.seen = disk[f]]
                                   ELSE slotOf(g, plan[g], force)]
       /\ run' = [pc |-> "idle", outcome |-> "failed", plan |-> plan, force |-> force, at |-> 0,
                  phase |-> "preflight"]
  /\ edited' = {}
  /\ UNCHANGED <<disk, journal, overridden>>

-----------------------------------------------------------------------------
(* STAGE and the intent record *)

withStatus(fs, s) == [f \in Files |-> IF f \in fs THEN [slot[f] EXCEPT !.status = s] ELSE slot[f]]

\* Every temp is written and flushed; the destinations are not touched.
stage ==
  /\ run.pc = "stage"
  /\ slot' = withStatus(todo, "staged")
  /\ run' = [run EXCEPT !.pc = "intent"]
  /\ UNCHANGED <<disk, journal, overridden, edited, spent>>

\* A full disk or a denied path at file f: nothing was touched.
stageFails ==
  /\ run.pc = "stage" /\ mishap
  /\ \E f \in todo : slot' = [g \in Files |-> CASE g = f -> [slot[g] EXCEPT !.status = "failed"]
                                                 [] g \in todo \ {f} -> [slot[g] EXCEPT !.status = "aborted"]
                                                 [] OTHER -> slot[g]]
  /\ report("failed", "stage")
  /\ UNCHANGED <<disk, journal, overridden, edited>>

\* The signal is looked at before each file is staged.
stageAborted ==
  /\ run.pc = "stage"
  /\ slot' = withStatus(todo, "aborted")
  /\ report("aborted", "none")
  /\ UNCHANGED <<disk, journal, overridden, edited, spent>>

\* The intent record precedes the first rename.
writeIntent ==
  /\ run.pc = "intent"
  /\ UNCHANGED <<disk, slot, edited, spent>>
  /\ run' = [run EXCEPT !.pc = "commit", !.at = 1]
  /\ journal' = touchJournal(FALSE)
  /\ overridden' = {f \in planned : slot[f].seen # Gone /\ ~slot[f].ours}

intentFails ==
  /\ run.pc = "intent" /\ mishap
  /\ slot' = withStatus(todo, "aborted")
  /\ report("failed", "journal")
  /\ UNCHANGED <<disk, journal, overridden, edited>>

-----------------------------------------------------------------------------
(* COMMIT, file by file *)

current == run.at
existedBefore(f) == slot[f].seen # Gone

skipFile ==
  /\ run.pc = "commit" /\ current \in Files \ todo
  /\ run' = [run EXCEPT !.at = @ + 1]
  /\ UNCHANGED <<disk, journal, slot, overridden, edited, spent>>

\* The old file is renamed to its backup.
setAside ==
  /\ run.pc = "commit" /\ current \in todo
  /\ existedBefore(current) /\ slot[current].bak = Gone
  /\ disk[current] # Gone
  /\ slot' = [slot EXCEPT ![current].bak = disk[current]]
  /\ disk' = [disk EXCEPT ![current] = Gone]
  /\ UNCHANGED <<journal, run, overridden, edited, spent>>

\* The temp is renamed into place, over whatever is there by now.
moveIn ==
  /\ run.pc = "commit" /\ current \in todo
  /\ existedBefore(current) => slot[current].bak # Gone
  /\ disk' = [disk EXCEPT ![current] = run.plan[current]]
  /\ slot' = [slot EXCEPT ![current].status = "committed", ![current].committed = TRUE]
  /\ run' = [run EXCEPT !.at = @ + 1]
  /\ UNCHANGED <<journal, overridden, edited, spent>>

\* A rename fails: a fault, or the file is gone or blocked since preflight.
commitFails ==
  /\ run.pc = "commit" /\ current \in todo
  /\ \/ mishap
     \/ /\ existedBefore(current) /\ slot[current].bak = Gone /\ disk[current] = Gone
        /\ UNCHANGED spent
     \/ /\ existedBefore(current) => slot[current].bak # Gone
        /\ disk[current] = Blocked
        /\ UNCHANGED spent
  /\ slot' = [slot EXCEPT ![current].status = "failed"]
  /\ run' = [run EXCEPT !.pc = "undo", !.at = N, !.outcome = "failed", !.phase = "commit"]
  /\ UNCHANGED <<disk, journal, overridden, edited>>

\* The signal is looked at again only after the last rename.
commitAborted ==
  /\ run.pc = "commit" /\ current = N + 1
  /\ run' = [run EXCEPT !.pc = "undo", !.at = N, !.outcome = "aborted"]
  /\ UNCHANGED <<disk, journal, slot, overridden, edited, spent>>

committedAll ==
  /\ run.pc = "commit" /\ current = N + 1
  /\ run' = [run EXCEPT !.pc = "verify"]
  /\ UNCHANGED <<disk, journal, slot, overridden, edited, spent>>

-----------------------------------------------------------------------------
(* rollback, from the last file to the first *)

undone(f) == [slot[f] EXCEPT !.bak = Gone, !.committed = FALSE,
                             !.status = IF slot[f].committed THEN "rolled-back" ELSE @]

undoCommittedOnly ==
  /\ run.pc = "undo" /\ run.at \in Files
  /\ LET f == run.at IN
       /\ f \in committed /\ slot[f].bak = Gone => disk[f] # Gone
       /\ slot' = IF f \in committed THEN [slot EXCEPT ![f] = undone(f)] ELSE slot
       /\ disk' = IF f \in committed THEN [disk EXCEPT ![f] = slot[f].bak] ELSE disk
  /\ run' = [run EXCEPT !.at = @ - 1]
  /\ UNCHANGED <<journal, overridden, edited, spent>>

\* Put the backup back, or unlink what was created.
undo ==
  /\ run.pc = "undo" /\ run.at \in Files
  /\ LET f == run.at IN
       /\ f \in committed /\ slot[f].bak = Gone => disk[f] # Gone
       /\ slot' = IF f \in committed \cup backedUp THEN [slot EXCEPT ![f] = undone(f)] ELSE slot
       /\ disk' = IF f \in committed \cup backedUp THEN [disk EXCEPT ![f] = slot[f].bak] ELSE disk
  /\ run' = [run EXCEPT !.at = @ - 1]
  /\ UNCHANGED <<journal, overridden, edited, spent>>

leftInSilence(f) == slot[f]
left(f) == [slot[f] EXCEPT !.warned = TRUE]

\* What cannot be undone is left, with a warning that names the file.
undoFails ==
  /\ run.pc = "undo" /\ run.at \in committed \cup backedUp
  /\ \/ mishap
     \/ slot[run.at].bak = Gone /\ disk[run.at] \in {Gone, Blocked} /\ UNCHANGED spent
     \/ slot[run.at].bak # Gone /\ disk[run.at] = Blocked /\ UNCHANGED spent
  /\ slot' = [slot EXCEPT ![run.at] = left(run.at)]
  /\ run' = [run EXCEPT !.at = @ - 1]
  /\ UNCHANGED <<disk, journal, overridden, edited>>

finishUndo ==
  /\ run.pc = "undo" /\ run.at = 0
  /\ slot' = IF run.outcome = "aborted" THEN withStatus(todo, "aborted") ELSE slot
  /\ run' = [run EXCEPT !.pc = "idle"]
  /\ UNCHANGED <<disk, journal, overridden, edited, spent>>

-----------------------------------------------------------------------------
(* READ-BACK and the end *)

readBack(unreadable) ==
  withStatus({f \in committed : f \in unreadable \/ disk[f] # run.plan[f]}, "failed")

\* Re-read and hash what was committed, drop the backups, complete the journal.
verify ==
  /\ run.pc = "verify"
  /\ edited' = edited \ committed
  /\ \E unreadable \in SUBSET committed, written \in BOOLEAN :
       /\ IF unreadable = {} /\ written THEN UNCHANGED spent ELSE mishap
       /\ slot' = readBack(unreadable)
       /\ LET failures == {f \in Files : slot'[f].status = "failed"} IN
            report(IF failures = {} /\ written THEN "applied" ELSE "failed",
                   IF failures # {} THEN "verify" ELSE IF written THEN "none" ELSE "journal")
       /\ IF written THEN journal' = touchJournal(TRUE) /\ overridden' = {}
                     ELSE UNCHANGED <<journal, overridden>>
  /\ UNCHANGED disk

-----------------------------------------------------------------------------
(* The surroundings *)

\* The process dies; its temps and backups carry its pid and are never read again.
crash ==
  /\ run.pc # "idle" /\ mishap
  /\ run' = [run EXCEPT !.pc = "idle", !.outcome = "none", !.at = 0, !.phase = "none"]
  /\ slot' = [f \in Files |-> blankSlot]
  /\ edited' = {}
  /\ UNCHANGED <<disk, journal, overridden>>

\* A person writes, deletes or replaces a file, whatever the applier is doing.
edit ==
  /\ mishap
  /\ \E f \in Files, h \in {Gone, Blocked} \cup Foreign :
       /\ h # disk[f]
       /\ disk' = [disk EXCEPT ![f] = h]
       /\ edited' = edited \cup {f}
  /\ UNCHANGED <<journal, run, slot, overridden>>

\* The journal is deleted or made unreadable: that counts as no journal.
loseJournal ==
  /\ run.pc = "idle" /\ mishap
  /\ journal' = [f \in Files |-> NoEntry]
  /\ overridden' = {}
  /\ UNCHANGED <<disk, run, slot, edited>>

\* The bounds are used up.
halted == run.pc = "idle" /\ spent.applies = MaxApplies /\ UNCHANGED vars

Next ==
  \/ apply \/ preflightFails \/ stage \/ stageFails \/ stageAborted \/ writeIntent \/ intentFails
  \/ skipFile \/ setAside \/ moveIn \/ commitFails \/ commitAborted \/ committedAll
  \/ undo \/ undoFails \/ finishUndo \/ verify \/ crash \/ edit \/ loseJournal \/ halted

Spec == Init /\ [][Next]_vars

-----------------------------------------------------------------------------
(* Properties *)

\* The report tells what is on disk.  A file reported as committed or already
\* applied holds the planned bytes; any other holds what preflight found, or a
\* warning names it.  Excepted are files a person changed meanwhile, and those
\* whose read-back failed.
StatusTellsDisk ==
  run.pc = "idle" /\ run.outcome # "none" =>
    \A f \in planned \ edited :
      CASE slot[f].status \in {"committed", "already-applied"} -> disk[f] = run.plan[f]
        [] slot[f].status = "failed" /\ run.phase = "verify" -> TRUE
        [] OTHER -> disk[f] = slot[f].seen \/ slot[f].warned

\* An apply that gives up before the read-back is all or nothing: every planned
\* file holds what preflight found there, or a warning names it, so that none
\* keeps its new bytes in silence.  Excepted are files a person changed meanwhile.
FailureRestores ==
  run.pc = "idle" /\ run.outcome \in {"failed", "aborted"} /\ run.phase \notin {"verify", "journal"} =>
    \A f \in planned \ edited : disk[f] = slot[f].seen \/ slot[f].warned

\* Repair needs no --force: between two applies, after any number of crashes,
\* failures and rollbacks, every file whose bytes the tool wrote is recognised
\* as its own, whatever the next plan wants there, provided the last intent
\* record covers it and did not itself take it over by force.
RerunNeedsNoForce ==
  run.pc = "idle" => \A f \in Files \ overridden, c \in Contents :
    journal[f] # NoEntry /\ disk[f] \in Contents \cup {Gone}
      => disposition(f, c) \in {"create", "resume", "identical", "refresh"}

\* What a person wrote is replaced or removed only by the person, or by an
\* apply with --force, or if it was written after preflight looked.
OnlyForceOverwrites ==
  [][\A f \in Files : disk[f] \in Foreign /\ disk'[f] # disk[f] =>
       f \in edited' \/ run.force]_vars
=============================================================================
