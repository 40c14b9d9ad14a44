------------------------------ MODULE DiskProofs -----------------------------
(***************************************************************************)
(* The two components that write files, for every size of their models:    *)
(* applyWrites of packages/codegen (CodegenApply) and the locked JSON file *)
(* of packages/store (FileStore).                                          *)
(*                                                                         *)
(* An apply.  What the report, the journal and a person's files need is    *)
(* not inductive.  It follows from where each file nobody else touched is  *)
(* while the commit loop and the rollback move it: at its destination as   *)
(* preflight found it, set aside, or replaced (DiskTracked), in the order  *)
(* of the loop (CommitOrder, UndoOrder).  A file a person did touch can    *)
(* hold generated bytes only as preflight saw them or as the plan wants    *)
(* them (OldBytes), which is why the intent record covers it.              *)
(*                                                                         *)
(* The store.  ExclusiveUntilStolen holds because a writer inside the lock *)
(* owns the lock file (OwnsLock); LossNeedsTheft because what it read is   *)
(* still the content (ReadIsCurrent) and what it staged is that content    *)
(* and its own mark (StagedIsWhole).                                       *)
(***************************************************************************)
EXTENDS CodegenApply, FileStore, TLAPS
-----------------------------------------------------------------------------
(* AN APPLY: the inductive invariant *)

\* An apply is past its preflight and has not ended.
Underway == run.pc # "idle"

\* What preflight decided of a file: a file it calls ours holds nothing a
\* person wrote, and only a file with work is ever moved.
SlotMeaning == \A f \in Files :
  /\ slot[f].ours => slot[f].seen \in {Gone} \cup Contents
  /\ slot[f].pending => run.plan[f] # Gone
  /\ slot[f].committed \/ slot[f].bak # Gone => slot[f].pending

\* Past preflight no file is refused: one without work is as planned, and one
\* that holds somebody else's bytes has work only under --force.
PreflightPassed == Underway => \A f \in Files :
  /\ run.plan[f] # Gone /\ ~slot[f].pending
       => slot[f].status = "already-applied" /\ slot[f].seen = run.plan[f]
  /\ slot[f].pending /\ ~run.force => slot[f].seen = Gone \/ slot[f].ours

\* Before the intent record nothing has been moved.
NotBegun == run.pc \in {"stage", "intent"} => \A f \in Files :
  /\ ~slot[f].committed /\ slot[f].bak = Gone
  /\ slot[f].pending => slot[f].status = IF run.pc = "stage" THEN "pending" ELSE "staged"

\* The commit loop has put in place the files before the one it is at.
CommitOrder == run.pc = "commit" => run.at # 0 /\ \A f \in todo :
  /\ slot[f].committed <=> f < run.at
  /\ slot[f].status = IF f < run.at THEN "committed" ELSE "staged"
  /\ f > run.at => slot[f].bak = Gone
  /\ f < run.at /\ slot[f].seen # Gone => slot[f].bak # Gone

\* The rollback has put back the files behind the one it is at, or warned.
UndoOrder == run.pc = "undo" =>
  /\ run.outcome \in {"failed", "aborted"}
  /\ run.at # N + 1
  /\ \A f \in todo :
       /\ slot[f].status = "committed" => slot[f].committed
       /\ slot[f].status # "already-applied"
       /\ f > run.at /\ (slot[f].committed \/ slot[f].bak # Gone) => slot[f].warned

\* Nothing is read back before every file with work is in place.
AllIn == run.pc = "verify" => \A f \in todo : slot[f].committed /\ slot[f].status = "committed"

\* Where the applier has left a file.
expected(f) == IF slot[f].committed THEN run.plan[f]
               ELSE IF slot[f].bak # Gone THEN Gone ELSE slot[f].seen

\* A file that nobody else touched is where the applier has left it.
DiskTracked == Underway => \A f \in planned \ edited :
  /\ disk[f] = expected(f)
  /\ slot[f].committed \/ slot[f].bak # Gone => slot[f].bak = slot[f].seen

\* A file that somebody touched holds generated bytes only if it still holds
\* what the applier found or put there: people write other bytes.
OldBytes == Underway => \A f \in planned :
  /\ disk[f] \in Contents => disk[f] = IF slot[f].committed THEN run.plan[f] ELSE slot[f].seen
  /\ slot[f].bak \in Contents => slot[f].bak = slot[f].seen

\* From the intent record to the end the journal is that record.
IntentRecorded == run.pc \in {"commit", "undo", "verify"} =>
  /\ journal = [f \in Files |-> IF run.plan[f] = Gone THEN NoEntry
                   ELSE [sha |-> run.plan[f],
                         supersedes |-> IF ~slot[f].ours THEN Gone ELSE slot[f].seen]]
  /\ overridden = {f \in planned : slot[f].seen # Gone /\ ~slot[f].ours}

\* The generated bytes a file holds are the ones its entry names, or the ones
\* those replaced.
JournalKnows == \A f \in Files \ overridden :
  journal[f] # NoEntry /\ disk[f] \in Contents => disk[f] \in {journal[f].sha, journal[f].supersedes}

\* The shapes of the variables, as sets.
Held == {Gone, Blocked} \cup Hashes
Entries == [sha : {Gone} \cup Contents, supersedes : {Gone} \cup Contents]
Slots == [status : Statuses, pending : BOOLEAN, seen : Held, ours : BOOLEAN,
          bak : Held, committed : BOOLEAN, warned : BOOLEAN]
Reports == [pc : Phases, outcome : Outcomes, plan : [Files -> {Gone} \cup Contents],
            force : BOOLEAN, at : 0 .. N + 1,
            phase : {"none", "preflight", "stage", "journal", "commit", "verify"}]

Bounds == [applies : 0 .. MaxApplies, mishaps : 0 .. MaxMishaps]

\* The part of the shapes the other proofs need.
Shapes ==
  /\ disk \in [Files -> Held]
  /\ journal \in [Files -> Entries]
  /\ run \in Reports
  /\ slot \in [Files -> Slots]
  /\ overridden \subseteq Files /\ edited \subseteq Files

\* TypeOK is these shapes and the bounds.
LEMMA TypesAreShapes ==
  TypeOK <=> Shapes /\ spent \in Bounds
BY DEF TypeOK, Shapes, Held, Entries, Slots, Reports, Bounds

\* A mishap is counted within its bound.
LEMMA MishapBound ==
  ASSUME spent \in Bounds, mishap PROVE spent' \in Bounds
BY BoundsAssumption DEF Bounds, mishap

\* The slot of a file outside the plan has its shape.
LEMMA BlankSlotTyped == blankSlot \in Slots
BY DEF blankSlot, Slots, Statuses, Held

\* What the classification of a file means for its slot.
LEMMA SlotOfTyped ==
  ASSUME Shapes, NEW f \in Files, NEW c \in {Gone} \cup Contents, NEW force \in BOOLEAN
  PROVE  /\ slotOf(f, c, force) \in Slots
         /\ slotOf(f, c, force).ours => slotOf(f, c, force).seen \in {Gone} \cup Contents
         /\ slotOf(f, c, force).pending => c # Gone
         /\ ~slotOf(f, c, force).committed /\ slotOf(f, c, force).bak = Gone
         /\ c # Gone => slotOf(f, c, force).seen = disk[f]
         /\ slotOf(f, c, force).status \in {"unplanned", "refused", "already-applied", "pending"}
         /\ slotOf(f, c, force).pending <=> slotOf(f, c, force).status = "pending"
         /\ c # Gone => slotOf(f, c, force).status # "unplanned"
         /\ slotOf(f, c, force).status = "already-applied" => c # Gone /\ disk[f] = c
         /\ slotOf(f, c, force).pending /\ ~force => disk[f] = Gone \/ slotOf(f, c, force).ours
<1>1. CASE c = Gone
  BY <1>1, BlankSlotTyped DEF slotOf, blankSlot
<1>2. CASE c # Gone
  <2> DEFINE st == CASE refused(f, c, force) -> "refused"
                       [] disposition(f, c) = "identical" -> "already-applied"
                       [] OTHER -> "pending"
             pe == ~refused(f, c, force) /\ disposition(f, c) # "identical"
             ou == IF disk[f] = Gone THEN journal[f] # NoEntry ELSE ours(f)
  <2>1. slotOf(f, c, force) = [status |-> st, pending |-> pe, seen |-> disk[f], ours |-> ou,
              bak |-> Gone, committed |-> FALSE, warned |-> FALSE]
    BY <1>2 DEF slotOf, blankSlot
  <2>2. st \in {"refused", "already-applied", "pending"} /\ (pe <=> st = "pending")
    OBVIOUS
  <2>3. st = "already-applied" => disk[f] = c
    BY DEF disposition, refused
  <2>4. pe /\ ~force => disk[f] = Gone \/ ou
    BY DEF disposition, refused
  <2>5. ou => disk[f] \in {Gone} \cup Contents
    BY DEF ours, Shapes, Entries
  <2>6. disk[f] \in Held /\ pe \in BOOLEAN /\ ou \in BOOLEAN
    BY DEF Shapes, ours
  <2> HIDE DEF st, pe, ou
  <2> QED
    BY <1>2, <2>1, <2>2, <2>3, <2>4, <2>5, <2>6 DEF Slots, Statuses, Held
<1> QED
  BY <1>1, <1>2

\* Only the fields that withStatus names change.
LEMMA WithStatusTyped ==
  ASSUME Shapes, NEW fs, NEW s \in Statuses
  PROVE  /\ withStatus(fs, s) \in [Files -> Slots]
         /\ \A f \in Files :
              /\ withStatus(fs, s)[f].status = IF f \in fs THEN s ELSE slot[f].status
              /\ withStatus(fs, s)[f].pending <=> slot[f].pending
              /\ withStatus(fs, s)[f].ours <=> slot[f].ours
              /\ withStatus(fs, s)[f].committed <=> slot[f].committed
              /\ withStatus(fs, s)[f].warned <=> slot[f].warned
              /\ withStatus(fs, s)[f].seen = slot[f].seen
              /\ withStatus(fs, s)[f].bak = slot[f].bak
BY DEF withStatus, Shapes, Slots

\* A step that changes nothing of a slot but its status.
OnlyStatus ==
  /\ slot' \in [Files -> Slots]
  /\ \A f \in Files :
       /\ slot'[f].pending <=> slot[f].pending
       /\ slot'[f].ours <=> slot[f].ours
       /\ slot'[f].committed <=> slot[f].committed
       /\ slot'[f].warned <=> slot[f].warned
       /\ slot'[f].seen = slot[f].seen
       /\ slot'[f].bak = slot[f].bak

\* The plan and --force are the same after the step.
SameJob == run' \in Reports /\ run'.plan = run.plan /\ (run'.force <=> run.force)

\* Every step but the look of an apply and a crash.
Continues ==
  \/ stage \/ stageFails \/ stageAborted \/ writeIntent \/ intentFails
  \/ skipFile \/ setAside \/ moveIn \/ commitFails \/ commitAborted \/ committedAll
  \/ undo \/ undoFails \/ finishUndo \/ verify \/ edit \/ loseJournal \/ halted

\* These are all.
LEMMA NextCases == Next <=> apply \/ preflightFails \/ crash \/ Continues
BY DEF Next, Continues

\* The plan and the options do not change under way.
LEMMA JobStep ==
  ASSUME Shapes, Continues
  PROVE  SameJob
<1> USE DEF Shapes, Reports, SameJob
<1>1. CASE stage \/ stageAborted \/ stageFails \/ intentFails \/ writeIntent
  <2>1. 1 \in 0 .. N + 1
    BY SizeAssumption
  <2>2. CASE stage
    BY <2>2 DEF stage, Phases
  <2>3. CASE writeIntent
    BY <2>1, <2>3 DEF writeIntent, Phases
  <2>4. CASE stageAborted
    BY <2>4 DEF stageAborted, report, Phases, Outcomes
  <2>5. CASE stageFails
    BY <2>5 DEF stageFails, report, Phases, Outcomes
  <2>6. CASE intentFails
    BY <2>6 DEF intentFails, report, Phases, Outcomes
  <2> QED
    BY <1>1, <2>2, <2>3, <2>4, <2>5, <2>6
<1>2. CASE skipFile \/ setAside \/ moveIn
  <2>1. run.at \in Files => run.at + 1 \in 0 .. N + 1
    BY SizeAssumption DEF Files
  <2>2. skipFile \/ moveIn => run.at \in Files /\ run' = [run EXCEPT !.at = @ + 1]
    BY DEF skipFile, moveIn, current, todo, planned
  <2>3. setAside => run' = run
    BY DEF setAside
  <2> QED
    BY <1>2, <2>1, <2>2, <2>3
<1>3. CASE commitFails \/ commitAborted \/ committedAll
  <2>1. N \in 0 .. N + 1
    BY SizeAssumption
  <2>2. CASE commitFails
    BY <2>1, <2>2 DEF commitFails, Phases, Outcomes
  <2>3. CASE commitAborted
    BY <2>1, <2>3 DEF commitAborted, Phases, Outcomes
  <2>4. CASE committedAll
    BY <2>4 DEF committedAll, Phases
  <2> QED
    BY <1>3, <2>2, <2>3, <2>4
<1>4. CASE undo \/ undoFails \/ finishUndo
  <2>1. run.at \in Files => run.at - 1 \in 0 .. N + 1
    BY SizeAssumption DEF Files
  <2>2. undo \/ undoFails => run.at \in Files /\ run' = [run EXCEPT !.at = @ - 1]
    BY DEF undo, undoFails, committed, backedUp
  <2>3. finishUndo => run' = [run EXCEPT !.pc = "idle"]
    BY DEF finishUndo
  <2> QED
    BY <1>4, <2>1, <2>2, <2>3 DEF Phases
<1>5. CASE verify
  <2>1. run.pc = "verify"
    BY <1>5 DEF verify
  <2>2. PICK o \in Outcomes, p \in {"verify", "none", "journal"} :
          run' = [run EXCEPT !.pc = "idle", !.outcome = o, !.phase = p]
    BY <1>5 DEF verify, report, Outcomes
  <2> QED
    BY <2>2 DEF Phases
<1>6. CASE edit \/ loseJournal \/ halted
  BY <1>6 DEF edit, loseJournal, halted, vars
<1> QED
  BY <1>1, <1>2, <1>3, <1>4, <1>5, <1>6 DEF Continues

\* The steps that stage a plan or end an apply set nothing but statuses.
LEMMA StatusStep ==
  ASSUME Shapes, stage \/ stageAborted \/ stageFails \/ intentFails \/ finishUndo \/ verify
  PROVE  OnlyStatus
<1>1. CASE stageFails
  <2> PICK f \in todo :
         slot' = [g \in Files |-> CASE g = f -> [slot[g] EXCEPT !.status = "failed"]
                                    [] g \in todo \ {f} -> [slot[g] EXCEPT !.status = "aborted"]
                                    [] OTHER -> slot[g]]
    BY <1>1 DEF stageFails
  <2> QED
    BY DEF Shapes, Slots, OnlyStatus, Statuses
<1>2. CASE \E fs, s : s \in Statuses /\ slot' = withStatus(fs, s)
  BY <1>2, WithStatusTyped DEF OnlyStatus
<1>3. CASE slot' = slot
  BY <1>3 DEF Shapes, OnlyStatus
<1>4. CASE verify
  BY <1>2, <1>4 DEF verify, readBack, Statuses
<1>5. CASE stage \/ stageAborted \/ intentFails \/ finishUndo
  BY <1>2, <1>3, <1>5 DEF stage, stageAborted, intentFails, finishUndo, Statuses
<1> QED
  BY <1>1, <1>4, <1>5

\* What an apply knows of a destination once it has looked.
Known(f) ==
  /\ slot'[f].ours => slot'[f].seen \in {Gone} \cup Contents
  /\ slot'[f].pending => run'.plan[f] # Gone /\ slot'[f].status = "pending"
  /\ ~slot'[f].committed /\ slot'[f].bak = Gone
  /\ run'.plan[f] # Gone => slot'[f].seen = disk[f]
  /\ slot'[f].status # "committed"
  /\ slot'[f].status = "already-applied" => disk[f] = run'.plan[f]
  /\ slot'[f].pending /\ ~run'.force => disk[f] = Gone \/ slot'[f].ours

Looked ==
  /\ run' \in Reports /\ slot' \in [Files -> Slots] /\ disk' = disk /\ edited' = {}
  /\ \A f \in Files : Known(f)

\* Preflight classifies every destination as it is; when all are as planned the
\* journal may be completed.
LEMMA ApplyLooks ==
  ASSUME Shapes, apply
  PROVE  /\ Looked
         /\ run.pc = "idle"
         /\ run'.pc \in {"idle", "stage"}
         /\ run'.pc = "stage" => \A f \in Files : 
              run'.plan[f] # Gone /\ ~slot'[f].pending => slot'[f].status = "already-applied"
         /\ \/ journal' = journal /\ overridden' = overridden
            \/ /\ journal' = touchJournal(TRUE) /\ overridden' = {}
               /\ \A f \in Files : run'.plan[f] # Gone => slot'[f].status = "already-applied"
<1> PICK plan \in Plans, force \in BOOLEAN, dry \in BOOLEAN : begin(plan, force, dry)
  BY DEF apply
<1> DEFINE slots == [f \in Files |-> slotOf(f, plan[f], force)]
           refusals == {f \in Files : slots[f].status = "refused"}
           work == {f \in Files : slots[f].pending}
           goesTo == IF refusals # {} \/ work = {} \/ dry THEN "idle" ELSE "stage"
           ends == CASE refusals # {} -> "refused"
                   [] refusals = {} /\ work = {} -> "no-op"
                   [] refusals = {} /\ work # {} /\ dry -> "applied"
                   [] OTHER -> "none"
<1>1. \A f \in Files : plan[f] \in {Gone} \cup Contents
  BY DEF Plans
<1>2. run' = [pc |-> goesTo, outcome |-> ends, plan |-> plan, force |-> force, at |-> 0, phase |-> "none"]
      /\ slot' = slots /\ disk' = disk /\ edited' = {} /\ run.pc = "idle"
  BY DEF begin
<1>3. IF refusals = {} /\ work = {} /\ ~dry
      THEN journal' = touchJournal(TRUE) /\ overridden' = {}
      ELSE UNCHANGED <<journal, overridden>>
  BY DEF begin
<1>4. ends \in Outcomes /\ goesTo \in Phases
  BY DEF Outcomes, Phases
<1>5. goesTo = "stage" => refusals = {}
  OBVIOUS
<1>6. goesTo \in {"idle", "stage"}
  OBVIOUS
<1>7. \A f \in Files : slots[f] = slotOf(f, plan[f], force)
  OBVIOUS
<1>8. \A f \in refusals \cup work : f \in Files
  OBVIOUS
<1>9. \A f \in Files : (f \in refusals <=> slots[f].status = "refused") /\ (f \in work <=> slots[f].pending)
  OBVIOUS
<1>10. slots \in [Files -> Slots]
  BY <1>1, SlotOfTyped
<1> HIDE DEF slots, refusals, work, goesTo, ends
<1>11. run' \in Reports
  BY <1>2, <1>4, SizeAssumption DEF Reports, Plans
<1>12. run'.plan = plan /\ (run'.force <=> force) /\ run'.pc = goesTo
  BY <1>2
<1>13. Looked
  <2>1. ASSUME NEW f \in Files
        PROVE  Known(f)
    <3>1. slot'[f] = slotOf(f, plan[f], force) /\ plan[f] \in {Gone} \cup Contents
      BY <1>1, <1>2, <1>7, <2>1
    <3> QED
      BY <1>12, <2>1, <3>1, SlotOfTyped DEF Known
  <2> QED
    BY <1>2, <1>10, <1>11, <2>1 DEF Looked
<1>14. \A f \in Files : run'.plan[f] # Gone /\ f \notin refusals /\ ~slot'[f].pending
                          => slot'[f].status = "already-applied"
  BY <1>1, <1>2, <1>7, <1>9, <1>12, SlotOfTyped
<1> QED
  BY <1>2, <1>3, <1>5, <1>6, <1>9, <1>12, <1>13, <1>14

\* So does one that cannot read a file.
LEMMA FailedLook ==
  ASSUME Shapes, preflightFails
  PROVE  Looked /\ run.pc = "idle" /\ run'.pc = "idle" /\ UNCHANGED <<journal, overridden>>
<1> PICK plan \in Plans, force \in BOOLEAN, f \in Files :
       /\ plan[f] # Gone /\ disk[f] \in Hashes
       /\ slot' = [g \in Files |-> IF g = f THEN [blankSlot EXCEPT !.status = "failed", !.seen = disk[f]]
                                   ELSE slotOf(g, plan[g], force)]
       /\ run' = [pc |-> "idle", outcome |-> "failed", plan |-> plan, force |-> force, at |-> 0,
                  phase |-> "preflight"]
  BY DEF preflightFails
<1>1. \A g \in Files : plan[g] \in {Gone} \cup Contents
  BY DEF Plans
<1>2. run' \in Reports /\ run'.plan = plan /\ (run'.force <=> force) /\ run'.pc = "idle"
  BY SizeAssumption DEF Reports, Plans, Phases, Outcomes
<1>3. slot'[f] = [status |-> "failed", pending |-> FALSE, seen |-> disk[f], ours |-> FALSE,
                  bak |-> Gone, committed |-> FALSE, warned |-> FALSE]
  BY DEF blankSlot
<1>4. \A g \in Files \ {f} : slot'[g] = slotOf(g, plan[g], force)
  OBVIOUS
<1>5. slot'[f] \in Slots
  BY <1>3 DEF Slots, Statuses, Held, Shapes
<1>6. slot' \in [Files -> Slots]
  BY <1>1, <1>4, <1>5, SlotOfTyped
<1>7. disk' = disk /\ edited' = {} /\ run.pc = "idle" /\ UNCHANGED <<journal, overridden>>
  BY DEF preflightFails
<1>8. Known(f)
  BY <1>3 DEF Known
<1>9. \A g \in Files \ {f} : Known(g)
  BY <1>1, <1>2, <1>4, SlotOfTyped DEF Known
<1>10. Looked
  BY <1>2, <1>6, <1>7, <1>8, <1>9 DEF Looked
<1> QED
  BY <1>2, <1>7, <1>10

\* A record that names a planned file's bytes and what they replaced is an entry.
LEMMA TouchedTyped ==
  ASSUME run' \in Reports, slot' \in [Files -> Slots], SlotMeaning', NEW completed \in BOOLEAN
  PROVE  touchJournal(completed) \in [Files -> Entries]
BY DEF touchJournal, Reports, Slots, SlotMeaning, Entries, NoEntry

\* The meaning of the fields that preflight fills in is kept while a plan is applied.
LEMMA MeaningStep ==
  ASSUME Shapes, SlotMeaning, Next
  PROVE  SlotMeaning'
<1>1. CASE apply \/ preflightFails
  BY <1>1, ApplyLooks, FailedLook DEF Looked, Known, SlotMeaning
<1>2. CASE crash
  BY <1>2 DEF crash, blankSlot, SlotMeaning
<1>3. CASE SameJob /\ OnlyStatus
  BY <1>3 DEF SameJob, OnlyStatus, SlotMeaning
<1>4. CASE SameJob /\ slot' = slot
  BY <1>4 DEF SameJob, SlotMeaning
<1>5. ASSUME SameJob, setAside \/ moveIn \/ commitFails \/ undo \/ undoFails
      PROVE SlotMeaning'
  <2> USE <1>5 DEF Shapes, SlotMeaning, Slots, SameJob
  <2>1. CASE setAside
    BY <2>1 DEF setAside, todo, current
  <2>2. CASE moveIn
    BY <2>2 DEF moveIn, todo, current
  <2>3. CASE commitFails
    BY <2>3 DEF commitFails, todo, current
  <2>4. CASE undo
    BY <2>4 DEF undo, undone
  <2>5. CASE undoFails
    BY <2>5 DEF undoFails, left
  <2> QED
    BY <1>5, <2>1, <2>2, <2>3, <2>4, <2>5
<1>6. CASE writeIntent \/ skipFile \/ commitAborted \/ committedAll \/ edit \/ loseJournal \/ halted
  BY <1>4, <1>6, JobStep
     DEF Continues, writeIntent, skipFile, commitAborted, committedAll, edit, loseJournal, halted, vars
<1> QED
  BY <1>1, <1>2, <1>3, <1>5, <1>6, JobStep, StatusStep DEF Next, Continues
-----------------------------------------------------------------------------
(* AN APPLY: its steps *)

\* What a step of the commit loop does to the file it is at, and to no other.
OthersKept(f) == \A g \in Files \ {f} : slot'[g] = slot[g] /\ disk'[g] = disk[g]

\* What preflight saw of a file is kept.
LookKept(f) ==
  /\ slot'[f].pending <=> slot[f].pending
  /\ slot'[f].ours <=> slot[f].ours
  /\ slot'[f].seen = slot[f].seen

\* The old file goes to its backup.
LEMMA SetAsideEffect ==
  ASSUME Shapes, setAside
  PROVE  /\ run.at \in Files /\ slot[run.at].pending /\ run.plan[run.at] # Gone
         /\ run.pc = "commit" /\ run' = run
         /\ slot[run.at].seen # Gone /\ slot[run.at].bak = Gone
         /\ slot'[run.at].bak = disk[run.at] /\ disk[run.at] # Gone /\ disk'[run.at] = Gone
         /\ slot'[run.at].committed <=> slot[run.at].committed
         /\ slot'[run.at].warned <=> slot[run.at].warned
         /\ slot'[run.at].status = slot[run.at].status
         /\ LookKept(run.at) /\ OthersKept(run.at)
BY DEF setAside, existedBefore, current, todo, planned, Shapes, Slots, LookKept, OthersKept

\* The new file goes to its destination.
LEMMA MoveInEffect ==
  ASSUME Shapes, moveIn
  PROVE  /\ run.at \in Files /\ slot[run.at].pending /\ run.plan[run.at] # Gone
         /\ run.pc = "commit" /\ run'.pc = "commit" /\ run'.at = run.at + 1
         /\ slot[run.at].seen # Gone => slot[run.at].bak # Gone
         /\ slot'[run.at].bak = slot[run.at].bak /\ disk'[run.at] = run.plan[run.at]
         /\ slot'[run.at].committed
         /\ slot'[run.at].warned <=> slot[run.at].warned
         /\ slot'[run.at].status = "committed"
         /\ LookKept(run.at) /\ OthersKept(run.at)
<1>1. run.pc = "commit" /\ run'.pc = "commit" /\ run'.at = run.at + 1
  BY DEF moveIn, Shapes, Reports
<1> QED
  BY <1>1 DEF moveIn, existedBefore, current, todo, planned, Shapes, Slots, LookKept, OthersKept

\* A rename that fails starts the rollback.
LEMMA CommitFailsEffect ==
  ASSUME Shapes, commitFails
  PROVE  /\ run.at \in Files /\ slot[run.at].pending /\ run.plan[run.at] # Gone
         /\ run.pc = "commit" /\ run'.pc = "undo" /\ run'.at = N /\ run'.outcome = "failed"
         /\ slot'[run.at].bak = slot[run.at].bak /\ disk' = disk
         /\ slot'[run.at].committed <=> slot[run.at].committed
         /\ slot'[run.at].warned <=> slot[run.at].warned
         /\ slot'[run.at].status = "failed"
         /\ LookKept(run.at) /\ OthersKept(run.at)
<1>1. run.pc = "commit" /\ run'.pc = "undo" /\ run'.at = N /\ run'.outcome = "failed"
  BY DEF commitFails, Shapes, Reports
<1> QED
  BY <1>1 DEF commitFails, current, todo, planned, Shapes, Slots, LookKept, OthersKept

\* The rollback puts a file back, or finds it was not moved.
LEMMA UndoEffect ==
  ASSUME Shapes, undo
  PROVE  /\ run.at \in Files
         /\ run.pc = "undo" /\ run'.pc = "undo" /\ run'.at = run.at - 1 /\ run'.outcome = run.outcome
         /\ \/ /\ ~slot[run.at].committed /\ slot[run.at].bak = Gone
               /\ slot' = slot /\ disk' = disk
            \/ /\ slot[run.at].committed \/ slot[run.at].bak # Gone
               /\ slot'[run.at].bak = Gone /\ disk'[run.at] = slot[run.at].bak
               /\ ~slot'[run.at].committed
               /\ slot'[run.at].warned <=> slot[run.at].warned
               /\ slot'[run.at].status = IF slot[run.at].committed THEN "rolled-back" ELSE slot[run.at].status
               /\ LookKept(run.at) /\ OthersKept(run.at)
<1>1. run.pc = "undo" /\ run'.pc = "undo" /\ run'.at = run.at - 1 /\ run'.outcome = run.outcome
      /\ run.at \in Files
  BY DEF undo, Shapes, Reports
<1>2. CASE run.at \in committed \cup backedUp
  <2>1. slot' = [slot EXCEPT ![run.at] = undone(run.at)] /\ disk' = [disk EXCEPT ![run.at] = slot[run.at].bak]
    BY <1>2 DEF undo
  <2>2. slot'[run.at] = undone(run.at) /\ disk'[run.at] = slot[run.at].bak /\ OthersKept(run.at)
    BY <1>1, <2>1 DEF Shapes, OthersKept
  <2>3. slot[run.at] \in Slots
    BY <1>1 DEF Shapes
  <2> QED
    BY <1>1, <1>2, <2>2, <2>3 DEF undone, LookKept, committed, backedUp, Slots
<1>3. CASE run.at \notin committed \cup backedUp
  BY <1>1, <1>3 DEF undo, committed, backedUp
<1> QED
  BY <1>2, <1>3

\* A file that cannot be put back is left, with a warning.
LEMMA UndoFailsEffect ==
  ASSUME Shapes, undoFails
  PROVE  /\ run.at \in Files /\ (slot[run.at].committed \/ slot[run.at].bak # Gone)
         /\ run.pc = "undo" /\ run'.pc = "undo" /\ run'.at = run.at - 1 /\ run'.outcome = run.outcome
         /\ slot'[run.at].bak = slot[run.at].bak /\ disk' = disk
         /\ slot'[run.at].committed <=> slot[run.at].committed
         /\ slot'[run.at].warned
         /\ slot'[run.at].status = slot[run.at].status
         /\ LookKept(run.at) /\ OthersKept(run.at)
<1>1. run.pc = "undo" /\ run'.pc = "undo" /\ run'.at = run.at - 1 /\ run'.outcome = run.outcome
  BY DEF undoFails, Shapes, Reports
<1> QED
  BY <1>1 DEF undoFails, left, committed, backedUp, Shapes, Slots, LookKept, OthersKept

\* The steps that leave every slot as it is.
LEMMA PhaseSteps ==
  ASSUME Shapes
  PROVE  /\ writeIntent => run.pc = "intent" /\ run'.pc = "commit" /\ run'.at = 1 /\ UNCHANGED <<disk, slot, edited>>
         /\ skipFile => run.pc = "commit" /\ run'.pc = "commit" /\ run.at \in Files \ todo /\ run'.at = run.at + 1
                        /\ UNCHANGED <<disk, slot, edited>>
         /\ commitAborted => run.pc = "commit" /\ run'.pc = "undo" /\ run.at = N + 1 /\ run'.at = N
                        /\ run'.outcome = "aborted" /\ UNCHANGED <<disk, slot, edited>>
         /\ committedAll => run.pc = "commit" /\ run'.pc = "verify" /\ run.at = N + 1
                        /\ UNCHANGED <<disk, slot, edited>>
         /\ stage => run.pc = "stage" /\ run'.pc = "intent" /\ UNCHANGED <<disk, edited>>
         /\ edit \/ loseJournal \/ halted => run' = run /\ slot' = slot
<1> USE DEF Shapes, Reports
<1>1. writeIntent => run.pc = "intent" /\ run'.pc = "commit" /\ run'.at = 1 /\ UNCHANGED <<disk, slot, edited>>
  BY DEF writeIntent
<1>2. skipFile => run.pc = "commit" /\ run'.pc = "commit" /\ run.at \in Files \ todo /\ run'.at = run.at + 1
                  /\ UNCHANGED <<disk, slot, edited>>
  BY DEF skipFile, current
<1>3. commitAborted => run.pc = "commit" /\ run'.pc = "undo" /\ run.at = N + 1 /\ run'.at = N
                       /\ run'.outcome = "aborted" /\ UNCHANGED <<disk, slot, edited>>
  BY DEF commitAborted, current
<1>4. committedAll => run.pc = "commit" /\ run'.pc = "verify" /\ run.at = N + 1
                      /\ UNCHANGED <<disk, slot, edited>>
  BY DEF committedAll, current
<1>5. stage => run.pc = "stage" /\ run'.pc = "intent" /\ UNCHANGED <<disk, edited>>
  BY DEF stage
<1>6. edit \/ loseJournal \/ halted => run' = run /\ slot' = slot
  BY DEF edit, loseJournal, halted, vars
<1> QED
  BY <1>1, <1>2, <1>3, <1>4, <1>5, <1>6

\* A step after which the applier is idle and has an outcome to report.
Ends == stageFails \/ stageAborted \/ intentFails \/ finishUndo \/ verify

\* An apply that ends, or dies, was under way and is idle.
LEMMA EndsIdle ==
  ASSUME Shapes, Ends \/ crash
  PROVE  run'.pc = "idle" /\ run.pc # "idle"
BY DEF Shapes, Reports, Ends, crash, stageFails, stageAborted, intentFails, finishUndo, verify, report

\* A step after which the apply goes on.
Works == stage \/ writeIntent \/ skipFile \/ setAside \/ moveIn \/ commitFails
         \/ commitAborted \/ committedAll \/ undo \/ undoFails

\* The steps of an applier that goes on, one that ends, and the surroundings.
LEMMA StepKinds ==
  Next <=> apply \/ preflightFails \/ Works \/ Ends \/ crash \/ edit \/ loseJournal \/ halted
BY DEF Next, Works, Ends

\* The shapes of the variables are kept.
LEMMA TypeStep ==
  ASSUME Shapes, spent \in Bounds, SlotMeaning, Next
  PROVE  Shapes' /\ spent' \in Bounds
<1>1. spent' \in Bounds
  <2>1. CASE apply
    <3> PICK plan \in Plans, force \in BOOLEAN, dry \in BOOLEAN : begin(plan, force, dry)
      BY <2>1 DEF apply
    <3> QED
      BY BoundsAssumption DEF begin, Bounds
  <2>2. CASE preflightFails
    BY <2>2, BoundsAssumption DEF preflightFails, Bounds
  <2>3. CASE stageFails \/ intentFails \/ commitFails \/ undoFails \/ verify \/ crash \/ edit \/ loseJournal
    BY <2>3, MishapBound
       DEF stageFails, intentFails, commitFails, undoFails, verify, crash, edit, loseJournal
  <2>4. CASE spent' = spent
    BY <2>4
  <2> QED
    BY <2>1, <2>2, <2>3, <2>4 DEF Next, stage, stageAborted, writeIntent, skipFile, setAside, moveIn,
       commitAborted, committedAll, undo, finishUndo, halted, vars
<1>2. SlotMeaning'
  BY MeaningStep
<1>3. run' \in Reports
  <2>1. CASE crash
    <3>1. 0 \in 0 .. N + 1
      BY SizeAssumption
    <3> QED
      BY <2>1, <3>1 DEF crash, Shapes, Reports, Phases, Outcomes
  <2> QED
    BY <2>1, NextCases, JobStep, ApplyLooks, FailedLook DEF SameJob, Looked
<1>4. slot' \in [Files -> Slots]
  <2>1. CASE crash
    BY <2>1, BlankSlotTyped DEF crash
  <2>2. CASE apply \/ preflightFails
    BY <2>2, ApplyLooks, FailedLook DEF Looked, Known
  <2>3. CASE OnlyStatus
    BY <2>3 DEF OnlyStatus
  <2>4. CASE slot' = slot
    BY <2>4 DEF Shapes
  <2>5. CASE setAside
    BY <2>5 DEF setAside, Shapes, Slots, Held
  <2>6. CASE moveIn \/ commitFails
    BY <2>6 DEF moveIn, commitFails, Shapes, Slots, Statuses
  <2>7. CASE undo \/ undoFails
    <3>1. run.at \in Files
      BY <2>7 DEF undo, undoFails, committed, backedUp
    <3>2. slot[run.at] \in Slots
      BY <3>1 DEF Shapes
    <3>3. undone(run.at) \in Slots /\ left(run.at) \in Slots
      BY <3>2 DEF undone, left, Slots, Statuses, Held
    <3> QED
      BY <2>7, <3>1, <3>3 DEF undo, undoFails, Shapes
  <2> QED
    BY <2>1, <2>2, <2>3, <2>4, <2>5, <2>6, <2>7, StatusStep
       DEF Next, writeIntent, skipFile, commitAborted, committedAll, edit, loseJournal, halted, vars
<1>5. disk' \in [Files -> Held]
  <2>1. CASE disk' = disk
    BY <2>1 DEF Shapes
  <2>2. CASE setAside
    BY <2>2 DEF setAside, Shapes, Held
  <2>3. CASE moveIn
    BY <2>3 DEF moveIn, current, todo, planned, Shapes, Reports, Held, Hashes
  <2>4. CASE undo
    BY <2>4 DEF undo, Shapes, Slots
  <2>5. CASE edit
    BY <2>5 DEF edit, Shapes, Held, Hashes
  <2> QED
    BY <2>1, <2>2, <2>3, <2>4, <2>5, ApplyLooks, FailedLook
       DEF Next, Looked, stage, stageFails, stageAborted, writeIntent, intentFails, skipFile, commitFails,
           commitAborted, committedAll, undoFails, finishUndo, verify, crash, loseJournal, halted, vars
<1>6. journal' \in [Files -> Entries]
  <2>1. \A c \in BOOLEAN : journal' = touchJournal(c) => journal' \in [Files -> Entries]
    BY <1>2, <1>3, <1>4, TouchedTyped
  <2>2. journal' = journal => journal' \in [Files -> Entries]
    BY DEF Shapes
  <2>3. CASE loseJournal
    BY <2>3 DEF loseJournal, NoEntry, Entries
  <2> QED
    BY <2>1, <2>2, <2>3, ApplyLooks, FailedLook
       DEF Next, stage, stageFails, stageAborted, writeIntent, intentFails, skipFile, setAside, moveIn, commitFails,
           commitAborted, committedAll, undo, undoFails, finishUndo, verify, crash, edit, halted, vars
<1>7. edited' \subseteq Files
  BY ApplyLooks, FailedLook
     DEF Shapes, Next, Looked, stage, stageFails, stageAborted, writeIntent, intentFails, skipFile, setAside, moveIn,
         commitFails, commitAborted, committedAll, undo, undoFails, finishUndo, verify, crash, edit, loseJournal,
         halted, vars
<1>8. overridden' \subseteq Files
  BY ApplyLooks, FailedLook
     DEF Shapes, Next, planned, stage, stageFails, stageAborted, writeIntent, intentFails, skipFile, setAside, moveIn,
         commitFails, commitAborted, committedAll, undo, undoFails, finishUndo, verify, crash, edit, loseJournal,
         halted, vars
<1> QED
  BY <1>1, <1>3, <1>4, <1>5, <1>6, <1>7, <1>8 DEF Shapes

\* Until the applier has finished, a file without work is one that was found as planned.
LEMMA PassedStep ==
  ASSUME Shapes, SlotMeaning, PreflightPassed, Next
  PROVE  PreflightPassed'
<1> SUFFICES ASSUME run'.pc # "idle"  PROVE PreflightPassed'
  BY DEF PreflightPassed, Underway
<1>1. CASE apply \/ preflightFails
  BY <1>1, ApplyLooks, FailedLook DEF Looked, Known, PreflightPassed
<1>2. CASE Works
  <2>1. SameJob
    BY <1>2, JobStep DEF Works, Continues
  <2>2. run.pc # "idle"
    BY <1>2, SetAsideEffect, MoveInEffect, CommitFailsEffect, UndoEffect, UndoFailsEffect, PhaseSteps DEF Works
  <2>3. \A f \in Files : LookKept(f) /\ (~slot[f].pending => slot'[f].status = slot[f].status)
    <3>1. CASE stage
      BY <3>1, WithStatusTyped DEF stage, todo, Statuses, LookKept
    <3>2. CASE setAside \/ moveIn \/ commitFails
      BY <3>2, SetAsideEffect, MoveInEffect, CommitFailsEffect DEF OthersKept, LookKept
    <3>3. CASE undo \/ undoFails
      BY <3>3, UndoEffect, UndoFailsEffect DEF OthersKept, LookKept, SlotMeaning
    <3>4. CASE slot' = slot
      BY <3>4 DEF LookKept
    <3> QED
      BY <1>2, <3>1, <3>2, <3>3, <3>4, PhaseSteps DEF Works
  <2> QED
    BY <2>1, <2>2, <2>3 DEF PreflightPassed, Underway, SameJob, LookKept
<1>3. CASE edit \/ loseJournal \/ halted
  BY <1>3, PhaseSteps DEF PreflightPassed, Underway
<1> QED
  BY <1>1, <1>2, <1>3, StepKinds, EndsIdle

\* Before the intent record nothing has been moved.
LEMMA NotBegunStep ==
  ASSUME Shapes, SlotMeaning, NotBegun, Next
  PROVE  NotBegun'
<1>1. CASE apply \/ preflightFails
  BY <1>1, ApplyLooks, FailedLook DEF Looked, Known, NotBegun
<1>2. CASE stage
  <2>1. run.pc = "stage" /\ run'.pc = "intent" /\ slot' = withStatus(todo, "staged")
    BY <1>2, PhaseSteps DEF stage
  <2>2. \A f \in Files : /\ slot'[f].committed <=> slot[f].committed
                         /\ slot'[f].bak = slot[f].bak
                         /\ slot'[f].pending <=> slot[f].pending
                         /\ f \in todo => slot'[f].status = "staged"
    BY <2>1, WithStatusTyped DEF Statuses
  <2>3. \A f \in Files : slot[f].pending => f \in todo
    BY DEF todo, planned, SlotMeaning
  <2> QED
    BY <2>1, <2>2, <2>3 DEF NotBegun
<1>3. CASE Works /\ ~stage
  BY <1>3, SetAsideEffect, MoveInEffect, CommitFailsEffect, UndoEffect, UndoFailsEffect, PhaseSteps
     DEF Works, NotBegun
<1>4. CASE edit \/ loseJournal \/ halted
  BY <1>4, PhaseSteps DEF NotBegun
<1> QED
  BY <1>1, <1>2, <1>3, <1>4, StepKinds, EndsIdle DEF NotBegun

\* The commit loop goes through the files in order.
LEMMA CommitStep ==
  ASSUME Shapes, SlotMeaning, NotBegun, CommitOrder, Next
  PROVE  CommitOrder'
<1>0. \A f \in Files : f \in todo <=> slot[f].pending
  BY DEF todo, planned, SlotMeaning
<1>1. SlotMeaning'
  BY MeaningStep
<1>2. \A f \in todo' : f \in Files /\ slot'[f].pending
  BY DEF todo, planned
<1>3. N \in Nat /\ run.at \in Int
  BY SizeAssumption DEF Shapes, Reports
<1>4. CASE apply \/ preflightFails
  BY <1>4, ApplyLooks, FailedLook DEF CommitOrder
<1>5. CASE writeIntent
  <2>1. run.pc = "intent" /\ run'.pc = "commit" /\ run'.at = 1 /\ slot' = slot
    BY <1>5, PhaseSteps
  <2> QED
    BY <1>2, <2>1 DEF CommitOrder, NotBegun, Files
<1>6. CASE skipFile
  BY <1>6, <1>0, <1>2, <1>3, PhaseSteps DEF CommitOrder, Files
<1>7. CASE setAside
  BY <1>7, <1>0, <1>2, <1>3, SetAsideEffect DEF CommitOrder, OthersKept, LookKept, Files
<1>8. CASE moveIn
  BY <1>8, <1>0, <1>2, <1>3, MoveInEffect DEF CommitOrder, OthersKept, LookKept, Files
<1>9. CASE stage \/ commitFails \/ commitAborted \/ committedAll \/ undo \/ undoFails
  BY <1>9, CommitFailsEffect, UndoEffect, UndoFailsEffect, PhaseSteps DEF CommitOrder
<1>10. CASE edit \/ loseJournal \/ halted
  BY <1>10, PhaseSteps DEF CommitOrder, todo, planned
<1> QED
  BY <1>4, <1>5, <1>6, <1>7, <1>8, <1>9, <1>10, StepKinds, EndsIdle DEF CommitOrder, Works

\* The rollback goes back through the files, and warns of each it leaves.
LEMMA UndoStep ==
  ASSUME Shapes, SlotMeaning, CommitOrder, UndoOrder, Next
  PROVE  UndoOrder'
<1>0. \A f \in Files : f \in todo <=> slot[f].pending
  BY DEF todo, planned, SlotMeaning
<1>2. \A f \in todo' : f \in Files /\ slot'[f].pending
  BY DEF todo, planned
<1>3. N \in Nat /\ run.at \in Int
  BY SizeAssumption DEF Shapes, Reports
<1>4. CASE apply \/ preflightFails
  BY <1>4, ApplyLooks, FailedLook DEF UndoOrder
<1>5. CASE commitFails
  BY <1>5, <1>0, <1>2, <1>3, CommitFailsEffect DEF CommitOrder, UndoOrder, OthersKept, LookKept, Files
<1>6. CASE commitAborted
  BY <1>6, <1>0, <1>2, <1>3, PhaseSteps DEF CommitOrder, UndoOrder, Files
<1>7. CASE undo
  BY <1>7, <1>0, <1>2, <1>3, UndoEffect DEF UndoOrder, OthersKept, LookKept, Files
<1>8. CASE undoFails
  BY <1>8, <1>0, <1>2, <1>3, UndoFailsEffect DEF UndoOrder, OthersKept, LookKept, Files
<1>9. CASE stage \/ writeIntent \/ skipFile \/ setAside \/ moveIn \/ committedAll
  BY <1>9, SetAsideEffect, MoveInEffect, PhaseSteps DEF UndoOrder
<1>10. CASE edit \/ loseJournal \/ halted
  BY <1>10, PhaseSteps DEF UndoOrder, todo, planned
<1> QED
  BY <1>4, <1>5, <1>6, <1>7, <1>8, <1>9, <1>10, StepKinds, EndsIdle DEF UndoOrder, Works

\* Nothing is read back before every file is in place.
LEMMA AllInStep ==
  ASSUME Shapes, SlotMeaning, CommitOrder, AllIn, Next
  PROVE  AllIn'
<1>1. CASE committedAll
  <2>1. run.pc = "commit" /\ run.at = N + 1 /\ slot' = slot /\ todo' = todo
    <3>1. SameJob
      BY <1>1, JobStep DEF Continues
    <3> QED
      BY <1>1, <3>1, PhaseSteps DEF todo, planned, SameJob
  <2>2. \A f \in todo : f < N + 1
    BY SizeAssumption DEF todo, planned, Files
  <2> QED
    BY <2>1, <2>2 DEF CommitOrder, AllIn
<1>2. CASE Works /\ ~committedAll
  BY <1>2, SetAsideEffect, MoveInEffect, CommitFailsEffect, UndoEffect, UndoFailsEffect, PhaseSteps
     DEF Works, AllIn
<1>3. CASE edit \/ loseJournal \/ halted
  BY <1>3, PhaseSteps DEF AllIn, todo, planned
<1> QED
  BY <1>1, <1>2, <1>3, StepKinds, EndsIdle, ApplyLooks, FailedLook DEF AllIn

\* Where the applier has put each file that nobody else touched.
LEMMA TrackedStep ==
  ASSUME Shapes, SlotMeaning, PreflightPassed, CommitOrder, DiskTracked, Next
  PROVE  DiskTracked'
<1> SUFFICES ASSUME run'.pc # "idle"  PROVE DiskTracked'
  BY DEF DiskTracked, Underway
<1>1. CASE apply \/ preflightFails
  BY <1>1, ApplyLooks, FailedLook DEF Looked, Known, DiskTracked, expected, planned
<1>2. CASE Works
  <2>1. run'.plan = run.plan /\ planned' = planned
    BY <1>2, JobStep DEF Works, Continues, SameJob, planned
  <2>2. run.pc # "idle" /\ edited' = edited
    <3>1. edited' = edited
      BY <1>2 DEF Works, stage, writeIntent, skipFile, setAside, moveIn, commitFails, commitAborted,
                  committedAll, undo, undoFails
    <3> QED
      BY <1>2, <3>1, SetAsideEffect, MoveInEffect, CommitFailsEffect, UndoEffect, UndoFailsEffect, PhaseSteps
         DEF Works
  <2>3. SUFFICES ASSUME NEW f \in planned \ edited
                 PROVE  /\ disk'[f] = expected(f)'
                        /\ slot'[f].committed \/ slot'[f].bak # Gone => slot'[f].bak = slot'[f].seen
    BY <2>1, <2>2 DEF DiskTracked
  <2>4. /\ f \in Files
        /\ disk[f] = expected(f)
        /\ slot[f].committed \/ slot[f].bak # Gone => slot[f].bak = slot[f].seen
    BY <2>2 DEF DiskTracked, Underway, planned
  <2>5. CASE stage
    <3>1. slot'[f].seen = slot[f].seen /\ slot'[f].bak = slot[f].bak /\ (slot'[f].committed <=> slot[f].committed)
      BY <2>4, <2>5, StatusStep DEF OnlyStatus
    <3> QED
      BY <2>1, <2>4, <2>5, <3>1, PhaseSteps DEF expected
  <2>6. CASE setAside
    <3>1. f = run.at => ~slot[f].committed
      BY <2>6, SetAsideEffect, SizeAssumption DEF CommitOrder, todo, planned, Files
    <3> QED
      BY <2>1, <2>4, <2>6, <3>1, SetAsideEffect DEF expected, OthersKept, LookKept
  <2>7. CASE moveIn
    <3>1. f = run.at => ~slot[f].committed
      BY <2>7, MoveInEffect, SizeAssumption DEF CommitOrder, todo, planned, Files
    <3> QED
      BY <2>1, <2>4, <2>7, <3>1, MoveInEffect DEF expected, OthersKept, LookKept
  <2>8. CASE commitFails
    BY <2>1, <2>4, <2>8, CommitFailsEffect DEF expected, OthersKept, LookKept
  <2>9. CASE undo
    BY <2>1, <2>4, <2>9, UndoEffect DEF expected, OthersKept, LookKept
  <2>10. CASE undoFails
    BY <2>1, <2>4, <2>10, UndoFailsEffect DEF expected, OthersKept, LookKept
  <2>11. CASE writeIntent \/ skipFile \/ commitAborted \/ committedAll
    BY <2>1, <2>4, <2>11, PhaseSteps DEF expected
  <2> QED
    BY <1>2, <2>5, <2>6, <2>7, <2>8, <2>9, <2>10, <2>11 DEF Works
<1>3. CASE edit
  <2> PICK f \in Files, h \in Held : disk' = [disk EXCEPT ![f] = h] /\ edited' = edited \cup {f}
    BY <1>3 DEF edit, Held, Hashes
  <2>1. \A g \in Files : g \notin edited' => disk'[g] = disk[g]
    BY DEF Shapes
  <2> QED
    BY <1>3, <2>1, PhaseSteps DEF DiskTracked, Underway, expected, planned
<1>4. CASE loseJournal \/ halted
  BY <1>4, PhaseSteps DEF loseJournal, halted, vars, DiskTracked, Underway, expected, planned
<1> QED
  BY <1>1, <1>2, <1>3, <1>4, StepKinds, EndsIdle

\* Generated bytes never get where the applier did not put or see them.
LEMMA OldBytesStep ==
  ASSUME Shapes, SlotMeaning, CommitOrder, OldBytes, Next
  PROVE  OldBytes'
<1> SUFFICES ASSUME run'.pc # "idle"  PROVE OldBytes'
  BY DEF OldBytes, Underway
<1>1. CASE apply \/ preflightFails
  BY <1>1, ApplyLooks, FailedLook, HashAssumption DEF Looked, Known, OldBytes, planned
<1>2. CASE Works
  <2>1. run'.plan = run.plan /\ planned' = planned
    BY <1>2, JobStep DEF Works, Continues, SameJob, planned
  <2>2. run.pc # "idle"
    BY <1>2, SetAsideEffect, MoveInEffect, CommitFailsEffect, UndoEffect, UndoFailsEffect, PhaseSteps DEF Works
  <2>3. SUFFICES ASSUME NEW f \in planned
                 PROVE  /\ disk'[f] \in Contents
                             => disk'[f] = IF slot'[f].committed THEN run.plan[f] ELSE slot'[f].seen
                        /\ slot'[f].bak \in Contents => slot'[f].bak = slot'[f].seen
    BY <2>1 DEF OldBytes
  <2>4. /\ f \in Files
        /\ disk[f] \in Contents => disk[f] = IF slot[f].committed THEN run.plan[f] ELSE slot[f].seen
        /\ slot[f].bak \in Contents => slot[f].bak = slot[f].seen
    BY <2>2 DEF OldBytes, Underway, planned
  <2>5. CASE stage
    <3>1. slot'[f].seen = slot[f].seen /\ slot'[f].bak = slot[f].bak /\ (slot'[f].committed <=> slot[f].committed)
      BY <2>4, <2>5, StatusStep DEF OnlyStatus
    <3> QED
      BY <2>1, <2>4, <2>5, <3>1, PhaseSteps
  <2>6. CASE setAside
    <3>1. f = run.at => ~slot[f].committed
      BY <2>6, SetAsideEffect, SizeAssumption DEF CommitOrder, todo, planned, Files
    <3> QED
      BY <2>4, <2>6, <3>1, SetAsideEffect, HashAssumption DEF OthersKept, LookKept
  <2>7. CASE moveIn
    BY <2>4, <2>7, MoveInEffect DEF OthersKept, LookKept
  <2>8. CASE commitFails
    BY <2>4, <2>8, CommitFailsEffect DEF OthersKept, LookKept
  <2>9. CASE undo
    BY <2>4, <2>9, UndoEffect, HashAssumption DEF OthersKept, LookKept
  <2>10. CASE undoFails
    BY <2>4, <2>10, UndoFailsEffect DEF OthersKept, LookKept
  <2>11. CASE writeIntent \/ skipFile \/ commitAborted \/ committedAll
    BY <2>4, <2>11, PhaseSteps
  <2> QED
    BY <1>2, <2>5, <2>6, <2>7, <2>8, <2>9, <2>10, <2>11 DEF Works
<1>3. CASE edit
  <2> PICK f \in Files, h \in {Gone, Blocked} \cup Foreign : disk' = [disk EXCEPT ![f] = h]
    BY <1>3 DEF edit
  <2>1. \A g \in Files : disk'[g] \in Contents => disk'[g] = disk[g]
    BY HashAssumption DEF Shapes
  <2> QED
    BY <1>3, <2>1, PhaseSteps DEF OldBytes, Underway, planned
<1>4. CASE loseJournal \/ halted
  BY <1>4, PhaseSteps DEF loseJournal, halted, vars, OldBytes, Underway, planned
<1> QED
  BY <1>1, <1>2, <1>3, <1>4, StepKinds, EndsIdle

\* During the commit the journal is the intent record.
LEMMA IntentStep ==
  ASSUME Shapes, IntentRecorded, Next
  PROVE  IntentRecorded'
<1>1. CASE apply \/ preflightFails
  BY <1>1, ApplyLooks, FailedLook DEF IntentRecorded
<1>2. CASE stage
  BY <1>2, PhaseSteps DEF IntentRecorded
<1>3. CASE writeIntent
  <2>1. run'.plan = run.plan /\ slot' = slot /\ planned' = planned
    BY <1>3, PhaseSteps, JobStep DEF Works, Continues, SameJob, planned
  <2>2. journal' = [f \in Files |-> IF run'.plan[f] = Gone THEN NoEntry
                   ELSE [sha |-> run'.plan[f],
                         supersedes |-> IF FALSE \/ ~slot'[f].ours THEN Gone ELSE slot'[f].seen]]
    BY <1>3 DEF writeIntent, touchJournal
  <2>3. overridden' = {f \in planned : slot[f].seen # Gone /\ ~slot[f].ours}
    BY <1>3 DEF writeIntent
  <2> QED
    BY <2>1, <2>2, <2>3 DEF IntentRecorded
<1>4. CASE Works /\ ~stage /\ ~writeIntent
  <2>1. run'.plan = run.plan /\ planned' = planned
    BY <1>4, JobStep DEF Works, Continues, SameJob, planned
  <2>2. run.pc \in {"commit", "undo"} /\ UNCHANGED <<journal, overridden>>
    <3>1. UNCHANGED <<journal, overridden>>
      BY <1>4 DEF Works, skipFile, setAside, moveIn, commitFails, commitAborted, committedAll, undo, undoFails
    <3> QED
      BY <1>4, <3>1, SetAsideEffect, MoveInEffect, CommitFailsEffect, UndoEffect, UndoFailsEffect, PhaseSteps
         DEF Works
  <2>3. \A f \in Files : LookKept(f)
    BY <1>4, SetAsideEffect, MoveInEffect, CommitFailsEffect, UndoEffect, UndoFailsEffect, PhaseSteps
       DEF Works, OthersKept, LookKept
  <2>4. \A f \in planned : f \in Files
    BY DEF planned
  <2>5. planned' = planned /\ {f \in planned : slot'[f].seen # Gone /\ ~slot'[f].ours}
                              = {f \in planned : slot[f].seen # Gone /\ ~slot[f].ours}
    BY <2>1, <2>3, <2>4 DEF LookKept
  <2>6. \A f \in Files : (IF ~slot'[f].ours THEN Gone ELSE slot'[f].seen)
                         = (IF ~slot[f].ours THEN Gone ELSE slot[f].seen)
    BY <2>3 DEF LookKept
  <2> QED
    BY <2>1, <2>2, <2>5, <2>6 DEF IntentRecorded
<1>5. CASE edit \/ loseJournal \/ halted
  BY <1>5, PhaseSteps DEF edit, loseJournal, halted, vars, IntentRecorded, planned
<1> QED
  BY <1>1, <1>2, <1>3, <1>4, <1>5, StepKinds, EndsIdle DEF IntentRecorded

\* The phases after the intent record.
Recorded == run.pc \in {"commit", "undo", "verify"}

\* In the commit loop the intent record covers whatever generated bytes a
\* planned file holds: those it is to get and those it had.
LEMMA RecordCovers ==
  Shapes /\ SlotMeaning /\ OldBytes /\ IntentRecorded /\ Recorded => JournalKnows
<1> SUFFICES ASSUME Shapes, SlotMeaning, OldBytes, IntentRecorded, Recorded
             PROVE  JournalKnows
  OBVIOUS
<1> USE DEF Recorded
<1> SUFFICES ASSUME NEW f \in Files \ overridden, journal[f] # NoEntry, disk[f] \in Contents
             PROVE  disk[f] \in {journal[f].sha, journal[f].supersedes}
  BY DEF JournalKnows
<1>1. f \in planned
  BY DEF IntentRecorded, planned
<1>2. journal[f].sha = run.plan[f]
      /\ journal[f].supersedes = IF ~slot[f].ours THEN Gone ELSE slot[f].seen
  BY <1>1 DEF IntentRecorded, planned
<1>3. slot[f].seen = Gone \/ slot[f].ours
  BY <1>1 DEF IntentRecorded
<1>4. disk[f] = run.plan[f] \/ disk[f] = slot[f].seen
  BY <1>1 DEF OldBytes, Underway
<1>5. disk[f] # Gone
  BY HashAssumption
<1> QED
  BY <1>2, <1>3, <1>4, <1>5

\* The same after a step.
LEMMA RecordCoversAfter ==
  (Shapes /\ SlotMeaning /\ OldBytes /\ IntentRecorded /\ Recorded => JournalKnows)'
BY RecordCovers, PTL

\* The completed record covers them as well: every planned file is in place.
LEMMA CompletedCovers ==
  ASSUME run' \in Reports, journal' = touchJournal(TRUE),
         \A f \in Files : run'.plan[f] # Gone /\ disk'[f] \in Contents => disk'[f] = run'.plan[f]
  PROVE  JournalKnows'
BY DEF touchJournal, JournalKnows

\* Whatever generated bytes are on disk, the journal knows them.
LEMMA JournalStep ==
  ASSUME Shapes, Shapes', SlotMeaning, PreflightPassed, CommitOrder, AllIn, OldBytes, IntentRecorded,
         JournalKnows, Next
  PROVE  JournalKnows'
<1>1. ASSUME UNCHANGED <<journal, overridden>>,
             \A f \in Files : disk'[f] \in Contents => disk'[f] = disk[f]
      PROVE JournalKnows'
  BY <1>1 DEF JournalKnows
<1>2. CASE apply
  <2>1. disk' = disk /\ run' \in Reports
    BY <1>2, ApplyLooks DEF Looked, Known
  <2>2. CASE UNCHANGED <<journal, overridden>>
    BY <1>1, <2>1, <2>2
  <2>3. CASE journal' = touchJournal(TRUE)
             /\ \A f \in Files : run'.plan[f] # Gone => slot'[f].status = "already-applied"
    <3>1. \A f \in Files : run'.plan[f] # Gone => disk'[f] = run'.plan[f]
      BY <1>2, <2>1, <2>3, ApplyLooks DEF Looked, Known
    <3> QED
      BY <2>1, <2>3, <3>1, CompletedCovers
  <2> QED
    BY <1>2, <2>2, <2>3, ApplyLooks
<1>3. CASE preflightFails
  BY <1>1, <1>3, FailedLook DEF Looked, Known
<1>4. CASE Works
  <2>1. CASE run'.pc \in {"commit", "undo", "verify"}
    <3>1. SlotMeaning' /\ OldBytes' /\ IntentRecorded'
      BY MeaningStep, OldBytesStep, IntentStep
    <3> QED
      BY <2>1, <3>1, RecordCoversAfter DEF Recorded
  <2>2. CASE stage
    BY <1>1, <2>2 DEF stage
  <2> QED
    BY <1>4, <2>1, <2>2, SetAsideEffect, MoveInEffect, CommitFailsEffect, UndoEffect, UndoFailsEffect, PhaseSteps
       DEF Works
<1>5. CASE verify
  <2>1. disk' = disk /\ run' \in Reports /\ run'.plan = run.plan /\ run.pc = "verify"
    BY <1>5, JobStep DEF verify, Continues, SameJob
  <2>2. UNCHANGED <<journal, overridden>> \/ journal' = touchJournal(TRUE)
    BY <1>5 DEF verify
  <2>3. \A f \in Files : run.plan[f] # Gone /\ disk[f] \in Contents => disk[f] = run.plan[f]
    BY <2>1 DEF OldBytes, AllIn, PreflightPassed, Underway, todo, planned
  <2> QED
    BY <1>1, <2>1, <2>2, <2>3, CompletedCovers
<1>6. CASE stageFails \/ stageAborted \/ intentFails \/ finishUndo \/ crash \/ halted
  BY <1>1, <1>6 DEF stageFails, stageAborted, intentFails, finishUndo, crash, halted, vars
<1>7. CASE edit
  <2> PICK f \in Files, h \in {Gone, Blocked} \cup Foreign : disk' = [disk EXCEPT ![f] = h]
    BY <1>7 DEF edit
  <2>1. \A g \in Files : disk'[g] \in Contents => disk'[g] = disk[g]
    BY HashAssumption DEF Shapes
  <2> QED
    BY <1>1, <1>7, <2>1 DEF edit
<1>8. CASE loseJournal
  BY <1>8 DEF loseJournal, JournalKnows
<1> QED
  BY <1>2, <1>3, <1>4, <1>5, <1>6, <1>7, <1>8, StepKinds DEF Ends

\* What a report says of the planned files nobody else touched.
Told(f) ==
  CASE slot[f].status \in {"committed", "already-applied"} -> disk[f] = run.plan[f]
    [] slot[f].status = "failed" /\ run.phase = "verify" -> TRUE
    [] OTHER -> disk[f] = slot[f].seen \/ slot[f].warned

\* A run that ends tells what is on disk.
LEMMA EndTells ==
  ASSUME Shapes, SlotMeaning, PreflightPassed, NotBegun, UndoOrder, AllIn, DiskTracked, Ends
  PROVE  StatusTellsDisk'
<1>1. run'.pc = "idle" /\ run.pc # "idle" /\ run'.plan = run.plan /\ OnlyStatus
  BY EndsIdle, StatusStep, JobStep DEF Ends, Continues, SameJob
<1>2. disk' = disk /\ planned' = planned
  BY <1>1 DEF Ends, stageFails, stageAborted, intentFails, finishUndo, verify, planned
<1>3. SUFFICES ASSUME NEW f \in planned \ edited'
               PROVE  Told(f)'
  BY <1>1, <1>2 DEF StatusTellsDisk, Told
<1>4. f \in Files /\ run.plan[f] # Gone
  BY DEF planned
<1>5. disk'[f] = disk[f] /\ slot'[f].seen = slot[f].seen /\ (slot'[f].warned <=> slot[f].warned)
  BY <1>1, <1>2, <1>4 DEF OnlyStatus
<1>6. ~slot[f].pending => ~slot[f].committed /\ slot[f].bak = Gone /\ slot[f].status = "already-applied"
                          /\ slot[f].seen = run.plan[f]
  BY <1>1, <1>4 DEF SlotMeaning, PreflightPassed, Underway
<1>7. f \in todo <=> slot[f].pending
  BY <1>4 DEF todo, planned
<1>8. f \notin edited => /\ disk[f] = expected(f)
                         /\ slot[f].committed \/ slot[f].bak # Gone => slot[f].bak = slot[f].seen
  BY <1>1, <1>3 DEF DiskTracked, Underway
<1>9. CASE stageFails \/ stageAborted \/ intentFails
  <2>1. run.pc \in {"stage", "intent"} /\ edited' = edited
    BY <1>9 DEF stageFails, stageAborted, intentFails
  <2>2. disk[f] = slot[f].seen
    BY <1>3, <1>4, <1>8, <2>1 DEF NotBegun, expected
  <2>3. IF f \in todo THEN slot'[f].status \in {"failed", "aborted"} ELSE slot'[f].status = slot[f].status
    <3>1. CASE stageFails
      <4> PICK h \in todo :
             slot' = [g \in Files |-> CASE g = h -> [slot[g] EXCEPT !.status = "failed"]
                                        [] g \in todo \ {h} -> [slot[g] EXCEPT !.status = "aborted"]
                                        [] OTHER -> slot[g]]
        BY <3>1 DEF stageFails
      <4> QED
        BY <1>4 DEF Shapes, Slots
    <3>2. CASE stageAborted \/ intentFails
      BY <1>4, <3>2, WithStatusTyped DEF stageAborted, intentFails, Statuses
    <3> QED
      BY <1>9, <3>1, <3>2
  <2> QED
    BY <1>1, <1>5, <1>6, <1>7, <2>2, <2>3 DEF Told
<1>10. CASE finishUndo
  <2>1. run.pc = "undo" /\ run.at = 0 /\ edited' = edited
    BY <1>10 DEF finishUndo
  <2>2. slot'[f].status = slot[f].status \/ (f \in todo /\ slot'[f].status = "aborted")
    BY <1>4, <1>10, WithStatusTyped DEF finishUndo, Statuses
  <2>3. f > run.at
    BY <1>4, <2>1, SizeAssumption DEF Files
  <2>4. slot[f].pending =>
          /\ slot[f].status = "committed" => slot[f].committed
          /\ slot[f].status # "already-applied"
          /\ slot[f].committed \/ slot[f].bak # Gone => slot[f].warned
    BY <1>7, <2>1, <2>3 DEF UndoOrder
  <2> QED
    BY <1>1, <1>3, <1>5, <1>6, <1>7, <1>8, <2>1, <2>2, <2>4 DEF Told, expected
<1>11. CASE verify
  <2>1. run.pc = "verify" /\ edited' = edited \ committed
    BY <1>11 DEF verify
  <2>2. PICK unreadable \in SUBSET committed, written \in BOOLEAN :
          /\ slot' = readBack(unreadable)
          /\ LET failed == {g \in Files : slot'[g].status = "failed"} IN
               report(IF failed = {} /\ written THEN "applied" ELSE "failed",
                      IF failed # {} THEN "verify" ELSE IF written THEN "none" ELSE "journal")
    BY <1>11 DEF verify
  <2>3. slot'[f].status = "failed" => run'.phase = "verify"
    <3>1. CASE slot'[f].status = "failed"
      <4>1. {g \in Files : slot'[g].status = "failed"} # {}
        BY <1>4, <3>1
      <4> QED
        BY <2>2, <4>1 DEF report, Shapes, Reports
    <3> QED
      BY <3>1
  <2>4. slot'[f].status = IF f \in committed /\ (f \in unreadable \/ disk[f] # run.plan[f])
                          THEN "failed" ELSE slot[f].status
    BY <1>4, <2>2, WithStatusTyped DEF readBack, Statuses
  <2>5. CASE slot[f].pending
    <3>1. slot[f].committed /\ slot[f].status = "committed"
      BY <1>7, <2>1, <2>5 DEF AllIn
    <3>2. f \in committed
      BY <1>4, <3>1 DEF committed
    <3> QED
      BY <1>1, <1>5, <2>3, <2>4, <3>1, <3>2 DEF Told
  <2>6. CASE ~slot[f].pending
    <3>1. f \notin committed
      BY <1>6, <2>6 DEF committed
    <3> QED
      BY <1>1, <1>3, <1>5, <1>6, <1>8, <2>1, <2>4, <2>6, <3>1 DEF Told, expected
  <2> QED
    BY <2>5, <2>6
<1> QED
  BY <1>9, <1>10, <1>11 DEF Ends

\* An apply that gives up before the read-back has put back what it moved.
LEMMA EndRestores ==
  ASSUME Shapes, SlotMeaning, PreflightPassed, NotBegun, UndoOrder, DiskTracked, Ends
  PROVE  FailureRestores'
<1>1. run'.pc = "idle" /\ run.pc # "idle" /\ run'.plan = run.plan /\ OnlyStatus
  BY EndsIdle, StatusStep, JobStep DEF Ends, Continues, SameJob
<1>2. CASE verify
  <2>1. run'.outcome = "applied" \/ run'.phase \in {"verify", "journal"}
    BY <1>2 DEF verify, report, Shapes, Reports
  <2> QED
    BY <2>1 DEF FailureRestores
<1>3. CASE stageFails \/ stageAborted \/ intentFails \/ finishUndo
  <2>1. disk' = disk /\ planned' = planned /\ edited' = edited
    BY <1>1, <1>3 DEF stageFails, stageAborted, intentFails, finishUndo, planned
  <2>2. SUFFICES ASSUME NEW f \in planned \ edited
                 PROVE  disk'[f] = slot'[f].seen \/ slot'[f].warned
    BY <2>1 DEF FailureRestores
  <2>3. f \in Files /\ run.plan[f] # Gone
    BY DEF planned
  <2>4. disk'[f] = disk[f] /\ slot'[f].seen = slot[f].seen /\ (slot'[f].warned <=> slot[f].warned)
    BY <1>1, <2>1, <2>3 DEF OnlyStatus
  <2>5. disk[f] = expected(f)
    BY <1>1 DEF DiskTracked, Underway
  <2>6. CASE ~slot[f].committed /\ slot[f].bak = Gone
    BY <2>4, <2>5, <2>6 DEF expected
  <2>7. CASE slot[f].committed \/ slot[f].bak # Gone
    <3>1. run.pc = "undo" /\ run.at = 0
      BY <1>3, <2>3, <2>7 DEF stageFails, stageAborted, intentFails, finishUndo, NotBegun
    <3>2. f \in todo /\ f > run.at
      BY <2>3, <2>7, <3>1 DEF SlotMeaning, todo, planned, Files
    <3> QED
      BY <2>4, <2>7, <3>1, <3>2 DEF UndoOrder
  <2> QED
    BY <2>6, <2>7
<1> QED
  BY <1>2, <1>3 DEF Ends

\* What was put back stays until the next apply or a person's change.
LEMMA RestoredStep ==
  ASSUME Shapes, SlotMeaning, PreflightPassed, NotBegun, UndoOrder, DiskTracked, FailureRestores, Next
  PROVE  FailureRestores'
<1>1. CASE apply \/ preflightFails
  BY <1>1, ApplyLooks, FailedLook DEF Looked, Known, planned, FailureRestores
<1>2. CASE Works
  <2>1. run'.pc # "idle"
    BY <1>2, SetAsideEffect, MoveInEffect, CommitFailsEffect, UndoEffect, UndoFailsEffect, PhaseSteps DEF Works
  <2> QED
    BY <2>1 DEF FailureRestores
<1>3. CASE crash
  BY <1>3 DEF crash, Shapes, Reports, FailureRestores
<1>4. CASE edit
  <2> PICK f \in Files, h \in Held : disk' = [disk EXCEPT ![f] = h] /\ edited' = edited \cup {f}
    BY <1>4 DEF edit, Held, Hashes
  <2>1. \A g \in Files : g \notin edited' => disk'[g] = disk[g]
    BY DEF Shapes
  <2> QED
    BY <1>4, <2>1, PhaseSteps DEF FailureRestores, planned
<1>5. CASE loseJournal \/ halted
  BY <1>5, PhaseSteps DEF loseJournal, halted, vars, FailureRestores, planned
<1> QED
  BY <1>1, <1>2, <1>3, <1>4, <1>5, EndRestores, StepKinds

\* The report stays true until the next apply.
LEMMA TellsStep ==
  ASSUME Shapes, SlotMeaning, PreflightPassed, NotBegun, UndoOrder, AllIn, DiskTracked, StatusTellsDisk, Next
  PROVE  StatusTellsDisk'
<1>1. CASE apply \/ preflightFails
  <2>1. Looked
    BY <1>1, ApplyLooks, FailedLook
  <2>2. \A f \in planned' : Told(f)'
    BY <2>1 DEF Looked, Known, planned, Told
  <2> QED
    BY <2>2 DEF StatusTellsDisk, Told
<1>2. CASE Works
  <2>1. run'.pc # "idle"
    BY <1>2, SetAsideEffect, MoveInEffect, CommitFailsEffect, UndoEffect, UndoFailsEffect, PhaseSteps DEF Works
  <2> QED
    BY <2>1 DEF StatusTellsDisk
<1>3. CASE crash
  BY <1>3 DEF crash, Shapes, Reports, StatusTellsDisk
<1>4. CASE edit
  <2> PICK f \in Files, h \in Held : disk' = [disk EXCEPT ![f] = h] /\ edited' = edited \cup {f}
    BY <1>4 DEF edit, Held, Hashes
  <2>1. \A g \in Files : g \notin edited' => disk'[g] = disk[g]
    BY DEF Shapes
  <2> QED
    BY <1>4, <2>1, PhaseSteps DEF StatusTellsDisk, planned
<1>5. CASE loseJournal \/ halted
  BY <1>5, PhaseSteps DEF loseJournal, halted, vars, StatusTellsDisk, planned
<1> QED
  BY <1>1, <1>2, <1>3, <1>4, <1>5, EndTells, StepKinds

\* What a person wrote is given up only by the person, or under --force.
LEMMA OverwriteStep ==
  ASSUME Shapes, SlotMeaning, PreflightPassed, CommitOrder, DiskTracked, Next,
         NEW f \in Files, disk[f] \in Foreign, disk'[f] # disk[f]
  PROVE  f \in edited' \/ run.force
<1>1. CASE edit
  <2> PICK g \in Files, h \in Held : disk' = [disk EXCEPT ![g] = h] /\ edited' = edited \cup {g}
    BY <1>1 DEF edit, Held, Hashes
  <2> QED
    BY DEF Shapes
<1>2. ASSUME setAside \/ moveIn \/ undo, f \notin edited, ~run.force
      PROVE  FALSE
  <2>1. f = run.at /\ run.pc # "idle"
    BY <1>2, SetAsideEffect, MoveInEffect, UndoEffect DEF OthersKept
  <2>2. slot[f].pending
    BY <1>2, <2>1, SetAsideEffect, MoveInEffect, UndoEffect DEF SlotMeaning
  <2>3. run.plan[f] # Gone /\ run.plan[f] \in Contents /\ f \in planned
    BY <2>2 DEF SlotMeaning, planned, Shapes, Reports
  <2>4. slot[f].seen \in {Gone} \cup Contents
    BY <2>1, <2>2, <1>2 DEF PreflightPassed, SlotMeaning, Underway
  <2>5. disk[f] = expected(f)
    BY <1>2, <2>1, <2>3 DEF DiskTracked, Underway
  <2>6. disk[f] \in {Gone} \cup Contents
    BY <2>3, <2>4, <2>5 DEF expected
  <2> QED
    BY <2>6, HashAssumption
<1>3. edit \/ setAside \/ moveIn \/ undo
  BY ApplyLooks, FailedLook
     DEF Looked, Known, Next, stage, stageFails, stageAborted, writeIntent, intentFails, skipFile, commitFails,
         commitAborted, committedAll, undoFails, finishUndo, verify, crash, loseJournal, halted, vars
<1>4. setAside \/ moveIn \/ undo => edited' = edited
  BY DEF setAside, moveIn, undo
<1> QED
  BY <1>1, <1>2, <1>3, <1>4
-----------------------------------------------------------------------------
\* The inductive invariant of an apply.
ApplyInv ==
  /\ TypeOK
  /\ SlotMeaning
  /\ PreflightPassed
  /\ NotBegun
  /\ CommitOrder
  /\ UndoOrder
  /\ AllIn
  /\ DiskTracked
  /\ OldBytes
  /\ IntentRecorded
  /\ JournalKnows
  /\ StatusTellsDisk
  /\ FailureRestores

\* It holds at first.
LEMMA ApplyInit == Init => ApplyInv
<1> SUFFICES ASSUME Init PROVE ApplyInv
  OBVIOUS
<1>1. run.pc = "idle" /\ run.outcome = "none"
  BY DEF Init
<1>2. run \in Reports
  <2>1. 0 \in 0 .. N + 1
    BY SizeAssumption
  <2> QED
    BY <2>1 DEF Init, Reports, Phases, Outcomes
<1>3. journal \in [Files -> Entries] /\ \A f \in Files : journal[f] = NoEntry
  BY DEF Init, Entries, NoEntry
<1>4. slot \in [Files -> Slots] /\ \A f \in Files : slot[f] = blankSlot
  BY BlankSlotTyped DEF Init
<1>5. disk \in [Files -> Held] /\ overridden = {} /\ edited = {}
  BY DEF Init, Held, Hashes
<1>6. spent \in Bounds
  BY BoundsAssumption DEF Init, Bounds
<1>7. TypeOK
  BY <1>2, <1>3, <1>4, <1>5, <1>6, TypesAreShapes DEF Shapes
<1>8. SlotMeaning
  BY <1>4 DEF SlotMeaning, blankSlot
<1>9. JournalKnows
  BY <1>3 DEF JournalKnows
<1> QED
  BY <1>1, <1>7, <1>8, <1>9 DEF ApplyInv, PreflightPassed, NotBegun, CommitOrder, UndoOrder, AllIn, DiskTracked,
     OldBytes, IntentRecorded, StatusTellsDisk, FailureRestores, Underway

\* Every step keeps it.
LEMMA ApplyStep == ApplyInv /\ [Next]_vars => ApplyInv'
<1> SUFFICES ASSUME ApplyInv, [Next]_vars PROVE ApplyInv'
  OBVIOUS
<1>1. CASE Next
  <2>1. Shapes /\ spent \in Bounds
    BY TypesAreShapes DEF ApplyInv
  <2>2. Shapes' /\ spent' \in Bounds
    BY <1>1, <2>1, TypeStep DEF ApplyInv
  <2>3. TypeOK'
    BY <2>2 DEF TypeOK, Shapes, Held, Entries, Slots, Reports, Bounds
  <2>4. SlotMeaning' /\ PreflightPassed' /\ NotBegun' /\ CommitOrder' /\ UndoOrder' /\ AllIn'
    BY <1>1, <2>1, MeaningStep, PassedStep, NotBegunStep, CommitStep, UndoStep, AllInStep DEF ApplyInv
  <2>5. DiskTracked' /\ OldBytes' /\ IntentRecorded'
    BY <1>1, <2>1, TrackedStep, OldBytesStep, IntentStep DEF ApplyInv
  <2>6. JournalKnows' /\ StatusTellsDisk' /\ FailureRestores'
    BY <1>1, <2>1, <2>2, JournalStep, TellsStep, RestoredStep DEF ApplyInv
  <2> QED
    BY <2>3, <2>4, <2>5, <2>6 DEF ApplyInv
<1>2. CASE UNCHANGED vars
  BY <1>2 DEF vars, ApplyInv, TypeOK, SlotMeaning, PreflightPassed, NotBegun, CommitOrder, UndoOrder, AllIn,
     DiskTracked, OldBytes, IntentRecorded, JournalKnows, StatusTellsDisk, FailureRestores,
     Underway, planned, todo, expected
<1> QED
  BY <1>1, <1>2

\* What the journal knows, the next apply recognises.
LEMMA KnownNeedsNoForce ==
  JournalKnows => RerunNeedsNoForce
BY HashAssumption DEF JournalKnows, RerunNeedsNoForce, disposition, ours

\* It holds of every reachable state.
THEOREM ApplyInvariant == Spec => []ApplyInv
BY ApplyInit, ApplyStep, PTL DEF Spec

\* The variables of applyWrites keep their shapes; the journal never records a
\* person's bytes as the tool's own.
THEOREM ApplyTypes == Spec => []TypeOK
<1>1. ApplyInv => TypeOK
  BY DEF ApplyInv
<1> QED
  BY <1>1, ApplyInvariant, PTL

\* The statuses that applyWrites returns tell what is on disk, after any failure,
\* rollback, abort or read-back, for trees of any size.
THEOREM ReportsAreTrue == Spec => []StatusTellsDisk
<1>1. ApplyInv => StatusTellsDisk
  BY DEF ApplyInv
<1> QED
  BY <1>1, ApplyInvariant, PTL

\* After any history of crashes, failures and rollbacks the next apply recognises
\* what the tool wrote: the intent record of touchJournal covers every rename.
THEOREM RepairNeedsNoForce == Spec => []RerunNeedsNoForce
<1>1. ApplyInv => RerunNeedsNoForce
  BY KnownNeedsNoForce DEF ApplyInv
<1> QED
  BY <1>1, ApplyInvariant, PTL

\* No step of setAside, of moveIn or of the rollback takes away what a person
\* wrote, unless the apply has --force or the person wrote after preflight.
THEOREM PeopleKeepTheirFiles == Spec => OnlyForceOverwrites
<1>1. ApplyInv /\ [Next]_vars =>
        [\A f \in Files : disk[f] \in Foreign /\ disk'[f] # disk[f] => f \in edited' \/ run.force]_vars
  <2> SUFFICES ASSUME ApplyInv, Next
               PROVE  \A f \in Files : disk[f] \in Foreign /\ disk'[f] # disk[f] => f \in edited' \/ run.force
    OBVIOUS
  <2>1. Shapes
    BY TypesAreShapes DEF ApplyInv
  <2> QED
    BY <2>1, OverwriteStep DEF ApplyInv
<1> QED
  BY <1>1, ApplyInvariant, PTL DEF Spec, OnlyForceOverwrites

\* A failed or aborted apply is all or nothing: applyWrites restores each file it
\* had moved, or warns of it.
THEOREM GivingUpRestores == Spec => []FailureRestores
<1>1. ApplyInv => FailureRestores
  BY DEF ApplyInv
<1> QED
  BY <1>1, ApplyInvariant, PTL
-----------------------------------------------------------------------------
(* THE STORE *)

Calling == {"open", "stat", "unlink", "read", "compare", "stage", "rename"}

(* A writer in a call has updates left.                                    *)
UpdatesLeft == \A w \in Writers : pc[w] \in Calling => done[w] < Updates

OwnsLock ==
  ~stolen => \A w \in Writers : pc[w] \in Inside => lock # None /\ lock.owner = w

ReadIsCurrent ==
  ~stolen => \A w \in Writers :
               pc[w] \in {"compare", "stage", "rename"} => before[w] = file

StagedIsWhole ==
  \A w \in Writers : pc[w] = "rename" => tmp[w] = before[w] \cup {mark(w)}

StoreInv ==
  /\ StoreTypeOK
  /\ UpdatesLeft
  /\ StagedIsWhole
  /\ OwnsLock
  /\ ReadIsCurrent
  /\ LossNeedsTheft

(* Until a lock is stolen a step leaves the file alone, or makes one whole *)
(* update of what the file holds at that moment: this is what lets a model *)
(* of the grants or of the ledger take updateFile for a single action.     *)
WholeUpdates ==
  [][~stolen =>
       \/ file' = file
       \/ \E w \in Writers : /\ file' = file \cup {mark(w)}
                             /\ done' = [done EXCEPT ![w] = @ + 1]]_storeVars

(* The steps of one writer, with the two that only a bounded number of     *)
(* times happen.                                                           *)
WriterStep(w) == step(w) \/ writeFails(w) \/ die(w)
-----------------------------------------------------------------------------
\* Who owns the lock is alone until it is stolen.
LEMMA OwnerIsUnique ==
  OwnsLock => ExclusiveUntilStolen
BY DEF OwnsLock, ExclusiveUntilStolen

\* The mark of a writer has its shape.
LEMMA MarkTyped ==
  ASSUME StoreTypeOK, UpdatesLeft, NEW w \in Writers, pc[w] \in Calling
  PROVE  mark(w) \in Marks /\ done[w] + 1 \in 0..Updates
BY StoreAssumption DEF StoreTypeOK, UpdatesLeft, mark, Marks

(* The shapes are kept by every step.                                      *)
LEMMA StoreTypeStep ==
  ASSUME StoreTypeOK, UpdatesLeft, StagedIsWhole, StoreNext
  PROVE  StoreTypeOK'
<1> USE StoreAssumption
<1>1. ASSUME NEW w \in Writers, WriterStep(w)
      PROVE  StoreTypeOK'
  <2>1. CASE callUpdate(w)
    BY <2>1 DEF callUpdate, goto, StoreTypeOK, Steps
  <2>2. CASE openLock(w)
    <3>1. lock' \in {None} \cup [owner : Writers, old : BOOLEAN]
      <4>1. CASE lock' = lock
        BY <4>1 DEF StoreTypeOK
      <4>2. CASE lock' = [owner |-> w, old |-> FALSE]
        BY <4>2
      <4> QED
        BY <2>2, <4>1, <4>2 DEF openLock
    <3>2. pc' \in [Writers -> Steps]
      BY <2>2 DEF openLock, goto, StoreTypeOK, Steps, Inside
    <3> QED
      BY <2>2, <3>1, <3>2 DEF openLock, StoreTypeOK
  <2>3. CASE statLock(w)
    BY <2>3 DEF statLock, nextAttempt, goto, StoreTypeOK, Steps
  <2>4. CASE unlinkStale(w)
    BY <2>4 DEF unlinkStale, removeLock, nextAttempt, goto, StoreTypeOK, Steps
  <2>5. CASE readFile(w)
    BY <2>5 DEF readFile, goto, StoreTypeOK, Steps, Inside
  <2>6. CASE decline(w)
    BY <2>6, MarkTyped DEF decline, goto, StoreTypeOK, Steps, Inside, Calling
  <2>7. CASE compare(w)
    BY <2>7 DEF compare, goto, StoreTypeOK, Steps, Inside
  <2>8. CASE writeTemp(w)
    BY <2>8, MarkTyped DEF writeTemp, goto, StoreTypeOK, Steps, Inside, Calling
  <2>9. CASE rename(w)
    <3>1. mark(w) \in Marks /\ done[w] + 1 \in 0..Updates
      BY <2>9, MarkTyped DEF rename, Calling
    <3>2. tmp[w] = before[w] \cup {mark(w)}
      BY <2>9 DEF rename, StagedIsWhole
    <3>3. tmp[w] \in SUBSET Marks
      BY <3>1, <3>2 DEF StoreTypeOK
    <3>4. tmp[w] # Partial
      BY <3>3 DEF Marks
    <3> QED
      BY <2>9, <3>1, <3>3, <3>4 DEF rename, goto, StoreTypeOK, Steps, Inside
  <2>10. CASE release(w)
    BY <2>10 DEF release, removeLock, goto, StoreTypeOK, Steps
  <2>11. CASE writeFails(w)
    BY <2>11 DEF writeFails, goto, StoreTypeOK, Steps, Inside
  <2>12. CASE die(w)
    BY <2>12 DEF die, goto, StoreTypeOK, Steps
  <2> QED
    BY <1>1, <2>1, <2>2, <2>3, <2>4, <2>5, <2>6, <2>7, <2>8, <2>9, <2>10,
       <2>11, <2>12 DEF WriterStep, step
<1>2. CASE age
  BY <1>2 DEF age, StoreTypeOK
<1> QED
  BY <1>1, <1>2 DEF StoreNext, WriterStep

(* What a writer staged is what it read with its own mark added.           *)
LEMMA CallStep ==
  ASSUME StoreTypeOK, UpdatesLeft, StagedIsWhole, StoreNext
  PROVE  UpdatesLeft' /\ StagedIsWhole'
<1> USE StoreAssumption DEF StoreTypeOK, UpdatesLeft, StagedIsWhole, mark, Calling
<1>1. ASSUME NEW w \in Writers, WriterStep(w)
      PROVE  UpdatesLeft' /\ StagedIsWhole'
  <2>1. CASE callUpdate(w)
    BY <2>1 DEF callUpdate, goto
  <2>2. CASE openLock(w)
    BY <2>2 DEF openLock, goto
  <2>3. CASE statLock(w)
    BY <2>3 DEF statLock, nextAttempt, goto
  <2>4. CASE unlinkStale(w)
    BY <2>4 DEF unlinkStale, removeLock, nextAttempt, goto
  <2>5. CASE readFile(w)
    BY <2>5 DEF readFile, goto
  <2>6. CASE decline(w)
    BY <2>6 DEF decline, goto
  <2>7. CASE compare(w)
    BY <2>7 DEF compare, goto
  <2>8. CASE writeTemp(w)
    BY <2>8 DEF writeTemp, goto
  <2>9. CASE rename(w)
    BY <2>9 DEF rename, goto
  <2>10. CASE release(w)
    BY <2>10 DEF release, removeLock, goto
  <2>11. CASE writeFails(w)
    BY <2>11 DEF writeFails, goto
  <2>12. CASE die(w)
    BY <2>12 DEF die, goto
  <2> QED
    BY <1>1, <2>1, <2>2, <2>3, <2>4, <2>5, <2>6, <2>7, <2>8, <2>9, <2>10,
       <2>11, <2>12 DEF WriterStep, step
<1>2. CASE age
  BY <1>2 DEF age
<1> QED
  BY <1>1, <1>2 DEF StoreNext, WriterStep

(* Whoever is inside the lock owns the lock file, until a theft.           *)
LEMMA LockStep ==
  ASSUME StoreTypeOK, OwnsLock, StoreNext
  PROVE  OwnsLock'
<1> USE StoreAssumption DEF StoreTypeOK, OwnsLock, Inside
<1>1. ASSUME NEW w \in Writers, WriterStep(w)
      PROVE  OwnsLock'
  <2>1. CASE callUpdate(w)
    BY <2>1 DEF callUpdate, goto
  <2>2. CASE openLock(w)
    <3>1. CASE lock = None
      <4>1. lock' = [owner |-> w, old |-> FALSE]
        BY <2>2, <3>1 DEF openLock
      <4>2. lock'.owner = w /\ lock' # None
        <5>1. [owner |-> w, old |-> FALSE] \in [owner : Writers, old : BOOLEAN]
          OBVIOUS
        <5> QED
          BY <4>1, <5>1
      <4>3. stolen' = stolen /\ \A v \in Writers : v # w => pc'[v] = pc[v]
        BY <2>2 DEF openLock, goto
      <4> QED
        BY <3>1, <4>2, <4>3
    <3>2. CASE lock # None
      BY <2>2, <3>2 DEF openLock, goto
    <3> QED
      BY <3>1, <3>2
  <2>3. CASE statLock(w)
    BY <2>3 DEF statLock, nextAttempt, goto
  <2>4. CASE unlinkStale(w)
    BY <2>4 DEF unlinkStale, removeLock, nextAttempt, goto
  <2>5. CASE readFile(w)
    BY <2>5 DEF readFile, goto
  <2>6. CASE decline(w)
    BY <2>6 DEF decline, goto
  <2>7. CASE compare(w)
    BY <2>7 DEF compare, goto
  <2>8. CASE writeTemp(w)
    BY <2>8 DEF writeTemp, goto
  <2>9. CASE rename(w)
    BY <2>9 DEF rename, goto
  <2>10. CASE release(w)
    BY <2>10 DEF release, removeLock, goto
  <2>11. CASE writeFails(w)
    BY <2>11 DEF writeFails, goto
  <2>12. CASE die(w)
    BY <2>12 DEF die, goto
  <2> QED
    BY <1>1, <2>1, <2>2, <2>3, <2>4, <2>5, <2>6, <2>7, <2>8, <2>9, <2>10,
       <2>11, <2>12 DEF WriterStep, step
<1>2. CASE age
  BY <1>2 DEF age
<1> QED
  BY <1>1, <1>2 DEF StoreNext, WriterStep

(* Only a writer that owns the lock changes the file, so what another has  *)
(* read is not overwritten behind its back, until a theft.                 *)
LEMMA ContentStep ==
  ASSUME StoreTypeOK, StagedIsWhole, OwnsLock, ReadIsCurrent, LossNeedsTheft, StoreNext
  PROVE  ReadIsCurrent' /\ LossNeedsTheft'
<1> USE StoreAssumption DEF StoreTypeOK, ReadIsCurrent, LossNeedsTheft
<1>1. ASSUME NEW w \in Writers, WriterStep(w)
      PROVE  ReadIsCurrent' /\ LossNeedsTheft'
  <2>1. CASE callUpdate(w)
    BY <2>1 DEF callUpdate, goto
  <2>2. CASE openLock(w)
    BY <2>2 DEF openLock, goto
  <2>3. CASE statLock(w)
    BY <2>3 DEF statLock, nextAttempt, goto
  <2>4. CASE unlinkStale(w)
    BY <2>4 DEF unlinkStale, removeLock, nextAttempt, goto
  <2>5. CASE readFile(w)
    BY <2>5 DEF readFile, goto
  <2>6. CASE decline(w)
    BY <2>6 DEF decline, goto
  <2>7. CASE compare(w)
    BY <2>7 DEF compare, goto
  <2>8. CASE writeTemp(w)
    BY <2>8 DEF writeTemp, goto
  <2>9. CASE rename(w)
    <3>1. SUFFICES ASSUME ~stolen
                   PROVE  ReadIsCurrent' /\ LossNeedsTheft'
      BY <2>9 DEF rename
    <3>2. \A v \in Writers : pc[v] \in Inside => v = w
      BY <2>9, <3>1 DEF rename, OwnsLock, Inside
    <3>3. file' = file \cup {mark(w)}
      BY <2>9, <3>1 DEF rename, StagedIsWhole
    <3>4. LossNeedsTheft'
      BY <2>9, <3>1, <3>3 DEF rename
    <3>5. \A v \in Writers : pc'[v] \notin {"compare", "stage", "rename"}
      BY <2>9, <3>2 DEF rename, goto, Inside
    <3> QED
      BY <3>4, <3>5
  <2>10. CASE release(w)
    BY <2>10 DEF release, removeLock, goto
  <2>11. CASE writeFails(w)
    BY <2>11 DEF writeFails, goto
  <2>12. CASE die(w)
    BY <2>12 DEF die, goto
  <2> QED
    BY <1>1, <2>1, <2>2, <2>3, <2>4, <2>5, <2>6, <2>7, <2>8, <2>9, <2>10,
       <2>11, <2>12 DEF WriterStep, step
<1>2. CASE age
  BY <1>2 DEF age
<1> QED
  BY <1>1, <1>2 DEF StoreNext, WriterStep
-----------------------------------------------------------------------------
(* The inductive invariant holds of every reachable state.                 *)
THEOREM StoreInvariant == StoreSpec => []StoreInv
<1>1. StoreInit => StoreInv
  <2> SUFFICES ASSUME StoreInit
               PROVE  StoreInv
    OBVIOUS
  <2> USE StoreAssumption DEF StoreInit
  <2>1. StoreTypeOK
    <3>1. done \in [Writers -> 0..Updates]
      OBVIOUS
    <3>2. tmp \in [Writers -> {None, Partial} \cup SUBSET Marks]
      OBVIOUS
    <3> QED
      BY <3>1, <3>2 DEF StoreTypeOK, Steps
  <2>2. UpdatesLeft /\ StagedIsWhole
    BY DEF UpdatesLeft, StagedIsWhole, Calling
  <2>3. OwnsLock /\ ReadIsCurrent /\ LossNeedsTheft
    BY DEF OwnsLock, ReadIsCurrent, LossNeedsTheft, Inside
  <2> QED
    BY <2>1, <2>2, <2>3 DEF StoreInv
<1>2. StoreInv /\ [StoreNext]_storeVars => StoreInv'
  <2> SUFFICES ASSUME StoreInv, [StoreNext]_storeVars
               PROVE  StoreInv'
    OBVIOUS
  <2>1. CASE StoreNext
    BY <2>1, StoreTypeStep, CallStep, LockStep, ContentStep DEF StoreInv
  <2>2. CASE UNCHANGED storeVars
    BY <2>2
    DEF storeVars, StoreInv, StoreTypeOK, UpdatesLeft, StagedIsWhole, OwnsLock,
        ReadIsCurrent, LossNeedsTheft, mark
  <2> QED
    BY <2>1, <2>2
<1> QED
  BY <1>1, <1>2, PTL DEF StoreSpec

(* The shapes of the variables; in them, that the file is always a whole   *)
(* content: atomicWriteFile renames only what it has finished writing.     *)
THEOREM StoreTypes == StoreSpec => []StoreTypeOK
<1>1. StoreInv => StoreTypeOK
  BY DEF StoreInv
<1> QED
  BY <1>1, StoreInvariant, PTL

(* withFileLock serialises read-modify-write while no lock is stolen.      *)
THEOREM Exclusive == StoreSpec => []ExclusiveUntilStolen
<1>1. StoreInv => ExclusiveUntilStolen
  BY OwnerIsUnique DEF StoreInv
<1> QED
  BY <1>1, StoreInvariant, PTL

(* updateFile loses no update while no lock is stolen.                     *)
THEOREM NoLossWithoutTheft == StoreSpec => []LossNeedsTheft
<1>1. StoreInv => LossNeedsTheft
  BY DEF StoreInv
<1> QED
  BY <1>1, StoreInvariant, PTL

(* The read, the comparison, the staging and the rename of an updateFile   *)
(* that is not robbed of its lock amount to one atomic update.             *)
THEOREM UpdatesAreWhole == StoreSpec => WholeUpdates
<1>1. StoreInv /\ [StoreNext]_storeVars =>
        [~stolen =>
           \/ file' = file
           \/ \E w \in Writers : /\ file' = file \cup {mark(w)}
                                 /\ done' = [done EXCEPT ![w] = @ + 1]]_storeVars
  <2> SUFFICES ASSUME StoreInv, StoreNext, ~stolen, file' # file
               PROVE  \E w \in Writers : /\ file' = file \cup {mark(w)}
                                         /\ done' = [done EXCEPT ![w] = @ + 1]
    OBVIOUS
  <2>1. PICK w \in Writers : rename(w)
    BY DEF StoreNext, step, callUpdate, openLock, statLock, unlinkStale, readFile,
           decline, compare, writeTemp, release, writeFails, die, age
  <2>2. tmp[w] = before[w] \cup {mark(w)} /\ before[w] = file
    BY <2>1 DEF StoreInv, StagedIsWhole, ReadIsCurrent, rename
  <2> QED
    BY <2>1, <2>2 DEF rename
<1> QED
  BY <1>1, StoreInvariant, PTL DEF StoreSpec, WholeUpdates
=============================================================================
