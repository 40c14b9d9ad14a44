------------------------------ MODULE FileStore ------------------------------
(***************************************************************************)
(* One JSON file that several processes read, change and write back:       *)
(* withFileLock, updateFile and atomicWriteFile of packages/store, under   *)
(* which packages/approvals keeps its grants and packages/registry its     *)
(* ledger.                                                                 *)
(*                                                                         *)
(* Each call to the file system is a step of its own.  A writer is one     *)
(* process; it makes Updates calls of updateFile and calls again when one  *)
(* is refused.  The content of the file is the set of the marks its writes *)
(* have left: the n-th call of writer w adds the mark <<w, n>> to what it  *)
(* read.                                                                   *)
(***************************************************************************)
EXTENDS Naturals

CONSTANTS
  Writers,
  Updates,       \* calls of updateFile that each writer makes
  LOCK_ATTEMPTS, \* rounds of withFileLock before FileStoreBusyError
  MayOverstay,   \* may a live writer hold the lock past STALE_LOCK_MS?
  MaxCrashes,    \* bound on the processes that die in a call
  MaxFailures,   \* bound on the writes that fail while they are staged
  None,
  Partial        \* what a file holds while it is being written

ASSUME StoreAssumption ==
  /\ Updates \in Nat
  /\ LOCK_ATTEMPTS \in Nat \ {0}
  /\ MayOverstay \in BOOLEAN
  /\ MaxCrashes \in Nat
  /\ MaxFailures \in Nat
  /\ None \notin [owner : Writers, old : BOOLEAN]
  /\ \A content \in SUBSET (Writers \X (1..Updates)) : content # Partial

VARIABLES
  file,     \* the content: a set of marks, {} when it was never written
  lock,     \* the lock file: None or [owner, old], old once its mtime is stale
  pc,       \* pc[w]: the next file-system call of w
  attempt,  \* attempt[w]: rounds of the lock loop that w has used up
  before,   \* before[w]: what w read under the lock
  tmp,      \* tmp[w]: the staged temporary file of w
  done,     \* done[w]: the calls of updateFile that w has completed
  landed,   \* history: the marks that were renamed into place
  stolen,   \* history: has a live writer's lock been removed by another?
  crashes, failures

storeVars == <<file, lock, pc, attempt, before, tmp, done, landed, stolen, crashes,
          failures>>

Marks == Writers \X (1..Updates)

mark(w) == <<w, done[w] + 1>>

Inside == {"read", "compare", "stage", "rename", "release"}

Steps == Inside \cup {"idle", "open", "stat", "unlink", "dead"}

goto(w, step) == pc' = [pc EXCEPT ![w] = step]

StoreInit ==
  /\ file = {}
  /\ lock = None
  /\ pc = [w \in Writers |-> "idle"]
  /\ attempt = [w \in Writers |-> 0]
  /\ before = [w \in Writers |-> {}]
  /\ tmp = [w \in Writers |-> None]
  /\ done = [w \in Writers |-> 0]
  /\ landed = {}
  /\ stolen = FALSE
  /\ crashes = 0
  /\ failures = 0

(* A call of updateFile; a refused one is made again.                      *)
callUpdate(w) ==
  /\ pc[w] = "idle"
  /\ done[w] < Updates
  /\ goto(w, "open")
  /\ attempt' = [attempt EXCEPT ![w] = 0]
  /\ UNCHANGED <<file, lock, before, tmp, done, landed, stolen, crashes, failures>>

(* openSync(lock, "wx"): the creation is the lock.                         *)
openLockAnyway(w) ==
  /\ pc[w] = "open"
  /\ lock' = [owner |-> w, old |-> FALSE]
  /\ goto(w, "read")
  /\ UNCHANGED <<file, attempt, before, tmp, done, landed, stolen, crashes, failures>>

openLock(w) ==
  /\ pc[w] = "open"
  /\ \/ /\ lock = None
        /\ lock' = [owner |-> w, old |-> FALSE]
        /\ goto(w, "read")
     \/ /\ lock # None
        /\ goto(w, "stat")
        /\ UNCHANGED lock
  /\ UNCHANGED <<file, attempt, before, tmp, done, landed, stolen, crashes, failures>>

(* The next round of the loop, or FileStoreBusyError after the last.       *)
nextAttempt(w) ==
  /\ attempt' = [attempt EXCEPT ![w] = @ + 1]
  /\ goto(w, IF attempt[w] + 1 < LOCK_ATTEMPTS THEN "open" ELSE "idle")

(* The age of the lock file that is there now.                             *)
statLiveLock(w) ==
  /\ pc[w] = "stat"
  /\ nextAttempt(w)
  /\ UNCHANGED <<file, lock, before, tmp, done, landed, stolen, crashes, failures>>

statLock(w) ==
  /\ pc[w] = "stat"
  /\ IF lock # None /\ lock.old
     THEN goto(w, "unlink") /\ UNCHANGED attempt
     ELSE nextAttempt(w)
  /\ UNCHANGED <<file, lock, before, tmp, done, landed, stolen, crashes, failures>>

(* unlinkSync(lock), by name: whoever's lock it is by now.                 *)
removeLock(w) ==
  /\ lock' = None
  /\ stolen' = (stolen \/ (/\ lock # None
                           /\ lock.owner # w
                           /\ pc[lock.owner] # "dead"))

unlinkStale(w) ==
  /\ pc[w] = "unlink"
  /\ removeLock(w)
  /\ nextAttempt(w)
  /\ UNCHANGED <<file, before, tmp, done, landed, crashes, failures>>

readFile(w) ==
  /\ pc[w] = "read"
  /\ before' = [before EXCEPT ![w] = file]
  /\ goto(w, "compare")
  /\ UNCHANGED <<file, lock, attempt, tmp, done, landed, stolen, crashes, failures>>

(* change returned null, or threw: the call ends without a write.          *)
decline(w) ==
  /\ pc[w] = "compare"
  /\ done' = [done EXCEPT ![w] = @ + 1]
  /\ goto(w, "release")
  /\ UNCHANGED <<file, lock, attempt, before, tmp, landed, stolen, crashes, failures>>

(* Read again; a file that moved is a FileStoreConflictError, else the     *)
(* temporary file is created and the write begins.                         *)
compare(w) ==
  /\ pc[w] = "compare"
  /\ \/ /\ file # before[w]
        /\ goto(w, "release")
        /\ UNCHANGED tmp
     \/ /\ file = before[w]
        /\ goto(w, "stage")
        /\ tmp' = [tmp EXCEPT ![w] = Partial]
  /\ UNCHANGED <<file, lock, attempt, before, done, landed, stolen, crashes, failures>>

(* writeSync and fsyncSync of the temporary file.                          *)
writeTempHalf(w) ==
  /\ pc[w] = "stage"
  /\ goto(w, "rename")
  /\ UNCHANGED <<file, lock, attempt, before, tmp, done, landed, stolen, crashes,
                 failures>>

writeTempAlone(w) ==
  /\ pc[w] = "stage"
  /\ tmp' = [tmp EXCEPT ![w] = {mark(w)}]
  /\ goto(w, "rename")
  /\ UNCHANGED <<file, lock, attempt, before, done, landed, stolen, crashes, failures>>

writeTemp(w) ==
  /\ pc[w] = "stage"
  /\ tmp' = [tmp EXCEPT ![w] = before[w] \cup {mark(w)}]
  /\ goto(w, "rename")
  /\ UNCHANGED <<file, lock, attempt, before, done, landed, stolen, crashes, failures>>

(* The write or the rename failed: the temporary file is removed and the   *)
(* error leaves through the finally that releases the lock.                *)
writeFails(w) ==
  /\ failures < MaxFailures
  /\ pc[w] \in {"stage", "rename"}
  /\ failures' = failures + 1
  /\ tmp' = [tmp EXCEPT ![w] = None]
  /\ goto(w, "release")
  /\ UNCHANGED <<file, lock, attempt, before, done, landed, stolen, crashes>>

rename(w) ==
  /\ pc[w] = "rename"
  /\ file' = tmp[w]
  /\ tmp' = [tmp EXCEPT ![w] = None]
  /\ landed' = landed \cup {mark(w)}
  /\ done' = [done EXCEPT ![w] = @ + 1]
  /\ goto(w, "release")
  /\ UNCHANGED <<lock, attempt, before, stolen, crashes, failures>>

(* The finally of withFileLock: it does not ask whose lock it is.          *)
release(w) ==
  /\ pc[w] = "release"
  /\ removeLock(w)
  /\ goto(w, "idle")
  /\ UNCHANGED <<file, attempt, before, tmp, done, landed, crashes, failures>>

(* The process dies in the middle of a call and leaves its lock and its    *)
(* temporary file behind.                                                  *)
die(w) ==
  /\ crashes < MaxCrashes
  /\ pc[w] \notin {"idle", "dead"}
  /\ crashes' = crashes + 1
  /\ goto(w, "dead")
  /\ UNCHANGED <<file, lock, attempt, before, tmp, done, landed, stolen, failures>>

(* STALE_LOCK_MS pass: always over a dead owner's lock, over a live one's  *)
(* only if it may overstay.                                                *)
age ==
  /\ lock # None
  /\ ~lock.old
  /\ MayOverstay \/ pc[lock.owner] = "dead"
  /\ lock' = [lock EXCEPT !.old = TRUE]
  /\ UNCHANGED <<file, pc, attempt, before, tmp, done, landed, stolen, crashes,
                 failures>>

step(w) ==
  \/ callUpdate(w) \/ openLock(w) \/ statLock(w) \/ unlinkStale(w)
  \/ readFile(w) \/ decline(w) \/ compare(w) \/ writeTemp(w) \/ rename(w) \/ release(w)

StoreNext ==
  \/ \E w \in Writers : step(w) \/ writeFails(w) \/ die(w)
  \/ age

StoreSpec == StoreInit /\ [][StoreNext]_storeVars

(* A process that is not dead goes on with its call, and time passes.      *)
FairSpec == StoreSpec /\ (\A w \in Writers : WF_storeVars(step(w))) /\ WF_storeVars(age)
-----------------------------------------------------------------------------
(* The shapes of the variables.  The file itself is a whole content at     *)
(* every moment, also when a writer dies in the middle of a write: no      *)
(* reader ever finds a half-written one.                                   *)
StoreTypeOK ==
  /\ file # Partial
  /\ file \in SUBSET Marks
  /\ lock \in {None} \cup [owner : Writers, old : BOOLEAN]
  /\ pc \in [Writers -> Steps]
  /\ attempt \in [Writers -> Nat]
  /\ before \in [Writers -> SUBSET Marks]
  /\ tmp \in [Writers -> {None, Partial} \cup SUBSET Marks]
  /\ done \in [Writers -> 0..Updates]
  /\ landed \in SUBSET Marks
  /\ stolen \in BOOLEAN
  /\ crashes \in Nat
  /\ failures \in Nat

(* Read-modify-write is serialised: until some live writer's lock has been *)
(* removed by another, at most one writer is between taking and releasing  *)
(* the lock.                                                               *)
ExclusiveUntilStolen ==
  ~stolen =>
    \A v, w \in Writers : pc[v] \in Inside /\ pc[w] \in Inside => v = w

(* Nothing that was renamed into place disappears, and nothing is written  *)
(* over a change the writer has not seen, until a lock has been stolen.    *)
LossNeedsTheft ==
  ~stolen => landed = file

(* Whatever dies, fails or overstays, every writer that lives completes    *)
(* all its calls: a dead writer's lock does not brick the store.           *)
StoreRecovers ==
  <>[](\A w \in Writers : pc[w] = "dead" \/ (pc[w] = "idle" /\ done[w] = Updates))

(* "The lock makes conflicts rare and the check makes a missed one loud"   *)
(* (packages/store/src/atomic-file.ts): whatever happens to the lock, an   *)
(* update that landed is not lost in silence.                              *)
MissedLockIsLoud == landed \subseteq file
=============================================================================
