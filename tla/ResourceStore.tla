----------------------------- MODULE ResourceStore -----------------------------
(***************************************************************************)
(* One resource of packages/resources/store.ts: a directory with a file    *)
(* per revision, a head that names the latest, and a lock directory around *)
(* a change.  Each action is one file-system operation that other calls    *)
(* can observe, and what the call does around it.  Any operation may fail, *)
(* and the process may die between any two steps; nobody removes a lock    *)
(* that was left behind.  ResourceRegistry.activate reads the resource     *)
(* once more before it calls the store.                                    *)
(***************************************************************************)
EXTENDS Naturals, Sequences

CONSTANTS
  Clients,      \* calls of the store that may overlap
  Actors,
  Definitions,
  MaxRevision,  \* bound on the revisions of the resource
  MaxFailures,  \* bound on the operations that fail
  MaxCrashes,   \* bound on the process deaths
  Partial,      \* a file that is being written, or was
  None

ASSUME ResourceAssumption == MaxRevision \in Nat \ {0} /\ MaxFailures \in Nat /\ MaxCrashes \in Nat

VARIABLES
  file,      \* per revision: its record, Partial while it is written, or None
  head,      \* the latest revision, 0 before the first
  lock,      \* the lock directory exists
  proposed,  \* the directory of the resource exists
  call,      \* per client: its call, or None
  answer,    \* per client: the revision its last call was told of, 0 for none
  failures, crashes

vars == <<file, head, lock, proposed, call, answer, failures, crashes>>

Numbers == 1 .. MaxRevision
Records == [state : {"draft", "active"}, definition : Definitions, actor : Actors]
Requests == [kind : {"get"}]
            \cup [kind : {"propose"}, actor : Actors, definition : Definitions]
            \cup [kind : {"revise"}, actor : Actors, definition : Definitions, expected : 1 .. MaxRevision - 1]
            \cup [kind : {"activate"}, actor : Actors, expected : 1 .. MaxRevision - 1]

\* A get is at its head, its file or its source; a change is behind its gets.
Steps == {"head", "file", "source", "lock", "open", "write", "move", "sync"}
Afters == {"answer", "prepare", "lock", "write", "compare"}

Calls == [request : Requests, since : 0 .. MaxRevision, landed : 0 .. MaxRevision,
          step : Steps, after : Afters, seen : 0 .. MaxRevision,
          read : {None} \cup Records, record : {None} \cup Records]

ASSUME NoneAssumption ==
  None \notin Calls /\ None \notin [request : Requests, since : 0 .. MaxRevision, landed : 0 .. MaxRevision]

TypeOK ==
  /\ file \in [Numbers -> {None, Partial} \cup Records]
  /\ head \in 0 .. MaxRevision /\ lock \in BOOLEAN /\ proposed \in BOOLEAN
  /\ call \in [Clients -> {None} \cup Calls]
  /\ answer \in [Clients -> 0 .. MaxRevision]
  /\ failures \in 0 .. MaxFailures /\ crashes \in 0 .. MaxCrashes

Init ==
  /\ file = [n \in Numbers |-> None] /\ head = 0 /\ lock = FALSE /\ proposed = FALSE
  /\ call = [c \in Clients |-> None] /\ answer = [c \in Clients |-> 0]
  /\ failures = 0 /\ crashes = 0

at(c, step) == call[c] # None /\ call[c].step = step
kind(c) == call[c].request.kind
bounds == UNCHANGED <<failures, crashes>>

\* Whether the call is between change's mkdir of the lock and its finally.
holdsLock(c) == kind(c) # "propose" /\ call[c].after \in {"write", "compare"}

\* The end of a call, with a revision or, 0, with an error.
finish(c, n) ==
  /\ call' = [call EXCEPT ![c] = None] /\ answer' = [answer EXCEPT ![c] = n]
  /\ lock' = (lock /\ ~holdsLock(c))

proceed(q) == call' = q /\ UNCHANGED <<answer, lock>>

-----------------------------------------------------------------------------
(* The calls, and get: the head, the file it names, an active one's draft *)

\* What a revision will hold.
drafted(q) == [state |-> "draft", definition |-> q.definition, actor |-> q.actor]
activated(q, r) == [state |-> "active", definition |-> r.definition, actor |-> q.actor]

begin(c) ==
  /\ call[c] = None
  /\ \E q \in Requests :
       /\ q.kind = "propose" => ~proposed
       /\ proposed' = (proposed \/ q.kind = "propose")
       /\ call' = [call EXCEPT ![c] =
            [request |-> q, since |-> head, landed |-> 0, seen |-> 0,
             step |-> IF q.kind = "propose" THEN "open" ELSE "head",
             after |-> CASE q.kind = "activate" -> "prepare" [] q.kind = "revise" -> "lock" [] OTHER -> "answer",
             read |-> None,
             record |-> IF q.kind = "propose" THEN drafted(q) ELSE None]]
  /\ answer' = [answer EXCEPT ![c] = 0]
  /\ UNCHANGED <<file, head, lock>> /\ bounds

readHead(c) ==
  /\ at(c, "head")
  /\ IF head = 0 THEN finish(c, 0)
     ELSE proceed([call EXCEPT ![c].step = "file", ![c].seen = head])
  /\ UNCHANGED <<file, head, proposed>> /\ bounds

\* The revision a get has found, and what it was for.
transformable(c, r) ==
  /\ kind(c) = "activate" => r.state = "draft" /\ r.actor # call[c].request.actor

transformed(c, r) ==
  IF kind(c) = "activate" THEN activated(call[c].request, r) ELSE drafted(call[c].request)

\* Whether the revision under the lock is the one the caller knows.
asExpectedOnce(c) == call[c].seen >= call[c].request.expected
asExpected(c) == call[c].seen = call[c].request.expected

found(c, r) ==
  \/ call[c].after = "answer" /\ finish(c, call[c].seen)
  \/ /\ call[c].after = "prepare" /\ call[c].seen = call[c].request.expected
     /\ proceed([call EXCEPT ![c].step = "head", ![c].after = "lock", ![c].read = None])
  \/ /\ call[c].after = "lock"
     /\ proceed([call EXCEPT ![c].step = "lock", ![c].read = None])
  \/ /\ call[c].after = "write" /\ asExpected(c) /\ transformable(c, r)
     /\ proceed([call EXCEPT ![c].step = "open", ![c].record = transformed(c, r), ![c].read = None])
  \/ call[c].after = "compare" /\ call[c].seen = call[c].landed /\ r = call[c].record /\ finish(c, call[c].landed)

\* A function the registry does not have, or not for this project, is refused too.
rejected(c, r) ==
  \/ call[c].after = "prepare"
  \/ call[c].after = "write" /\ ~(asExpected(c) /\ transformable(c, r))
  \/ call[c].after = "compare" /\ ~(call[c].seen = call[c].landed /\ r = call[c].record)

readFile(c) ==
  /\ at(c, "file")
  /\ LET r == file[call[c].seen]
     IN \/ r \in Records /\ r.state = "draft" /\ found(c, r)
        \/ r \in Records /\ r.state = "active" /\ proceed([call EXCEPT ![c].step = "source", ![c].read = r])
        \/ (r \in Records => r.state = "draft" /\ rejected(c, r)) /\ finish(c, 0)
  /\ UNCHANGED <<file, head, proposed>> /\ bounds

\* What get asks of an active revision: another person's draft before it, as it was.
reviewed(c) ==
  /\ call[c].seen > 1 /\ file[call[c].seen - 1] \in Records
  /\ LET source == file[call[c].seen - 1]
     IN source.state = "draft" /\ source.actor # call[c].read.actor /\ source.definition = call[c].read.definition

readSource(c) ==
  /\ at(c, "source")
  /\ \/ reviewed(c) /\ found(c, call[c].read)
     \/ (reviewed(c) => rejected(c, call[c].read)) /\ finish(c, 0)
  /\ UNCHANGED <<file, head, proposed>> /\ bounds

-----------------------------------------------------------------------------
(* change and write *)

makeLock(c) ==
  /\ at(c, "lock")
  /\ IF lock
     THEN finish(c, 0)
     ELSE /\ call' = [call EXCEPT ![c].step = "head", ![c].after = "write"]
          /\ lock' = TRUE /\ UNCHANGED answer
  /\ UNCHANGED <<file, head, proposed>> /\ bounds

\* The revision a call writes; its file is created and must not exist (wx).
number(c) == IF kind(c) = "propose" THEN 1 ELSE call[c].seen + 1

openFile(c) ==
  /\ at(c, "open")
  /\ IF file[number(c)] # None
     THEN finish(c, 0) /\ UNCHANGED file
     ELSE file' = [file EXCEPT ![number(c)] = Partial] /\ proceed([call EXCEPT ![c].step = "write"])
  /\ UNCHANGED <<head, proposed>> /\ bounds

writeFile(c) ==
  /\ at(c, "write")
  /\ file' = [file EXCEPT ![number(c)] = call[c].record]
  /\ proceed([call EXCEPT ![c].step = "move"])
  /\ UNCHANGED <<head, proposed>> /\ bounds

\* The head is written beside and renamed.
moveHead(c) ==
  /\ at(c, "move")
  /\ head' = number(c)
  /\ proceed([call EXCEPT ![c].step = "sync", ![c].landed = number(c)])
  /\ UNCHANGED <<file, proposed>> /\ bounds

\* The directory is synced, and the revision read back.
sync(c) ==
  /\ at(c, "sync")
  /\ proceed([call EXCEPT ![c].step = "head", ![c].after = "compare"])
  /\ UNCHANGED <<file, head, proposed>> /\ bounds

\* An operation fails, be it a write, the lock, or a read of a head that is renamed
\* meanwhile.  What was written stays; the lock goes, if its removal does not fail.
operationFails(c) ==
  /\ call[c] # None
  /\ failures < MaxFailures /\ failures' = failures + 1
  /\ call' = [call EXCEPT ![c] = None] /\ answer' = [answer EXCEPT ![c] = 0]
  /\ lock' \in {lock, lock /\ ~holdsLock(c)}
  /\ UNCHANGED <<file, head, proposed, crashes>>

\* The process dies: a lock stays for ever, and with it every file.
crash ==
  /\ crashes < MaxCrashes /\ crashes' = crashes + 1
  /\ call' = [c \in Clients |-> None]
  /\ UNCHANGED <<file, head, lock, proposed, answer, failures>>

Next ==
  \/ \E c \in Clients :
       \/ begin(c) \/ readHead(c) \/ readFile(c) \/ readSource(c) \/ makeLock(c) \/ openFile(c)
       \/ writeFile(c) \/ moveHead(c) \/ sync(c) \/ operationFails(c)
  \/ crash

Spec == Init /\ [][Next]_vars

-----------------------------------------------------------------------------
(* Properties *)

\* The store keeps the promise of ResourceHistory whatever calls overlap, fail or
\* die: its history is the files up to the head.
History == INSTANCE ResourceHistory WITH
  history <- [n \in 1 .. head |-> file[n]],
  call <- [c \in Clients |-> IF call[c] = None THEN None
                             ELSE [request |-> call[c].request, since |-> call[c].since, landed |-> call[c].landed]]

HistoryPromise == History!Spec
=============================================================================
