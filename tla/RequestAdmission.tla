--------------------------- MODULE RequestAdmission ---------------------------
(***************************************************************************)
(* The process-local, zero-queue admission of requests that spend a model  *)
(* or an adapter (server/request-admission.ts): a permit counts against a  *)
(* global, an actor and a project limit until its route has released it    *)
(* AND every operation it tracked has settled, aborted or not.             *)
(*                                                                         *)
(* Every synchronous stretch of the code is one step; promise callbacks    *)
(* come in any order.  A request that is refused (429) leaves nothing      *)
(* behind and may be tried again.                                          *)
(***************************************************************************)
EXTENDS Naturals, FiniteSets

CONSTANTS
  Requests,
  Operations,
  tracks,       \* tracks[r]: the operations that a request may track
  Closers,      \* calls of close: the preClose and the onClose hook
  Actors, Projects,
  actorOf, projectOf,
  global, actor, project  \* the limits

ASSUME AdmissionAssumption ==
  /\ IsFiniteSet(Requests)
  /\ tracks \in [Requests -> SUBSET Operations]
  /\ actorOf \in [Requests -> Actors]
  /\ projectOf \in [Requests -> Projects]
  /\ global \in Nat \ {0}
  /\ actor \in Nat \ {0}
  /\ project \in Nat \ {0}

VARIABLES
  active, actors, projects,  \* the counters; a scope without a key counts 0
  accepting,
  permit,     \* permit[r]: "none", "held", "releasing" or "released"
  aborted,    \* aborted[r]: the signal of the permit
  operation,  \* operation[r][o]: "none", "queued", "running" or "settled"
  pending,    \* pending[r]: the operations release waits for
  closer      \* closer[c]: "none", "waiting", "drained" or "timedOut"

vars == <<active, actors, projects, accepting, permit, aborted, operation, pending,
          closer>>
counters == <<active, actors, projects>>

Init ==
  /\ active = 0
  /\ actors = [a \in Actors |-> 0]
  /\ projects = [p \in Projects |-> 0]
  /\ accepting = TRUE
  /\ permit = [r \in Requests |-> "none"]
  /\ aborted = [r \in Requests |-> FALSE]
  /\ operation = [r \in Requests |-> [o \in Operations |-> "none"]]
  /\ pending = [r \in Requests |-> {}]
  /\ closer = [c \in Closers |-> "none"]

counted(r) == permit[r] \in {"held", "releasing"}

(* The room that is left, before the request takes its share.              *)
hasRoomOrJustOne(r) ==
  /\ active < global
  /\ actors[actorOf[r]] <= actor
  /\ projects[projectOf[r]] < project

hasRoom(r) ==
  /\ active < global
  /\ actors[actorOf[r]] < actor
  /\ projects[projectOf[r]] < project

acquire(r) ==
  /\ permit[r] = "none"
  /\ accepting
  /\ hasRoom(r)
  /\ active' = active + 1
  /\ actors' = [actors EXCEPT ![actorOf[r]] = @ + 1]
  /\ projects' = [projects EXCEPT ![projectOf[r]] = @ + 1]
  /\ permit' = [permit EXCEPT ![r] = "held"]
  /\ UNCHANGED <<accepting, aborted, operation, pending, closer>>

(* The deadline of the request, its 'aborted' event or a closed socket.    *)
abort(r) ==
  /\ counted(r)
  /\ aborted' = [aborted EXCEPT ![r] = TRUE]
  /\ UNCHANGED <<counters, accepting, permit, operation, pending, closer>>

(* track: refused once release was called or the signal is aborted.        *)
track(r, o) ==
  /\ permit[r] = "held"
  /\ ~aborted[r]
  /\ operation[r][o] = "none"
  /\ operation' = [operation EXCEPT ![r][o] = "queued"]
  /\ pending' = [pending EXCEPT ![r] = @ \cup {o}]
  /\ UNCHANGED <<counters, accepting, permit, aborted, closer>>

(* The tracked work starts in a later turn, after a second look at the     *)
(* signal, which may also be that of the caller (upstream).                *)
startAnyway(r, o) ==
  /\ operation[r][o] = "queued"
  /\ operation' = [operation EXCEPT ![r][o] = "running"]
  /\ UNCHANGED pending

start(r, o) ==
  /\ operation[r][o] = "queued"
  /\ \/ /\ ~aborted[r]
        /\ operation' = [operation EXCEPT ![r][o] = "running"]
        /\ UNCHANGED pending
     \/ /\ operation' = [operation EXCEPT ![r][o] = "settled"]
        /\ pending' = [pending EXCEPT ![r] = @ \ {o}]

settleIfFulfilled(r, o) ==
  /\ operation[r][o] = "running"
  /\ operation' = [operation EXCEPT ![r][o] = "settled"]
  /\ pending' \in {pending, [pending EXCEPT ![r] = @ \ {o}]}

(* It settles, fulfilled or rejected, when it likes: perhaps never.        *)
settle(r, o) ==
  /\ operation[r][o] = "running"
  /\ operation' = [operation EXCEPT ![r][o] = "settled"]
  /\ pending' = [pending EXCEPT ![r] = @ \ {o}]

run(r, o) ==
  /\ start(r, o) \/ settle(r, o)
  /\ UNCHANGED <<counters, accepting, permit, aborted, closer>>

(* The end of release: the share is given back and, when it was the last,  *)
(* the waiting closers are told.                                           *)
refundActor(r) ==
  /\ active' = active - 1
  /\ actors' = [actors EXCEPT ![actorOf[r]] = @ - 1]
  /\ permit' = [permit EXCEPT ![r] = "released"]
  /\ closer' = [c \in Closers |-> IF active = 1 /\ closer[c] = "waiting"
                                  THEN "drained" ELSE closer[c]]
  /\ UNCHANGED projects

refund(r) ==
  /\ active' = active - 1
  /\ actors' = [actors EXCEPT ![actorOf[r]] = @ - 1]
  /\ projects' = [projects EXCEPT ![projectOf[r]] = @ - 1]
  /\ permit' = [permit EXCEPT ![r] = "released"]
  /\ closer' = [c \in Closers |-> IF active = 1 /\ closer[c] = "waiting"
                                  THEN "drained" ELSE closer[c]]

releaseAtOnce(r) ==
  /\ permit[r] = "held"
  /\ refund(r)
  /\ UNCHANGED <<accepting, aborted, operation, pending>>

(* The route is over, its operations need not be.  A second call changes   *)
(* nothing: it gets the promise of the first.                              *)
release(r) ==
  /\ permit[r] = "held"
  /\ \/ /\ pending[r] = {}
        /\ refund(r)
     \/ /\ pending[r] # {}
        /\ permit' = [permit EXCEPT ![r] = "releasing"]
        /\ UNCHANGED <<counters, closer>>
  /\ UNCHANGED <<accepting, aborted, operation, pending>>

finishRelease(r) ==
  /\ permit[r] = "releasing"
  /\ pending[r] = {}
  /\ refund(r)
  /\ UNCHANGED <<accepting, aborted, operation, pending>>

stop ==
  /\ accepting' = FALSE
  /\ aborted' = [r \in Requests |-> aborted[r] \/ counted(r)]

closeAtOnce(c) ==
  /\ closer[c] = "none"
  /\ stop
  /\ closer' = [closer EXCEPT ![c] = "drained"]
  /\ UNCHANGED <<counters, permit, operation, pending>>

close(c) ==
  /\ closer[c] = "none"
  /\ stop
  /\ closer' = [closer EXCEPT ![c] = IF active = 0 THEN "drained" ELSE "waiting"]
  /\ UNCHANGED <<counters, permit, operation, pending>>

(* drainMs are over: "request admission drain incomplete".                 *)
drainTimeout(c) ==
  /\ closer[c] = "waiting"
  /\ closer' = [closer EXCEPT ![c] = "timedOut"]
  /\ UNCHANGED <<counters, accepting, permit, aborted, operation, pending>>

Next ==
  \/ \E r \in Requests : acquire(r) \/ abort(r) \/ release(r) \/ finishRelease(r)
  \/ \E r \in Requests : \E o \in tracks[r] : track(r, o) \/ run(r, o)
  \/ \E c \in Closers : close(c) \/ drainTimeout(c)

Spec == Init /\ [][Next]_vars

(* Promise callbacks and timers run; no work and no route has to end.      *)
FairSpec ==
  /\ Spec
  /\ \A r \in Requests : WF_vars(finishRelease(r))
  /\ \A c \in Closers : WF_vars(drainTimeout(c))
-----------------------------------------------------------------------------
Permits == {"none", "held", "releasing", "released"}
OperationStates == {"none", "queued", "running", "settled"}
CloserStates == {"none", "waiting", "drained", "timedOut"}

(* The shapes of the variables; the counters stay within their limits.     *)
TypeOK ==
  /\ active \in 0..global
  /\ actors \in [Actors -> 0..actor]
  /\ projects \in [Projects -> 0..project]
  /\ accepting \in BOOLEAN
  /\ permit \in [Requests -> Permits]
  /\ aborted \in [Requests -> BOOLEAN]
  /\ operation \in [Requests -> [Operations -> OperationStates]]
  /\ pending \in [Requests -> SUBSET Operations]
  /\ closer \in [Closers -> CloserStates]

held == {r \in Requests : counted(r)}
inScope(S, scopeOf, x) == {r \in S : scopeOf[r] = x}

(* No share is lost and none is given back twice: each counter is the      *)
(* number of permits that are not refunded.                                *)
CountersAreExact ==
  /\ active = Cardinality(held)
  /\ \A a \in Actors : actors[a] = Cardinality(inScope(held, actorOf, a))
  /\ \A p \in Projects : projects[p] = Cardinality(inScope(held, projectOf, p))

(* The limits bound the work, not only the permits: also work that was     *)
(* aborted, or that outlives its route, takes the room of a new request.   *)
working(r) == \E o \in Operations : operation[r][o] \in {"queued", "running"}

busy == {r \in Requests : working(r)}

WorkIsBounded ==
  /\ Cardinality(busy) <= global
  /\ \A a \in Actors : Cardinality(inScope(busy, actorOf, a)) <= actor
  /\ \A p \in Projects : Cardinality(inScope(busy, projectOf, p)) <= project

(* A close that resolves tells the truth: nothing is at work, and nothing  *)
(* holds a permit.                                                         *)
DrainedIsQuiet ==
  (\E c \in Closers : closer[c] = "drained") =>
    \A r \in Requests : ~counted(r) /\ ~working(r)

(* After stop no tracked work starts any more, also what was queued.       *)
NoWorkAfterStop ==
  [][~accepting =>
       \A r \in Requests, o \in Operations :
         operation'[r][o] = "running" => operation[r][o] = "running"]_vars

(* A released permit whose operations have settled gives its room back.    *)
RoomComesBack ==
  \A r \in Requests :
    (permit[r] = "releasing" /\ ~working(r)) ~> permit[r] = "released"
=============================================================================
