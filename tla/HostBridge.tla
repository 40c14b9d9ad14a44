----------------------------- MODULE HostBridge -----------------------------
(***************************************************************************)
(* A browser request that the host passes to the Studio: packages/         *)
(* host-bridge.  The host prepares the request before its body is          *)
(* uploaded, issues a single-use handle for it, and calls the Studio, whose *)
(* service consumes the handle and has its lease checked before and after   *)
(* it touches the draft store; the host confirms once more and replies.     *)
(* Every check is three awaited reads, between which the session, the      *)
(* policy, the connection, the clock and the host itself may change.       *)
(***************************************************************************)
EXTENDS Integers, FiniteSets

CONSTANTS
  Requests,      \* browser requests; each has at most one handle
  Attempts,      \* invocations of the Studio
  maxInvocations,
  MaxChanges     \* bound: changes of the host's session and of the policy

ASSUME LimitAssumption == maxInvocations \in Nat \ {0}
ASSUME ChangesAssumption == MaxChanges \in Nat \ {0}
ASSUME ActorsAssumption == Requests \cap Attempts = {} /\ IsFiniteSet(Requests)

VARIABLES
  host,        \* HostState: whether it is valid for the target, and its versions
  policy,      \* the revision under which the policy permits, 0 when it denies
  closed,
  request,     \* per request: where it is, and what it is bound to
  entry,       \* per request: its handle in the registry
  lapsed,      \* requests whose connection has gone or whose time is up
  attempt,     \* per invocation
  reading,     \* per request and invocation: the version its check began with
  held,        \* checks during which the whole authority held at one instant
  accesses     \* per request: how often the draft store was touched for it

vars == <<host, policy, closed, request, entry, lapsed, attempt, reading, held, accesses>>

Versions == 0 .. MaxChanges
Actors == Requests \cup Attempts
RequestSteps == {"new", "preflight2", "preflight3", "upload", "issue1", "issue2", "issue3",
                 "call", "waiting", "answer", "confirm1", "confirm2", "confirm3", "replied", "failed"}
AttemptSteps == {"new", "consume", "consume1", "consume2", "consume3", "check", "check1", "check2", "check3",
                 "access", "recheck", "recheck1", "recheck2", "recheck3", "answered", "failed"}

TypeOK ==
  /\ host \in [valid : BOOLEAN, version : Versions]
  /\ policy \in Versions /\ closed \in BOOLEAN
  /\ request \in [Requests -> [pc : RequestSteps, version : Versions, policy : Versions]]
  /\ entry \in [Requests -> {"none", "open", "consumed", "finished"}]
  /\ Cardinality({r \in Requests : entry[r] \in {"open", "consumed"}}) <= maxInvocations
  /\ lapsed \subseteq Requests
  /\ attempt \in [Attempts -> [pc : AttemptSteps, for : Requests, own : BOOLEAN]]
  /\ reading \in [Actors -> Versions]
  /\ held \subseteq Actors
  /\ accesses \in [Requests -> Nat]

Init ==
  /\ host = [valid |-> TRUE, version |-> 0] /\ policy = 1 /\ closed = FALSE
  /\ request = [r \in Requests |-> [pc |-> "new", version |-> 0, policy |-> 0]]
  /\ entry = [r \in Requests |-> "none"] /\ lapsed = {}
  /\ \E r \in Requests : attempt = [a \in Attempts |-> [pc |-> "new", for |-> r, own |-> FALSE]]
  /\ reading = [u \in Actors |-> 0] /\ held = {}
  /\ accesses = [r \in Requests |-> 0]

-----------------------------------------------------------------------------
(* The registry *)

\* finish: the entry is revoked and leaves the registry, with its lease.
finish(rs) == entry' = [r \in Requests |-> IF r \in rs /\ entry[r] # "none" THEN "finished" ELSE entry[r]]

\* prune drops every entry that lapsed.
pruned == [r \in Requests |-> IF r \in lapsed /\ entry[r] # "none" THEN "finished" ELSE entry[r]]
live(e) == {r \in Requests : e[r] \in {"open", "consumed"}}

revoked(r) == entry[r] = "finished"

\* What a handle stands for, in whole.
authority(r) ==
  /\ host.valid /\ host.version = request[r].version /\ policy = request[r].policy
  /\ ~closed /\ ~revoked(r) /\ r \notin lapsed

\* Kept for the properties: the checks in progress that have seen it whole.
checking == {r \in Requests : request[r].pc \in {"confirm1", "confirm2", "confirm3"}}
            \cup {a \in Attempts : attempt[a].pc \in {"consume1", "consume2", "consume3", "check1", "check2",
                                                      "check3", "recheck1", "recheck2", "recheck3"}}
requestOf(u) == IF u \in Requests THEN u ELSE attempt[u].for
Watch == held' = {u \in checking' : authority(requestOf(u))'} \cup {u \in held : u \in checking \/ u \notin checking'}

-----------------------------------------------------------------------------
(* fresh: two reads of the session around one of the policy *)

bound(r) == ~closed /\ ~revoked(r) /\ r \notin lapsed

current == host.valid
sameAsBinding(r) == current /\ host.version = request[r].version
permits(r) == policy # 0 /\ policy = request[r].policy
stillBound(u, r) == current /\ bound(r)
stillSame(u, r) == current /\ host.version = reading[u] /\ bound(r)

read(u) == reading' = [reading EXCEPT ![u] = host.version]

-----------------------------------------------------------------------------
(* The host's side of a request *)

to(r, pc) == request' = [request EXCEPT ![r].pc = pc]
fail(r) == to(r, "failed") /\ finish({r})
hostOnly == UNCHANGED <<host, policy, closed, lapsed, attempt, accesses>>

\* preflight, before the body: session, policy, session, all as one.
preflight1(r) ==
  /\ request[r].pc = "new"
  /\ IF ~closed /\ current
     THEN /\ request' = [request EXCEPT ![r].pc = "preflight2", ![r].version = host.version]
          /\ read(r) /\ UNCHANGED entry
     ELSE fail(r) /\ UNCHANGED reading
  /\ hostOnly

preflight2(r) ==
  /\ request[r].pc = "preflight2"
  /\ IF policy # 0
     THEN request' = [request EXCEPT ![r].pc = "preflight3", ![r].policy = policy] /\ UNCHANGED entry
     ELSE fail(r)
  /\ UNCHANGED reading /\ hostOnly

preflight3(r) ==
  /\ request[r].pc = "preflight3"
  /\ IF ~closed /\ current /\ host.version = reading[r] THEN to(r, "upload") /\ UNCHANGED entry ELSE fail(r)
  /\ UNCHANGED reading /\ hostOnly

\* issue claims the ticket before its first await.
issue(r) ==
  /\ request[r].pc = "upload"
  /\ IF closed \/ r \in lapsed THEN to(r, "failed") ELSE to(r, "issue1")
  /\ entry' = IF closed THEN entry ELSE pruned
  /\ UNCHANGED reading /\ hostOnly

\* The session is still the one of the ticket.
issue1(r) ==
  /\ request[r].pc = "issue1"
  /\ IF sameAsBinding(r) THEN to(r, "issue2") /\ read(r) /\ UNCHANGED entry ELSE fail(r) /\ UNCHANGED reading
  /\ hostOnly

issue2(r) ==
  /\ request[r].pc = "issue2"
  /\ IF permits(r) THEN to(r, "issue3") /\ UNCHANGED entry ELSE fail(r)
  /\ UNCHANGED reading /\ hostOnly

hasRoomForOneMore == Cardinality(live(pruned)) <= maxInvocations

\* The registry is full only with entries that have not lapsed.
hasRoom == Cardinality(live(pruned)) < maxInvocations

\* The last read, the capacity check and the new entry are one step.
issue3(r) ==
  /\ request[r].pc = "issue3"
  /\ IF stillSame(r, r) /\ hasRoom
     THEN to(r, "call") /\ entry' = [pruned EXCEPT ![r] = "open"]
     ELSE to(r, "failed") /\ entry' = IF stillSame(r, r) THEN pruned ELSE entry
  /\ UNCHANGED reading /\ hostOnly

\* The host calls the Studio, once.
call(r, a) ==
  /\ request[r].pc = "call" /\ attempt[a].pc = "new"
  /\ attempt' = [attempt EXCEPT ![a] = [pc |-> "consume", for |-> r, own |-> TRUE]]
  /\ to(r, "waiting")
  /\ UNCHANGED <<host, policy, closed, entry, lapsed, reading, accesses>>

\* The Studio's answer, or its failure, or the timer of the private client.
answer(r) ==
  /\ request[r].pc = "waiting"
  /\ \/ /\ \E a \in Attempts : attempt[a].for = r /\ attempt[a].own /\ attempt[a].pc = "answered"
        /\ to(r, "answer") /\ UNCHANGED entry
     \/ fail(r)
  /\ UNCHANGED reading /\ hostOnly

\* confirm, of a handle that was consumed, and then the reply.
confirm(r) ==
  /\ request[r].pc = "answer"
  /\ IF entry[r] = "consumed" /\ bound(r) THEN to(r, "confirm1") /\ UNCHANGED entry ELSE fail(r)
  /\ UNCHANGED reading /\ hostOnly

confirm1(r) ==
  /\ request[r].pc = "confirm1"
  /\ IF sameAsBinding(r) THEN to(r, "confirm2") /\ read(r) /\ UNCHANGED entry ELSE fail(r) /\ UNCHANGED reading
  /\ hostOnly

confirm2(r) ==
  /\ request[r].pc = "confirm2"
  /\ IF permits(r) THEN to(r, "confirm3") /\ UNCHANGED entry ELSE fail(r)
  /\ UNCHANGED reading /\ hostOnly

\* Replied or not, the handle is finished.
confirm3(r) ==
  /\ request[r].pc = "confirm3"
  /\ to(r, IF stillSame(r, r) THEN "replied" ELSE "failed")
  /\ finish({r})
  /\ UNCHANGED reading /\ hostOnly

-----------------------------------------------------------------------------
(* The Studio's side: an invocation *)

goto(a, pc) == attempt' = [attempt EXCEPT ![a].pc = pc]
studioOnly == UNCHANGED <<host, policy, closed, request, lapsed>>

\* A second invocation with the same handle.
duplicate(a, r) ==
  /\ attempt[a].pc = "new" /\ entry[r] # "none"
  /\ attempt' = [attempt EXCEPT ![a] = [pc |-> "consume", for |-> r, own |-> FALSE]]
  /\ UNCHANGED <<entry, reading, accesses>> /\ studioOnly

known(e, r) == e[r] \in {"open", "consumed"}
unclaimed(e, r) == e[r] = "open"

\* The synchronous claim before the first await.
consume(a) ==
  /\ attempt[a].pc = "consume"
  /\ LET r == attempt[a].for IN
       IF ~closed /\ unclaimed(pruned, r)
       THEN goto(a, "consume1") /\ entry' = [pruned EXCEPT ![r] = "consumed"]
       ELSE goto(a, "failed") /\ entry' = IF closed THEN entry ELSE pruned
  /\ UNCHANGED <<reading, accesses>> /\ studioOnly

\* A lease is checked: at the entry to the store, and again after it.
check(a, before, first) ==
  /\ attempt[a].pc = before
  /\ LET r == attempt[a].for IN
       IF ~closed /\ pruned[r] = "consumed" THEN goto(a, first) ELSE goto(a, "failed")
  /\ entry' = IF closed THEN entry ELSE pruned
  /\ UNCHANGED <<reading, accesses>> /\ studioOnly

\* fresh fails: a consume that fails finishes the handle, a check leaves it.
refuse(a) ==
  /\ goto(a, "failed")
  /\ IF attempt[a].pc \in {"consume1", "consume2", "consume3"} THEN finish({attempt[a].for}) ELSE UNCHANGED entry

fresh1(a, first, second) ==
  /\ attempt[a].pc = first
  /\ IF sameAsBinding(attempt[a].for)
     THEN goto(a, second) /\ read(a) /\ UNCHANGED entry ELSE refuse(a) /\ UNCHANGED reading
  /\ UNCHANGED accesses /\ studioOnly

fresh2(a, second, third) ==
  /\ attempt[a].pc = second
  /\ IF permits(attempt[a].for) THEN goto(a, third) /\ UNCHANGED entry ELSE refuse(a)
  /\ UNCHANGED <<reading, accesses>> /\ studioOnly

fresh3(a, third, after) ==
  /\ attempt[a].pc = third
  /\ IF stillSame(a, attempt[a].for) THEN goto(a, after) /\ UNCHANGED entry ELSE refuse(a)
  /\ UNCHANGED <<reading, accesses>> /\ studioOnly

\* The draft service reads or writes the store; not atomic with the check.
access(a) ==
  /\ attempt[a].pc = "access"
  /\ accesses' = [accesses EXCEPT ![attempt[a].for] = @ + 1]
  /\ goto(a, "recheck")
  /\ UNCHANGED <<entry, reading>> /\ studioOnly

\* The store refuses (a missing draft, a revision conflict) or throws.
accessFails(a) ==
  /\ attempt[a].pc = "access" /\ goto(a, "failed")
  /\ UNCHANGED <<entry, reading, accesses>> /\ studioOnly

Consume(a) == consume(a) \/ fresh1(a, "consume1", "consume2") \/ fresh2(a, "consume2", "consume3")
              \/ fresh3(a, "consume3", "check")
Check(a) == check(a, "check", "check1") \/ fresh1(a, "check1", "check2") \/ fresh2(a, "check2", "check3")
            \/ fresh3(a, "check3", "access")
Recheck(a) == check(a, "recheck", "recheck1") \/ fresh1(a, "recheck1", "recheck2")
              \/ fresh2(a, "recheck2", "recheck3") \/ fresh3(a, "recheck3", "answered")

-----------------------------------------------------------------------------
(* The surroundings *)

\* The host moves its opaque versions with every change of the session.
sessionChanges ==
  /\ host.version < MaxChanges
  /\ host' \in [valid : BOOLEAN, version : {host.version + 1}]
  /\ UNCHANGED <<policy, closed, request, entry, lapsed, attempt, reading, accesses>>

policyChanges ==
  /\ policy' \in Versions \ {policy} /\ (policy' = 0 \/ policy' > policy)
  /\ UNCHANGED <<host, closed, request, entry, lapsed, attempt, reading, accesses>>

\* The browser disconnects, or ttlMs has passed.
lapse(r) ==
  /\ r \notin lapsed /\ request[r].pc \notin {"new", "replied", "failed"}
  /\ lapsed' = lapsed \cup {r}
  /\ UNCHANGED <<host, policy, closed, request, entry, attempt, reading, accesses>>

close ==
  /\ ~closed /\ closed' = TRUE
  /\ finish(Requests)
  /\ UNCHANGED <<host, policy, request, lapsed, attempt, reading, accesses>>

Host(r) == preflight1(r) \/ preflight2(r) \/ preflight3(r) \/ issue(r) \/ issue1(r) \/ issue2(r) \/ issue3(r)
           \/ answer(r) \/ confirm(r) \/ confirm1(r) \/ confirm2(r) \/ confirm3(r)

Studio(a) == Consume(a) \/ Check(a) \/ access(a) \/ accessFails(a) \/ Recheck(a)

Step ==
  \/ \E r \in Requests : Host(r) \/ lapse(r) \/ \E a \in Attempts : call(r, a) \/ duplicate(a, r)
  \/ \E a \in Attempts : Studio(a)
  \/ sessionChanges \/ policyChanges \/ close

Next == Step /\ Watch

Spec == Init /\ [][Next]_vars

-----------------------------------------------------------------------------
(* Properties *)

\* Whoever passes a check - the Studio before it touches the store, the Studio
\* before it answers, the host before it replies - did so on an authority that
\* held whole at one instant of that very check: the session the request was
\* prepared under, the policy revision it was issued under, the connection, the
\* time and the open registry.
FreshAuthority ==
  /\ \A a \in Attempts : attempt[a].pc \in {"check", "access", "recheck", "answered"} => a \in held
  /\ \A r \in Requests : request[r].pc = "replied" => r \in held

\* A handle serves once: however often it is presented, one invocation passes
\* it, the store is touched at most once for it, and a reply means exactly once.
UsedOnce ==
  \A r \in Requests :
    /\ accesses[r] <= 1
    /\ request[r].pc = "replied" => accesses[r] = 1
=============================================================================
