--------------------------- MODULE HostBridgeProofs ---------------------------
(***************************************************************************)
(* For any number of requests, invocations and changes of the host: every  *)
(* check that is passed saw the whole authority at one of its instants,    *)
(* and a handle serves once.                                               *)
(*                                                                         *)
(* The instant is the read of the policy between the two reads of the      *)
(* session.  When the second read finds the version of the first, nothing  *)
(* in the session has changed between them (versions only grow, and the    *)
(* session changes only with its version); the connection, the time, the   *)
(* handle and the registry are never restored once they are gone.  So      *)
(* whoever is about to read for the last time either holds already         *)
(* (ThirdRead) or will find a difference.                                  *)
(***************************************************************************)
EXTENDS HostBridge, FiniteSetTheorems, TLAPS

Entries == {"none", "open", "consumed", "finished"}

(* Where a check is: before its read of the policy, or after it.           *)
Second == {"confirm2", "consume2", "check2", "recheck2"}
Third == {"confirm3", "consume3", "check3", "recheck3"}

(* Before a request has its handle.                                        *)
Unissued == {"new", "preflight2", "preflight3", "upload", "issue1", "issue2", "issue3"}

(* An invocation that has the handle.                                      *)
Serving == {"consume1", "consume2", "consume3", "check", "check1", "check2", "check3", "access",
            "recheck", "recheck1", "recheck2", "recheck3", "answered"}
Served == {"recheck", "recheck1", "recheck2", "recheck3", "answered"}

pcOf(u) == IF u \in Requests THEN request[u].pc ELSE attempt[u].pc

-----------------------------------------------------------------------------
(* Shapes *)

\* One changed value leaves a function of its type.
LEMMA ExceptTyped ==
  ASSUME NEW S, NEW T, NEW f \in [S -> T], NEW x, NEW y \in T
  PROVE  [f EXCEPT ![x] = y] \in [S -> T]
OBVIOUS

\* A count that is raised stays a count.
LEMMA CountTyped ==
  ASSUME NEW S, NEW f \in [S -> Nat], NEW x \in S
  PROVE  f[x] + 1 \in Nat
<1>1. f[x] \in Nat
  OBVIOUS
<1> QED
  BY <1>1

RequestRecords == [pc : RequestSteps, version : Versions, policy : Versions]
AttemptRecords == [pc : AttemptSteps, for : Requests, own : BOOLEAN]

\* Every change a step makes to a request or an attempt leaves it one.
LEMMA RecordsClosed ==
  /\ \A q \in RequestRecords, x \in RequestSteps : [q EXCEPT !.pc = x] \in RequestRecords
  /\ \A q \in RequestRecords, x \in RequestSteps, v \in Versions :
       [q EXCEPT !.pc = x, !.version = v] \in RequestRecords /\ [q EXCEPT !.pc = x, !.policy = v] \in RequestRecords
  /\ \A q \in AttemptRecords, x \in AttemptSteps : [q EXCEPT !.pc = x] \in AttemptRecords
BY Zenon DEF RequestRecords, AttemptRecords

(* The registry holds no more than before.                                 *)
LEMMA LiveShrinks ==
  ASSUME TypeOK, NEW e \in [Requests -> Entries],
         \A r \in Requests : e[r] \in {"open", "consumed"} => entry[r] \in {"open", "consumed"}
  PROVE  Cardinality(live(e)) <= maxInvocations /\ Cardinality(live(e)) \in Nat /\ IsFiniteSet(live(e))
<1>1. live(e) \subseteq live(entry) /\ live(entry) \subseteq Requests
  BY DEF live
<1>2. IsFiniteSet(live(entry)) /\ IsFiniteSet(live(e))
  BY <1>1, ActorsAssumption, FS_Subset
<1>3. Cardinality(live(e)) <= Cardinality(live(entry))
  BY <1>1, <1>2, FS_Subset
<1>4. Cardinality(live(entry)) <= maxInvocations
  BY DEF TypeOK, live
<1>5. Cardinality(live(e)) \in Nat /\ Cardinality(live(entry)) \in Nat
  BY <1>2, FS_CardinalityType
<1> QED
  BY <1>2, <1>3, <1>4, <1>5, LimitAssumption

\* Pruning ends entries and does nothing else.
LEMMA PrunedTyped ==
  ASSUME TypeOK
  PROVE  /\ pruned \in [Requests -> Entries]
         /\ \A r \in Requests : pruned[r] = entry[r] \/ (entry[r] # "none" /\ pruned[r] = "finished")
BY DEF pruned, TypeOK, Entries

\* Finishing entries ends them and does nothing else.
LEMMA FinishTyped ==
  ASSUME TypeOK, NEW rs, finish(rs)
  PROVE  /\ entry' \in [Requests -> Entries]
         /\ \A r \in Requests : entry'[r] = entry[r] \/ (entry[r] # "none" /\ entry'[r] = "finished")
         /\ \A r \in Requests \cap rs : entry'[r] \in {"none", "finished"}
<1>1. \A r \in Requests : entry[r] \in Entries
  BY DEF TypeOK, Entries
<1> QED
  BY <1>1 DEF finish, Entries

-----------------------------------------------------------------------------
(* What a step may do to the registry: an entry is made by issue, claimed  *)
(* by consume, and finished by anybody, for good.                          *)

Finished(r) == entry[r] # "none" /\ entry'[r] = "finished"
Issued(r) == entry'[r] = "open" /\ request[r].pc = "issue3" /\ request'[r].pc = "call"
Claimed(r) ==
  /\ entry[r] = "open" /\ entry'[r] = "consumed"
  /\ \E a \in Attempts : attempt[a].pc = "consume" /\ attempt[a].for = r /\ attempt'[a].pc = "consume1"

EntryMoves == \A r \in Requests : entry'[r] = entry[r] \/ Finished(r) \/ Issued(r) \/ Claimed(r)

EntryOK == entry' \in [Requests -> Entries] /\ Cardinality(live(entry')) <= maxInvocations

\* A step that only ends entries keeps what entries promise.
LEMMA QuietEntry ==
  ASSUME TypeOK, entry' \in [Requests -> Entries], \A r \in Requests : entry'[r] = entry[r] \/ Finished(r)
  PROVE  EntryOK /\ EntryMoves
<1>1. \A r \in Requests : entry'[r] \in {"open", "consumed"} => entry[r] \in {"open", "consumed"}
  BY DEF Finished
<1> QED
  BY <1>1, LiveShrinks DEF EntryOK, EntryMoves

\* The entry of a request that is just issued is open.
LEMMA IssuedEntry ==
  ASSUME TypeOK, NEW r \in Requests, request[r].pc = "issue3", entry[r] = "none", hasRoom, to(r, "call"),
         entry' = [pruned EXCEPT ![r] = "open"]
  PROVE  EntryOK /\ EntryMoves
<1>1. pruned \in [Requests -> Entries] /\ \A q \in Requests : pruned[q] = entry[q] \/ (entry[q] # "none" /\ pruned[q] = "finished")
  BY PrunedTyped
<1>2. entry' \in [Requests -> Entries]
  BY <1>1 DEF Entries
<1>3. /\ Cardinality(live(pruned)) <= maxInvocations /\ Cardinality(live(pruned)) \in Nat
      /\ IsFiniteSet(live(pruned))
  BY <1>1, LiveShrinks
<1>4. live(entry') = live(pruned) \cup {r} /\ r \notin live(pruned)
  <2>1. \A q \in Requests : entry'[q] = IF q = r THEN "open" ELSE pruned[q]
    BY <1>1
  <2>2. pruned[r] = "none"
    BY <1>1
  <2> QED
    BY <2>1, <2>2 DEF live
<1>5. Cardinality(live(entry')) <= maxInvocations
  <2>1. Cardinality(live(pruned) \cup {r}) = Cardinality(live(pruned)) + 1
    BY <1>3, <1>4, FS_AddElement
  <2>2. Cardinality(live(entry')) = Cardinality(live(pruned)) + 1
    BY <1>4, <2>1
  <2>3. Cardinality(live(pruned)) < maxInvocations /\ maxInvocations \in Nat
    BY LimitAssumption DEF hasRoom
  <2> QED
    BY <1>3, <2>2, <2>3
<1>6. request'[r].pc = "call"
  BY DEF to, TypeOK
<1> QED
  BY <1>1, <1>2, <1>5, <1>6 DEF EntryOK, EntryMoves, Finished, Issued

(* Before its handle is issued a request has no entry.                     *)
NoEntryYet == \A r \in Requests : request[r].pc \in Unissued => entry[r] = "none"

HostShape(r) ==
  /\ hostOnly /\ EntryOK /\ EntryMoves
  /\ request' \in [Requests -> RequestRecords]
  /\ \A q \in Requests : q # r => request'[q] = request[q]
  /\ reading' \in [Actors -> Versions]
  /\ \A u \in Actors : u # r => reading'[u] = reading[u]

\* What a host request does keeps the shapes.
LEMMA HostTyped ==
  ASSUME TypeOK, NoEntryYet, NEW r \in Requests, Host(r)
  PROVE  HostShape(r)
<1>. USE RecordsClosed
<1>0. /\ hostOnly /\ request \in [Requests -> RequestRecords] /\ request[r] \in RequestRecords
      /\ entry \in [Requests -> Entries] /\ reading \in [Actors -> Versions] /\ r \in Actors
      /\ host.version \in Versions /\ policy \in Versions
  BY DEF Host, preflight1, preflight2, preflight3, issue, issue1, issue2, issue3, answer, confirm,
         confirm1, confirm2, confirm3, hostOnly, TypeOK, RequestRecords, Entries, Actors
<1>1. ASSUME NEW x \in RequestSteps, to(r, x)
      PROVE  request' \in [Requests -> RequestRecords] /\ \A q \in Requests : q # r => request'[q] = request[q]
  <2>1. [request[r] EXCEPT !.pc = x] \in RequestRecords
    BY <1>0
  <2>2. request' = [request EXCEPT ![r] = [request[r] EXCEPT !.pc = x]]
    BY <1>1 DEF to
  <2> QED
    BY <1>0, <2>1, <2>2
<1>2. UNCHANGED entry => EntryOK /\ EntryMoves
  BY <1>0, QuietEntry
<1>3. ASSUME NEW rs, finish(rs)
      PROVE  EntryOK /\ EntryMoves
  BY <1>3, FinishTyped, QuietEntry DEF Finished
<1>4. entry' = pruned => EntryOK /\ EntryMoves
  BY PrunedTyped, QuietEntry DEF Finished
<1>5. /\ UNCHANGED reading \/ read(r) => reading' \in [Actors -> Versions] /\ \A u \in Actors : u # r => reading'[u] = reading[u]
  BY <1>0 DEF read
<1>6. RequestSteps = {"new", "preflight2", "preflight3", "upload", "issue1", "issue2", "issue3",
                 "call", "waiting", "answer", "confirm1", "confirm2", "confirm3", "replied", "failed"}
  BY DEF RequestSteps
<1>7. fail(r) => /\ request' \in [Requests -> RequestRecords] /\ EntryOK /\ EntryMoves
                 /\ \A q \in Requests : q # r => request'[q] = request[q]
  BY <1>1, <1>3, <1>6 DEF fail
<1>8. CASE preflight1(r)
  <2>1. CASE request' = [request EXCEPT ![r].pc = "preflight2", ![r].version = host.version]
    <3>1. [request[r] EXCEPT !.pc = "preflight2", !.version = host.version] \in RequestRecords
      BY <1>0, <1>6
    <3>2. request' = [request EXCEPT ![r] = [request[r] EXCEPT !.pc = "preflight2", !.version = host.version]]
      BY <1>0, <2>1
    <3>3. request' \in [Requests -> RequestRecords] /\ \A q \in Requests : q # r => request'[q] = request[q]
      BY <1>0, <3>1, <3>2
    <3> QED
      BY <1>0, <1>2, <1>5, <1>7, <1>8, <3>3 DEF HostShape, preflight1
  <2> QED
    BY <1>0, <1>5, <1>7, <1>8, <2>1 DEF HostShape, preflight1
<1>9. CASE preflight2(r)
  <2>1. CASE request' = [request EXCEPT ![r].pc = "preflight3", ![r].policy = policy]
    <3>1. [request[r] EXCEPT !.pc = "preflight3", !.policy = policy] \in RequestRecords
      BY <1>0, <1>6
    <3>2. request' = [request EXCEPT ![r] = [request[r] EXCEPT !.pc = "preflight3", !.policy = policy]]
      BY <1>0, <2>1
    <3>3. request' \in [Requests -> RequestRecords] /\ \A q \in Requests : q # r => request'[q] = request[q]
      BY <1>0, <3>1, <3>2
    <3> QED
      BY <1>0, <1>2, <1>5, <1>7, <1>9, <3>3 DEF HostShape, preflight2
  <2> QED
    BY <1>0, <1>5, <1>7, <1>9, <2>1 DEF HostShape, preflight2
<1>10. CASE preflight3(r)
  BY <1>0, <1>1, <1>2, <1>5, <1>6, <1>7, <1>10 DEF HostShape, preflight3
<1>11. CASE issue(r)
  BY <1>0, <1>1, <1>2, <1>4, <1>5, <1>6, <1>11 DEF HostShape, issue
<1>12. CASE issue1(r) \/ issue2(r)
  BY <1>0, <1>1, <1>2, <1>5, <1>6, <1>7, <1>12 DEF HostShape, issue1, issue2
<1>13. CASE issue3(r)
  <2>1. request[r].pc = "issue3" /\ UNCHANGED reading
        /\ \/ to(r, "call") /\ hasRoom /\ entry' = [pruned EXCEPT ![r] = "open"]
           \/ to(r, "failed") /\ (entry' = pruned \/ UNCHANGED entry)
    BY <1>13 DEF issue3
  <2>2. entry[r] = "none"
    BY <2>1 DEF NoEntryYet, Unissued
  <2>3. EntryOK /\ EntryMoves
    BY <1>2, <1>4, <2>1, <2>2, IssuedEntry
  <2> QED
    BY <1>0, <1>1, <1>5, <1>6, <2>1, <2>3 DEF HostShape
<1>14. CASE answer(r)
  BY <1>0, <1>1, <1>2, <1>5, <1>6, <1>7, <1>14 DEF HostShape, answer
<1>15. CASE confirm(r) \/ confirm1(r) \/ confirm2(r)
  BY <1>0, <1>1, <1>2, <1>5, <1>6, <1>7, <1>15 DEF HostShape, confirm, confirm1, confirm2
<1>16. CASE confirm3(r)
  <2>1. \E x \in RequestSteps : to(r, x)
    BY <1>6, <1>16 DEF confirm3
  <2>2. finish({r}) /\ UNCHANGED reading
    BY <1>16 DEF confirm3
  <2> QED
    BY <1>0, <1>1, <1>3, <1>5, <2>1, <2>2 DEF HostShape
<1> QED
  BY <1>8, <1>9, <1>10, <1>11, <1>12, <1>13, <1>14, <1>15, <1>16 DEF Host

StudioShape(a) ==
  /\ studioOnly /\ EntryOK /\ EntryMoves
  /\ attempt' \in [Attempts -> AttemptRecords]
  /\ \A b \in Attempts : b # a => attempt'[b] = attempt[b]
  /\ attempt'[a].for = attempt[a].for /\ attempt'[a].own = attempt[a].own
  /\ reading' \in [Actors -> Versions]
  /\ \A u \in Actors : u # a => reading'[u] = reading[u]
  /\ accesses' \in [Requests -> Nat]

\* An entry is claimed only while it is open.
LEMMA ClaimedEntry ==
  ASSUME TypeOK, NEW a \in Attempts, attempt[a].pc = "consume", goto(a, "consume1"),
         unclaimed(pruned, attempt[a].for), entry' = [pruned EXCEPT ![attempt[a].for] = "consumed"]
  PROVE  EntryOK /\ EntryMoves
<1>. DEFINE r == attempt[a].for
<1>1. r \in Requests /\ attempt'[a].pc = "consume1" /\ attempt[a].for = r
  BY DEF TypeOK, goto
<1>2. pruned \in [Requests -> Entries] /\ \A q \in Requests : pruned[q] = entry[q] \/ (entry[q] # "none" /\ pruned[q] = "finished")
  BY PrunedTyped
<1>3. pruned[r] = "open" /\ entry[r] = "open"
  BY <1>1, <1>2 DEF unclaimed
<1>. HIDE DEF r
<1>4. entry' = [pruned EXCEPT ![r] = "consumed"]
  BY DEF r
<1>5. entry' \in [Requests -> Entries] /\ \A q \in Requests : entry'[q] = IF q = r THEN "consumed" ELSE pruned[q]
  BY <1>1, <1>2, <1>4 DEF Entries
<1>6. \A q \in Requests : entry'[q] \in {"open", "consumed"} => entry[q] \in {"open", "consumed"}
  BY <1>2, <1>3, <1>5
<1>7. Claimed(r)
  BY <1>1, <1>3, <1>5 DEF Claimed
<1> QED
  BY <1>2, <1>5, <1>6, <1>7, LiveShrinks DEF EntryOK, EntryMoves, Finished

\* What an attempt of the studio does keeps the shapes.
LEMMA StudioTyped ==
  ASSUME TypeOK, NEW a \in Attempts, Studio(a)
  PROVE  StudioShape(a)
<1>. USE RecordsClosed
<1>0. /\ attempt \in [Attempts -> AttemptRecords] /\ attempt[a] \in AttemptRecords
      /\ attempt[a].for \in Requests
      /\ entry \in [Requests -> Entries] /\ reading \in [Actors -> Versions] /\ a \in Actors
      /\ accesses \in [Requests -> Nat] /\ host.version \in Versions
  BY DEF TypeOK, AttemptRecords, Entries, Actors
<1>1. ASSUME NEW x \in AttemptSteps, goto(a, x)
      PROVE  /\ attempt' \in [Attempts -> AttemptRecords] /\ \A b \in Attempts : b # a => attempt'[b] = attempt[b]
             /\ attempt'[a].for = attempt[a].for /\ attempt'[a].own = attempt[a].own
  <2>1. [attempt[a] EXCEPT !.pc = x] \in AttemptRecords
    BY <1>0
  <2>2. attempt' = [attempt EXCEPT ![a] = [attempt[a] EXCEPT !.pc = x]]
    BY <1>1 DEF goto
  <2> QED
    BY <1>0, <2>1, <2>2 DEF AttemptRecords
<1>2. UNCHANGED entry \/ entry' = pruned => EntryOK /\ EntryMoves
  BY <1>0, PrunedTyped, QuietEntry DEF Finished
<1>3. UNCHANGED reading \/ read(a) => reading' \in [Actors -> Versions] /\ \A u \in Actors : u # a => reading'[u] = reading[u]
  BY <1>0 DEF read
<1>4. AttemptSteps = {"new", "consume", "consume1", "consume2", "consume3", "check", "check1", "check2", "check3",
                 "access", "recheck", "recheck1", "recheck2", "recheck3", "answered", "failed"}
  BY DEF AttemptSteps
<1>5. refuse(a) => /\ EntryOK /\ EntryMoves
                   /\ attempt' \in [Attempts -> AttemptRecords] /\ \A b \in Attempts : b # a => attempt'[b] = attempt[b]
                   /\ attempt'[a].for = attempt[a].for /\ attempt'[a].own = attempt[a].own
  <2>1. ASSUME refuse(a)
        PROVE  EntryOK /\ EntryMoves
    BY <1>2, <2>1, FinishTyped, QuietEntry DEF Finished, refuse
  <2> QED
    BY <1>1, <1>4, <2>1 DEF refuse
<1>6. CASE consume(a)
  <2>1. EntryOK /\ EntryMoves
    BY <1>2, <1>6, ClaimedEntry DEF consume
  <2> QED
    BY <1>0, <1>1, <1>3, <1>4, <1>6, <2>1 DEF consume, StudioShape
<1>7. ASSUME NEW before, NEW first \in AttemptSteps, check(a, before, first)
      PROVE  StudioShape(a)
  BY <1>0, <1>1, <1>2, <1>3, <1>4, <1>7 DEF check, StudioShape
<1>8. ASSUME NEW first, NEW second \in AttemptSteps, fresh1(a, first, second)
      PROVE  StudioShape(a)
  BY <1>0, <1>1, <1>2, <1>3, <1>5, <1>8 DEF fresh1, StudioShape
<1>9. ASSUME NEW second, NEW third \in AttemptSteps, fresh2(a, second, third) \/ fresh3(a, second, third)
      PROVE  StudioShape(a)
  BY <1>0, <1>1, <1>2, <1>3, <1>5, <1>9 DEF fresh2, fresh3, StudioShape
<1>10. CASE access(a) \/ accessFails(a)
  <2>1. CASE accessFails(a)
    BY <1>0, <1>1, <1>2, <1>3, <1>4, <2>1 DEF accessFails, StudioShape
  <2>2. CASE access(a)
    <3>1. accesses[attempt[a].for] + 1 \in Nat
      BY <1>0, CountTyped
    <3>2. accesses' = [accesses EXCEPT ![attempt[a].for] = accesses[attempt[a].for] + 1]
      BY <2>2 DEF access
    <3>3. accesses' \in [Requests -> Nat]
      BY <1>0, <3>1, <3>2, ExceptTyped
    <3> QED
      BY <1>0, <1>1, <1>2, <1>3, <1>4, <2>2, <3>3 DEF access, StudioShape
  <2> QED
    BY <1>10, <2>1, <2>2
<1>11. Consume(a) \/ Check(a) \/ Recheck(a) => StudioShape(a)
  BY <1>4, <1>6, <1>7, <1>8, <1>9 DEF Consume, Check, Recheck
<1> QED
  BY <1>10, <1>11 DEF Studio

(* The host's call, and a second one with the same handle.                 *)
InvokeShape(r, a) ==
  /\ attempt[a].pc = "new" /\ attempt' = [attempt EXCEPT ![a] = attempt'[a]]
  /\ attempt'[a] \in AttemptRecords /\ attempt'[a].pc = "consume" /\ attempt'[a].for = r
  /\ UNCHANGED <<host, policy, closed, entry, lapsed, reading, accesses>>
  /\ request' \in [Requests -> RequestRecords] /\ \A q \in Requests : q # r => request'[q] = request[q]
  /\ \/ UNCHANGED request /\ entry[r] # "none"
     \/ request[r].pc = "call" /\ request'[r].pc = "waiting"
        /\ request'[r].version = request[r].version /\ request'[r].policy = request[r].policy

\* The delivery of a call, once or twice, keeps the shapes.
LEMMA InvokeTyped ==
  ASSUME TypeOK, NEW r \in Requests, NEW a \in Attempts, call(r, a) \/ duplicate(a, r)
  PROVE  InvokeShape(r, a) /\ attempt' \in [Attempts -> AttemptRecords]
<1>0. attempt \in [Attempts -> AttemptRecords] /\ request \in [Requests -> RequestRecords]
      /\ "consume" \in AttemptSteps /\ "waiting" \in RequestSteps
  BY DEF TypeOK, AttemptRecords, RequestRecords, AttemptSteps, RequestSteps
<1>1. \E own \in BOOLEAN : attempt' = [attempt EXCEPT ![a] = [pc |-> "consume", for |-> r, own |-> own]]
  BY DEF call, duplicate
<1>2. PICK own \in BOOLEAN : attempt' = [attempt EXCEPT ![a] = [pc |-> "consume", for |-> r, own |-> own]]
  BY <1>1
<1>3. [pc |-> "consume", for |-> r, own |-> own] \in AttemptRecords
  BY <1>0 DEF AttemptRecords
<1>4. /\ attempt'[a] = [pc |-> "consume", for |-> r, own |-> own]
      /\ attempt' \in [Attempts -> AttemptRecords] /\ attempt' = [attempt EXCEPT ![a] = attempt'[a]]
  BY <1>0, <1>2, <1>3
<1>5. attempt[a].pc = "new" /\ UNCHANGED <<host, policy, closed, entry, lapsed, reading, accesses>>
  BY DEF call, duplicate, studioOnly
<1>6. CASE duplicate(a, r)
  BY <1>0, <1>3, <1>4, <1>5, <1>6 DEF InvokeShape, duplicate, studioOnly
<1>7. CASE call(r, a)
  <2>1. [request[r] EXCEPT !.pc = "waiting"] \in RequestRecords
    BY <1>0, RecordsClosed
  <2>2. request' = [request EXCEPT ![r] = [request[r] EXCEPT !.pc = "waiting"]] /\ request[r].pc = "call"
    BY <1>7 DEF call, to
  <2>3. /\ request' \in [Requests -> RequestRecords] /\ \A q \in Requests : q # r => request'[q] = request[q]
        /\ request'[r].pc = "waiting" /\ request'[r].version = request[r].version
        /\ request'[r].policy = request[r].policy
    BY <1>0, <2>1, <2>2 DEF RequestRecords
  <2> QED
    BY <1>3, <1>4, <1>5, <2>2, <2>3 DEF InvokeShape
<1> QED
  BY <1>4, <1>6, <1>7

-----------------------------------------------------------------------------
(* What a step may do to those who check: where they come from decides     *)
(* what they have seen.                                                    *)

Checking == {"confirm1", "confirm2", "confirm3", "consume1", "consume2", "consume3", "check1", "check2",
             "check3", "recheck1", "recheck2", "recheck3"}
Passed == {"check", "access", "recheck", "answered", "replied"}
Answering == {"answer", "confirm1", "confirm2", "confirm3", "replied"}

StudioMove(a) ==
  LET pc == attempt[a].pc
      next == attempt'[a].pc
      r == attempt[a].for IN
  /\ pc # "new" /\ next # "new"
  /\ next \in Serving =>
       pc \in Serving \/ (pc = "consume" /\ next = "consume1" /\ entry[r] = "open" /\ entry'[r] = "consumed")
  /\ \/ UNCHANGED accesses /\ (next \in Served => pc \in Served)
     \/ pc = "access" /\ next = "recheck" /\ accesses' = [accesses EXCEPT ![r] = accesses[r] + 1]
  /\ pc \in Served /\ next \in Serving => next \in Served
  /\ next \in Second => sameAsBinding(r) /\ read(a)
  /\ next \in Third => pc \in Second /\ permits(r) /\ UNCHANGED <<reading, entry>>
  /\ next \in Passed => (pc \in Third /\ stillSame(a, r)) \/ (pc = "access" /\ next = "recheck")

\* What an attempt of the studio may change.
LEMMA StudioMoves ==
  ASSUME TypeOK, NEW a \in Attempts, Studio(a)
  PROVE  StudioMove(a)
<1>. DEFINE r == attempt[a].for
<1>. USE DEF Serving, Served, Second, Third, Passed
<1>0. \A x : goto(a, x) => attempt'[a].pc = x
  BY DEF TypeOK, goto
<1>1. CASE consume(a)
  <2>1. pruned \in [Requests -> Entries] /\ r \in Requests
        /\ (pruned[r] = entry[r] \/ (entry[r] # "none" /\ pruned[r] = "finished"))
    BY PrunedTyped DEF TypeOK
  <2>2. CASE ~closed /\ unclaimed(pruned, r)
    <3>1. goto(a, "consume1") /\ entry' = [pruned EXCEPT ![r] = "consumed"] /\ UNCHANGED accesses
      BY <1>1, <2>2 DEF consume
    <3>2. entry[r] = "open" /\ entry'[r] = "consumed"
      BY <2>1, <2>2, <3>1 DEF unclaimed
    <3> QED
      BY <1>0, <1>1, <3>1, <3>2 DEF consume, StudioMove
  <2> QED
    BY <1>0, <1>1, <2>2 DEF consume, StudioMove
<1>2. ASSUME refuse(a), attempt[a].pc # "new", UNCHANGED accesses
      PROVE  StudioMove(a)
  BY <1>0, <1>2 DEF refuse, StudioMove
<1>3. CASE check(a, "check", "check1") \/ check(a, "recheck", "recheck1")
  BY <1>0, <1>3 DEF check, StudioMove
<1>4. CASE fresh1(a, "consume1", "consume2") \/ fresh1(a, "check1", "check2") \/ fresh1(a, "recheck1", "recheck2")
  BY <1>0, <1>2, <1>4 DEF fresh1, StudioMove
<1>5. CASE fresh2(a, "consume2", "consume3") \/ fresh2(a, "check2", "check3") \/ fresh2(a, "recheck2", "recheck3")
  BY <1>0, <1>2, <1>5 DEF fresh2, StudioMove
<1>6. CASE fresh3(a, "consume3", "check") \/ fresh3(a, "check3", "access") \/ fresh3(a, "recheck3", "answered")
  BY <1>0, <1>2, <1>6 DEF fresh3, StudioMove
<1>7. CASE access(a) \/ accessFails(a)
  BY <1>0, <1>7 DEF access, accessFails, StudioMove
<1> QED
  BY <1>1, <1>3, <1>4, <1>5, <1>6, <1>7 DEF Studio, Consume, Check, Recheck

HostMove(r) ==
  LET pc == request[r].pc
      next == request'[r].pc IN
  /\ pc \notin Unissued =>
       next \notin Unissued /\ request'[r].version = request[r].version /\ request'[r].policy = request[r].policy
  /\ next \in Answering =>
       pc \in Answering \/ \E a \in Attempts : attempt[a].for = r /\ attempt[a].pc = "answered"
  /\ next = "confirm2" => pc = "confirm1" /\ sameAsBinding(r) /\ read(r)
  /\ next = "confirm3" => pc = "confirm2" /\ permits(r) /\ UNCHANGED <<reading, entry>>
  /\ next = "replied" => pc = "confirm3" /\ stillSame(r, r)

\* What a host request may change.
LEMMA HostMoves ==
  ASSUME TypeOK, NEW r \in Requests, Host(r)
  PROVE  HostMove(r)
<1>. USE DEF Unissued, Answering
<1>0. \A x : to(r, x) => request'[r].pc = x /\ request'[r].version = request[r].version
                         /\ request'[r].policy = request[r].policy
  BY DEF TypeOK, to
<1>1. fail(r) => HostMove(r)
  BY <1>0 DEF fail, HostMove
<1>2. CASE preflight1(r)
  BY <1>1, <1>2 DEF preflight1, HostMove, TypeOK
<1>3. CASE preflight2(r)
  BY <1>1, <1>3 DEF preflight2, HostMove, TypeOK
<1>4. CASE preflight3(r) \/ issue(r)
  BY <1>0, <1>1, <1>4 DEF preflight3, issue, HostMove
<1>5. CASE issue1(r) \/ issue2(r) \/ issue3(r)
  BY <1>0, <1>1, <1>5 DEF issue1, issue2, issue3, HostMove
<1>6. CASE answer(r)
  BY <1>0, <1>1, <1>6 DEF answer, HostMove
<1>7. CASE confirm(r) \/ confirm1(r)
  BY <1>0, <1>1, <1>7 DEF confirm, confirm1, HostMove
<1>8. CASE confirm2(r) \/ confirm3(r)
  BY <1>0, <1>1, <1>8 DEF confirm2, confirm3, HostMove
<1> QED
  BY <1>2, <1>3, <1>4, <1>5, <1>6, <1>7, <1>8 DEF Host

WorldShape ==
  /\ UNCHANGED <<request, attempt, reading, accesses>> /\ EntryOK /\ EntryMoves
  /\ host' \in [valid : BOOLEAN, version : Versions] /\ policy' \in Versions
  /\ closed' \in BOOLEAN /\ lapsed' \subseteq Requests
  /\ host.version <= host'.version /\ (host'.version = host.version => host' = host)
  /\ (closed => closed') /\ lapsed \subseteq lapsed'

\* What the host's session, policy and time may change.
LEMMA WorldMoves ==
  ASSUME TypeOK, sessionChanges \/ policyChanges \/ close \/ \E r \in Requests : lapse(r)
  PROVE  WorldShape
<1>0. /\ entry \in [Requests -> Entries] /\ host \in [valid : BOOLEAN, version : Versions]
      /\ policy \in Versions /\ closed \in BOOLEAN /\ lapsed \subseteq Requests
      /\ host.version \in Nat /\ MaxChanges \in Nat
  BY ChangesAssumption DEF TypeOK, Entries, Versions
<1>1. UNCHANGED entry => EntryOK /\ EntryMoves
  BY <1>0, QuietEntry
<1>2. CASE sessionChanges
  <2>1. host' \in [valid : BOOLEAN, version : {host.version + 1}] /\ host.version < MaxChanges
        /\ UNCHANGED <<policy, closed, request, entry, lapsed, attempt, reading, accesses>>
    BY <1>2 DEF sessionChanges
  <2>2. host'.version = host.version + 1 /\ host'.valid \in BOOLEAN
    BY <2>1
  <2>3. host.version + 1 \in Versions
    BY <1>0, <2>1 DEF Versions
  <2>4. host' \in [valid : BOOLEAN, version : Versions]
    BY <2>1, <2>3
  <2>5. host.version <= host'.version /\ host'.version # host.version
    BY <1>0, <2>2
  <2> QED
    BY <1>0, <1>1, <2>1, <2>4, <2>5 DEF WorldShape
<1>3. CASE policyChanges
  <2>1. policy' \in Versions /\ UNCHANGED <<host, closed, request, entry, lapsed, attempt, reading, accesses>>
    BY <1>3 DEF policyChanges
  <2> QED
    BY <1>0, <1>1, <2>1 DEF WorldShape
<1>4. CASE close
  <2>1. finish(Requests) /\ closed' = TRUE
        /\ UNCHANGED <<host, policy, request, lapsed, attempt, reading, accesses>>
    BY <1>4 DEF close
  <2>2. EntryOK /\ EntryMoves
    BY <2>1, FinishTyped, QuietEntry DEF Finished
  <2> QED
    BY <1>0, <2>1, <2>2 DEF WorldShape
<1>5. CASE \E r \in Requests : lapse(r)
  <2>1. /\ UNCHANGED <<host, policy, closed, request, entry, attempt, reading, accesses>>
        /\ lapsed' \subseteq Requests /\ lapsed \subseteq lapsed'
    BY <1>0, <1>5 DEF lapse
  <2> QED
    BY <1>0, <1>1, <2>1 DEF WorldShape
<1> QED
  BY <1>2, <1>3, <1>4, <1>5

-----------------------------------------------------------------------------
(* Every step is one of four kinds.                                        *)

HostKind == \E r \in Requests : HostShape(r) /\ HostMove(r)
StudioKind == \E a \in Attempts : StudioShape(a) /\ StudioMove(a)
InvokeKind ==
  \E r \in Requests : \E a \in Attempts : InvokeShape(r, a) /\ attempt' \in [Attempts -> AttemptRecords]

\* The four kinds of steps, by who takes them.
LEMMA Kinds ==
  ASSUME TypeOK, NoEntryYet, Step
  PROVE  HostKind \/ StudioKind \/ InvokeKind \/ WorldShape
<1>1. \A r \in Requests : Host(r) => HostKind
  BY HostTyped, HostMoves DEF HostKind
<1>2. \A a \in Attempts : Studio(a) => StudioKind
  BY StudioTyped, StudioMoves DEF StudioKind
<1>3. \A r \in Requests, a \in Attempts : call(r, a) \/ duplicate(a, r) => InvokeKind
  BY InvokeTyped DEF InvokeKind
<1>4. (\E r \in Requests : lapse(r)) \/ sessionChanges \/ policyChanges \/ close => WorldShape
  BY WorldMoves
<1> QED
  BY <1>1, <1>2, <1>3, <1>4 DEF Step

\* The actors that saw the authority hold stay actors.
LEMMA HeldTyped ==
  ASSUME TypeOK, Watch, request' \in [Requests -> RequestRecords], attempt' \in [Attempts -> AttemptRecords]
  PROVE  held' \subseteq Actors
BY DEF Watch, checking, Actors, TypeOK

\* Every step keeps the shapes of the variables.
LEMMA TypeNext ==
  ASSUME TypeOK, NoEntryYet, Next
  PROVE  TypeOK'
<1>0. /\ request \in [Requests -> RequestRecords] /\ attempt \in [Attempts -> AttemptRecords]
      /\ host \in [valid : BOOLEAN, version : Versions] /\ policy \in Versions /\ closed \in BOOLEAN
      /\ lapsed \subseteq Requests /\ reading \in [Actors -> Versions] /\ accesses \in [Requests -> Nat]
  BY DEF TypeOK, RequestRecords, AttemptRecords
<1>1. /\ EntryOK
      /\ request' \in [Requests -> RequestRecords] /\ attempt' \in [Attempts -> AttemptRecords]
      /\ host' \in [valid : BOOLEAN, version : Versions] /\ policy' \in Versions /\ closed' \in BOOLEAN
      /\ lapsed' \subseteq Requests /\ reading' \in [Actors -> Versions] /\ accesses' \in [Requests -> Nat]
  <2>1. CASE HostKind
    BY <1>0, <2>1 DEF HostKind, HostShape, hostOnly
  <2>2. CASE StudioKind
    BY <1>0, <2>2 DEF StudioKind, StudioShape, studioOnly
  <2>3. CASE InvokeKind
    <3>1. EntryOK
      BY <2>3, QuietEntry DEF InvokeKind, InvokeShape, TypeOK, Entries
    <3> QED
      BY <1>0, <2>3, <3>1 DEF InvokeKind, InvokeShape
  <2>4. CASE WorldShape
    BY <1>0, <2>4 DEF WorldShape
  <2> QED
    BY <2>1, <2>2, <2>3, <2>4, Kinds DEF Next
<1>2. held' \subseteq Actors
  BY <1>1, HeldTyped DEF Next
<1>3. entry' \in [Requests -> {"none", "open", "consumed", "finished"}]
      /\ Cardinality({r \in Requests : entry'[r] \in {"open", "consumed"}}) <= maxInvocations
  BY <1>1 DEF EntryOK, Entries, live
<1> QED
  BY <1>1, <1>2, <1>3, Zenon DEF TypeOK, RequestRecords, AttemptRecords

-----------------------------------------------------------------------------
(* What is gone is gone, and the order in which things come.               *)

(* An invocation has a request whose handle was issued.                    *)
Started == \A a \in Attempts : attempt[a].pc # "new" => request[attempt[a].for].pc \notin Unissued

Forward ==
  /\ host.version <= host'.version /\ (host'.version = host.version => host' = host)
  /\ (closed => closed') /\ lapsed \subseteq lapsed' /\ EntryMoves
  /\ \A r \in Requests : request[r].pc \notin Unissued =>
       /\ request'[r].pc \notin Unissued
       /\ request'[r].version = request[r].version /\ request'[r].policy = request[r].policy
  /\ \A a \in Attempts : attempt[a].pc # "new" => attempt'[a].pc # "new" /\ attempt'[a].for = attempt[a].for

\* Versions grow, and what is gone stays gone.
LEMMA GoesForward ==
  ASSUME TypeOK, NoEntryYet, Step
  PROVE  Forward
<1>0. host.version \in Nat /\ host.version <= host.version
  BY DEF TypeOK, Versions
<1>1. CASE HostKind
  <2>1. PICK r \in Requests : HostShape(r) /\ HostMove(r)
    BY <1>1 DEF HostKind
  <2> QED
    BY <1>0, <2>1 DEF HostShape, HostMove, hostOnly, Forward
<1>2. CASE StudioKind
  <2>1. PICK a \in Attempts : StudioShape(a) /\ StudioMove(a)
    BY <1>2 DEF StudioKind
  <2> QED
    BY <1>0, <2>1 DEF StudioShape, StudioMove, studioOnly, Forward
<1>3. CASE InvokeKind
  <2>1. PICK r \in Requests : \E a \in Attempts : InvokeShape(r, a)
    BY <1>3 DEF InvokeKind
  <2>2. PICK a \in Attempts : InvokeShape(r, a)
    BY <2>1
  <2>3. \A b \in Attempts : b # a => attempt'[b] = attempt[b]
    BY <2>2 DEF InvokeShape, TypeOK
  <2>4. EntryMoves
    BY <2>2 DEF InvokeShape, EntryMoves
  <2> QED
    BY <1>0, <2>2, <2>3, <2>4 DEF InvokeShape, Forward, Unissued
<1>4. CASE WorldShape
  BY <1>0, <1>4 DEF WorldShape, Forward
<1> QED
  BY <1>1, <1>2, <1>3, <1>4, Kinds

\* No request has an entry before it is issued.
LEMMA NoEntryNext ==
  ASSUME TypeOK, NoEntryYet, Started, Step
  PROVE  NoEntryYet' /\ Started'
<1>1. Forward
  BY GoesForward
<1>2. NoEntryYet'
  <2>1. SUFFICES ASSUME NEW r \in Requests, request'[r].pc \in Unissued
                 PROVE  entry'[r] = "none"
    BY DEF NoEntryYet
  <2>2. entry[r] = "none"
    BY <1>1, <2>1 DEF Forward, NoEntryYet
  <2>3. ~Issued(r)
    BY <2>1 DEF Issued, Unissued
  <2> QED
    BY <1>1, <2>2, <2>3 DEF Forward, EntryMoves, Finished, Claimed
<1>3. Started'
  <2>1. SUFFICES ASSUME NEW a \in Attempts, attempt'[a].pc # "new"
                 PROVE  request'[attempt'[a].for].pc \notin Unissued
    BY DEF Started
  <2>2. CASE attempt[a].pc # "new"
    <3>1. attempt[a].for \in Requests
      BY DEF TypeOK
    <3> QED
      BY <1>1, <2>2, <3>1 DEF Forward, Started
  <2>3. CASE attempt[a].pc = "new"
    <3>1. ~HostKind /\ ~WorldShape
      BY <2>1, <2>3 DEF HostKind, HostShape, hostOnly, WorldShape
    <3>2. ~StudioKind
      BY <2>1, <2>3 DEF StudioKind, StudioShape, StudioMove
    <3>3. InvokeKind
      BY <3>1, <3>2, Kinds
    <3>4. PICK r \in Requests : \E b \in Attempts : InvokeShape(r, b)
      BY <3>3 DEF InvokeKind
    <3>5. PICK b \in Attempts : InvokeShape(r, b)
      BY <3>4
    <3>6. a = b
      BY <2>1, <2>3, <3>5 DEF InvokeShape, TypeOK
    <3>7. request'[r].pc \notin Unissued
      BY <3>5 DEF InvokeShape, NoEntryYet, Unissued
    <3> QED
      BY <3>5, <3>6, <3>7 DEF InvokeShape
  <2> QED
    BY <2>2, <2>3
<1> QED
  BY <1>2, <1>3

-----------------------------------------------------------------------------
(* A handle serves once                                                    *)

Once ==
  /\ \A a, b \in Attempts :
       attempt[a].pc \in Serving /\ attempt[b].pc \in Serving /\ attempt[a].for = attempt[b].for => a = b
  /\ \A a \in Attempts : attempt[a].pc \in Serving => entry[attempt[a].for] \in {"consumed", "finished"}
  /\ \A a \in Attempts : attempt[a].pc \in Served => accesses[attempt[a].for] = 1
  /\ \A r \in Requests : accesses[r] \in {0, 1}
  /\ \A r \in Requests : accesses[r] = 1 =>
       /\ entry[r] \in {"consumed", "finished"}
       /\ \A a \in Attempts : attempt[a].pc \in Serving /\ attempt[a].for = r => attempt[a].pc \in Served
  /\ \A r \in Requests : request[r].pc \in Answering => accesses[r] = 1

(* An entry that was claimed stays claimed, or finished.                   *)
LEMMA ClaimStays ==
  ASSUME TypeOK, NoEntryYet, EntryMoves, NEW r \in Requests, entry[r] \in {"consumed", "finished"}
  PROVE  entry'[r] \in {"consumed", "finished"}
<1>1. ~Issued(r)
  BY DEF Issued, NoEntryYet, Unissued
<1> QED
  BY <1>1 DEF EntryMoves, Finished, Claimed

\* A step that makes no access keeps an entry at one access.
LEMMA OnceStays ==
  ASSUME TypeOK, NoEntryYet, EntryMoves, Once, UNCHANGED accesses,
         \A a \in Attempts : attempt'[a].pc \in Serving => attempt'[a] = attempt[a],
         \A r \in Requests : request'[r].pc \in Answering =>
           request[r].pc \in Answering \/ \E a \in Attempts : attempt[a].for = r /\ attempt[a].pc = "answered"
  PROVE  Once'
<1>1. \A r \in Requests : entry[r] \in {"consumed", "finished"} => entry'[r] \in {"consumed", "finished"}
  BY ClaimStays
<1>2. \A a \in Attempts : attempt[a].for \in Requests
  BY DEF TypeOK
<1>3. \A x : x \in Served => x \in Serving
  BY DEF Serving, Served
<1>4. "answered" \in Served
  BY DEF Served
<1>5. \A r \in Requests : request'[r].pc \in Answering => accesses'[r] = 1
  BY <1>4 DEF Once
<1> QED
  BY <1>1, <1>2, <1>3, <1>5 DEF Once

\* No entry is ever served twice.
LEMMA OnceNext ==
  ASSUME TypeOK, NoEntryYet, Once, Step
  PROVE  Once'
<1>1. EntryMoves
  BY GoesForward DEF Forward
<1>2. CASE HostKind
  BY <1>1, <1>2, OnceStays DEF HostKind, HostShape, HostMove, hostOnly
<1>3. CASE WorldShape
  BY <1>1, <1>3, OnceStays DEF WorldShape
<1>4. CASE InvokeKind
  <2>1. PICK r \in Requests : \E b \in Attempts : InvokeShape(r, b)
    BY <1>4 DEF InvokeKind
  <2>2. PICK b \in Attempts : InvokeShape(r, b)
    BY <2>1
  <2>3. \A a \in Attempts : attempt'[a].pc \in Serving => attempt'[a] = attempt[a]
    BY <2>2 DEF InvokeShape, TypeOK, Serving
  <2>4. \A q \in Requests : request'[q].pc \in Answering => request[q].pc \in Answering
    BY <2>2 DEF InvokeShape, Answering
  <2>5. UNCHANGED accesses
    BY <2>2 DEF InvokeShape
  <2> QED
    BY <1>1, <2>3, <2>4, <2>5, OnceStays
<1>5. CASE StudioKind
  <2>1. PICK a \in Attempts : StudioShape(a) /\ StudioMove(a)
    BY <1>5 DEF StudioKind
  <2>. DEFINE r == attempt[a].for
  <2>2. /\ r \in Requests /\ attempt'[a].for = r /\ UNCHANGED request
        /\ \A b \in Attempts : b # a => attempt'[b] = attempt[b]
        /\ accesses \in [Requests -> Nat] /\ \A b \in Attempts : attempt[b].for \in Requests
    BY <2>1 DEF StudioShape, studioOnly, TypeOK
  <2>3. \A q \in Requests : entry[q] \in {"consumed", "finished"} => entry'[q] \in {"consumed", "finished"}
    BY <1>1, ClaimStays
  <2>4. \A x : x \in Served => x \in Serving
    BY DEF Serving, Served
  <2>5. CASE attempt'[a].pc \in Serving /\ attempt[a].pc \notin Serving
    <3>1. entry[r] = "open" /\ entry'[r] = "consumed" /\ attempt'[a].pc = "consume1"
      BY <2>1, <2>5 DEF StudioMove
    <3>2. attempt[a].pc # "access" /\ attempt'[a].pc \notin Served
      BY <2>5, <3>1 DEF Serving, Served
    <3>3. UNCHANGED accesses
      BY <2>1, <3>2 DEF StudioMove
    <3>4. accesses[r] # 1 /\ \A b \in Attempts : attempt[b].pc \in Serving => attempt[b].for # r
      BY <2>2, <3>1 DEF Once
    <3> QED
      BY <2>2, <2>3, <2>4, <3>1, <3>2, <3>3, <3>4 DEF Once
  <2>6. CASE (attempt'[a].pc \in Serving => attempt[a].pc \in Serving) /\ UNCHANGED accesses
             /\ (attempt'[a].pc \in Served => attempt[a].pc \in Served)
             /\ (attempt'[a].pc \in Serving /\ attempt[a].pc \in Served => attempt'[a].pc \in Served)
    BY <2>2, <2>3, <2>4, <2>6 DEF Once
  <2>7. CASE attempt[a].pc = "access" /\ attempt'[a].pc = "recheck"
             /\ accesses' = [accesses EXCEPT ![r] = accesses[r] + 1]
    <3>1. attempt[a].pc \in Serving /\ attempt[a].pc \notin Served /\ attempt'[a].pc \in Served
      BY <2>7 DEF Serving, Served
    <3>2. accesses[r] = 0 /\ entry[r] \in {"consumed", "finished"}
      BY <2>2, <3>1 DEF Once
    <3>3. \A q \in Requests : accesses'[q] = IF q = r THEN 1 ELSE accesses[q]
      BY <2>2, <2>7, <3>2
    <3>4. \A b \in Attempts : attempt[b].pc \in Serving /\ attempt[b].for = r => b = a
      BY <3>1 DEF Once
    <3> QED
      BY <2>2, <2>3, <2>4, <3>1, <3>2, <3>3, <3>4 DEF Once
  <2> QED
    BY <2>1, <2>5, <2>6, <2>7 DEF StudioMove
<1> QED
  BY <1>2, <1>3, <1>4, <1>5, Kinds

-----------------------------------------------------------------------------
(* A check that is passed saw the whole authority                          *)

(* Between its two reads of the session a check remembers the version that *)
(* the first one found; after the policy, whoever could still pass holds.  *)
FreshOf(u, pc, r) ==
  /\ pc \in Second => reading[u] = request[r].version /\ reading[u] <= host.version
  /\ pc \in Third => reading[u] <= host.version /\ (stillSame(u, r) => u \in held)
  /\ pc \in Passed => u \in held

Fresh ==
  /\ \A r \in Requests : FreshOf(r, request[r].pc, r)
  /\ \A a \in Attempts : FreshOf(a, attempt[a].pc, attempt[a].for)

\* What the invariant says of the reads is what the property asks.
LEMMA FreshIsAuthority ==
  ASSUME Fresh
  PROVE  FreshAuthority
BY DEF Fresh, FreshOf, FreshAuthority, Passed

(* What the history keeps of a check that goes from pc to next.            *)
Kept(u, pc, next, r) ==
  /\ u \in held /\ (pc \in Checking \/ next \notin Checking) => u \in held'
  /\ next \in Checking /\ authority(r)' => u \in held'

\* The watch on the authority, for the actor of a step and for the others.
LEMMA Watched ==
  ASSUME TypeOK, request' \in [Requests -> RequestRecords], attempt' \in [Attempts -> AttemptRecords], Watch
  PROVE  /\ \A r \in Requests : Kept(r, request[r].pc, request'[r].pc, r)
         /\ \A a \in Attempts, r \in Requests : attempt'[a].for = r => Kept(a, attempt[a].pc, attempt'[a].pc, r)
<1>0. Requests \cap Attempts = {}
  BY ActorsAssumption
<1>1. \A r \in Requests : r \notin Attempts /\ request[r].pc \in RequestSteps /\ request'[r].pc \in RequestSteps
  BY <1>0 DEF TypeOK, RequestRecords
<1>2. \A a \in Attempts : a \notin Requests /\ attempt[a].pc \in AttemptSteps /\ attempt'[a].pc \in AttemptSteps
  BY <1>0 DEF TypeOK, AttemptRecords
<1>3. \A r \in Requests : (r \in checking <=> request[r].pc \in Checking) /\ (r \in checking' <=> request'[r].pc \in Checking)
  BY <1>1 DEF checking, Checking, RequestSteps
<1>4. \A a \in Attempts : (a \in checking <=> attempt[a].pc \in Checking) /\ (a \in checking' <=> attempt'[a].pc \in Checking)
  BY <1>2 DEF checking, Checking, AttemptSteps
<1>5. ASSUME NEW r \in Requests
      PROVE  Kept(r, request[r].pc, request'[r].pc, r)
  BY <1>1, <1>3, <1>5 DEF Kept, Watch, requestOf, authority, revoked
<1>6. ASSUME NEW a \in Attempts, NEW r \in Requests, attempt'[a].for = r
      PROVE  Kept(a, attempt[a].pc, attempt'[a].pc, r)
  BY <1>2, <1>4, <1>6 DEF Kept, Watch, requestOf, authority, revoked
<1> QED
  BY <1>5, <1>6

(* The authority a check would find at its end was there before the step.  *)
LEMMA StillSameBack ==
  ASSUME TypeOK, NoEntryYet, Forward, NEW u \in Actors, NEW r \in Requests,
         reading'[u] = reading[u], reading[u] <= host.version, stillSame(u, r)'
  PROVE  stillSame(u, r)
<1>1. host'.version = reading[u] /\ host'.valid /\ ~closed' /\ entry'[r] # "finished" /\ r \notin lapsed'
  BY DEF stillSame, bound, revoked, current
<1>2. host.version \in Nat /\ reading[u] \in Nat
  BY DEF TypeOK, Versions
<1>3. host'.version = host.version
  BY <1>1, <1>2 DEF Forward
<1>4. entry[r] = "finished" => entry'[r] = "finished"
  BY DEF Forward, EntryMoves, Finished, Claimed, Issued, NoEntryYet, Unissued
<1> QED
  BY <1>1, <1>3, <1>4 DEF Forward, stillSame, bound, revoked, current

(* Who does not move keeps what it knows.                                  *)
LEMMA FreshStays ==
  ASSUME TypeOK, TypeOK', NoEntryYet, Forward, NEW u \in Actors, NEW pc, NEW r \in Requests,
         FreshOf(u, pc, r), Kept(u, pc, pc, r), reading'[u] = reading[u],
         request[r].pc \notin Unissued \/ pc \notin Second
  PROVE  FreshOf(u, pc, r)'
<1>1. host.version \in Nat /\ host'.version \in Nat /\ reading[u] \in Nat
      /\ host.version <= host'.version
  BY DEF Forward, TypeOK, Versions
<1>2. u \in held /\ pc \in Third \cup Passed => u \in held'
  BY DEF Kept, Third, Passed, Checking
<1>3. pc \in Second => reading'[u] = request'[r].version /\ reading'[u] <= host'.version
  BY <1>1 DEF FreshOf, Forward
<1>4. pc \in Third => reading[u] <= host.version /\ reading'[u] <= host'.version
  BY <1>1 DEF FreshOf
<1>5. pc \in Third /\ stillSame(u, r)' => u \in held'
  BY <1>2, <1>4, StillSameBack DEF FreshOf
<1> QED
  BY <1>2, <1>3, <1>4, <1>5 DEF FreshOf

(* Who moves was where it had to be.                                       *)
LEMMA FreshMoves ==
  ASSUME TypeOK, TypeOK', NEW u \in Actors, NEW pc, NEW next, NEW r \in Requests,
         FreshOf(u, pc, r), Kept(u, pc, next, r), UNCHANGED <<host, policy, closed, lapsed>>,
         UNCHANGED entry \/ next \notin Third, request'[r].version = request[r].version \/ next \notin Second \cup Third,
         request'[r].policy = request[r].policy \/ next \notin Third,
         next \in Second => sameAsBinding(r) /\ read(u),
         next \in Third => pc \in Second /\ permits(r) /\ UNCHANGED reading,
         next \in Passed => (pc \in Third /\ stillSame(u, r)) \/ (pc \in Passed /\ next \in Passed)
  PROVE  FreshOf(u, next, r)'
<1>1. host.version \in Nat /\ host'.version = host.version /\ host.version <= host.version
  BY DEF TypeOK, Versions
<1>2. next \in Second => reading'[u] = request'[r].version /\ reading'[u] <= host'.version
  BY <1>1 DEF sameAsBinding, read, TypeOK
<1>3. next \in Third => reading'[u] <= host'.version /\ (stillSame(u, r)' => u \in held')
  <2>1. SUFFICES ASSUME next \in Third
                 PROVE  reading'[u] <= host'.version /\ (stillSame(u, r)' => u \in held')
    OBVIOUS
  <2>2. reading[u] = request[r].version /\ reading'[u] = request'[r].version /\ reading'[u] <= host'.version
    BY <1>1, <2>1 DEF FreshOf
  <2>3. next \in Checking
    BY <2>1 DEF Third, Checking
  <2>4. policy' = request'[r].policy
    BY <2>1 DEF permits
  <2>5. stillSame(u, r)' => authority(r)'
    BY <2>2, <2>4 DEF stillSame, authority, bound, current, revoked
  <2> QED
    BY <2>2, <2>3, <2>5 DEF Kept
<1>4. next \in Passed => u \in held'
  BY DEF FreshOf, Kept, Third, Passed, Checking
<1> QED
  BY <1>2, <1>3, <1>4 DEF FreshOf

\* Every step keeps that an answer had authority at an instant of its own.
LEMMA FreshNext ==
  ASSUME TypeOK, TypeOK', NoEntryYet, Started, Fresh, Next
  PROVE  Fresh'
<1>0. /\ Step /\ Watch /\ Forward /\ Requests \cap Attempts = {}
      /\ request \in [Requests -> RequestRecords] /\ attempt \in [Attempts -> AttemptRecords]
      /\ request' \in [Requests -> RequestRecords] /\ attempt' \in [Attempts -> AttemptRecords]
      /\ \A a \in Attempts : attempt[a].for \in Requests /\ attempt'[a].for \in Requests
  BY GoesForward, ActorsAssumption DEF Next, TypeOK, RequestRecords, AttemptRecords
<1>1. /\ \A r \in Requests : Kept(r, request[r].pc, request'[r].pc, r)
      /\ \A a \in Attempts, r \in Requests : attempt'[a].for = r => Kept(a, attempt[a].pc, attempt'[a].pc, r)
  BY <1>0, Watched
<1>2. ASSUME NEW q \in Requests, request'[q] = request[q], reading'[q] = reading[q], NEW pc, request[q].pc = pc
      PROVE  FreshOf(q, pc, q)'
  <2>1. FreshOf(q, pc, q) /\ Kept(q, pc, pc, q) /\ q \in Actors
    BY <1>1, <1>2 DEF Fresh, Actors
  <2>2. q \in Requests /\ (pc \notin Unissued \/ pc \notin Second)
    BY DEF Unissued, Second
  <2> QED
    BY <1>0, <1>2, <2>1, <2>2, FreshStays
<1>3. ASSUME NEW a \in Attempts, attempt'[a] = attempt[a], reading'[a] = reading[a],
             NEW pc, attempt[a].pc = pc, NEW r \in Requests, attempt[a].for = r
      PROVE  FreshOf(a, pc, r)'
  <2>1. FreshOf(a, pc, r) /\ Kept(a, pc, pc, r) /\ a \in Actors
    BY <1>1, <1>3 DEF Fresh, Actors
  <2>2. request[r].pc \notin Unissued \/ pc \notin Second
    BY <1>3 DEF Started, Second
  <2> QED
    BY <1>0, <1>3, <2>1, <2>2, FreshStays
<1>4. ASSUME NEW q \in Requests, HostShape(q), HostMove(q), NEW pc, NEW next, request[q].pc = pc, request'[q].pc = next
      PROVE  FreshOf(q, next, q)'
  <2>1. FreshOf(q, pc, q) /\ Kept(q, pc, next, q) /\ q \in Actors
    BY <1>1, <1>4 DEF Fresh, Actors
  <2>2. UNCHANGED <<host, policy, closed, lapsed>>
    BY <1>4 DEF HostShape, hostOnly
  <2>3. next \in RequestSteps
    BY <1>0, <1>4 DEF RequestRecords
  <2>4. (next \in Second => next = "confirm2") /\ (next \in Third => next = "confirm3")
        /\ (next \in Passed => next = "replied")
    BY <2>3 DEF Second, Third, Passed, RequestSteps
  <2>5. next \in Second \cup Third => request'[q].version = request[q].version /\ request'[q].policy = request[q].policy
    BY <1>4, <2>4 DEF HostMove, Unissued
  <2>6. next = "confirm3" => UNCHANGED entry
    BY <1>4 DEF HostMove
  <2> QED
    BY <1>0, <1>4, <2>1, <2>2, <2>4, <2>5, <2>6, FreshMoves DEF HostMove, Second, Third, Passed
<1>5. ASSUME NEW a \in Attempts, StudioShape(a), StudioMove(a), NEW pc, NEW next, NEW r \in Requests,
             attempt[a].pc = pc, attempt'[a].pc = next, attempt[a].for = r
      PROVE  attempt'[a].for = r /\ FreshOf(a, next, r)'
  <2>1. FreshOf(a, pc, r) /\ Kept(a, pc, next, r) /\ a \in Actors /\ attempt'[a].for = r
    BY <1>1, <1>5 DEF Fresh, Actors, StudioShape
  <2>2. UNCHANGED <<host, policy, closed, lapsed, request>>
    BY <1>5 DEF StudioShape, studioOnly
  <2>3. pc = "access" /\ next = "recheck" => pc \in Passed /\ next \in Passed
    BY DEF Passed
  <2>4. next \in Third => UNCHANGED entry
    BY <1>5 DEF StudioMove
  <2> QED
    BY <1>0, <1>5, <2>1, <2>2, <2>3, <2>4, FreshMoves DEF StudioMove
<1>6. CASE HostKind
  <2>1. PICK q \in Requests : HostShape(q) /\ HostMove(q)
    BY <1>6 DEF HostKind
  <2>2. q \notin Attempts /\ UNCHANGED attempt /\ \A u \in Actors : u # q => reading'[u] = reading[u]
    BY <1>0, <2>1 DEF HostShape, hostOnly
  <2>3. \A r \in Requests : \A pc : request'[r].pc = pc => FreshOf(r, pc, r)'
    BY <1>2, <1>4, <2>1, <2>2 DEF HostShape, Actors
  <2>4. \A a \in Attempts, r \in Requests : \A pc : attempt'[a].pc = pc /\ attempt'[a].for = r => FreshOf(a, pc, r)'
    BY <1>0, <1>3, <2>2 DEF Actors
  <2> QED
    BY <1>0, <2>3, <2>4 DEF Fresh, FreshOf
<1>7. CASE StudioKind
  <2>1. PICK b \in Attempts : StudioShape(b) /\ StudioMove(b)
    BY <1>7 DEF StudioKind
  <2>2. b \notin Requests /\ UNCHANGED request /\ (\A u \in Actors : u # b => reading'[u] = reading[u])
        /\ \A a \in Attempts : a # b => attempt'[a] = attempt[a]
    BY <1>0, <2>1 DEF StudioShape, studioOnly
  <2>3. \A r \in Requests : \A pc : request'[r].pc = pc => FreshOf(r, pc, r)'
    BY <1>0, <1>2, <2>2 DEF Actors
  <2>4. \A a \in Attempts, r \in Requests : \A pc : attempt'[a].pc = pc /\ attempt'[a].for = r => FreshOf(a, pc, r)'
    BY <1>0, <1>3, <1>5, <2>1, <2>2 DEF Actors, StudioShape
  <2> QED
    BY <1>0, <2>3, <2>4 DEF Fresh, FreshOf
<1>8. CASE WorldShape
  <2>1. UNCHANGED <<request, attempt, reading>>
    BY <1>8 DEF WorldShape
  <2>2. \A r \in Requests : \A pc : request'[r].pc = pc => FreshOf(r, pc, r)'
    BY <1>2, <2>1
  <2>3. \A a \in Attempts, r \in Requests : \A pc : attempt'[a].pc = pc /\ attempt'[a].for = r => FreshOf(a, pc, r)'
    BY <1>0, <1>3, <2>1
  <2> QED
    BY <1>0, <2>2, <2>3 DEF Fresh, FreshOf
<1>9. CASE InvokeKind
  <2>1. PICK q \in Requests : \E b \in Attempts : InvokeShape(q, b)
    BY <1>9 DEF InvokeKind
  <2>2. PICK b \in Attempts : InvokeShape(q, b)
    BY <2>1
  <2>3. /\ UNCHANGED reading /\ (\A r \in Requests : r # q => request'[r] = request[r])
        /\ (\A a \in Attempts : a # b => attempt'[a] = attempt[a]) /\ attempt'[b].pc = "consume"
        /\ request'[q] = request[q] \/ request'[q].pc = "waiting"
    BY <1>0, <2>2 DEF InvokeShape
  <2>4. "waiting" \notin Second \cup Third \cup Passed /\ "consume" \notin Second \cup Third \cup Passed
    BY DEF Second, Third, Passed
  <2>5. \A r \in Requests : \A pc : request'[r].pc = pc => FreshOf(r, pc, r)'
    BY <1>2, <2>3, <2>4 DEF FreshOf
  <2>6. \A a \in Attempts, r \in Requests : \A pc : attempt'[a].pc = pc /\ attempt'[a].for = r => FreshOf(a, pc, r)'
    BY <1>0, <1>3, <2>3, <2>4 DEF FreshOf
  <2> QED
    BY <1>0, <2>5, <2>6 DEF Fresh, FreshOf
<1> QED
  BY <1>0, <1>6, <1>7, <1>8, <1>9, Kinds

-----------------------------------------------------------------------------
(* The theorems                                                            *)

BridgeInv == TypeOK /\ NoEntryYet /\ Started /\ Once /\ Fresh

\* The invariant holds before the first request.
LEMMA BridgeInit ==
  ASSUME Init
  PROVE  BridgeInv
<1>1. 0 \in Versions /\ 1 \in Versions /\ Requests \cap Attempts = {}
  BY ChangesAssumption, ActorsAssumption DEF Versions
<1>2. PICK q \in Requests : attempt = [a \in Attempts |-> [pc |-> "new", for |-> q, own |-> FALSE]]
  BY DEF Init
<1>3. TypeOK
  <2>1. request \in [Requests -> [pc : RequestSteps, version : Versions, policy : Versions]]
    BY <1>1 DEF Init, RequestSteps
  <2>2. attempt \in [Attempts -> [pc : AttemptSteps, for : Requests, own : BOOLEAN]]
    BY <1>2 DEF AttemptSteps
  <2>3. Cardinality({r \in Requests : entry[r] \in {"open", "consumed"}}) <= maxInvocations
    <3>1. {r \in Requests : entry[r] \in {"open", "consumed"}} = {}
      BY DEF Init
    <3> QED
      BY <3>1, FS_EmptySet, LimitAssumption
  <2>4. host \in [valid : BOOLEAN, version : Versions] /\ policy \in Versions /\ closed \in BOOLEAN
    BY <1>1 DEF Init
  <2>5. entry \in [Requests -> {"none", "open", "consumed", "finished"}] /\ lapsed \subseteq Requests
        /\ reading \in [Actors -> Versions] /\ held \subseteq Actors /\ accesses \in [Requests -> Nat]
    BY <1>1 DEF Init
  <2> QED
    BY <2>1, <2>2, <2>3, <2>4, <2>5, Zenon DEF TypeOK
<1>4. NoEntryYet /\ Started
  BY <1>2 DEF Init, NoEntryYet, Started
<1>5. Once
  BY <1>2 DEF Init, Once, Serving, Served, Answering
<1>6. Fresh
  BY <1>2 DEF Init, Fresh, FreshOf, Second, Third, Passed
<1> QED
  BY <1>3, <1>4, <1>5, <1>6 DEF BridgeInv

\* Every step keeps the invariant.
LEMMA BridgeNext ==
  ASSUME BridgeInv, [Next]_vars
  PROVE  BridgeInv'
<1>1. CASE Next
  <2>1. TypeOK /\ NoEntryYet /\ Started /\ Once /\ Fresh /\ Step
    BY <1>1 DEF BridgeInv, Next
  <2>2. TypeOK'
    BY <1>1, <2>1, TypeNext
  <2>3. NoEntryYet' /\ Started'
    BY <2>1, NoEntryNext
  <2>4. Once'
    BY <2>1, OnceNext
  <2>5. Fresh'
    BY <1>1, <2>1, <2>2, FreshNext
  <2> QED
    BY <2>2, <2>3, <2>4, <2>5 DEF BridgeInv
<1>2. CASE UNCHANGED vars
  BY <1>2 DEF vars, BridgeInv, TypeOK, NoEntryYet, Started, Once, Fresh, FreshOf, stillSame, current, bound, revoked
<1> QED
  BY <1>1, <1>2

(* The state the proofs keep, in every behaviour.                          *)
THEOREM BridgeInvariant == Spec => []BridgeInv
<1>1. Init => BridgeInv
  BY BridgeInit
<1>2. BridgeInv /\ [Next]_vars => BridgeInv'
  BY BridgeNext
<1> QED
  BY <1>1, <1>2, PTL DEF Spec

(* Every variable stays in its domain, and the registry (invocation.ts)    *)
(* never holds more open handles than maxInvocations.                      *)
THEOREM BridgeTypes == Spec => []TypeOK
<1>1. BridgeInv => TypeOK
  BY DEF BridgeInv
<1> QED
  BY <1>1, BridgeInvariant, PTL

(* Whoever passes a check of fresh (host-bridge's invocation.ts) had, at   *)
(* one instant between its reads, the session, the policy, the connection  *)
(* and the open handle all at once.                                        *)
THEOREM ChecksSawAuthority == Spec => []FreshAuthority
<1>1. BridgeInv => FreshAuthority
  BY FreshIsAuthority DEF BridgeInv
<1> QED
  BY <1>1, BridgeInvariant, PTL

(* However often a handle is presented to consume, the draft store is      *)
(* touched at most once for it, and exactly once when the host replies.    *)
THEOREM HandleServesOnce == Spec => []UsedOnce
<1>1. BridgeInv => UsedOnce
  <2>1. SUFFICES ASSUME BridgeInv, NEW r \in Requests
                 PROVE  accesses[r] <= 1 /\ (request[r].pc = "replied" => accesses[r] = 1)
    BY DEF UsedOnce
  <2>2. accesses[r] \in {0, 1} /\ (request[r].pc \in Answering => accesses[r] = 1)
    BY <2>1 DEF BridgeInv, Once
  <2> QED
    BY <2>2 DEF Answering
<1> QED
  BY <1>1, BridgeInvariant, PTL
=============================================================================
