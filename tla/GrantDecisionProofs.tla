-------------------------- MODULE GrantDecisionProofs --------------------------
(***************************************************************************)
(* For any people, tiers, window and number of writes: an allowance held   *)
(* as a whole at one instant of the call, and a decision that is usable    *)
(* was true at most TTL ago.                                               *)
(*                                                                         *)
(* The instant is the look into the directory that admitted a signature    *)
(* (or, below the named tiers, the read of the project row).  What was     *)
(* read before it is not known to hold then; it is known afterwards, by    *)
(* the confirmation: a row that differs from what the call read cannot     *)
(* become equal again unless somebody puts it back (restored), and the     *)
(* approvals only grow (ApprovalsGrew).  So the invariant says of each     *)
(* stage: if what is still to be confirmed equals what was read, then      *)
(* every layer has held at once since the call began.                      *)
(***************************************************************************)
EXTENDS GrantDecision, TLAPS

named == requiresNamedApproval(call.tier)

\* Every layer has held at once since the call began.
held == lastHeld >= call.issuedAt

(* Where the rows have been read and intersected, and found to grant.      *)
AfterRows == {"readApprovals", "admit", "confirmCeiling", "confirmProject", "confirmApprovals"}
RowsGrant ==
  call.pc \in AfterRows => grants(call.ceiling, call.tier) /\ grants(call.project, call.tier)

(* Only the named tiers come to the approvals.                             *)
NamedSteps == {"readApprovals", "admit", "confirmApprovals"}
NamedOnly == call.pc \in NamedSteps => named

(* The list that was read is behind the list on record, never ahead.       *)
AfterApprovals == {"admit", "confirmCeiling", "confirmProject", "confirmApprovals"}
ApprovalsGrew ==
  call.pc \in AfterApprovals /\ named =>
    /\ Len(call.approvals) <= Len(approvals)
    /\ \A i \in 1 .. Len(call.approvals) : call.approvals[i].revoked => approvals[i].revoked

sameApprovals == named => approvals = call.approvals

(* A scan starts at the first signature, with none admitted.               *)
ScanStarts == call.pc \notin AfterApprovals => call.at = 1 /\ call.admitted = {}

(* Nothing has been confirmed yet.                                         *)
BeforeConfirm ==
  /\ call.pc = "confirmCeiling" \/ (call.pc = "admit" /\ call.admitted # {})
  /\ ceiling = call.ceiling /\ project = call.project /\ sameApprovals /\ ~restored
  => held

(* The ceiling has been confirmed; then the project.                       *)
CeilingConfirmed ==
  /\ call.pc = "confirmProject" /\ ~call.moved
  /\ project = call.project /\ sameApprovals /\ ~restored
  => held

ProjectConfirmed ==
  call.pc = "confirmApprovals" /\ ~call.moved /\ approvals = call.approvals /\ ~restored => held

Clocks == call.issuedAt <= clock /\ lastHeld <= clock

GrantInv ==
  /\ TypeOK
  /\ Clocks
  /\ RowsGrant /\ NamedOnly /\ ApprovalsGrew /\ ScanStarts
  /\ BeforeConfirm /\ CeilingConfirmed /\ ProjectConfirmed
  /\ AllowedHeldAtOnce

-----------------------------------------------------------------------------
(* Shapes *)

(* The call records that the actions build, field by field.                *)
LEMMA DecisionFields ==
  ASSUME TypeOK, NEW allowed \in BOOLEAN
  PROVE  /\ decision(allowed) \in Calls
         /\ decision(allowed).at = 1 /\ decision(allowed).admitted = {} /\ decision(allowed).approvals = << >>
         /\ decision(allowed).pc = "decided" /\ decision(allowed).allowed = allowed
         /\ decision(allowed).issuedAt = call.issuedAt /\ decision(allowed).tier = call.tier
<1>1. blank(call.tier) \in Calls
  BY PeopleAssumption, BoundAssumption DEF blank, TypeOK, Calls, Rows, Steps
<1>2. ASSUME NEW r \in Calls, NEW x \in Steps, NEW i \in 0 .. MaxClock, NEW a \in BOOLEAN, NEW s \in People
      PROVE  [r EXCEPT !.pc = x, !.issuedAt = i, !.allowed = a, !.signer = s] \in Calls
  BY Zenon DEF Calls
<1>3. /\ "decided" \in Steps
      /\ call.issuedAt \in 0 .. MaxClock /\ call.signer \in People
  BY DEF TypeOK, Calls, Steps
<1>4. decision(allowed) \in Calls
  BY <1>1, <1>2, <1>3 DEF decision
<1> QED
  BY <1>4 DEF decision, blank

\* What a call is when it starts: nothing read, issued now.
LEMMA AskFields ==
  ASSUME TypeOK, NEW tier \in Tiers
  PROVE  LET q == [blank(tier) EXCEPT !.pc = "resolve", !.issuedAt = clock]
         IN /\ q \in Calls
            /\ q.pc = "resolve" /\ q.issuedAt = clock
            /\ q.at = 1 /\ q.admitted = {} /\ q.approvals = << >>
<1>1. blank(tier) \in Calls
  BY PeopleAssumption, BoundAssumption DEF blank, TypeOK, Calls, Rows, Steps
<1>2. ASSUME NEW r \in Calls, NEW x \in Steps, NEW i \in 0 .. MaxClock
      PROVE  [r EXCEPT !.pc = x, !.issuedAt = i] \in Calls
  BY Zenon DEF Calls
<1>3. "resolve" \in Steps /\ clock \in 0 .. MaxClock
  BY DEF TypeOK, Steps
<1>4. [blank(tier) EXCEPT !.pc = "resolve", !.issuedAt = clock] \in Calls
  BY <1>1, <1>2, <1>3
<1> QED
  BY <1>4 DEF blank

\* Every change a step makes to a call leaves it a call.
LEMMA CallsClosed ==
  ASSUME NEW r \in Calls, NEW x \in Steps
  PROVE  /\ [r EXCEPT !.pc = x] \in Calls
         /\ \A c \in Rows : [r EXCEPT !.pc = x, !.ceiling = c] \in Calls
         /\ \A p \in Rows : [r EXCEPT !.project = p, !.pc = x] \in Calls
         /\ \A q \in Seq(Approval) : [r EXCEPT !.pc = x, !.approvals = q] \in Calls
         /\ \A n \in Nat, A \in SUBSET Nat : [r EXCEPT !.at = n, !.admitted = A] \in Calls
         /\ \A s \in People : [r EXCEPT !.pc = x, !.signer = s] \in Calls
         /\ \A b \in BOOLEAN : [r EXCEPT !.pc = x, !.moved = b] \in Calls
<1>1. /\ [r EXCEPT !.pc = x] \in Calls
      /\ \A c \in Rows : [r EXCEPT !.pc = x, !.ceiling = c] \in Calls
      /\ \A p \in Rows : [r EXCEPT !.project = p, !.pc = x] \in Calls
  BY Zenon DEF Calls
<1>2. /\ \A q \in Seq(Approval) : [r EXCEPT !.pc = x, !.approvals = q] \in Calls
      /\ \A n \in Nat, A \in SUBSET Nat : [r EXCEPT !.at = n, !.admitted = A] \in Calls
  BY Zenon DEF Calls
<1>3. /\ \A s \in People : [r EXCEPT !.pc = x, !.signer = s] \in Calls
      /\ \A b \in BOOLEAN : [r EXCEPT !.pc = x, !.moved = b] \in Calls
  BY Zenon DEF Calls
<1> QED
  BY <1>1, <1>2, <1>3

\* The watch on the last held instant keeps its shape.
LEMMA WatchTyped ==
  ASSUME TypeOK, clock' \in 0 .. MaxClock, Watch
  PROVE  lastHeld' \in -1 .. MaxClock
<1>1. lastHeld' = clock' \/ lastHeld' = -1 \/ lastHeld' = lastHeld
  BY DEF Watch
<1> QED
  BY <1>1, BoundAssumption DEF TypeOK

CallOK ==
  call \in Calls /\ call.at \in 1 .. Len(call.approvals) + 1 /\ call.admitted \subseteq 1 .. Len(call.approvals)

(* Every step of the call leaves a well-shaped call, and nothing else.     *)
LEMMA CallTyped ==
  ASSUME TypeOK, ScanStarts, Step
  PROVE  CallOK' /\ quiet
<1>0. quiet /\ CallOK
  BY DEF Step, resolve, readCeiling, readProject, readApprovals, admitNext, admitted,
         confirmCeiling, confirmProject, confirmApprovals, TypeOK, CallOK
<1>a. ASSUME NEW allowed \in BOOLEAN, call' = decision(allowed)
      PROVE  CallOK'
  BY <1>a, DecisionFields DEF CallOK
<1>b. Steps = {"none", "resolve", "readCeiling", "readProject", "readApprovals", "admit",
               "confirmCeiling", "confirmProject", "confirmApprovals", "decided"}
  BY DEF Steps
<1>1. CASE resolve
  <2>1. CASE call' = [call EXCEPT !.pc = "readCeiling"]
    <3>1. call' \in Calls
      BY <1>0, <1>b, <2>1, CallsClosed DEF CallOK
    <3> QED
      BY <1>0, <2>1, <3>1 DEF CallOK, Calls
  <2> QED
    BY <1>0, <1>1, <1>a, <2>1 DEF resolve, refuse, goto
<1>2. CASE readCeiling
  <2>1. call' \in Calls
    BY <1>0, <1>b, <1>2, CallsClosed DEF CallOK, readCeiling, TypeOK
  <2> QED
    BY <1>0, <1>2, <2>1 DEF CallOK, readCeiling, Calls
<1>3. CASE readProject
  <2>1. CASE \E x \in Steps : call' = [call EXCEPT !.project = project, !.pc = x]
    <3>1. PICK x \in Steps : call' = [call EXCEPT !.project = project, !.pc = x]
      BY <2>1
    <3>2. call' \in Calls
      BY <1>0, <3>1, CallsClosed DEF CallOK, TypeOK
    <3> QED
      BY <1>0, <3>1, <3>2 DEF CallOK, Calls
  <2>2. call' = decision(FALSE) \/ \E x \in Steps : call' = [call EXCEPT !.project = project, !.pc = x]
    BY <1>3, <1>b DEF readProject, refuse
  <2> QED
    BY <1>0, <1>a, <2>1, <2>2
<1>4. CASE readApprovals
  <2>1. call' \in Calls
    BY <1>0, <1>b, <1>4, CallsClosed DEF CallOK, readApprovals, TypeOK
  <2>2. call.at = 1 /\ call.admitted = {}
    BY <1>4 DEF readApprovals, ScanStarts, AfterApprovals
  <2>3. call'.approvals = approvals /\ call'.at = call.at /\ call'.admitted = call.admitted
    BY <1>0, <1>4 DEF CallOK, readApprovals, Calls
  <2>4. Len(approvals) \in Nat
    BY DEF TypeOK
  <2>5. /\ call'.at \in 1 .. Len(call'.approvals) + 1
        /\ call'.admitted \subseteq 1 .. Len(call'.approvals)
    BY <2>2, <2>3, <2>4
  <2> QED
    BY <1>0, <2>1, <2>5 DEF CallOK
<1>5. CASE admitNext
  <2>1. CASE call' = [call EXCEPT !.at = call.at + 1, !.admitted = call.admitted]
    <3>1. call.at + 1 \in Nat /\ call.admitted \in SUBSET Nat
      BY <1>0 DEF CallOK, Calls
    <3>2. call' \in Calls
      BY <1>0, <1>b, <2>1, <3>1, CallsClosed DEF CallOK
    <3> QED
      BY <1>0, <1>5, <2>1, <3>2 DEF CallOK, Calls, admitNext
  <2>2. CASE call' = [call EXCEPT !.at = call.at + 1, !.admitted = call.admitted \cup {call.at}]
    <3>1. call.at + 1 \in Nat /\ call.admitted \cup {call.at} \in SUBSET Nat
      BY <1>0 DEF CallOK, Calls
    <3>2. call' \in Calls
      BY <1>0, <1>b, <2>2, <3>1, CallsClosed DEF CallOK
    <3> QED
      BY <1>0, <1>5, <2>2, <3>2 DEF CallOK, Calls, admitNext
  <2> QED
    BY <1>5, <2>1, <2>2 DEF admitNext
<1>6. CASE admitted
  <2>1. CASE \E i \in narrowest : call' = [call EXCEPT !.pc = "confirmCeiling", !.signer = call.approvals[i].by]
    <3>1. PICK i \in narrowest :
            call' = [call EXCEPT !.pc = "confirmCeiling", !.signer = call.approvals[i].by]
      BY <2>1
    <3>2. i \in 1 .. Len(call.approvals) /\ call.approvals \in Seq(Approval)
      BY <1>0 DEF CallOK, Calls, narrowest
    <3>3. call.approvals[i] \in Approval
      BY <3>2
    <3>4. call.approvals[i].by \in People
      BY <3>3 DEF Approval
    <3>5. call' \in Calls
      BY <1>0, <1>b, <3>1, <3>4, CallsClosed DEF CallOK
    <3> QED
      BY <1>0, <3>1, <3>5 DEF CallOK, Calls
  <2> QED
    BY <1>0, <1>6, <1>a, <2>1 DEF admitted, refuse
<1>7. CASE confirmCeiling
  <2>1. (call.moved \/ ceiling # call.ceiling) \in BOOLEAN
    BY <1>0 DEF CallOK, Calls
  <2>2. call' = [call EXCEPT !.pc = "confirmProject", !.moved = call.moved \/ ceiling # call.ceiling]
    BY <1>7 DEF confirmCeiling
  <2>3. call' \in Calls
    BY <1>0, <1>b, <2>1, <2>2, CallsClosed DEF CallOK
  <2> QED
    BY <1>0, <2>2, <2>3 DEF CallOK, Calls
<1>8. CASE confirmProject
  <2>1. CASE call' = [call EXCEPT !.pc = "confirmApprovals", !.moved = call.moved \/ project # call.project]
    <3>1. (call.moved \/ project # call.project) \in BOOLEAN
      BY <1>0 DEF CallOK, Calls
    <3>2. call' \in Calls
      BY <1>0, <1>b, <2>1, <3>1, CallsClosed DEF CallOK
    <3> QED
      BY <1>0, <2>1, <3>2 DEF CallOK, Calls
  <2>2. confirmed(project = call.project) \in BOOLEAN
    BY DEF confirmed
  <2> QED
    BY <1>0, <1>8, <1>a, <2>1, <2>2 DEF confirmProject
<1>9. CASE confirmApprovals
  <2>1. confirmed(approvals = call.approvals) \in BOOLEAN
    BY DEF confirmed
  <2> QED
    BY <1>0, <1>9, <1>a, <2>1 DEF confirmApprovals
<1> QED
  BY <1>0, <1>1, <1>2, <1>3, <1>4, <1>5, <1>6, <1>7, <1>8, <1>9 DEF Step

\* The note that a row was put back keeps its shape.
LEMMA PutBackTyped ==
  ASSUME NEW old, NEW new, NEW seen, putBack(old, new, seen)
  PROVE  restored' \in BOOLEAN
<1>1. (restored \/ (old # new /\ new = seen /\ call.pc # "decided")) \in BOOLEAN
  BY Zenon
<1> QED
  BY Zenon, <1>1 DEF putBack

(* What an operator or the clock writes has its type.                      *)
LEMMA OperatorTyped ==
  ASSUME TypeOK, Operator
  PROVE  /\ ceiling' \in Rows /\ project' \in Rows
         /\ approvals' \in Seq(Approval) /\ Len(approvals') <= MaxApprovals
         /\ directory' \in [People -> Standing]
         /\ writes' \in 0 .. MaxWrites /\ restored' \in BOOLEAN
         /\ UNCHANGED <<clock, call>>
<1>. USE BoundAssumption
<1>1. CASE \E row \in Rows \ {NoRow} : ~row.revoked /\ putGrantRow(row)
  <2>1. restored' \in BOOLEAN
    BY <1>1, PutBackTyped DEF putGrantRow
  <2> QED
    BY <1>1, <2>1 DEF putGrantRow, write, TypeOK
<1>2. CASE revokeGrantRow
  <2>1. ASSUME NEW row \in Rows, row # NoRow
        PROVE  [row EXCEPT !.revoked = TRUE] \in Rows
    <3>1. row \in [maxTier : Tiers, revoked : BOOLEAN]
      BY <2>1 DEF Rows
    <3> QED
      BY <3>1 DEF Rows
  <2>2. ceiling' \in Rows /\ project' \in Rows
    BY <1>2, <2>1 DEF revokeGrantRow, TypeOK
  <2>3. restored' \in BOOLEAN
    BY <1>2, PutBackTyped DEF revokeGrantRow
  <2> QED
    BY <1>2, <2>2, <2>3 DEF revokeGrantRow, write, TypeOK
<1>3. CASE \E a \in Approval : ~a.revoked /\ putApproval(a)
  BY <1>3 DEF putApproval, write, TypeOK
<1>4. CASE \E i \in 1 .. Len(approvals) : revokeApproval(i)
  <2>1. PICK i \in 1 .. Len(approvals) : revokeApproval(i)
    BY <1>4
  <2>2. approvals \in Seq(Approval) /\ approvals[i] \in Approval
    BY DEF TypeOK
  <2>3. [approvals[i] EXCEPT !.revoked = TRUE] \in Approval
    BY <2>2 DEF Approval
  <2>4. approvals' = [approvals EXCEPT ![i] = [approvals[i] EXCEPT !.revoked = TRUE]]
    BY <2>1 DEF revokeApproval
  <2>5. approvals' \in Seq(Approval) /\ Len(approvals') = Len(approvals)
    BY <2>2, <2>3, <2>4
  <2> QED
    BY <2>1, <2>5 DEF revokeApproval, write, TypeOK
<1>5. CASE \E p \in People, s \in Standing : changeDirectory(p, s)
  BY <1>5 DEF changeDirectory, write, TypeOK
<1> QED
  BY <1>1, <1>2, <1>3, <1>4, <1>5 DEF Operator

\* Every step keeps the shapes of the variables.
LEMMA TypeNext ==
  ASSUME TypeOK, ScanStarts, [Next]_vars
  PROVE  TypeOK'
<1>1. CASE UNCHANGED vars
  BY <1>1 DEF vars, TypeOK
<1>2. CASE ask /\ Watch
  <2>1. PICK tier \in Tiers : call' = [blank(tier) EXCEPT !.pc = "resolve", !.issuedAt = clock]
    BY <1>2 DEF ask
  <2>2. /\ call' \in Calls /\ call'.at = 1 /\ call'.admitted = {}
        /\ call'.approvals = << >>
    BY <2>1, AskFields
  <2>3. CallOK'
    BY <2>2 DEF CallOK
  <2> QED
    BY <1>2, <2>3, WatchTyped DEF ask, CallOK, TypeOK
<1>3. CASE Step /\ Watch
  BY <1>3, CallTyped, WatchTyped DEF quiet, CallOK, TypeOK
<1>4. CASE Operator /\ Watch
  BY <1>4, OperatorTyped, WatchTyped DEF TypeOK
<1>5. CASE tick /\ Watch
  <2>1. clock' \in 0 .. MaxClock
    BY <1>5, BoundAssumption DEF tick, TypeOK
  <2> QED
    BY <1>5, <2>1, WatchTyped DEF tick, TypeOK
<1> QED
  BY <1>1, <1>2, <1>3, <1>4, <1>5 DEF Next

-----------------------------------------------------------------------------
(* The instant *)

\* An instant since the call was issued, at which everything held, stays one.
LEMMA HeldStays ==
  ASSUME TypeOK, Clocks, Watch, clock' \in Nat, clock' >= clock,
         call'.pc # "resolve" \/ call.pc = "resolve", call'.issuedAt = call.issuedAt, held
  PROVE  held'
BY DEF Watch, held, Clocks, TypeOK, Calls

(* This is the instant.                                                    *)
LEMMA HeldNow ==
  ASSUME TypeOK, Clocks, Watch, UNCHANGED clock, call'.issuedAt = call.issuedAt,
         call'.tier = call.tier, entitled(call.tier)'
  PROVE  held'
BY DEF Watch, held, Clocks, TypeOK, Calls

(* Every step of the call is about the same question, asked at the same time. *)
LEMMA StepFields ==
  ASSUME TypeOK, Step
  PROVE  /\ quiet
         /\ call'.issuedAt = call.issuedAt /\ call'.tier = call.tier
         /\ call'.pc # "resolve"
<1>1. call \in Calls /\ FALSE \in BOOLEAN
  BY DEF TypeOK
<1>2. ASSUME NEW allowed \in BOOLEAN, call' = decision(allowed)
      PROVE  call'.issuedAt = call.issuedAt /\ call'.tier = call.tier /\ call'.pc # "resolve"
  BY <1>2, DecisionFields
<1>3. CASE resolve \/ readCeiling \/ readProject \/ readApprovals
  BY <1>1, <1>2, <1>3 DEF resolve, readCeiling, readProject, readApprovals, refuse, goto, quiet, Calls
<1>4. CASE admitNext
  BY <1>1, <1>4 DEF admitNext, quiet, Calls
<1>5. CASE admitted
  BY <1>1, <1>2, <1>5 DEF admitted, refuse, quiet, Calls
<1>6. CASE confirmCeiling \/ confirmProject \/ confirmApprovals
  <2>1. confirmed(project = call.project) \in BOOLEAN /\ confirmed(approvals = call.approvals) \in BOOLEAN
    BY DEF confirmed
  <2> QED
    BY <1>1, <1>2, <1>6, <2>1 DEF confirmCeiling, confirmProject, confirmApprovals, quiet, Calls
<1> QED
  BY <1>3, <1>4, <1>5, <1>6 DEF Step

\* The clock only grows, and no call is issued in the future.
LEMMA ClocksNext ==
  ASSUME TypeOK, Clocks, [Next]_vars
  PROVE  Clocks'
<1>1. CASE UNCHANGED vars
  BY <1>1 DEF vars, Clocks
<1>2. ASSUME clock' \in Nat, clock' >= clock, Watch
      PROVE  lastHeld' <= clock'
  BY <1>2 DEF Watch, Clocks, TypeOK
<1>3. CASE ask /\ Watch
  <2>1. call'.issuedAt = clock
    BY <1>3, AskFields DEF ask
  <2> QED
    BY <1>2, <1>3, <2>1 DEF ask, Clocks, TypeOK
<1>4. CASE Step /\ Watch
  <2>1. UNCHANGED clock /\ call'.issuedAt = call.issuedAt
    BY <1>4, StepFields DEF quiet
  <2> QED
    BY <1>2, <1>4, <2>1 DEF Clocks, TypeOK
<1>5. CASE Operator /\ Watch
  BY <1>2, <1>5, OperatorTyped DEF Clocks, TypeOK
<1>6. CASE tick /\ Watch
  <2>1. clock' \in Nat /\ clock' >= clock /\ call'.issuedAt = call.issuedAt
    BY <1>6 DEF tick, TypeOK
  <2> QED
    BY <1>2, <1>6, <2>1 DEF Clocks, TypeOK, tick, Calls
<1> QED
  BY <1>1, <1>3, <1>4, <1>5, <1>6 DEF Next

-----------------------------------------------------------------------------
(* The steps of the call *)

(* A refusal promises nothing.                                             *)
LEMMA RefusalPreserves ==
  ASSUME TypeOK, call' = decision(FALSE), TypeOK', Clocks'
  PROVE  GrantInv'
<1>1. /\ call'.pc = "decided" /\ ~call'.allowed
      /\ call'.at = 1 /\ call'.admitted = {}
  BY DecisionFields
<1> QED
  BY <1>1 DEF GrantInv, RowsGrant, NamedOnly, ApprovalsGrew, ScanStarts, BeforeConfirm,
       CeilingConfirmed, ProjectConfirmed, AllowedHeldAtOnce, AfterRows, NamedSteps, AfterApprovals

\* Resolving the tier and reading the ceiling row keep the invariant.
LEMMA ResolvePreserves ==
  ASSUME GrantInv, resolve \/ readCeiling, TypeOK', Clocks'
  PROVE  GrantInv'
<1>1. call \in Calls
  BY DEF GrantInv, TypeOK
<1>2. CASE call' = decision(FALSE)
  BY <1>2, RefusalPreserves DEF GrantInv
<1>3. CASE /\ call'.pc \in {"readCeiling", "readProject"}
           /\ call'.at = call.at /\ call'.admitted = call.admitted
           /\ call.pc \notin AfterApprovals
  BY <1>3 DEF GrantInv, RowsGrant, NamedOnly, ApprovalsGrew, ScanStarts, BeforeConfirm,
       CeilingConfirmed, ProjectConfirmed, AllowedHeldAtOnce, AfterRows, NamedSteps, AfterApprovals
<1> QED
  BY <1>1, <1>2, <1>3 DEF resolve, readCeiling, refuse, goto, Calls, AfterApprovals

\* Reading the project row keeps the invariant.
LEMMA ReadProjectPreserves ==
  ASSUME GrantInv, readProject, Watch, TypeOK', Clocks'
  PROVE  GrantInv'
<1>1. call \in Calls
  BY DEF GrantInv, TypeOK
<1>2. CASE call' = decision(FALSE)
  BY <1>2, RefusalPreserves DEF GrantInv
<1>3. CASE call' # decision(FALSE)
  <2>1. /\ call.tier \in effectiveTiers(call.ceiling, project)
        /\ call' = [call EXCEPT !.project = project,
                               !.pc = IF named THEN "readApprovals" ELSE "confirmCeiling"]
        /\ quiet
    BY <1>3 DEF readProject, refuse, named
  <2>2. /\ call'.tier = call.tier /\ call'.issuedAt = call.issuedAt
        /\ call'.ceiling = call.ceiling /\ call'.project = project
        /\ call'.at = call.at /\ call'.admitted = call.admitted
        /\ call'.pc = IF named THEN "readApprovals" ELSE "confirmCeiling"
    BY <1>1, <2>1 DEF Calls
  <2>3. grants(call.ceiling, call.tier) /\ grants(project, call.tier)
    BY <1>1, <2>1, NoRowAssumption DEF effectiveTiers, tiersUpTo, grants
  <2>4. RowsGrant' /\ NamedOnly'
    BY <2>2, <2>3 DEF RowsGrant, NamedOnly, named, grants, NamedSteps
  <2>5. call.at = 1 /\ call.admitted = {}
    BY DEF GrantInv, ScanStarts, readProject, AfterApprovals
  <2>6. ScanStarts' /\ ApprovalsGrew'
    BY <2>2, <2>5 DEF ScanStarts, ApprovalsGrew, AfterApprovals, named
  <2>7. BeforeConfirm'
    <3>1. CASE named
      BY <2>2, <3>1 DEF BeforeConfirm
    <3>2. CASE ~named
      <4>1. SUFFICES ASSUME ceiling' = call'.ceiling
                     PROVE  held'
        BY DEF BeforeConfirm
      <4>2. entitled(call.tier)'
        BY <2>1, <2>2, <2>3, <3>2, <4>1 DEF quiet, entitled, grants, named, requiresNamedApproval
      <4> QED
        BY <2>1, <2>2, <4>2, HeldNow DEF quiet, GrantInv
    <3> QED
      BY <3>1, <3>2
  <2>8. CeilingConfirmed' /\ ProjectConfirmed' /\ AllowedHeldAtOnce'
    BY <2>2 DEF CeilingConfirmed, ProjectConfirmed, AllowedHeldAtOnce
  <2> QED
    BY <2>4, <2>6, <2>7, <2>8 DEF GrantInv
<1> QED
  BY <1>2, <1>3

\* Reading the approvals keeps the invariant.
LEMMA ReadApprovalsPreserves ==
  ASSUME GrantInv, readApprovals, TypeOK', Clocks'
  PROVE  GrantInv'
<1>1. call \in Calls /\ Len(approvals) \in Nat
  BY DEF GrantInv, TypeOK
<1>2. /\ call.pc = "readApprovals" /\ call'.pc = "admit"
      /\ call'.ceiling = call.ceiling /\ call'.project = call.project /\ call'.tier = call.tier
      /\ call'.approvals = approvals /\ approvals' = approvals
      /\ call'.at = call.at /\ call'.admitted = call.admitted
  BY <1>1 DEF readApprovals, quiet, Calls
<1>3. call.admitted = {} /\ named /\ grants(call.ceiling, call.tier) /\ grants(call.project, call.tier)
  BY <1>2 DEF GrantInv, ScanStarts, NamedOnly, NamedSteps, RowsGrant, AfterRows, AfterApprovals
<1>4. RowsGrant' /\ NamedOnly' /\ ScanStarts' /\ ApprovalsGrew'
  BY <1>1, <1>2, <1>3 DEF RowsGrant, NamedOnly, ScanStarts, ApprovalsGrew, named, grants, AfterApprovals
<1>5. BeforeConfirm' /\ CeilingConfirmed' /\ ProjectConfirmed' /\ AllowedHeldAtOnce'
  BY <1>2, <1>3 DEF BeforeConfirm, CeilingConfirmed, ProjectConfirmed, AllowedHeldAtOnce
<1> QED
  BY <1>4, <1>5 DEF GrantInv

(* A look into the directory that admits a signature is the instant.       *)
LEMMA AdmitNextPreserves ==
  ASSUME GrantInv, admitNext, Watch, TypeOK', Clocks'
  PROVE  GrantInv'
<1>1. call \in Calls /\ CallOK /\ Len(approvals) \in Nat /\ clock \in Nat
  BY DEF GrantInv, TypeOK, CallOK
<1>2. /\ call.pc = "admit" /\ call'.pc = "admit" /\ call.at <= Len(call.approvals)
      /\ call'.ceiling = call.ceiling /\ call'.project = call.project /\ call'.tier = call.tier
      /\ call'.approvals = call.approvals /\ call'.issuedAt = call.issuedAt
      /\ quiet
  BY <1>1 DEF admitNext, Calls, quiet
<1>3. /\ admissible(call.approvals[call.at]) => call'.admitted = call.admitted \cup {call.at}
      /\ ~admissible(call.approvals[call.at]) => call'.admitted = call.admitted
  BY <1>1 DEF admitNext, Calls
<1>4. named /\ grants(call.ceiling, call.tier) /\ grants(call.project, call.tier)
  BY <1>2 DEF GrantInv, NamedOnly, NamedSteps, RowsGrant, AfterRows
<1>5. RowsGrant' /\ NamedOnly' /\ ScanStarts' /\ ApprovalsGrew'
  BY <1>1, <1>2, <1>4 DEF GrantInv, RowsGrant, NamedOnly, ScanStarts, ApprovalsGrew, named, grants,
       AfterApprovals, quiet
<1>6. BeforeConfirm'
  <2>1. SUFFICES ASSUME call'.admitted # {}, ceiling' = call'.ceiling, project' = call'.project,
                        sameApprovals', ~restored'
                 PROVE  held'
    BY <1>2 DEF BeforeConfirm
  <2>2. ceiling = call.ceiling /\ project = call.project /\ approvals = call.approvals /\ ~restored
    BY <1>2, <1>4, <2>1 DEF quiet, sameApprovals, named
  <2>3. CASE admissible(call.approvals[call.at])
    <3>1. call.at \in 1 .. Len(approvals) /\ signs(approvals[call.at], call.tier)
      BY <1>1, <1>2, <2>2, <2>3 DEF admissible, CallOK
    <3>2. entitled(call.tier)
      BY <1>4, <2>2, <3>1 DEF entitled
    <3>3. entitled(call.tier)'
      BY <1>2, <3>2 DEF quiet, entitled, grants, signs
    <3> QED
      BY <1>2, <3>3, HeldNow DEF quiet, GrantInv
  <2>4. CASE ~admissible(call.approvals[call.at])
    <3>1. held
      BY <1>2, <1>3, <2>1, <2>2, <2>4 DEF GrantInv, BeforeConfirm, sameApprovals
    <3> QED
      BY <1>1, <1>2, <3>1, HeldStays DEF quiet, GrantInv
  <2> QED
    BY <2>3, <2>4
<1>7. CeilingConfirmed' /\ ProjectConfirmed' /\ AllowedHeldAtOnce'
  BY <1>2 DEF CeilingConfirmed, ProjectConfirmed, AllowedHeldAtOnce
<1> QED
  BY <1>5, <1>6, <1>7 DEF GrantInv

\* Judging one approval after another keeps the invariant.
LEMMA AdmittedPreserves ==
  ASSUME GrantInv, admitted, Watch, TypeOK', Clocks'
  PROVE  GrantInv'
<1>1. call \in Calls /\ clock \in Nat
  BY DEF GrantInv, TypeOK
<1>2. CASE call' = decision(FALSE)
  BY <1>2, RefusalPreserves DEF GrantInv
<1>3. CASE call' # decision(FALSE)
  <2>1. /\ call.pc = "admit" /\ call.admitted # {} /\ call'.pc = "confirmCeiling"
        /\ call'.ceiling = call.ceiling /\ call'.project = call.project /\ call'.tier = call.tier
        /\ call'.approvals = call.approvals /\ call'.issuedAt = call.issuedAt
        /\ quiet
    BY <1>1, <1>3 DEF admitted, refuse, Calls, quiet
  <2>2. RowsGrant' /\ NamedOnly' /\ ScanStarts' /\ ApprovalsGrew'
    BY <2>1 DEF GrantInv, RowsGrant, NamedOnly, ScanStarts, ApprovalsGrew, named, grants,
         AfterApprovals, AfterRows, NamedSteps, quiet
  <2>3. BeforeConfirm'
    <3>1. SUFFICES ASSUME ceiling' = call'.ceiling, project' = call'.project,
                          sameApprovals', ~restored'
                   PROVE  held'
      BY DEF BeforeConfirm
    <3>2. held
      BY <2>1, <3>1 DEF GrantInv, BeforeConfirm, sameApprovals, named, quiet
    <3> QED
      BY <1>1, <2>1, <3>2, HeldStays DEF quiet, GrantInv
  <2>4. CeilingConfirmed' /\ ProjectConfirmed' /\ AllowedHeldAtOnce'
    BY <2>1 DEF CeilingConfirmed, ProjectConfirmed, AllowedHeldAtOnce
  <2> QED
    BY <2>2, <2>3, <2>4 DEF GrantInv
<1> QED
  BY <1>2, <1>3

(* Each confirmation hands on what the stage before it knew.               *)
LEMMA ConfirmPreserves ==
  ASSUME GrantInv, confirmCeiling \/ confirmProject \/ confirmApprovals, Watch, TypeOK', Clocks'
  PROVE  GrantInv'
<1>1. call \in Calls /\ clock \in Nat /\ quiet /\ call'.issuedAt = call.issuedAt
      /\ call'.tier = call.tier /\ call'.pc # "resolve"
  BY StepFields DEF GrantInv, TypeOK, Step
<1>2. held => held'
  BY <1>1, HeldStays DEF quiet, GrantInv
<1>3. CASE confirmCeiling
  <2>1. /\ call.pc = "confirmCeiling" /\ call'.pc = "confirmProject"
        /\ call'.ceiling = call.ceiling /\ call'.project = call.project
        /\ call'.approvals = call.approvals
        /\ ~call'.moved => ~call.moved /\ ceiling = call.ceiling
    BY <1>1, <1>3 DEF confirmCeiling, Calls
  <2>2. RowsGrant' /\ NamedOnly' /\ ScanStarts' /\ ApprovalsGrew'
    BY <1>1, <2>1 DEF GrantInv, RowsGrant, NamedOnly, ScanStarts, ApprovalsGrew, named, grants,
         AfterApprovals, AfterRows, NamedSteps, quiet
  <2>3. CeilingConfirmed'
    BY <1>1, <1>2, <2>1 DEF GrantInv, BeforeConfirm, CeilingConfirmed, sameApprovals, named, quiet
  <2>4. BeforeConfirm' /\ ProjectConfirmed' /\ AllowedHeldAtOnce'
    BY <2>1 DEF BeforeConfirm, ProjectConfirmed, AllowedHeldAtOnce
  <2> QED
    BY <2>2, <2>3, <2>4 DEF GrantInv
<1>4. ASSUME NEW allowed \in BOOLEAN, call' = decision(allowed),
             allowed /\ ~restored => held
      PROVE  GrantInv'
  <2>1. /\ call'.pc = "decided" /\ call'.allowed = allowed
        /\ call'.at = 1 /\ call'.admitted = {}
    BY <1>4, DecisionFields DEF GrantInv
  <2>2. AllowedHeldAtOnce'
    BY <1>1, <1>2, <1>4, <2>1 DEF AllowedHeldAtOnce, held, quiet
  <2> QED
    BY <2>1, <2>2 DEF GrantInv, RowsGrant, NamedOnly, ApprovalsGrew, ScanStarts, BeforeConfirm,
       CeilingConfirmed, ProjectConfirmed, AfterRows, NamedSteps, AfterApprovals
<1>5. CASE confirmProject /\ named
  <2>1. /\ call.pc = "confirmProject" /\ call'.pc = "confirmApprovals"
        /\ call'.ceiling = call.ceiling /\ call'.project = call.project
        /\ call'.approvals = call.approvals
        /\ ~call'.moved => ~call.moved /\ project = call.project
    BY <1>1, <1>5 DEF confirmProject, named, Calls
  <2>2. RowsGrant' /\ NamedOnly' /\ ScanStarts' /\ ApprovalsGrew'
    BY <1>1, <1>5, <2>1 DEF GrantInv, RowsGrant, NamedOnly, ScanStarts, ApprovalsGrew, named, grants,
         AfterApprovals, AfterRows, NamedSteps, quiet
  <2>3. ProjectConfirmed'
    BY <1>1, <1>2, <1>5, <2>1 DEF GrantInv, CeilingConfirmed, ProjectConfirmed, sameApprovals, named, quiet
  <2>4. BeforeConfirm' /\ CeilingConfirmed' /\ AllowedHeldAtOnce'
    BY <2>1 DEF BeforeConfirm, CeilingConfirmed, AllowedHeldAtOnce
  <2> QED
    BY <2>2, <2>3, <2>4 DEF GrantInv
<1>6. CASE confirmProject /\ ~named
  <2>1. confirmed(project = call.project) \in BOOLEAN
    BY DEF confirmed
  <2>2. call' = decision(confirmed(project = call.project)) /\ call.pc = "confirmProject"
    BY <1>6 DEF confirmProject, named
  <2>3. confirmed(project = call.project) /\ ~restored => held
    BY <1>6, <2>2 DEF GrantInv, CeilingConfirmed, sameApprovals, confirmed
  <2> QED
    BY <1>4, <2>1, <2>2, <2>3
<1>7. CASE confirmApprovals
  <2>1. confirmed(approvals = call.approvals) \in BOOLEAN
    BY DEF confirmed
  <2>2. call' = decision(confirmed(approvals = call.approvals)) /\ call.pc = "confirmApprovals"
    BY <1>7 DEF confirmApprovals
  <2>3. confirmed(approvals = call.approvals) /\ ~restored => held
    BY <2>2 DEF GrantInv, ProjectConfirmed, confirmed
  <2> QED
    BY <1>4, <2>1, <2>2, <2>3
<1> QED
  BY <1>3, <1>5, <1>6, <1>7

-----------------------------------------------------------------------------
(* Operators cannot make the call right in secret *)

(* A row that differs from what was read stays different, or is put back.  *)
LEMMA RowsNotRestored ==
  ASSUME TypeOK, Operator, ~restored', call.pc # "decided"
  PROVE  /\ ~restored
         /\ ceiling' = call.ceiling => ceiling = call.ceiling
         /\ project' = call.project => project = call.project
<1>1. ASSUME NEW old, NEW new, NEW seen, putBack(old, new, seen)
      PROVE  ~restored /\ (new = seen => old = seen)
  BY <1>1 DEF putBack
<1>2. CASE \E row \in Rows \ {NoRow} : ~row.revoked /\ putGrantRow(row)
  BY <1>1, <1>2 DEF putGrantRow
<1>3. CASE revokeGrantRow
  BY <1>1, <1>3 DEF revokeGrantRow
<1>4. CASE UNCHANGED <<ceiling, project, restored>>
  BY <1>4
<1> QED
  BY <1>2, <1>3, <1>4 DEF Operator, putApproval, revokeApproval, changeDirectory

\* A row that was put back is remembered.
LEMMA RestoredStays ==
  ASSUME TypeOK, Operator, ~restored'
  PROVE  ~restored
BY DEF Operator, putGrantRow, revokeGrantRow, putApproval, revokeApproval, changeDirectory, putBack

(* Approvals are appended and revoked, never withdrawn or reinstated.      *)
LEMMA ApprovalsMonotone ==
  ASSUME TypeOK, Operator
  PROVE  /\ Len(approvals) <= Len(approvals')
         /\ \A i \in 1 .. Len(approvals) : approvals[i].revoked => approvals'[i].revoked
         /\ approvals' # approvals =>
              \/ Len(approvals') > Len(approvals)
              \/ \E i \in 1 .. Len(approvals) : approvals'[i].revoked /\ ~approvals[i].revoked
<1>1. approvals \in Seq(Approval) /\ Len(approvals) \in Nat
  BY DEF TypeOK
<1>2. CASE UNCHANGED approvals
  BY <1>1, <1>2
<1>3. CASE \E a \in Approval : ~a.revoked /\ putApproval(a)
  BY <1>1, <1>3 DEF putApproval
<1>4. CASE \E i \in 1 .. Len(approvals) : revokeApproval(i)
  <2>1. PICK i \in 1 .. Len(approvals) : revokeApproval(i)
    BY <1>4
  <2>2. approvals[i] \in Approval
    BY <1>1
  <2>3. approvals' = [approvals EXCEPT ![i] = [approvals[i] EXCEPT !.revoked = TRUE]]
    BY <2>1 DEF revokeApproval
  <2>4. [approvals[i] EXCEPT !.revoked = TRUE].revoked
    BY <2>2 DEF Approval
  <2>5. /\ Len(approvals') = Len(approvals)
        /\ approvals'[i].revoked
        /\ \A j \in 1 .. Len(approvals) : j # i => approvals'[j] = approvals[j]
    BY <1>1, <2>3, <2>4
  <2>6. ASSUME approvals[i].revoked
        PROVE  approvals' = approvals
    <3>1. [approvals[i] EXCEPT !.revoked = TRUE] = approvals[i]
      BY <2>2, <2>6 DEF Approval
    <3> QED
      BY <1>1, <2>3, <3>1
  <2> QED
    BY <1>1, <2>5, <2>6
<1> QED
  BY <1>2, <1>3, <1>4 DEF Operator, putGrantRow, revokeGrantRow, changeDirectory

\* What an operator revokes or grants between two reads keeps the invariant.
LEMMA OperatorPreserves ==
  ASSUME GrantInv, Operator, Watch, TypeOK', Clocks'
  PROVE  GrantInv'
<1>1. UNCHANGED <<clock, call>> /\ clock \in Nat /\ Len(approvals) \in Nat /\ Len(call.approvals) \in Nat
      /\ Len(approvals') \in Nat
  BY OperatorTyped DEF GrantInv, TypeOK, Calls
<1>2. held => held'
  BY <1>1, HeldStays DEF GrantInv
<1>3. RowsGrant' /\ NamedOnly' /\ ScanStarts'
  BY <1>1 DEF GrantInv, RowsGrant, NamedOnly, ScanStarts, named, grants
<1>4. ApprovalsGrew'
  <2>1. SUFFICES ASSUME call.pc \in AfterApprovals, named
                 PROVE  /\ Len(call.approvals) <= Len(approvals')
                        /\ \A i \in 1 .. Len(call.approvals) :
                             call.approvals[i].revoked => approvals'[i].revoked
    BY <1>1 DEF ApprovalsGrew, AfterApprovals, named
  <2> QED
    BY <1>1, <2>1, ApprovalsMonotone DEF GrantInv, ApprovalsGrew
<1>5. ASSUME call.pc \in AfterApprovals, named, approvals' = call.approvals
      PROVE  approvals = call.approvals
  BY <1>1, <1>5, ApprovalsMonotone DEF GrantInv, ApprovalsGrew
<1>6. BeforeConfirm' /\ CeilingConfirmed' /\ ProjectConfirmed'
  <2>1. ASSUME call.pc \in AfterApprovals, sameApprovals'
        PROVE  sameApprovals
    BY <1>1, <1>5, <2>1 DEF sameApprovals, named
  <2>2. BeforeConfirm'
    BY <1>1, <1>2, <2>1, RowsNotRestored DEF GrantInv, BeforeConfirm, AfterApprovals
  <2>3. CeilingConfirmed'
    BY <1>1, <1>2, <2>1, RowsNotRestored DEF GrantInv, CeilingConfirmed, AfterApprovals
  <2>4. ProjectConfirmed'
    BY <1>1, <1>2, <1>5, RowsNotRestored DEF GrantInv, ProjectConfirmed, NamedOnly, NamedSteps, AfterApprovals
  <2> QED
    BY <2>2, <2>3, <2>4
<1>7. AllowedHeldAtOnce'
  BY <1>1, <1>2, RestoredStays DEF GrantInv, AllowedHeldAtOnce, held
<1> QED
  BY <1>3, <1>4, <1>6, <1>7 DEF GrantInv

-----------------------------------------------------------------------------
\* Every step keeps the invariant.
LEMMA GrantInvNext ==
  ASSUME GrantInv, [Next]_vars
  PROVE  GrantInv'
<1>1. TypeOK' /\ Clocks'
  BY TypeNext, ClocksNext DEF GrantInv
<1>2. CASE UNCHANGED vars
  BY <1>1, <1>2 DEF vars, GrantInv, RowsGrant, NamedOnly, ApprovalsGrew, ScanStarts, BeforeConfirm,
       CeilingConfirmed, ProjectConfirmed, AllowedHeldAtOnce, named, held, sameApprovals, grants
<1>3. CASE ask /\ Watch
  <2>1. /\ call'.pc = "resolve" /\ call'.at = 1 /\ call'.admitted = {}
    BY <1>3, AskFields DEF ask, GrantInv
  <2> QED
    BY <1>1, <2>1 DEF GrantInv, RowsGrant, NamedOnly, ApprovalsGrew, ScanStarts, BeforeConfirm,
       CeilingConfirmed, ProjectConfirmed, AllowedHeldAtOnce, AfterRows, NamedSteps, AfterApprovals
<1>4. CASE Step /\ Watch
  BY <1>1, <1>4, ResolvePreserves, ReadProjectPreserves, ReadApprovalsPreserves, AdmitNextPreserves,
     AdmittedPreserves, ConfirmPreserves DEF Step
<1>5. CASE Operator /\ Watch
  BY <1>1, <1>5, OperatorPreserves
<1>6. CASE tick /\ Watch
  <2>1. held => held'
    BY <1>6, HeldStays DEF tick, GrantInv, TypeOK
  <2> QED
    BY <1>1, <1>6, <2>1 DEF tick, GrantInv, RowsGrant, NamedOnly, ApprovalsGrew, ScanStarts,
       BeforeConfirm, CeilingConfirmed, ProjectConfirmed, AllowedHeldAtOnce, named, held,
       sameApprovals, grants
<1> QED
  BY <1>2, <1>3, <1>4, <1>5, <1>6 DEF Next

\* The invariant holds before the first call.
LEMMA GrantInvInit == Init => GrantInv
<1>1. SUFFICES ASSUME Init PROVE GrantInv
  OBVIOUS
<1>2. PICK tier \in Tiers : call = blank(tier)
  BY <1>1 DEF Init
<1>3. blank(tier) \in Calls
  BY PeopleAssumption, BoundAssumption DEF blank, Calls, Rows, Steps
<1>4. /\ call.pc = "none" /\ call.at = 1 /\ call.admitted = {} /\ call.approvals = << >>
      /\ call.issuedAt = 0
  BY <1>2 DEF blank
<1>5. approvals \in Seq(Approval) /\ Len(approvals) \in {0, 1}
  <2>1. CASE approvals = << >>
    BY <2>1
  <2>2. CASE \E a \in Approval : approvals = <<a>>
    BY <2>2
  <2> QED
    BY <1>1, <2>1, <2>2 DEF Init
<1>6. TypeOK
  <2>1. Len(approvals) <= MaxApprovals
    BY <1>5, BoundAssumption
  <2>2. directory \in [People -> Standing]
    BY <1>1 DEF Init, Standing
  <2>3. call \in Calls /\ call.at \in 1 .. Len(call.approvals) + 1 /\ call.admitted \subseteq 1 .. Len(call.approvals)
    BY <1>2, <1>3, <1>4
  <2>4. /\ ceiling \in Rows /\ project \in Rows /\ clock = 0 /\ writes = 0
        /\ lastHeld = -1 /\ restored = FALSE
    BY <1>1 DEF Init
  <2>5. clock \in 0 .. MaxClock /\ writes \in 0 .. MaxWrites /\ lastHeld \in -1 .. MaxClock
    BY <2>4, BoundAssumption
  <2>6. approvals \in Seq(Approval)
    BY <1>5
  <2> QED
    BY Zenon, <2>1, <2>2, <2>3, <2>4, <2>5, <2>6 DEF TypeOK
<1> QED
  BY <1>1, <1>4, <1>6 DEF GrantInv, Clocks, Init, RowsGrant, NamedOnly, ApprovalsGrew, ScanStarts,
     BeforeConfirm, CeilingConfirmed, ProjectConfirmed, AllowedHeldAtOnce, AfterRows, NamedSteps,
     AfterApprovals

\* The inductive invariant behind the theorems below: a call that has read the rows
\* has an instant since it was issued at which what it read held together.
THEOREM GrantInvariant == Spec => []GrantInv
<1>1. GrantInv /\ [Next]_vars => GrantInv'
  BY GrantInvNext
<1> QED
  BY GrantInvInit, <1>1, PTL DEF Spec

(* The call and the store keep their shape: an index of a scan never leaves the list. *)
THEOREM GrantTypes == Spec => []TypeOK
<1>1. GrantInv => TypeOK
  BY DEF GrantInv
<1> QED
  BY <1>1, GrantInvariant, PTL

(* effectiveGrant allows no mixture: what it allows held as a whole at one *)
(* instant between its first read and its answer, whatever operators wrote *)
(* meanwhile, for every number of people, tiers, rows and approvals.       *)
THEOREM AllowanceHeldAtOnce == Spec => []AllowedHeldAtOnce
<1>1. GrantInv => AllowedHeldAtOnce
  BY DEF GrantInv
<1> QED
  BY <1>1, GrantInvariant, PTL

(* A decision that decisionIsUsable still accepts was true at most         *)
(* DECISION_TTL_MS ago: the window is measured from before the first read. *)
THEOREM UsableIsRecent == Spec => []StaleAtMostTTL
<1>1. GrantInv => StaleAtMostTTL
  BY TTLAssumption DEF GrantInv, TypeOK, Calls, AllowedHeldAtOnce, StaleAtMostTTL, usable
<1> QED
  BY <1>1, GrantInvariant, PTL
=============================================================================
