---------------------------- MODULE GrantDecision ----------------------------
(***************************************************************************)
(* The one query of packages/approvals: effectiveGrant (decision.ts).  It  *)
(* reads the ceiling row, the project row and the approvals one after the  *)
(* other from a store without transactions, asks the identity directory,   *)
(* and reads the three again before it allows.  Operators write the same   *)
(* store and directory between any two of these steps, and the answer is   *)
(* usable for a short time only.                                           *)
(***************************************************************************)
EXTENDS Integers, Sequences, FiniteSets

CONSTANTS
  People,        \* subjects the directory may know
  Requester,     \* the subject that asks
  Tiers,         \* data tiers a payload is classified as
  NamedFrom,     \* NAMED_APPROVAL_FROM_TIER
  TTL,           \* DECISION_TTL_MS, in ticks
  NoRow,         \* readGrantRow answers null
  MaxClock, MaxWrites, MaxApprovals   \* bounds of a run

ASSUME PeopleAssumption == Requester \in People
ASSUME TierAssumption == Tiers \subseteq Nat /\ NamedFrom \in Nat
ASSUME TTLAssumption == TTL \in Nat
ASSUME BoundAssumption == MaxClock \in Nat /\ MaxWrites \in Nat /\ MaxApprovals \in Nat \ {0}
ASSUME NoRowAssumption == NoRow \notin [maxTier : Tiers, revoked : BOOLEAN]

VARIABLES
  ceiling,     \* the '*' row
  project,     \* the project's row
  approvals,   \* approvals on record for this tool and project
  directory,   \* what the directory says of each subject
  clock,
  call,        \* the call in progress, or its decision
  writes,      \* bound: writes of operators
  lastHeld,    \* when every layer last held, all at once; -1: not since the call began
  restored     \* a row was put back, during the call, to what the call had read

vars == <<ceiling, project, approvals, directory, clock, call, writes, lastHeld, restored>>

Rows == {NoRow} \cup [maxTier : Tiers, revoked : BOOLEAN]
Approval == [by : People, tier : Tiers, fits : BOOLEAN, revoked : BOOLEAN]
Standing == {"active", "inactive", "unknown"}
Steps == {"none", "resolve", "readCeiling", "readProject", "readApprovals", "admit",
          "confirmCeiling", "confirmProject", "confirmApprovals", "decided"}

Calls == [pc : Steps, tier : Tiers, issuedAt : 0 .. MaxClock, ceiling : Rows, project : Rows,
          approvals : Seq(Approval), at : Nat, admitted : SUBSET Nat, moved : BOOLEAN,
          allowed : BOOLEAN, signer : People]

TypeOK ==
  /\ ceiling \in Rows /\ project \in Rows
  /\ approvals \in Seq(Approval) /\ Len(approvals) <= MaxApprovals
  /\ directory \in [People -> Standing]
  /\ clock \in 0 .. MaxClock /\ writes \in 0 .. MaxWrites
  /\ lastHeld \in -1 .. MaxClock /\ restored \in BOOLEAN
  /\ call \in Calls
  /\ call.at \in 1 .. Len(call.approvals) + 1 /\ call.admitted \subseteq 1 .. Len(call.approvals)

requiresNamedApproval(tier) == tier >= NamedFrom

-----------------------------------------------------------------------------
(* What the answer is about *)

\* A row in force that reaches the tier.
grants(row, tier) == row # NoRow /\ ~row.revoked /\ tier <= row.maxTier

\* A signature over this content, wide enough, by somebody else who is active.
signs(a, tier) ==
  ~a.revoked /\ a.fits /\ tier <= a.tier /\ a.by # Requester /\ directory[a.by] = "active"

entitled(tier) ==
  /\ grants(ceiling, tier) /\ grants(project, tier)
  /\ requiresNamedApproval(tier) => \E i \in 1 .. Len(approvals) : signs(approvals[i], tier)

\* Kept for the properties: the last time every layer held at once.
Watch == lastHeld' = IF entitled(call.tier)' THEN clock'
                     ELSE IF call.pc # "resolve" /\ call'.pc = "resolve" THEN -1 ELSE lastHeld

-----------------------------------------------------------------------------
(* The call *)

blank(tier) == [pc |-> "none", tier |-> tier, issuedAt |-> 0, ceiling |-> NoRow, project |-> NoRow,
                approvals |-> << >>, at |-> 1, admitted |-> {}, moved |-> FALSE, allowed |-> FALSE,
                signer |-> Requester]

\* Earlier processes left rows and perhaps a signature in force.
Init ==
  /\ ceiling \in Rows /\ project \in Rows
  /\ approvals \in {<< >>} \cup {<<a>> : a \in {b \in Approval : b.fits /\ ~b.revoked /\ b.by # Requester}}
  /\ directory = [p \in People |-> "active"]
  /\ clock = 0 /\ writes = 0 /\ restored = FALSE
  /\ \E tier \in Tiers : call = blank(tier)
  /\ lastHeld = -1

quiet == UNCHANGED <<ceiling, project, approvals, directory, clock, writes, restored>>

\* The window opens when the call does: issuedAt is read before any row.
ask ==
  /\ call.pc \in {"none", "decided"}
  /\ \E tier \in Tiers : call' = [blank(tier) EXCEPT !.pc = "resolve", !.issuedAt = clock]
  /\ restored' = FALSE
  /\ UNCHANGED <<ceiling, project, approvals, directory, clock, writes>>

decisionWithIndexes(allowed) == [blank(call.tier) EXCEPT !.pc = "decided", !.issuedAt = call.issuedAt,
  !.allowed = allowed, !.signer = call.signer, !.admitted = call.admitted]

\* A decision keeps none of what was read.
decision(allowed) == [blank(call.tier) EXCEPT !.pc = "decided", !.issuedAt = call.issuedAt,
                                              !.allowed = allowed, !.signer = call.signer]
refuse == call' = decision(FALSE)
goto(pc) == call' = [call EXCEPT !.pc = pc]

\* Who asks is resolved, not believed.
resolve ==
  /\ call.pc = "resolve"
  /\ IF directory[Requester] = "unknown" THEN refuse ELSE goto("readCeiling")
  /\ quiet

readCeiling ==
  /\ call.pc = "readCeiling"
  /\ call' = [call EXCEPT !.pc = "readProject", !.ceiling = ceiling]
  /\ quiet

tiersUpTo(row) == {t \in Tiers : t <= row.maxTier}

\* intersectGrant: the ceiling's tiers, filtered by the project's.
effectiveTiers(c, p) ==
  IF c = NoRow \/ p = NoRow THEN {}
  ELSE IF c.revoked \/ p.revoked THEN {}
  ELSE tiersUpTo(c) \cap tiersUpTo(p)

\* The project row is read even under a shut ceiling; then the rows answer.
readProject ==
  /\ call.pc = "readProject"
  /\ IF call.tier \notin effectiveTiers(call.ceiling, project) THEN refuse
     ELSE call' = [call EXCEPT !.project = project,
                               !.pc = IF requiresNamedApproval(call.tier) THEN "readApprovals"
                                      ELSE "confirmCeiling"]
  /\ quiet

readApprovals ==
  /\ call.pc = "readApprovals"
  /\ call' = [call EXCEPT !.pc = "admit", !.approvals = approvals]
  /\ quiet

\* verdictFor: one record, with one look into the directory.
admissible(a) == signs(a, call.tier)

admitNext ==
  /\ call.pc = "admit" /\ call.at <= Len(call.approvals)
  /\ call' = [call EXCEPT !.at = @ + 1,
                          !.admitted = IF admissible(call.approvals[call.at]) THEN @ \cup {call.at} ELSE @]
  /\ quiet

\* admitApproval returns the narrowest signature that reaches the question.
narrowest == {i \in call.admitted : \A j \in call.admitted : call.approvals[i].tier <= call.approvals[j].tier}

admitted ==
  /\ call.pc = "admit" /\ call.at > Len(call.approvals)
  /\ IF call.admitted = {} THEN refuse
     ELSE \E i \in narrowest : call' = [call EXCEPT !.pc = "confirmCeiling", !.signer = call.approvals[i].by]
  /\ quiet

-----------------------------------------------------------------------------
(* storeMoved: read again what the answer rests on *)

confirmCeiling ==
  /\ call.pc = "confirmCeiling"
  /\ call' = [call EXCEPT !.pc = "confirmProject", !.moved = @ \/ ceiling # call.ceiling]
  /\ quiet

confirmedLast(same) == same

\* The answer: allowed if nothing that was read differs by now.
confirmed(same) == ~call.moved /\ same

confirmProject ==
  /\ call.pc = "confirmProject"
  /\ call' = IF requiresNamedApproval(call.tier)
             THEN [call EXCEPT !.pc = "confirmApprovals", !.moved = @ \/ project # call.project]
             ELSE decision(confirmed(project = call.project))
  /\ quiet

confirmApprovals ==
  /\ call.pc = "confirmApprovals"
  /\ call' = decision(confirmed(approvals = call.approvals))
  /\ quiet

Step == resolve \/ readCeiling \/ readProject \/ readApprovals \/ admitNext \/ admitted
        \/ confirmCeiling \/ confirmProject \/ confirmApprovals

-----------------------------------------------------------------------------
(* Operators and time *)

write == writes < MaxWrites /\ writes' = writes + 1

\* The call in progress would take the new value for the one it has read.
putBack(old, new, seen) == restored' = (restored \/ (old # new /\ new = seen /\ call.pc # "decided"))

putGrantRow(row) ==
  /\ write
  /\ \/ ceiling' = row /\ putBack(ceiling, row, call.ceiling) /\ UNCHANGED project
     \/ project' = row /\ putBack(project, row, call.project) /\ UNCHANGED ceiling
  /\ UNCHANGED <<approvals, directory, clock, call>>

\* Revocation archives: the row stays, with revokedAt.
revokeGrantRow ==
  /\ write
  /\ \/ /\ ceiling # NoRow
        /\ ceiling' = [ceiling EXCEPT !.revoked = TRUE]
        /\ putBack(ceiling, [ceiling EXCEPT !.revoked = TRUE], call.ceiling)
        /\ UNCHANGED project
     \/ /\ project # NoRow
        /\ project' = [project EXCEPT !.revoked = TRUE]
        /\ putBack(project, [project EXCEPT !.revoked = TRUE], call.project)
        /\ UNCHANGED ceiling
  /\ UNCHANGED <<approvals, directory, clock, call>>

putApproval(a) ==
  /\ write /\ Len(approvals) < MaxApprovals
  /\ approvals' = Append(approvals, a)
  /\ UNCHANGED <<ceiling, project, directory, clock, call, restored>>

revokeApproval(i) ==
  /\ write
  /\ approvals' = [approvals EXCEPT ![i].revoked = TRUE]
  /\ UNCHANGED <<ceiling, project, directory, clock, call, restored>>

changeDirectory(p, s) ==
  /\ write /\ directory[p] # s
  /\ directory' = [directory EXCEPT ![p] = s]
  /\ UNCHANGED <<ceiling, project, approvals, clock, call, restored>>

tick ==
  /\ clock < MaxClock
  /\ clock' = clock + 1
  /\ UNCHANGED <<ceiling, project, approvals, directory, call, writes, restored>>

Operator ==
  \/ \E row \in Rows \ {NoRow} : ~row.revoked /\ putGrantRow(row)
  \/ revokeGrantRow
  \/ \E a \in Approval : ~a.revoked /\ putApproval(a)
  \/ \E i \in 1 .. Len(approvals) : revokeApproval(i)
  \/ \E p \in People, s \in Standing : changeDirectory(p, s)

Next == (ask \/ Step \/ Operator \/ tick) /\ Watch

Spec == Init /\ [][Next]_vars

-----------------------------------------------------------------------------
(* Properties *)

usableOneMore == call.pc = "decided" /\ clock <= call.issuedAt + TTL + 1

\* decisionIsUsable, of a decision that was minted here.
usable == call.pc = "decided" /\ clock <= call.issuedAt + TTL

\* No mixture is allowed: whatever operators wrote between the reads, an
\* allowance means that the ceiling, the project and a signature by an active
\* other human all held at one instant of the call.  Excepted is a row that
\* was taken away and put back to exactly what the call had read.
AllowedHeldAtOnce ==
  call.pc = "decided" /\ call.allowed /\ ~restored => lastHeld >= call.issuedAt

\* A decision that may still be acted on was true, as a whole, at most TTL ago,
\* even if everything was revoked since: holding one is wrong for that long only.
StaleAtMostTTL ==
  usable /\ call.allowed /\ ~restored => lastHeld # -1 /\ clock - lastHeld <= TTL

\* decision.ts:81-82: "Everything the answer rests on is read again and compared";
\* so a signer who left before the confirmation ended is noticed.
DepartureIsSeen ==
  [][call.pc = "confirmApprovals" /\ call'.allowed => directory[call.signer] = "active"]_vars
=============================================================================
