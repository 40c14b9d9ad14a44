------------------------ MODULE RegistryLedgerProofs ------------------------
(***************************************************************************)
(* Theorems about RegistryLedger, for every set of artifacts, revisions,   *)
(* actors and projects and every bound on the log.                         *)
(***************************************************************************)
EXTENDS RegistryLedger, TLAPS

(* The revision that currentRegistered chooses is a registered revision of *)
(* that artifact.                                                          *)
LEMMA CurrentIsRegistered ==
  ASSUME NEW a, hasRegistered(a)
  PROVE  /\ currentRegistered(a) \in Revisions
         /\ isRegistered(a, currentRegistered(a))
  BY DEF hasRegistered, currentRegistered

(* No registered revision: currentRegistered is None.                      *)
LEMMA CurrentIsNone ==
  ASSUME NEW a
  PROVE  /\ ~hasRegistered(a) => currentRegistered(a) = None
         /\ currentRegistered(a) = None => ~hasRegistered(a)
  BY CurrentIsRegistered, LedgerAssumption
     DEF currentRegistered, hasRegistered

(* upsertRow writes one row and leaves every other one alone.              *)
LEMMA UpsertRow ==
  ASSUME rows \in [Artifacts -> [RowKeys -> Row \cup {None}]],
         NEW a \in Artifacts, NEW p \in RowKeys, NEW row \in Row
  PROVE  /\ upsertRow(a, p, row) \in [Artifacts -> [RowKeys -> Row \cup {None}]]
         /\ \A b \in Artifacts, q \in RowKeys :
              upsertRow(a, p, row)[b][q] =
                IF b = a /\ q = p THEN row ELSE rows[b][q]
  BY DEF upsertRow

\* Writing an entry or two to the log leaves a log.
LEMMA LogType ==
  ASSUME history \in Seq(Event), NEW e \in Event, NEW f \in Event
  PROVE  /\ Log(e) => history' \in Seq(Event)
         /\ LogBoth(e, f) => history' \in Seq(Event)
  BY DEF Log, LogBoth

\* What an event says has its shape.
LEMMA EventType ==
  ASSUME NEW name \in Events, NEW r \in Revisions, NEW p \in RowKeys
  PROVE  event(name, r, p) \in Event
  BY DEF event, Event


(* The fields of a revision.                                               *)
LEMMA RevisionFields ==
  ASSUME NEW r \in Revisions
  PROVE  /\ r.artifact \in Artifacts
         /\ r.version \in Versions
         /\ r.capabilities \in SUBSET Scopes
  BY LedgerAssumption

(* What followCeiling does to the rows.                                    *)
LEMMA FollowCeiling ==
  ASSUME rows \in [Artifacts -> [RowKeys -> Row \cup {None}]],
         NEW r \in Revisions
  PROVE  /\ followCeiling(r) \in [Artifacts -> [RowKeys -> Row \cup {None}]]
         /\ \A b \in Artifacts, q \in RowKeys :
              b # r.artifact \/ q # Ceiling => followCeiling(r)[b][q] = rows[b][q]
         /\ rows[r.artifact][Ceiling] = None =>
              followCeiling(r)[r.artifact][Ceiling] = None
         /\ rows[r.artifact][Ceiling] # None =>
              /\ followCeiling(r)[r.artifact][Ceiling] \in Row
              /\ followCeiling(r)[r.artifact][Ceiling].enabled
                   = rows[r.artifact][Ceiling].enabled
              /\ followCeiling(r)[r.artifact][Ceiling].installedBy
                   = rows[r.artifact][Ceiling].installedBy
              /\ followCeiling(r)[r.artifact][Ceiling].version = r.version
              /\ followCeiling(r)[r.artifact][Ceiling].grantedScopes = r.capabilities
  <1> DEFINE a == r.artifact
             old == rows[a][Ceiling]
             new == [old EXCEPT !.version = r.version, !.grantedScopes = r.capabilities]
  <1>1. a \in Artifacts /\ Ceiling \in RowKeys
    BY RevisionFields DEF RowKeys
  <1>2. CASE old = None
    BY <1>1, <1>2 DEF followCeiling
  <1>3. CASE old # None
    <2>1. old \in Row
      BY <1>1, <1>3
    <2>2. /\ new \in Row
          /\ new.enabled = old.enabled
          /\ new.installedBy = old.installedBy
          /\ new.version = r.version
          /\ new.grantedScopes = r.capabilities
      BY <2>1, RevisionFields DEF Row
    <2>3. followCeiling(r) = upsertRow(a, Ceiling, new)
      BY <1>3 DEF followCeiling
    <2> HIDE DEF new
    <2>4. QED
      BY <1>1, <1>3, <2>2, <2>3, UpsertRow
  <1>4. QED
    BY <1>2, <1>3
-----------------------------------------------------------------------------
(* Every step keeps the types.                                             *)
LEMMA TypeStep ==
  TypeOK /\ [Next]_vars => TypeOK'
  <1> SUFFICES ASSUME TypeOK, [Next]_vars PROVE TypeOK'
    OBVIOUS
  <1> USE DEF TypeOK
  <1>c. Ceiling \in RowKeys /\ Projects \subseteq RowKeys
    BY DEF RowKeys
  <1>1. ASSUME NEW r \in Revisions, NEW by \in Actors, propose(r, by)
        PROVE  TypeOK'
    <2>1. event("proposed", r, Ceiling) \in Event
      BY <1>c, EventType DEF Events, LifecycleStates
    <2>2. history' \in Seq(Event)
      BY <1>1, <2>1, LogType DEF propose
    <2>3. QED
      BY <1>1, <2>2 DEF propose, LifecycleStates
  <1>2. ASSUME NEW r \in Revisions, NEW by \in Actors, approve(r, by)
        PROVE  TypeOK'
    <2>1. event("approved", r, Ceiling) \in Event
      BY <1>c, EventType DEF Events, LifecycleStates
    <2>2. history' \in Seq(Event)
      BY <1>2, <2>1, LogType DEF approve
    <2>3. [approver |-> by, contentHash |-> r] \in Signature
      BY DEF Signature
    <2>4. QED
      BY <1>2, <2>2, <2>3 DEF approve, LifecycleStates
  <1>3. ASSUME NEW r \in Revisions, reject(r)
        PROVE  TypeOK'
    <2>1. event("rejected", r, Ceiling) \in Event
      BY <1>c, EventType DEF Events, LifecycleStates
    <2>2. history' \in Seq(Event)
      BY <1>3, <2>1, LogType DEF reject
    <2>3. QED
      BY <1>3, <2>2 DEF reject, LifecycleStates
  <1>4. ASSUME NEW r \in Revisions, register(r)
        PROVE  TypeOK'
    <2> DEFINE s == incumbentOf(r)
    <2>1. s = None \/ s \in Revisions
      BY CurrentIsRegistered, CurrentIsNone DEF incumbentOf
    <2>2. event("registered", r, Ceiling) \in Event
      BY <1>c, EventType DEF Events, LifecycleStates
    <2>3. s \in Revisions => event("superseded", s, Ceiling) \in Event
      BY <1>c, EventType DEF Events, LifecycleStates
    <2>4. rows' \in [Artifacts -> [RowKeys -> Row \cup {None}]]
      BY <1>4, FollowCeiling DEF register
    <2>5. history' \in Seq(Event)
      <3>1. CASE s = None
        BY <1>4, <3>1, <2>2, LogType DEF register
      <3>2. CASE s # None
        BY <1>4, <3>2, <2>1, <2>2, <2>3, LogType DEF register
      <3>3. QED
        BY <3>1, <3>2
    <2>6. QED
      BY <1>4, <2>1, <2>4, <2>5 DEF register, LifecycleStates
  <1>5. ASSUME NEW a \in Artifacts, NEW by \in Actors, NEW b \in BOOLEAN,
               ceilingWrite(a, by, b)
        PROVE  TypeOK'
    <2> DEFINE r == currentRegistered(a)
               name == IF b THEN "enabled" ELSE "disabled"
    <2>1. r \in Revisions
      BY <1>5, CurrentIsRegistered DEF ceilingWrite
    <2>2. event(name, r, Ceiling) \in Event
      BY <1>c, <2>1, EventType DEF Events
    <2>3. [enabled |-> b, installedBy |-> by,
           grantedScopes |-> r.capabilities, version |-> r.version] \in Row
      BY <2>1, RevisionFields DEF Row
    <2>4. rows' \in [Artifacts -> [RowKeys -> Row \cup {None}]]
      BY <1>5, <1>c, <2>3, UpsertRow DEF ceilingWrite
    <2>5. history' \in Seq(Event)
      BY <1>5, <2>2, LogType DEF ceilingWrite
    <2>6. QED
      BY <1>5, <2>4, <2>5 DEF ceilingWrite
  <1>6. ASSUME NEW a \in Artifacts, NEW p \in Projects, NEW by \in Actors,
               NEW b \in BOOLEAN, projectWrite(a, p, by, b)
        PROVE  TypeOK'
    <2> DEFINE name == IF b THEN "project-enabled" ELSE "project-disabled"
    <2>1. currentRegistered(a) \in Revisions
      BY <1>6, CurrentIsRegistered DEF projectWrite
    <2>2. event(name, currentRegistered(a), p) \in Event
      BY <1>c, <2>1, EventType DEF Events
    <2>3. /\ rows[a][Ceiling] \in Row \cup {None}
          /\ rows[a][p] \in Row \cup {None}
      BY <1>c
    <2>4. scopesFor(a, p) \in SUBSET Scopes
      BY <2>3 DEF scopesFor, Row
    <2>5. versionFor(a) \in Versions
      BY <2>1, <2>3, RevisionFields DEF versionFor, Row
    <2>6. [enabled |-> b, installedBy |-> by,
           grantedScopes |-> scopesFor(a, p), version |-> versionFor(a)] \in Row
      BY <2>4, <2>5 DEF Row
    <2>7. rows' \in [Artifacts -> [RowKeys -> Row \cup {None}]]
      BY <1>6, <1>c, <2>6, UpsertRow DEF projectWrite
    <2>8. history' \in Seq(Event)
      BY <1>6, <2>2, LogType DEF projectWrite
    <2>9. QED
      BY <1>6, <2>7, <2>8 DEF projectWrite
  <1>7. ASSUME NEW r \in Revisions, NEW by \in Actors, retire(r, by)
        PROVE  TypeOK'
    <2>1. event("retired", r, Ceiling) \in Event /\ event("disabled", r, Ceiling) \in Event
      BY <1>c, EventType DEF Events, LifecycleStates
    <2>2. history' \in Seq(Event)
      BY <1>7, <2>1, LogType DEF retire
    <2>3. rows' \in [Artifacts -> [RowKeys -> Row \cup {None}]]
      <3>1. CASE ~closesCeiling(r)
        BY <1>7, <3>1 DEF retire
      <3>2. CASE closesCeiling(r)
        <4> DEFINE old == rows[r.artifact][Ceiling]
        <4>1. old \in Row
          BY <1>c, <3>2, RevisionFields DEF closesCeiling, isEnabled
        <4>2. [old EXCEPT !.enabled = FALSE, !.installedBy = by] \in Row
          BY <4>1 DEF Row
        <4>3. QED
          BY <1>7, <1>c, <3>2, <4>2, RevisionFields, UpsertRow DEF retire
      <3>3. QED
        BY <3>1, <3>2
    <2>4. QED
      BY <1>7, <2>2, <2>3 DEF retire, LifecycleStates
  <1>8. CASE UNCHANGED vars
    BY <1>8 DEF vars
  <1>9. QED
    BY <1>1, <1>2, <1>3, <1>4, <1>5, <1>6, <1>7, <1>8
       DEF Next, enableFunctionWide, disableFunctionWide, enableForProject,
           disableForProject

\* An empty ledger has its shapes.
LEMMA TypeInit ==
  Init => TypeOK
  BY DEF Init, TypeOK

(* Type correctness of the ledger, for all constants.                      *)
THEOREM LedgerTypeOK == Spec => []TypeOK
  BY TypeInit, TypeStep, PTL DEF Spec
-----------------------------------------------------------------------------
(* A signature, once given, covers its own content and comes from a named  *)
(* human other than the proposer and other than an account named like the  *)
(* artifact; an approved or registered revision has one, a revision that   *)
(* is not yet approved has none.                                           *)
SignedOver(r) ==
  /\ approval[r].contentHash = r
  /\ namedHuman(approval[r].approver)
  /\ approval[r].approver.key # r.artifact
  /\ ~isSameActor(approval[r].approver, proposedBy[r])

SignatureInv ==
  \A r \in Revisions :
    /\ approval[r] # None => SignedOver(r)
    /\ approval[r] # None => state[r] \notin {"absent", "proposed"}
    /\ state[r] \in {"approved", "registered"} => approval[r] # None

(* An open switch was last written by a named human.                       *)
OpenedByHuman ==
  \A a \in Artifacts, p \in RowKeys :
    isEnabled(a, p) => namedHuman(rows[a][p].installedBy)

(* The inductive invariant of the ledger, less what its log says.          *)
LedgerInv ==
  /\ TypeOK
  /\ AtMostOneRegistered
  /\ SignatureInv
  /\ OpenedByHuman
  /\ OpenCeilingFollowsRegistered
  /\ ProjectRowNeedsCeiling

\* The invariant holds of an empty ledger.
LEMMA LedgerInvInit ==
  Init => LedgerInv
  BY TypeInit
     DEF Init, LedgerInv, AtMostOneRegistered, SignatureInv, OpenedByHuman,
         OpenCeilingFollowsRegistered, ProjectRowNeedsCeiling, isEnabled, RowKeys

(* Under AtMostOneRegistered the incumbent is the only registered revision *)
(* of its artifact.                                                        *)
LEMMA OnlyIncumbent ==
  ASSUME AtMostOneRegistered, NEW a, NEW r \in Revisions, isRegistered(a, r)
  PROVE  currentRegistered(a) = r
  BY CurrentIsRegistered DEF AtMostOneRegistered, hasRegistered, isRegistered

\* Registering takes the place of the incumbent and touches nothing else.
LEMMA RegisterStates ==
  ASSUME TypeOK, AtMostOneRegistered, NEW r \in Revisions, register(r)
  PROVE  /\ state' \in [Revisions -> LifecycleStates \cup {"absent"}]
         /\ state'[r] = "registered"
         /\ \A s \in Revisions \ {r} :
              IF isRegistered(r.artifact, s) THEN state'[s] = "superseded"
                                             ELSE state'[s] = state[s]
  <1> DEFINE s == incumbentOf(r)
  <1>1. state[r] = "approved"
    BY DEF register
  <1>2. CASE s = None
    <2>1. ~hasRegistered(r.artifact)
      BY <1>2, CurrentIsNone DEF incumbentOf
    <2>2. state' = [state EXCEPT ![r] = "registered"]
      BY <1>2 DEF register
    <2>3. QED
      BY <1>1, <2>1, <2>2 DEF hasRegistered, TypeOK, LifecycleStates
  <1>3. CASE s # None
    <2>1. s \in Revisions /\ isRegistered(r.artifact, s)
      BY <1>3, CurrentIsNone, CurrentIsRegistered DEF incumbentOf
    <2>2. \A t \in Revisions : isRegistered(r.artifact, t) => t = s
      BY OnlyIncumbent DEF incumbentOf
    <2>3. state' = [state EXCEPT ![r] = "registered", ![s] = "superseded"]
      BY <1>3 DEF register
    <2>4. s # r
      BY <1>1, <2>1 DEF isRegistered
    <2> HIDE DEF s
    <2>5. QED
      BY <1>1, <2>1, <2>2, <2>3, <2>4 DEF TypeOK, LifecycleStates
  <1>4. QED
    BY <1>2, <1>3

(* propose, approve, reject and retire move one revision, and none of them *)
(* to "registered"; the enablement commands move none.                     *)
LEMMA OtherStates ==
  ASSUME TypeOK, Next, ~\E r \in Revisions : register(r)
  PROVE  \A r \in Revisions : state'[r] = "registered" => state[r] = "registered"
  BY DEF Next, TypeOK, propose, approve, reject, retire, enableFunctionWide,
         disableFunctionWide, enableForProject, disableForProject, ceilingWrite,
         projectWrite

\* Every step keeps at most one registered revision of an artifact.
LEMMA OneRegisteredStep ==
  TypeOK /\ AtMostOneRegistered /\ [Next]_vars => AtMostOneRegistered'
  <1> SUFFICES ASSUME TypeOK, AtMostOneRegistered, [Next]_vars
               PROVE  AtMostOneRegistered'
    OBVIOUS
  <1>1. ASSUME NEW r \in Revisions, register(r)
        PROVE  AtMostOneRegistered'
    BY <1>1, RegisterStates DEF AtMostOneRegistered, isRegistered
  <1>2. ASSUME Next, ~\E r \in Revisions : register(r)
        PROVE  AtMostOneRegistered'
    BY <1>2, OtherStates DEF AtMostOneRegistered
  <1>3. CASE UNCHANGED vars
    BY <1>3 DEF vars, AtMostOneRegistered
  <1>4. QED
    BY <1>1, <1>2, <1>3

\* Every step keeps signatures over their own content, by somebody else.
LEMMA SignatureStep ==
  LedgerInv /\ [Next]_vars => SignatureInv'
  <1> SUFFICES ASSUME TypeOK, AtMostOneRegistered, SignatureInv, [Next]_vars
               PROVE  SignatureInv'
    BY DEF LedgerInv
  <1> USE DEF SignatureInv, SignedOver
  <1>1. ASSUME NEW r \in Revisions, NEW by \in Actors, propose(r, by)
        PROVE  SignatureInv'
    BY <1>1 DEF propose, proposable, TypeOK
  <1>2. ASSUME NEW r \in Revisions, NEW by \in Actors, approve(r, by)
        PROVE  SignatureInv'
    <2>1. /\ approval'[r] = [approver |-> by, contentHash |-> r]
          /\ proposedBy' = proposedBy
          /\ state'[r] = "approved"
          /\ \A s \in Revisions \ {r} :
               approval'[s] = approval[s] /\ state'[s] = state[s]
      BY <1>2 DEF approve, TypeOK
    <2>2. namedHuman(by) /\ by.key # r.artifact /\ ~isSameActor(by, proposedBy[r])
      BY <1>2 DEF approve, mayApprove, isSelfApproval
    <2>3. approval'[r].approver = by /\ approval'[r].contentHash = r
      BY <2>1
    <2>4. ASSUME NEW s \in Revisions \ {r}
          PROVE  /\ approval'[s] # None => SignedOver(s)'
                 /\ approval'[s] # None => state'[s] \notin {"absent", "proposed"}
                 /\ state'[s] \in {"approved", "registered"} => approval'[s] # None
      BY <2>1, <2>4
    <2>5. SignedOver(r)' /\ approval'[r] # None
      <3>1. approval'[r] \in Signature
        BY <2>1 DEF Signature
      <3>2. approval'[r] # None
        BY <3>1, LedgerAssumption
      <3>3. QED
        BY <2>1, <2>2, <2>3, <3>2 DEF namedHuman, isSameActor
    <2>6. QED
      BY <2>1, <2>4, <2>5
  <1>3. ASSUME NEW r \in Revisions, reject(r)
        PROVE  SignatureInv'
    <2>1. state[r] = "proposed"
      BY <1>3 DEF reject, canTransition, TRANSITIONS, LifecycleStates
    <2>2. QED
      BY <1>3, <2>1 DEF reject, TypeOK
  <1>4. ASSUME NEW r \in Revisions, register(r)
        PROVE  SignatureInv'
    <2>1. approval' = approval /\ proposedBy' = proposedBy /\ state[r] = "approved"
      BY <1>4 DEF register
    <2>2. QED
      BY <1>4, <2>1, RegisterStates DEF isRegistered
  <1>5. ASSUME NEW r \in Revisions, NEW by \in Actors, retire(r, by)
        PROVE  SignatureInv'
    <2>1. state[r] \in {"approved", "registered"}
      BY <1>5 DEF retire, canTransition, TRANSITIONS, LifecycleStates
    <2>2. QED
      BY <1>5, <2>1 DEF retire, TypeOK
  <1>6. ASSUME UNCHANGED <<state, proposedBy, approval>>
        PROVE  SignatureInv'
    BY <1>6
  <1>7. QED
    BY <1>1, <1>2, <1>3, <1>4, <1>5, <1>6
       DEF Next, vars, enableFunctionWide, disableFunctionWide, enableForProject,
           disableForProject, ceilingWrite, projectWrite
-----------------------------------------------------------------------------
(* What each enablement command writes.                                    *)
LEMMA CeilingWriteRows ==
  ASSUME TypeOK, NEW a \in Artifacts, NEW by \in Actors, NEW b \in BOOLEAN,
         ceilingWrite(a, by, b)
  PROVE  /\ isRegistered(a, currentRegistered(a))
         /\ currentRegistered(a) \in Revisions
         /\ rows'[a][Ceiling].enabled = b
         /\ rows'[a][Ceiling].installedBy = by
         /\ rows'[a][Ceiling].grantedScopes = currentRegistered(a).capabilities
         /\ rows'[a][Ceiling].version = currentRegistered(a).version
         /\ rows'[a][Ceiling] # None
         /\ \A c \in Artifacts, q \in RowKeys :
              c # a \/ q # Ceiling => rows'[c][q] = rows[c][q]
  <1> DEFINE r == currentRegistered(a)
             row == [enabled |-> b, installedBy |-> by,
                     grantedScopes |-> r.capabilities, version |-> r.version]
  <1>1. r \in Revisions /\ isRegistered(a, r)
    BY CurrentIsRegistered DEF ceilingWrite
  <1>2. row \in Row
    BY <1>1, RevisionFields DEF Row
  <1>3. rows' = upsertRow(a, Ceiling, row)
    BY DEF ceilingWrite
  <1>4. row # None
    BY <1>2, LedgerAssumption
  <1>5. rows \in [Artifacts -> [RowKeys -> Row \cup {None}]] /\ Ceiling \in RowKeys
    BY DEF TypeOK, RowKeys
  <1>6. \A c \in Artifacts, q \in RowKeys :
          rows'[c][q] = IF c = a /\ q = Ceiling THEN row ELSE rows[c][q]
    <2> HIDE DEF row
    <2>1. QED
      BY <1>2, <1>3, <1>5, UpsertRow
  <1>7. QED
    BY <1>1, <1>4, <1>5, <1>6

\* A project write touches one row.
LEMMA ProjectWriteRows ==
  ASSUME TypeOK, NEW a \in Artifacts, NEW p \in Projects, NEW by \in Actors,
         NEW b \in BOOLEAN, projectWrite(a, p, by, b)
  PROVE  /\ rows'[a][p] # None
         /\ rows'[a][p].enabled = b
         /\ rows'[a][p].installedBy = by
         /\ \A c \in Artifacts, q \in RowKeys :
              c # a \/ q # p => rows'[c][q] = rows[c][q]
  <1> DEFINE row == [enabled |-> b, installedBy |-> by,
                     grantedScopes |-> scopesFor(a, p), version |-> versionFor(a)]
  <1>1. /\ rows \in [Artifacts -> [RowKeys -> Row \cup {None}]]
        /\ Ceiling \in RowKeys /\ p \in RowKeys
    BY DEF TypeOK, RowKeys
  <1>2. currentRegistered(a) \in Revisions
    BY CurrentIsRegistered DEF projectWrite
  <1>3. rows[a][Ceiling] \in Row \cup {None} /\ rows[a][p] \in Row \cup {None}
    BY <1>1
  <1>4. scopesFor(a, p) \in SUBSET Scopes /\ versionFor(a) \in Versions
    BY <1>2, <1>3, RevisionFields DEF scopesFor, versionFor, Row
  <1>5. row \in Row
    BY <1>4 DEF Row
  <1>6. rows' = upsertRow(a, p, row)
    BY DEF projectWrite
  <1>7. \A c \in Artifacts, q \in RowKeys :
          rows'[c][q] = IF c = a /\ q = p THEN row ELSE rows[c][q]
    <2> HIDE DEF row
    <2>1. QED
      BY <1>1, <1>5, <1>6, UpsertRow
  <1>8. row # None
    BY <1>5, LedgerAssumption
  <1>9. QED
    BY <1>1, <1>7, <1>8

\* Retiring touches no row but an open ceiling, which it closes.
LEMMA RetireRows ==
  ASSUME TypeOK, NEW r \in Revisions, NEW by \in Actors, retire(r, by)
  PROVE  /\ \A c \in Artifacts, q \in RowKeys :
              c # r.artifact \/ q # Ceiling => rows'[c][q] = rows[c][q]
         /\ closesCeiling(r) => /\ rows'[r.artifact][Ceiling] # None
                                /\ ~rows'[r.artifact][Ceiling].enabled
         /\ ~closesCeiling(r) => rows' = rows
  <1> DEFINE a == r.artifact
             old == rows[a][Ceiling]
             new == [old EXCEPT !.enabled = FALSE, !.installedBy = by]
  <1>1. CASE ~closesCeiling(r)
    BY <1>1 DEF retire
  <1>2. CASE closesCeiling(r)
    <2>1. /\ rows \in [Artifacts -> [RowKeys -> Row \cup {None}]]
          /\ Ceiling \in RowKeys /\ a \in Artifacts
      BY RevisionFields DEF TypeOK, RowKeys
    <2>2. old \in Row
      BY <1>2, <2>1 DEF closesCeiling, isEnabled
    <2>3. new \in Row /\ new.enabled = FALSE
      BY <2>2 DEF Row
    <2>4. new # None
      BY <2>3, LedgerAssumption
    <2>5. rows' = upsertRow(a, Ceiling, new)
      BY <1>2 DEF retire
    <2>6. \A c \in Artifacts, q \in RowKeys :
            rows'[c][q] = IF c = a /\ q = Ceiling THEN new ELSE rows[c][q]
      <3> HIDE DEF new
      <3>1. QED
        BY <2>1, <2>3, <2>5, UpsertRow
    <2>7. QED
      BY <1>2, <2>1, <2>3, <2>4, <2>6
  <1>3. QED
    BY <1>1, <1>2

\* Every step keeps the rows below what a human opened.
LEMMA EnablementStep ==
  LedgerInv /\ [Next]_vars =>
    /\ OpenedByHuman'
    /\ OpenCeilingFollowsRegistered'
    /\ ProjectRowNeedsCeiling'
  <1> SUFFICES ASSUME LedgerInv, [Next]_vars
               PROVE  /\ OpenedByHuman'
                      /\ OpenCeilingFollowsRegistered'
                      /\ ProjectRowNeedsCeiling'
    OBVIOUS
  <1> USE DEF LedgerInv
  <1>c. Ceiling \in RowKeys /\ Projects \subseteq RowKeys /\ Ceiling \notin Projects
    BY LedgerAssumption DEF RowKeys
  <1>r. ASSUME rows' = rows,
               \A r \in Revisions : state[r] = "registered" => state'[r] = "registered"
        PROVE  /\ OpenedByHuman'
               /\ OpenCeilingFollowsRegistered'
               /\ ProjectRowNeedsCeiling'
    BY <1>r DEF OpenedByHuman, OpenCeilingFollowsRegistered, ProjectRowNeedsCeiling,
                isEnabled, isRegistered
  <1>1. ASSUME NEW r \in Revisions,
               (\E by \in Actors : propose(r, by) \/ approve(r, by)) \/ reject(r)
        PROVE  /\ OpenedByHuman'
               /\ OpenCeilingFollowsRegistered'
               /\ ProjectRowNeedsCeiling'
    <2>1. state[r] # "registered"
      BY <1>1 DEF propose, proposable, approve, reject, canTransition, TRANSITIONS,
                  LifecycleStates
    <2>2. rows' = rows /\ \A s \in Revisions \ {r} : state'[s] = state[s]
      BY <1>1 DEF propose, approve, reject, TypeOK
    <2>3. QED
      BY <2>1, <2>2, <1>r
  <1>2. ASSUME NEW r \in Revisions, register(r)
        PROVE  /\ OpenedByHuman'
               /\ OpenCeilingFollowsRegistered'
               /\ ProjectRowNeedsCeiling'
    <2>1. rows' = followCeiling(r)
      BY <1>2 DEF register
    <2>2. /\ \A b \in Artifacts, q \in RowKeys :
               b # r.artifact \/ q # Ceiling => rows'[b][q] = rows[b][q]
          /\ rows[r.artifact][Ceiling] = None => rows'[r.artifact][Ceiling] = None
          /\ rows[r.artifact][Ceiling] # None =>
               /\ rows'[r.artifact][Ceiling] \in Row
               /\ rows'[r.artifact][Ceiling].enabled = rows[r.artifact][Ceiling].enabled
               /\ rows'[r.artifact][Ceiling].installedBy
                    = rows[r.artifact][Ceiling].installedBy
               /\ rows'[r.artifact][Ceiling].version = r.version
               /\ rows'[r.artifact][Ceiling].grantedScopes = r.capabilities
      BY <2>1, FollowCeiling DEF TypeOK
    <2>3. rows[r.artifact][Ceiling] # None => rows'[r.artifact][Ceiling] # None
      BY <2>2, LedgerAssumption
    <2>4. OpenedByHuman'
      BY <2>2, <2>3, <1>c DEF OpenedByHuman, isEnabled
    <2>5. ProjectRowNeedsCeiling'
      BY <2>2, <2>3, <1>c DEF ProjectRowNeedsCeiling
    <2>6. OpenCeilingFollowsRegistered'
      <3> SUFFICES ASSUME NEW a \in Artifacts, isEnabled(a, Ceiling)'
                   PROVE  \E s \in Revisions :
                            /\ isRegistered(a, s)'
                            /\ rows'[a][Ceiling].grantedScopes = s.capabilities
                            /\ rows'[a][Ceiling].version = s.version
        BY DEF OpenCeilingFollowsRegistered
      <3>1. CASE a = r.artifact
        <4>1. isRegistered(a, r)'
          BY <1>2, <3>1, RegisterStates DEF isRegistered
        <4>2. rows[a][Ceiling] # None
          BY <2>2, <3>1 DEF isEnabled
        <4>3. QED
          BY <2>2, <3>1, <4>1, <4>2
      <3>2. CASE a # r.artifact
        <4>1. isEnabled(a, Ceiling)
          BY <1>c, <2>2, <3>2 DEF isEnabled
        <4>2. PICK s \in Revisions : /\ isRegistered(a, s)
                                    /\ rows[a][Ceiling].grantedScopes = s.capabilities
                                    /\ rows[a][Ceiling].version = s.version
          BY <4>1 DEF OpenCeilingFollowsRegistered
        <4>3. isRegistered(a, s)'
          BY <1>2, <3>2, <4>2, RegisterStates DEF isRegistered
        <4>4. QED
          BY <1>c, <2>2, <3>2, <4>2, <4>3
      <3>3. QED
        BY <3>1, <3>2
    <2>7. QED
      BY <2>4, <2>5, <2>6
  <1>3. ASSUME NEW a \in Artifacts, NEW by \in Actors, NEW b \in BOOLEAN,
               ceilingWrite(a, by, b)
        PROVE  /\ OpenedByHuman'
               /\ OpenCeilingFollowsRegistered'
               /\ ProjectRowNeedsCeiling'
    <2>1. state' = state /\ (b => namedHuman(by))
      BY <1>3 DEF ceilingWrite
    <2> DEFINE r == currentRegistered(a)
    <2>2. /\ r \in Revisions
          /\ isRegistered(a, r)
          /\ rows'[a][Ceiling].enabled = b
          /\ rows'[a][Ceiling].installedBy = by
          /\ rows'[a][Ceiling].grantedScopes = r.capabilities
          /\ rows'[a][Ceiling].version = r.version
          /\ rows'[a][Ceiling] # None
          /\ \A c \in Artifacts, q \in RowKeys :
               c # a \/ q # Ceiling => rows'[c][q] = rows[c][q]
      BY <1>3, CeilingWriteRows
    <2> HIDE DEF r
    <2>3. OpenedByHuman'
      BY <2>1, <2>2 DEF OpenedByHuman, isEnabled, namedHuman
    <2>4. OpenCeilingFollowsRegistered'
      BY <1>c, <2>1, <2>2 DEF OpenCeilingFollowsRegistered, isEnabled, isRegistered
    <2>5. ProjectRowNeedsCeiling'
      BY <1>c, <2>2 DEF ProjectRowNeedsCeiling
    <2>6. QED
      BY <2>3, <2>4, <2>5
  <1>4. ASSUME NEW a \in Artifacts, NEW p \in Projects, NEW by \in Actors,
               NEW b \in BOOLEAN, projectWrite(a, p, by, b)
        PROVE  /\ OpenedByHuman'
               /\ OpenCeilingFollowsRegistered'
               /\ ProjectRowNeedsCeiling'
    <2>1. state' = state /\ (b => namedHuman(by)) /\ (b => isEnabled(a, Ceiling))
      BY <1>4 DEF projectWrite, mayWiden
    <2>2. /\ rows'[a][p].enabled = b
          /\ rows'[a][p].installedBy = by
          /\ \A c \in Artifacts, q \in RowKeys :
               c # a \/ q # p => rows'[c][q] = rows[c][q]
      BY <1>4, ProjectWriteRows
    <2>3. \A c \in Artifacts : rows'[c][Ceiling] = rows[c][Ceiling]
      BY <1>c, <2>2
    <2>4. OpenedByHuman'
      BY <2>1, <2>2 DEF OpenedByHuman, isEnabled, namedHuman
    <2>5. OpenCeilingFollowsRegistered'
      BY <2>1, <2>3 DEF OpenCeilingFollowsRegistered, isEnabled, isRegistered
    <2>6. ProjectRowNeedsCeiling'
      <3>1. ~b => rows[a][p] # None
        BY <1>4 DEF projectWrite
      <3>2. rows[a][Ceiling] # None
        BY <2>1, <3>1 DEF ProjectRowNeedsCeiling, isEnabled
      <3>3. QED
        BY <1>c, <2>2, <2>3, <3>2 DEF ProjectRowNeedsCeiling
    <2>7. QED
      BY <2>4, <2>5, <2>6
  <1>5. ASSUME NEW r \in Revisions, NEW by \in Actors, retire(r, by)
        PROVE  /\ OpenedByHuman'
               /\ OpenCeilingFollowsRegistered'
               /\ ProjectRowNeedsCeiling'
    <2>1. /\ \A c \in Artifacts, q \in RowKeys :
               c # r.artifact \/ q # Ceiling => rows'[c][q] = rows[c][q]
          /\ closesCeiling(r) => /\ rows'[r.artifact][Ceiling] # None
                                 /\ ~rows'[r.artifact][Ceiling].enabled
          /\ ~closesCeiling(r) => rows' = rows
      BY <1>5, RetireRows
    <2>2. state' = [state EXCEPT ![r] = "retired"]
      BY <1>5 DEF retire
    <2>3. OpenedByHuman'
      BY <2>1 DEF OpenedByHuman, isEnabled
    <2>4. ProjectRowNeedsCeiling'
      BY <1>c, <2>1 DEF ProjectRowNeedsCeiling
    <2>5. OpenCeilingFollowsRegistered'
      <3> SUFFICES ASSUME NEW a \in Artifacts, isEnabled(a, Ceiling)'
                   PROVE  \E s \in Revisions :
                            /\ isRegistered(a, s)'
                            /\ rows'[a][Ceiling].grantedScopes = s.capabilities
                            /\ rows'[a][Ceiling].version = s.version
        BY DEF OpenCeilingFollowsRegistered
      <3>1. rows'[a][Ceiling] = rows[a][Ceiling]
        BY <1>c, <2>1 DEF isEnabled
      <3>2. isEnabled(a, Ceiling)
        BY <3>1 DEF isEnabled
      <3>3. PICK s \in Revisions : /\ isRegistered(a, s)
                                  /\ rows[a][Ceiling].grantedScopes = s.capabilities
                                  /\ rows[a][Ceiling].version = s.version
        BY <3>2 DEF OpenCeilingFollowsRegistered
      <3>4. s # r
        <4> SUFFICES ASSUME s = r PROVE FALSE
          OBVIOUS
        <4>1. closesCeiling(r) /\ r.artifact = a
          BY <3>2, <3>3 DEF closesCeiling, isRegistered
        <4>2. QED
          BY <2>1, <4>1 DEF isEnabled
      <3>5. QED
        BY <2>2, <3>1, <3>3, <3>4 DEF isRegistered, TypeOK
    <2>6. QED
      BY <2>3, <2>4, <2>5
  <1>6. CASE UNCHANGED vars
    BY <1>6, <1>r DEF vars
  <1>7. QED
    BY <1>1, <1>2, <1>3, <1>4, <1>5, <1>6
       DEF Next, enableFunctionWide, disableFunctionWide, enableForProject,
           disableForProject

\* Every step keeps the invariant.
LEMMA LedgerInvStep ==
  LedgerInv /\ [Next]_vars => LedgerInv'
  BY TypeStep, OneRegisteredStep, SignatureStep, EnablementStep DEF LedgerInv

(* The inductive invariant holds in every reachable ledger.                *)
THEOREM LedgerInvariant == Spec => []LedgerInv
  BY LedgerInvInit, LedgerInvStep, PTL DEF Spec

(* register never leaves two registered revisions of one artifact, however *)
(* many revisions were approved side by side.                              *)
THEOREM OneRegistered == Spec => []AtMostOneRegistered
  <1>1. LedgerInv => AtMostOneRegistered
    BY DEF LedgerInv
  <1>2. QED
    BY <1>1, LedgerInvariant, PTL

(* An open ceiling stands for the registered revision and its signed       *)
(* scopes.                                                                 *)
THEOREM OpenCeiling == Spec => []OpenCeilingFollowsRegistered
  <1>1. LedgerInv => OpenCeilingFollowsRegistered
    BY DEF LedgerInv
  <1>2. QED
    BY <1>1, LedgerInvariant, PTL

(* projectWrite's fallbacks for a missing ceiling row are never used.      *)
THEOREM CeilingBeforeProject == Spec => []ProjectRowNeedsCeiling
  <1>1. LedgerInv => ProjectRowNeedsCeiling
    BY DEF LedgerInv
  <1>2. QED
    BY <1>1, LedgerInvariant, PTL

(* Whatever reuseDecision allows is the registered revision, signed by a   *)
(* second, named human for the scopes granted and switched on by named     *)
(* humans; what was presented, if anything was, is that revision.          *)
LEMMA ReuseConsented ==
  ASSUME LedgerInv
  PROVE  ReuseIsConsented
  <1> SUFFICES ASSUME NEW a \in Artifacts, NEW p \in RowKeys,
                      NEW presented \in Revisions \cup {None},
                      NEW d, d = reuseDecision(a, p, presented), d.allowed,
                      NEW r, r = d.entry
               PROVE  /\ r \in Revisions
                      /\ r.artifact = a
                      /\ d.verified <=> presented # None
                      /\ d.verified => presented = r
                      /\ approval[r] # None
                      /\ approval[r].contentHash = r
                      /\ namedHuman(approval[r].approver)
                      /\ approval[r].approver.key # a
                      /\ ~isSameActor(approval[r].approver, proposedBy[r])
                      /\ d.grantedScopes = r.capabilities
                      /\ namedHuman(rows[a][Ceiling].installedBy)
                      /\ namedHuman(rows[a][p].installedBy)
    BY DEF ReuseIsConsented
  <1>1. reuseReason(a, p, presented) = "ok"
    BY DEF reuseDecision
  <1>2. /\ r = currentRegistered(a)
        /\ d.grantedScopes = rows[a][Ceiling].grantedScopes
        /\ d.verified <=> presented # None
    BY <1>1 DEF reuseDecision
  <1>3. /\ hasRegistered(a)
        /\ presented \in {None, r}
        /\ isEnabled(a, Ceiling)
        /\ p = Ceiling \/ isEnabled(a, p)
    BY <1>1, <1>2 DEF reuseReason
  <1>4. r \in Revisions /\ r.artifact = a /\ state[r] = "registered"
    BY <1>2, <1>3, CurrentIsRegistered DEF isRegistered
  <1>5. approval[r] # None /\ SignedOver(r)
    BY <1>4 DEF LedgerInv, SignatureInv
  <1>6. /\ namedHuman(rows[a][Ceiling].installedBy)
        /\ namedHuman(rows[a][p].installedBy)
    BY <1>3 DEF LedgerInv, OpenedByHuman, RowKeys
  <1>7. rows[a][Ceiling].grantedScopes = r.capabilities
    <2>1. PICK s \in Revisions :
            isRegistered(a, s) /\ rows[a][Ceiling].grantedScopes = s.capabilities
      BY <1>3 DEF LedgerInv, OpenCeilingFollowsRegistered
    <2>2. s = r
      BY <2>1, <1>4 DEF LedgerInv, AtMostOneRegistered, isRegistered
    <2>3. QED
      BY <2>1, <2>2
  <1>8. d.verified => presented = r
    BY <1>2, <1>3
  <1>9. QED
    BY <1>2, <1>4, <1>5, <1>6, <1>7, <1>8 DEF SignedOver

\* What a project, or the Function, is allowed to reuse is what a second, named human
\* signed for, scopes included, and what named humans switched on; bytes that were
\* presented are the signed ones, and an answer without them says it is unverified.
THEOREM ReuseNeedsConsent == Spec => []ReuseIsConsented
  <1>1. LedgerInv => ReuseIsConsented
    BY ReuseConsented
  <1>2. QED
    BY <1>1, LedgerInvariant, PTL
-----------------------------------------------------------------------------
(* The states of a revision from which nothing further happens.            *)
LEMMA Terminal ==
  TERMINAL_STATES = {"rejected", "superseded", "retired"}
  BY DEF TERMINAL_STATES, TRANSITIONS, LifecycleStates

\* No step takes back a signature or leaves a terminal state.
LEMMA FinalStep ==
  ASSUME LedgerInv, [Next]_vars, NEW r \in Revisions
  PROVE  /\ approval[r] # None => approval'[r] = approval[r]
         /\ state[r] \in TERMINAL_STATES => state'[r] = state[r]
  <1> USE DEF LedgerInv
  <1>1. ASSUME NEW s \in Revisions, NEW by \in Actors, propose(s, by)
        PROVE  /\ approval'[r] = approval[r]
               /\ state[r] \in TERMINAL_STATES => state'[r] = state[r]
    BY <1>1, Terminal DEF propose, proposable, TypeOK
  <1>2. ASSUME NEW s \in Revisions, NEW by \in Actors, approve(s, by)
        PROVE  /\ approval[r] # None => approval'[r] = approval[r]
               /\ state[r] \in TERMINAL_STATES => state'[r] = state[r]
    <2>1. state[s] = "proposed"
      BY <1>2 DEF approve, canTransition, TRANSITIONS, LifecycleStates
    <2>2. approval[s] = None
      BY <2>1 DEF SignatureInv
    <2>3. QED
      BY <1>2, <2>1, <2>2, Terminal DEF approve, TypeOK
  <1>3. ASSUME NEW s \in Revisions, reject(s)
        PROVE  /\ approval'[r] = approval[r]
               /\ state[r] \in TERMINAL_STATES => state'[r] = state[r]
    <2>1. state[s] = "proposed"
      BY <1>3 DEF reject, canTransition, TRANSITIONS, LifecycleStates
    <2>2. QED
      BY <1>3, <2>1, Terminal DEF reject, TypeOK
  <1>4. ASSUME NEW s \in Revisions, register(s)
        PROVE  /\ approval'[r] = approval[r]
               /\ state[r] \in TERMINAL_STATES => state'[r] = state[r]
    <2>1. approval' = approval /\ state[s] = "approved"
      BY <1>4 DEF register
    <2>2. QED
      BY <1>4, <2>1, RegisterStates, Terminal DEF isRegistered
  <1>5. ASSUME NEW s \in Revisions, NEW by \in Actors, retire(s, by)
        PROVE  /\ approval'[r] = approval[r]
               /\ state[r] \in TERMINAL_STATES => state'[r] = state[r]
    <2>1. state[s] \in {"approved", "registered"}
      BY <1>5 DEF retire, canTransition, TRANSITIONS, LifecycleStates
    <2>2. QED
      BY <1>5, <2>1, Terminal DEF retire, TypeOK
  <1>6. ASSUME UNCHANGED <<state, approval>>
        PROVE  /\ approval'[r] = approval[r]
               /\ state[r] \in TERMINAL_STATES => state'[r] = state[r]
    BY <1>6
  <1>7. QED
    BY <1>1, <1>2, <1>3, <1>4, <1>5, <1>6
       DEF Next, vars, enableFunctionWide, disableFunctionWide, enableForProject,
           disableForProject, ceilingWrite, projectWrite

(* A signature is never altered or withdrawn; an ended revision stays      *)
(* ended.                                                                  *)
THEOREM SignaturesAreFinal == Spec => SignatureIsFinal
  <1>1. LedgerInv /\ [Next]_vars =>
          [\A r \in Revisions :
             /\ approval[r] # None => approval'[r] = approval[r]
             /\ state[r] \in TERMINAL_STATES => state'[r] = state[r]]_vars
    BY FinalStep
  <1>2. QED
    BY <1>1, LedgerInvariant, PTL DEF Spec, SignatureIsFinal
-----------------------------------------------------------------------------
\* An empty ledger is an empty catalogue.
LEMMA CatalogueInit ==
  Init => Catalogue!Init
  <1> SUFFICES ASSUME Init PROVE Catalogue!Init
    OBVIOUS
  <1>1. \A r \in Revisions : state[r] = "absent" /\ approval[r] = None
    BY DEF Init
  <1>2. \A a \in Artifacts : currentRegistered(a) = None
    BY <1>1, CurrentIsNone DEF hasRegistered, isRegistered
  <1>3. \A a \in Artifacts, p \in RowKeys : ~isEnabled(a, p)
    BY DEF Init, isEnabled
  <1>4. signedRevisions = {} /\ endedRevisions = {} /\ openArtifacts = {}
    BY <1>1, <1>3, Terminal
       DEF signedRevisions, endedRevisions, openArtifacts, RowKeys
  <1>5. offeredRevisions = [a \in Artifacts |-> None]
    BY <1>2 DEF offeredRevisions
  <1>6. consentedProjects = [a \in Artifacts |-> {}]
    BY <1>3 DEF consentedProjects, RowKeys
  <1>7. QED
    BY <1>4, <1>5, <1>6 DEF Catalogue!Init

(* Which revision an artifact offers, before and after a step.             *)
LEMMA OfferedNow ==
  ASSUME AtMostOneRegistered, NEW a
  PROVE  /\ currentRegistered(a) \in Revisions \cup {None}
         /\ \A r \in Revisions : currentRegistered(a) = r <=> isRegistered(a, r)
  BY OnlyIncumbent, CurrentIsRegistered, CurrentIsNone, LedgerAssumption

\* What is offered after a step is the one registered revision, if there is one.
LEMMA OfferedNext ==
  ASSUME AtMostOneRegistered', NEW a
  PROVE  /\ currentRegistered(a)' \in Revisions \cup {None}
         /\ \A r \in Revisions : currentRegistered(a)' = r <=> isRegistered(a, r)'
  <1>1. ASSUME hasRegistered(a)'
        PROVE  /\ currentRegistered(a)' \in Revisions
               /\ currentRegistered(a)'.artifact = a
               /\ state'[currentRegistered(a)'] = "registered"
    BY <1>1 DEF hasRegistered, currentRegistered, isRegistered
  <1>2. ASSUME ~hasRegistered(a)'
        PROVE  currentRegistered(a)' = None
    BY <1>2 DEF currentRegistered
  <1>3. QED
    BY <1>1, <1>2, LedgerAssumption
       DEF AtMostOneRegistered, hasRegistered, isRegistered

(* A step that registers no revision and ends no registered one offers     *)
(* what was offered before.                                                *)
LEMMA OfferStays ==
  ASSUME AtMostOneRegistered, AtMostOneRegistered',
         \A r \in Revisions : state[r] = "registered" <=> state'[r] = "registered"
  PROVE  offeredRevisions' = offeredRevisions
  <1>1. \A a \in Artifacts : currentRegistered(a)' = currentRegistered(a)
    BY OfferedNow, OfferedNext DEF isRegistered
  <1>2. QED
    BY <1>1 DEF offeredRevisions

\* The enablements follow the rows.
LEMMA RowsStay ==
  ASSUME rows' = rows
  PROVE  openArtifacts' = openArtifacts /\ consentedProjects' = consentedProjects
  BY DEF openArtifacts, consentedProjects, isEnabled

\* A proposal is not seen in the catalogue.
LEMMA ProposeRefines ==
  ASSUME LedgerInv, AtMostOneRegistered', NEW r \in Revisions, NEW by \in Actors,
         propose(r, by)
  PROVE  UNCHANGED Catalogue!vars
  <1>1. approval' = approval /\ rows' = rows
    BY DEF propose
  <1>2. /\ state[r] = "absent" /\ state'[r] = "proposed"
        /\ \A s \in Revisions \ {r} : state'[s] = state[s]
    BY DEF propose, proposable, LedgerInv, TypeOK
  <1>3. endedRevisions' = endedRevisions
    BY <1>2, Terminal DEF endedRevisions
  <1>4. offeredRevisions' = offeredRevisions
    BY <1>2, OfferStays DEF LedgerInv
  <1>5. QED
    BY <1>1, <1>3, <1>4, RowsStay DEF signedRevisions, Catalogue!vars

\* An approval is the catalogue's signature.
LEMMA ApproveRefines ==
  ASSUME LedgerInv, LedgerInv', NEW r \in Revisions, NEW by \in Actors,
         approve(r, by)
  PROVE  Catalogue!Sign(r)
  <1>1. rows' = rows
    BY DEF approve
  <1>2. /\ state[r] = "proposed" /\ state'[r] = "approved"
        /\ \A s \in Revisions \ {r} : state'[s] = state[s] /\ approval'[s] = approval[s]
    BY DEF approve, canTransition, TRANSITIONS, LifecycleStates, LedgerInv, TypeOK
  <1>3. approval[r] = None /\ approval'[r] # None
    BY <1>2 DEF LedgerInv, SignatureInv
  <1>4. endedRevisions' = endedRevisions /\ r \notin endedRevisions
    BY <1>2, Terminal DEF endedRevisions
  <1>5. signedRevisions' = signedRevisions \cup {r} /\ r \notin signedRevisions
    BY <1>2, <1>3 DEF signedRevisions
  <1>6. offeredRevisions' = offeredRevisions
    BY <1>2, OfferStays DEF LedgerInv
  <1>7. QED
    BY <1>1, <1>4, <1>5, <1>6, RowsStay DEF Catalogue!Sign

(* reject, and retire of a revision that is not registered.                *)
LEMMA AbandonRefines ==
  ASSUME LedgerInv, LedgerInv', NEW r \in Revisions,
         state[r] \in {"proposed", "approved"}, state'[r] \in {"rejected", "retired"},
         \A s \in Revisions \ {r} : state'[s] = state[s],
         approval' = approval, rows' = rows
  PROVE  Catalogue!Abandon(r)
  <1>1. endedRevisions' = endedRevisions \cup {r} /\ r \notin endedRevisions
    BY Terminal DEF endedRevisions
  <1>2. offeredRevisions[r.artifact] # r
    BY OfferedNow, RevisionFields DEF offeredRevisions, isRegistered, LedgerInv
  <1>3. offeredRevisions' = offeredRevisions
    BY OfferStays DEF LedgerInv
  <1>4. signedRevisions' = signedRevisions
    BY DEF signedRevisions
  <1>5. QED
    BY <1>1, <1>2, <1>3, <1>4, RowsStay DEF Catalogue!Abandon

\* A registration is the catalogue's offer.
LEMMA RegisterRefines ==
  ASSUME LedgerInv, LedgerInv', NEW r \in Revisions, register(r)
  PROVE  Catalogue!Offer(r)
  <1> DEFINE a == r.artifact
             s == currentRegistered(a)
  <1>1. state[r] = "approved" /\ approval' = approval /\ approval[r] # None
    BY DEF register
  <1>2. a \in Artifacts
    BY RevisionFields
  <1>3. /\ state'[r] = "registered"
        /\ \A t \in Revisions \ {r} :
             IF isRegistered(a, t) THEN state'[t] = "superseded"
                                   ELSE state'[t] = state[t]
    BY RegisterStates DEF LedgerInv
  <1>4. \A t \in Revisions : s = t <=> isRegistered(a, t)
    BY OfferedNow DEF LedgerInv
  <1>5. s \in Revisions \cup {None}
    BY OfferedNow DEF LedgerInv
  <1>6. r \in signedRevisions \ endedRevisions
    BY <1>1, Terminal DEF signedRevisions, endedRevisions
  <1>7. offeredRevisions[a] # r
    BY <1>1, <1>2, <1>4 DEF offeredRevisions, isRegistered
  <1>8. offeredRevisions' = [offeredRevisions EXCEPT ![a] = r]
    <2>1. currentRegistered(a)' = r
      BY <1>3, OfferedNext DEF isRegistered, LedgerInv
    <2>2. ASSUME NEW b \in Artifacts, b # a
          PROVE  currentRegistered(b)' = currentRegistered(b)
      <3>1. \A t \in Revisions : isRegistered(b, t)' <=> isRegistered(b, t)
        BY <1>1, <1>3, <2>2 DEF isRegistered
      <3>2. QED
        BY <3>1, OfferedNow, OfferedNext DEF LedgerInv
    <2>3. QED
      BY <1>2, <2>1, <2>2 DEF offeredRevisions
  <1>9. endedRevisions' = endedRevisions \cup ({offeredRevisions[a]} \ {None})
    <2>1. offeredRevisions[a] = s
      BY <1>2 DEF offeredRevisions
    <2>2. \A t \in Revisions : t # None
      BY LedgerAssumption
    <2> HIDE DEF s
    <2>3. \A t \in Revisions :
            t \in endedRevisions' <=> t \in endedRevisions \/ t = s
      BY <1>1, <1>3, <1>4, Terminal DEF endedRevisions, isRegistered
    <2>4. QED
      BY <1>5, <2>1, <2>2, <2>3 DEF endedRevisions
  <1>10. UNCHANGED <<signedRevisions, openArtifacts, consentedProjects>>
    <2>1. rows' = followCeiling(r)
      BY DEF register
    <2>2. \A b \in Artifacts, q \in RowKeys : isEnabled(b, q)' <=> isEnabled(b, q)
      <3> SUFFICES ASSUME NEW b \in Artifacts, NEW q \in RowKeys
                   PROVE  isEnabled(b, q)' <=> isEnabled(b, q)
        OBVIOUS
      <3>t. rows \in [Artifacts -> [RowKeys -> Row \cup {None}]]
        BY DEF LedgerInv, TypeOK
      <3>1. CASE b = a /\ q = Ceiling
        <4>1. rows[a][Ceiling] = None => rows'[a][Ceiling] = None
          BY <2>1, <3>t, FollowCeiling
        <4>2. rows[a][Ceiling] # None =>
                /\ rows'[a][Ceiling] # None
                /\ rows'[a][Ceiling].enabled = rows[a][Ceiling].enabled
          BY <2>1, <3>t, FollowCeiling, LedgerAssumption
        <4>3. QED
          BY <3>1, <4>1, <4>2 DEF isEnabled
      <3>2. CASE b # a \/ q # Ceiling
        BY <2>1, <3>t, <3>2, FollowCeiling DEF isEnabled
      <3>3. QED
        BY <3>1, <3>2
    <2>3. QED
      BY <1>1, <2>2 DEF signedRevisions, openArtifacts, consentedProjects, RowKeys
  <1>11. QED
    BY <1>6, <1>7, <1>8, <1>9, <1>10 DEF Catalogue!Offer

\* A ceiling write opens or closes the artifact, or repeats itself.
LEMMA CeilingRefines ==
  ASSUME LedgerInv, LedgerInv', NEW a \in Artifacts, NEW by \in Actors,
         NEW b \in BOOLEAN, ceilingWrite(a, by, b)
  PROVE  Catalogue!Switch(a) \/ UNCHANGED Catalogue!vars
  <1>1. state' = state /\ approval' = approval
    BY DEF ceilingWrite
  <1>2. /\ rows'[a][Ceiling].enabled = b
        /\ rows'[a][Ceiling] # None
        /\ \A c \in Artifacts, q \in RowKeys :
             c # a \/ q # Ceiling => rows'[c][q] = rows[c][q]
    BY CeilingWriteRows DEF LedgerInv
  <1>3. offeredRevisions' = offeredRevisions
    BY <1>1, OfferStays DEF LedgerInv
  <1>4. endedRevisions' = endedRevisions /\ signedRevisions' = signedRevisions
    BY <1>1 DEF endedRevisions, signedRevisions
  <1>5. consentedProjects' = consentedProjects
    BY <1>2, LedgerAssumption DEF consentedProjects, isEnabled, RowKeys
  <1>6. offeredRevisions[a] # None
    BY CurrentIsNone DEF ceilingWrite, offeredRevisions
  <1>7. openArtifacts' = IF b THEN openArtifacts \cup {a} ELSE openArtifacts \ {a}
    BY <1>2 DEF openArtifacts, isEnabled, RowKeys
  <1>8. a \in openArtifacts => ~b
    BY DEF ceilingWrite, openArtifacts, isEnabled
  <1>9. CASE a \in openArtifacts \/ b
    BY <1>3, <1>4, <1>5, <1>6, <1>7, <1>8, <1>9 DEF Catalogue!Switch
  <1>10. CASE a \notin openArtifacts /\ ~b
    <2>1. openArtifacts' = openArtifacts
      BY <1>7, <1>10
    <2>2. QED
      BY <1>3, <1>4, <1>5, <2>1 DEF Catalogue!vars
  <1>11. QED
    BY <1>9, <1>10

\* A project write is the project's consent, or its withdrawal.
LEMMA ProjectRefines ==
  ASSUME LedgerInv, LedgerInv', NEW a \in Artifacts, NEW p \in Projects,
         NEW by \in Actors, NEW b \in BOOLEAN, projectWrite(a, p, by, b)
  PROVE  Catalogue!Consent(a, p) \/ Catalogue!Refuse(a, p)
  <1>1. state' = state /\ approval' = approval
    BY DEF projectWrite
  <1>2. /\ rows'[a][p].enabled = b
        /\ \A c \in Artifacts, q \in RowKeys :
             c # a \/ q # p => rows'[c][q] = rows[c][q]
    BY ProjectWriteRows DEF LedgerInv
  <1>3. offeredRevisions' = offeredRevisions
    BY <1>1, OfferStays DEF LedgerInv
  <1>4. endedRevisions' = endedRevisions /\ signedRevisions' = signedRevisions
    BY <1>1 DEF endedRevisions, signedRevisions
  <1>5. p # Ceiling /\ p \in RowKeys
    BY LedgerAssumption DEF RowKeys
  <1>6. openArtifacts' = openArtifacts
    BY <1>2, <1>5 DEF openArtifacts, isEnabled, RowKeys
  <1>7. offeredRevisions[a] # None
    BY CurrentIsNone DEF projectWrite, offeredRevisions
  <1>8. b => a \in openArtifacts
    BY DEF projectWrite, mayWiden, openArtifacts
  <1>9. rows'[a][p] # None
    <2>1. rows'[a][p] \in Row \cup {None}
      BY <1>5 DEF LedgerInv, TypeOK
    <2>2. \E row \in Row : rows'[a][p] = row
      <3> DEFINE row == [enabled |-> b, installedBy |-> by,
                         grantedScopes |-> scopesFor(a, p), version |-> versionFor(a)]
      <3>1. rows'[a][p] = row
        BY <1>5 DEF projectWrite, upsertRow, LedgerInv, TypeOK
      <3>2. row # None
        <4>1. currentRegistered(a) \in Revisions
          BY CurrentIsRegistered DEF projectWrite
        <4>2. rows[a][Ceiling] \in Row \cup {None} /\ rows[a][p] \in Row \cup {None}
          BY <1>5 DEF LedgerInv, TypeOK, RowKeys
        <4>3. scopesFor(a, p) \in SUBSET Scopes /\ versionFor(a) \in Versions
          BY <4>1, <4>2, RevisionFields DEF scopesFor, versionFor, Row
        <4>4. row \in Row
          BY <4>3 DEF Row
        <4>5. QED
          BY <4>4, LedgerAssumption
      <3>3. QED
        BY <2>1, <3>1, <3>2
    <2>3. QED
      BY <2>2, LedgerAssumption
  <1>10. consentedProjects' = [consentedProjects EXCEPT
                                 ![a] = IF b THEN @ \cup {p} ELSE @ \ {p}]
    <2>1. \A c \in Artifacts, q \in Projects :
            isEnabled(c, q)' <=> IF c = a /\ q = p THEN b ELSE isEnabled(c, q)
      BY <1>2, <1>9 DEF isEnabled, RowKeys
    <2>2. QED
      BY <2>1 DEF consentedProjects
  <1>11. QED
    BY <1>3, <1>4, <1>6, <1>7, <1>8, <1>10 DEF Catalogue!Consent, Catalogue!Refuse

\* Retiring the registered revision withdraws it.
LEMMA WithdrawRefines ==
  ASSUME LedgerInv, LedgerInv', NEW r \in Revisions, NEW by \in Actors,
         retire(r, by), state[r] = "registered"
  PROVE  Catalogue!Withdraw(r)
  <1> DEFINE a == r.artifact
  <1>1. /\ approval' = approval /\ state'[r] = "retired"
        /\ \A s \in Revisions \ {r} : state'[s] = state[s]
    BY DEF retire, LedgerInv, TypeOK
  <1>2. a \in Artifacts
    BY RevisionFields
  <1>3. offeredRevisions[a] = r
    BY <1>2, OfferedNow DEF offeredRevisions, isRegistered, LedgerInv
  <1>4. offeredRevisions' = [offeredRevisions EXCEPT ![a] = None]
    <2>1. currentRegistered(a)' = None
      BY <1>1, OfferedNow, OfferedNext DEF isRegistered, LedgerInv, AtMostOneRegistered
    <2>2. ASSUME NEW b \in Artifacts, b # a
          PROVE  currentRegistered(b)' = currentRegistered(b)
      BY <1>1, <2>2, OfferedNow, OfferedNext DEF isRegistered, LedgerInv
    <2>3. QED
      BY <1>2, <2>1, <2>2 DEF offeredRevisions
  <1>5. endedRevisions' = endedRevisions \cup {r}
    BY <1>1, Terminal DEF endedRevisions
  <1>6. /\ \A c \in Artifacts, q \in RowKeys :
             c # a \/ q # Ceiling => rows'[c][q] = rows[c][q]
        /\ closesCeiling(r) => ~rows'[a][Ceiling].enabled
        /\ ~closesCeiling(r) => rows' = rows
    BY RetireRows DEF LedgerInv
  <1>7. openArtifacts' = openArtifacts \ {a}
    <2>1. ~isEnabled(a, Ceiling)'
      BY <1>6 DEF closesCeiling, isEnabled
    <2>2. QED
      BY <1>6, <2>1 DEF openArtifacts, isEnabled, RowKeys
  <1>8. consentedProjects' = consentedProjects /\ signedRevisions' = signedRevisions
    BY <1>1, <1>6, LedgerAssumption
       DEF consentedProjects, signedRevisions, isEnabled, RowKeys
  <1>9. QED
    BY <1>3, <1>4, <1>5, <1>7, <1>8 DEF Catalogue!Withdraw

\* Every step is one of the catalogue, or none.
LEMMA CatalogueStep ==
  LedgerInv /\ LedgerInv' /\ [Next]_vars => [Catalogue!Next]_(Catalogue!vars)
  <1> SUFFICES ASSUME LedgerInv, LedgerInv', [Next]_vars
               PROVE  Catalogue!Next \/ UNCHANGED Catalogue!vars
    OBVIOUS
  <1> USE DEF Catalogue!Next
  <1>1. ASSUME NEW r \in Revisions, NEW by \in Actors, propose(r, by)
        PROVE  UNCHANGED Catalogue!vars
    BY <1>1, ProposeRefines DEF LedgerInv
  <1>2. ASSUME NEW r \in Revisions, NEW by \in Actors, approve(r, by)
        PROVE  Catalogue!Next
    BY <1>2, ApproveRefines
  <1>3. ASSUME NEW r \in Revisions, reject(r)
        PROVE  Catalogue!Next
    <2>1. state[r] = "proposed" /\ state'[r] = "rejected"
      BY <1>3 DEF reject, canTransition, TRANSITIONS, LifecycleStates, LedgerInv, TypeOK
    <2>2. /\ \A s \in Revisions \ {r} : state'[s] = state[s]
          /\ approval' = approval /\ rows' = rows
      BY <1>3 DEF reject, LedgerInv, TypeOK
    <2>3. QED
      BY <2>1, <2>2, AbandonRefines
  <1>4. ASSUME NEW r \in Revisions, register(r)
        PROVE  Catalogue!Next
    BY <1>4, RegisterRefines
  <1>5. ASSUME NEW a \in Artifacts, NEW by \in Actors, NEW b \in BOOLEAN,
               ceilingWrite(a, by, b)
        PROVE  Catalogue!Next \/ UNCHANGED Catalogue!vars
    BY <1>5, CeilingRefines
  <1>6. ASSUME NEW a \in Artifacts, NEW p \in Projects, NEW by \in Actors,
               NEW b \in BOOLEAN, projectWrite(a, p, by, b)
        PROVE  Catalogue!Next
    BY <1>6, ProjectRefines
  <1>7. ASSUME NEW r \in Revisions, NEW by \in Actors, retire(r, by)
        PROVE  Catalogue!Next
    <2>1. CASE state[r] = "registered"
      BY <1>7, <2>1, WithdrawRefines
    <2>2. CASE state[r] # "registered"
      <3>1. state[r] = "approved" /\ state'[r] = "retired"
        BY <1>7, <2>2 DEF retire, canTransition, TRANSITIONS, LifecycleStates,
                          LedgerInv, TypeOK
      <3>2. /\ \A s \in Revisions \ {r} : state'[s] = state[s]
            /\ approval' = approval /\ rows' = rows
        BY <1>7, <2>2 DEF retire, closesCeiling, LedgerInv, TypeOK
      <3>3. QED
        BY <3>1, <3>2, AbandonRefines
    <2>3. QED
      BY <2>1, <2>2
  <1>8. CASE UNCHANGED vars
    BY <1>8, RowsStay, OfferStays
       DEF vars, Catalogue!vars, signedRevisions, endedRevisions, LedgerInv
  <1>9. QED
    BY <1>1, <1>2, <1>3, <1>4, <1>5, <1>6, <1>7, <1>8
       DEF Next, enableFunctionWide, disableFunctionWide, enableForProject,
           disableForProject

(* The ledger implements the abstract catalogue.                           *)
THEOREM ImplementsCatalogue == Spec => CataloguePromise
  <1>1. QED
    BY CatalogueInit, CatalogueStep, LedgerInvariant, PTL
       DEF Spec, CataloguePromise, Catalogue!Spec
-----------------------------------------------------------------------------
(* What a log explains: HistoryExplainsLedger of any log, states and rows. *)
Open(rw, a, p) == rw[a][p] # None /\ rw[a][p].enabled

About(e, r) == e.revision = r /\ e.event \in LifecycleStates

Switches(e, a, p) ==
  e.revision.artifact = a /\ e.project = p /\ e.event \notin LifecycleStates

LastAbout(h, i, r) == About(h[i], r) /\ \A j \in DOMAIN h : j > i => ~About(h[j], r)

LastSwitch(h, i, a, p) ==
  Switches(h[i], a, p) /\ \A j \in DOMAIN h : j > i => ~Switches(h[j], a, p)

ExplainsStates(h, st) ==
  \A r \in Revisions :
    st[r] # "absent" => \E i \in DOMAIN h : LastAbout(h, i, r) /\ h[i].event = st[r]

SwitchedOn == {"enabled", "project-enabled"}

ExplainsRow(h, rw, a, p) ==
  /\ \A i \in DOMAIN h : LastSwitch(h, i, a, p) => (Open(rw, a, p) <=> h[i].event \in SwitchedOn)
  /\ Open(rw, a, p) => \E i \in DOMAIN h : LastSwitch(h, i, a, p)

ExplainsRows(h, rw) == \A a \in Artifacts, p \in RowKeys : ExplainsRow(h, rw, a, p)

\* The property of the runs in these terms, before a step and after it.
LEMMA HistoryExplained ==
  /\ HistoryExplainsLedger <=> ExplainsStates(history, state) /\ ExplainsRows(history, rows)
  /\ HistoryExplainsLedger' <=> ExplainsStates(history', state') /\ ExplainsRows(history', rows')
<1>1. HistoryExplainsLedger <=> ExplainsStates(history, state) /\ ExplainsRows(history, rows)
  BY DEF HistoryExplainsLedger, ExplainsStates, ExplainsRows, ExplainsRow, SwitchedOn, lastLifecycle,
         LastAbout, About, lastSwitch, LastSwitch, Switches, isEnabled, Open
<1>2. HistoryExplainsLedger' <=> ExplainsStates(history', state') /\ ExplainsRows(history', rows')
  BY DEF HistoryExplainsLedger, ExplainsStates, ExplainsRows, ExplainsRow, SwitchedOn, lastLifecycle,
         LastAbout, About, lastSwitch, LastSwitch, Switches, isEnabled, Open
<1> QED
  BY <1>1, <1>2

\* An entry more leaves the others where they were.
LEMMA OneEntryMore ==
  ASSUME NEW h \in Seq(Event), NEW e \in Event
  PROVE  /\ DOMAIN Append(h, e) = DOMAIN h \cup {Len(h) + 1}
         /\ Append(h, e)[Len(h) + 1] = e
         /\ \A i \in DOMAIN h : Append(h, e)[i] = h[i] /\ i \in Nat /\ i < Len(h) + 1
         /\ Len(h) \in Nat
OBVIOUS

\* A lifecycle event explains the state of its revision, and no row's.
LEMMA LifecycleLogged ==
  ASSUME NEW h \in Seq(Event), NEW e \in Event, e.event \in LifecycleStates,
         NEW st, NEW now, ExplainsStates(h, st),
         now[e.revision] = e.event,
         \A r \in Revisions : r # e.revision => now[r] = st[r],
         NEW rw, NEW on, ExplainsRows(h, rw),
         \A a \in Artifacts, p \in RowKeys : Open(on, a, p) <=> Open(rw, a, p)
  PROVE  ExplainsStates(Append(h, e), now) /\ ExplainsRows(Append(h, e), on)
<1>. DEFINE k == Append(h, e)
            l == Len(h) + 1
<1>1. /\ DOMAIN k = DOMAIN h \cup {l} /\ k[l] = e /\ l \in Nat
      /\ \A i \in DOMAIN h : k[i] = h[i] /\ i \in Nat /\ i < l
  BY OneEntryMore
<1>. HIDE DEF k, l
<1>2. ASSUME NEW r \in Revisions, now[r] # "absent"
      PROVE  \E i \in DOMAIN k : LastAbout(k, i, r) /\ k[i].event = now[r]
  <2>1. CASE r = e.revision
    <3>1. LastAbout(k, l, r)
      BY <1>1, <2>1 DEF LastAbout, About
    <3> QED
      BY <1>1, <2>1, <3>1
  <2>2. CASE r # e.revision
    <3>1. PICK i \in DOMAIN h : LastAbout(h, i, r) /\ h[i].event = st[r]
      BY <1>2, <2>2 DEF ExplainsStates
    <3>2. LastAbout(k, i, r)
      BY <1>1, <2>2, <3>1 DEF LastAbout, About
    <3> QED
      BY <1>1, <2>2, <3>1, <3>2
  <2> QED
    BY <2>1, <2>2
<1>3. ASSUME NEW a \in Artifacts, NEW p \in RowKeys
      PROVE  ExplainsRow(k, on, a, p)
  <2>1. ~Switches(k[l], a, p)
    BY <1>1 DEF Switches
  <2>2. \A i \in DOMAIN h : LastSwitch(k, i, a, p) <=> LastSwitch(h, i, a, p)
    BY <1>1, <2>1 DEF LastSwitch
  <2>3. ~LastSwitch(k, l, a, p)
    BY <2>1 DEF LastSwitch
  <2> QED
    BY <1>1, <2>2, <2>3 DEF ExplainsRows, ExplainsRow
<1> QED
  BY <1>2, <1>3 DEF ExplainsStates, ExplainsRows, k

\* A switch explains its row, and no revision's state.
LEMMA SwitchLogged ==
  ASSUME NEW h \in Seq(Event), NEW e \in Event, e.event \notin LifecycleStates,
         NEW st, ExplainsStates(h, st),
         NEW rw, NEW on, ExplainsRows(h, rw),
         Open(on, e.revision.artifact, e.project) <=> e.event \in SwitchedOn,
         \A a \in Artifacts, p \in RowKeys :
           a # e.revision.artifact \/ p # e.project => (Open(on, a, p) <=> Open(rw, a, p))
  PROVE  ExplainsStates(Append(h, e), st) /\ ExplainsRows(Append(h, e), on)
<1>. DEFINE k == Append(h, e)
            l == Len(h) + 1
<1>1. /\ DOMAIN k = DOMAIN h \cup {l} /\ k[l] = e /\ l \in Nat
      /\ \A i \in DOMAIN h : k[i] = h[i] /\ i \in Nat /\ i < l
  BY OneEntryMore
<1>. HIDE DEF k, l
<1>2. ASSUME NEW r \in Revisions, st[r] # "absent"
      PROVE  \E i \in DOMAIN k : LastAbout(k, i, r) /\ k[i].event = st[r]
  <2>1. PICK i \in DOMAIN h : LastAbout(h, i, r) /\ h[i].event = st[r]
    BY <1>2 DEF ExplainsStates
  <2>2. LastAbout(k, i, r)
    BY <1>1, <2>1 DEF LastAbout, About
  <2> QED
    BY <1>1, <2>1, <2>2
<1>3. ASSUME NEW a \in Artifacts, NEW p \in RowKeys
      PROVE  ExplainsRow(k, on, a, p)
  <2>1. CASE a = e.revision.artifact /\ p = e.project
    <3>1. Switches(e, a, p)
      BY <2>1 DEF Switches
    <3>2. LastSwitch(k, l, a, p)
      BY <1>1, <3>1 DEF LastSwitch
    <3>3. \A i \in DOMAIN h : ~LastSwitch(k, i, a, p)
      BY <1>1, <3>1 DEF LastSwitch
    <3> QED
      BY <1>1, <2>1, <3>2, <3>3 DEF ExplainsRow
  <2>2. CASE a # e.revision.artifact \/ p # e.project
    <3>1. ~Switches(k[l], a, p)
      BY <1>1, <2>2 DEF Switches
    <3>2. \A i \in DOMAIN h : LastSwitch(k, i, a, p) <=> LastSwitch(h, i, a, p)
      BY <1>1, <3>1 DEF LastSwitch
    <3>3. ~LastSwitch(k, l, a, p)
      BY <3>1 DEF LastSwitch
    <3> QED
      BY <1>1, <2>2, <3>2, <3>3 DEF ExplainsRows, ExplainsRow
  <2> QED
    BY <2>1, <2>2
<1> QED
  BY <1>2, <1>3 DEF ExplainsStates, ExplainsRows, k

\* What an event of this module says.
LEMMA EventSays ==
  ASSUME NEW name \in Events, NEW r \in Revisions, NEW p \in RowKeys
  PROVE  /\ event(name, r, p) \in Event
         /\ event(name, r, p).event = name
         /\ event(name, r, p).revision = r
         /\ event(name, r, p).project = p
BY DEF event, Event

\* The names of the events: lifecycle states and switches.
LEMMA EventNames ==
  /\ LifecycleStates \subseteq Events
  /\ {"enabled", "disabled", "project-enabled", "project-disabled"} \subseteq Events \ LifecycleStates
BY DEF Events, LifecycleStates

\* A step that moves one revision and logs it keeps the log in step.
LEMMA MoveExplained ==
  ASSUME TypeOK, HistoryExplainsLedger, NEW r \in Revisions, NEW to \in LifecycleStates,
         state' = [state EXCEPT ![r] = to], Log(event(to, r, Ceiling)),
         \A a \in Artifacts, p \in RowKeys : Open(rows', a, p) <=> Open(rows, a, p)
  PROVE  HistoryExplainsLedger'
<1>. DEFINE e == event(to, r, Ceiling)
<1>1. e \in Event /\ e.event = to /\ e.revision = r
  BY EventSays, EventNames DEF RowKeys
<1>2. history' = Append(history, e) /\ history \in Seq(Event)
  BY DEF Log, TypeOK
<1>3. state'[r] = to /\ \A s \in Revisions : s # r => state'[s] = state[s]
  BY DEF TypeOK
<1>. HIDE DEF e
<1>4. ExplainsStates(history, state) /\ ExplainsRows(history, rows)
  BY HistoryExplained
<1>5. ExplainsStates(Append(history, e), state') /\ ExplainsRows(Append(history, e), rows')
  BY <1>1, <1>2, <1>3, <1>4, LifecycleLogged
<1> QED
  BY <1>2, <1>5, HistoryExplained

\* Registering logs what becomes of the incumbent and of the revision.
LEMMA RegisterExplained ==
  ASSUME TypeOK, AtMostOneRegistered, HistoryExplainsLedger, NEW r \in Revisions, register(r)
  PROVE  HistoryExplainsLedger'
<1>. DEFINE s == incumbentOf(r)
<1>1. rows' = followCeiling(r) /\ state[r] = "approved"
  BY DEF register
<1>2. \A a \in Artifacts, p \in RowKeys : Open(rows', a, p) <=> Open(rows, a, p)
  <2>1. r.artifact \in Artifacts /\ Ceiling \in RowKeys
    BY RevisionFields DEF RowKeys
  <2>2. /\ \A b \in Artifacts, q \in RowKeys : b # r.artifact \/ q # Ceiling => rows'[b][q] = rows[b][q]
        /\ rows[r.artifact][Ceiling] = None => rows'[r.artifact][Ceiling] = None
        /\ rows[r.artifact][Ceiling] # None =>
             rows'[r.artifact][Ceiling] # None /\ rows'[r.artifact][Ceiling].enabled = rows[r.artifact][Ceiling].enabled
    BY <1>1, FollowCeiling, LedgerAssumption DEF TypeOK
  <2> QED
    BY <2>1, <2>2 DEF Open
<1>3. CASE s = None
  <2>1. state' = [state EXCEPT ![r] = "registered"] /\ Log(event("registered", r, Ceiling))
    BY <1>3 DEF register
  <2> QED
    BY <1>2, <2>1, MoveExplained DEF LifecycleStates
<1>4. CASE s # None
  <2>. DEFINE e == event("superseded", s, Ceiling)
              f == event("registered", r, Ceiling)
              h == Append(history, e)
              mid == [state EXCEPT ![s] = "superseded"]
  <2>1. /\ state' = [state EXCEPT ![r] = "registered", ![s] = "superseded"]
        /\ history' = Append(h, f)
    BY <1>4 DEF register, LogBoth
  <2>2. s \in Revisions /\ s # r
    BY <1>1, <1>4, CurrentIsRegistered, CurrentIsNone DEF incumbentOf, isRegistered
  <2>3. /\ e \in Event /\ e.event = "superseded" /\ e.revision = s
        /\ f \in Event /\ f.event = "registered" /\ f.revision = r
        /\ e.event \in LifecycleStates /\ f.event \in LifecycleStates
    BY <2>2, EventSays DEF RowKeys, Events, LifecycleStates
  <2>4. history \in Seq(Event) /\ ExplainsStates(history, state) /\ ExplainsRows(history, rows)
    BY HistoryExplained DEF TypeOK
  <2>. HIDE DEF s, e, f
  <2>5. mid[s] = "superseded" /\ \A t \in Revisions : t # s => mid[t] = state[t]
    BY <2>2 DEF TypeOK
  <2>6. state'[r] = "registered" /\ \A t \in Revisions : t # r => state'[t] = mid[t]
    BY <2>1, <2>2 DEF TypeOK
  <2>. HIDE DEF mid
  <2>7. ExplainsStates(h, mid) /\ ExplainsRows(h, rows)
    BY <2>3, <2>4, <2>5, LifecycleLogged
  <2>8. h \in Seq(Event)
    BY <2>3, <2>4
  <2>. HIDE DEF h
  <2>9. ExplainsStates(Append(h, f), state') /\ ExplainsRows(Append(h, f), rows')
    BY <1>2, <2>3, <2>6, <2>7, <2>8, LifecycleLogged
  <2> QED
    BY <2>1, <2>9, HistoryExplained
<1> QED
  BY <1>3, <1>4

\* A step that turns one row on or off and logs it keeps the log in step.
LEMMA SwitchExplained ==
  ASSUME TypeOK, HistoryExplainsLedger, state' = state,
         NEW name \in Events \ LifecycleStates, NEW r \in Revisions, NEW p \in RowKeys,
         Log(event(name, r, p)),
         Open(rows', r.artifact, p) <=> name \in SwitchedOn,
         \A c \in Artifacts, q \in RowKeys : c # r.artifact \/ q # p => rows'[c][q] = rows[c][q]
  PROVE  HistoryExplainsLedger'
<1>. DEFINE e == event(name, r, p)
<1>1. e \in Event /\ e.event = name /\ e.revision = r /\ e.project = p
  BY EventSays
<1>2. history' = Append(history, e) /\ history \in Seq(Event)
  BY DEF Log, TypeOK
<1>. HIDE DEF e
<1>3. ExplainsStates(history, state) /\ ExplainsRows(history, rows)
  BY HistoryExplained
<1>4. \A c \in Artifacts, q \in RowKeys :
        c # r.artifact \/ q # p => (Open(rows', c, q) <=> Open(rows, c, q))
  BY DEF Open
<1>5. ExplainsStates(Append(history, e), state) /\ ExplainsRows(Append(history, e), rows')
  BY <1>1, <1>2, <1>3, <1>4, SwitchLogged
<1> QED
  BY <1>2, <1>5, HistoryExplained

\* A write of the ceiling logs it.
LEMMA CeilingExplained ==
  ASSUME TypeOK, HistoryExplainsLedger, NEW a \in Artifacts, NEW by \in Actors, NEW b \in BOOLEAN,
         ceilingWrite(a, by, b)
  PROVE  HistoryExplainsLedger'
<1>. DEFINE r == currentRegistered(a)
            name == IF b THEN "enabled" ELSE "disabled"
<1>1. /\ isRegistered(a, r) /\ r \in Revisions
      /\ rows'[a][Ceiling].enabled = b /\ rows'[a][Ceiling] # None
      /\ \A c \in Artifacts, q \in RowKeys : c # a \/ q # Ceiling => rows'[c][q] = rows[c][q]
  BY CeilingWriteRows
<1>2. state' = state /\ Log(event(name, r, Ceiling))
  BY DEF ceilingWrite
<1>3. r.artifact = a /\ name \in Events \ LifecycleStates /\ Ceiling \in RowKeys
  BY <1>1, EventNames DEF isRegistered, RowKeys
<1>4. Open(rows', a, Ceiling) <=> name \in SwitchedOn
  BY <1>1 DEF Open, SwitchedOn
<1>. HIDE DEF r, name
<1> QED
  BY <1>1, <1>2, <1>3, <1>4, SwitchExplained

\* A write of a project row logs it.
LEMMA ProjectExplained ==
  ASSUME TypeOK, HistoryExplainsLedger, NEW a \in Artifacts, NEW p \in Projects, NEW by \in Actors,
         NEW b \in BOOLEAN, projectWrite(a, p, by, b)
  PROVE  HistoryExplainsLedger'
<1>. DEFINE r == currentRegistered(a)
            name == IF b THEN "project-enabled" ELSE "project-disabled"
<1>1. /\ rows'[a][p].enabled = b /\ rows'[a][p] # None
      /\ \A c \in Artifacts, q \in RowKeys : c # a \/ q # p => rows'[c][q] = rows[c][q]
  BY ProjectWriteRows
<1>2. state' = state /\ Log(event(name, r, p)) /\ hasRegistered(a)
  BY DEF projectWrite
<1>3. r \in Revisions /\ r.artifact = a /\ name \in Events \ LifecycleStates /\ p \in RowKeys
  BY <1>2, CurrentIsRegistered, EventNames DEF isRegistered, RowKeys
<1>4. Open(rows', a, p) <=> name \in SwitchedOn
  BY <1>1 DEF Open, SwitchedOn
<1>. HIDE DEF r, name
<1> QED
  BY <1>1, <1>2, <1>3, <1>4, SwitchExplained

\* Retiring logs the ceiling it closes and what becomes of the revision.
LEMMA RetireExplained ==
  ASSUME TypeOK, HistoryExplainsLedger, NEW r \in Revisions, NEW by \in Actors, retire(r, by)
  PROVE  HistoryExplainsLedger'
<1>1. state' = [state EXCEPT ![r] = "retired"]
  BY DEF retire
<1>2. CASE ~closesCeiling(r)
  <2>1. rows' = rows /\ Log(event("retired", r, Ceiling))
    BY <1>2 DEF retire
  <2> QED
    BY <1>1, <2>1, MoveExplained DEF LifecycleStates
<1>3. CASE closesCeiling(r)
  <2>. DEFINE e == event("disabled", r, Ceiling)
              f == event("retired", r, Ceiling)
              h == Append(history, e)
  <2>1. history' = Append(h, f)
    BY <1>3 DEF retire, LogBoth
  <2>2. /\ e \in Event /\ e.event = "disabled" /\ e.revision = r /\ e.project = Ceiling
        /\ f \in Event /\ f.event = "retired" /\ f.revision = r
        /\ e.event \notin LifecycleStates /\ e.event \notin SwitchedOn /\ f.event \in LifecycleStates
    BY EventSays DEF RowKeys, Events, LifecycleStates, SwitchedOn
  <2>3. history \in Seq(Event) /\ ExplainsStates(history, state) /\ ExplainsRows(history, rows)
    BY HistoryExplained DEF TypeOK
  <2>4. /\ ~Open(rows', r.artifact, Ceiling)
        /\ \A c \in Artifacts, q \in RowKeys :
             c # r.artifact \/ q # Ceiling => (Open(rows', c, q) <=> Open(rows, c, q))
    BY <1>3, RetireRows DEF Open
  <2>5. state'[r] = "retired" /\ \A t \in Revisions : t # r => state'[t] = state[t]
    BY <1>1 DEF TypeOK
  <2>. HIDE DEF e, f
  <2>6. ExplainsStates(h, state) /\ ExplainsRows(h, rows')
    BY <2>2, <2>3, <2>4, SwitchLogged
  <2>7. h \in Seq(Event)
    BY <2>2, <2>3
  <2>. HIDE DEF h
  <2>8. ExplainsStates(Append(h, f), state') /\ ExplainsRows(Append(h, f), rows')
    BY <2>2, <2>5, <2>6, <2>7, LifecycleLogged
  <2> QED
    BY <2>1, <2>8, HistoryExplained
<1> QED
  BY <1>2, <1>3

\* Every step logs what it changes.
LEMMA ExplainedStep ==
  LedgerInv /\ HistoryExplainsLedger /\ [Next]_vars => HistoryExplainsLedger'
<1>1. SUFFICES ASSUME TypeOK, AtMostOneRegistered, HistoryExplainsLedger, [Next]_vars
               PROVE  HistoryExplainsLedger'
  BY DEF LedgerInv
<1>2. ASSUME NEW r \in Revisions, NEW by \in Actors, propose(r, by)
      PROVE  HistoryExplainsLedger'
  BY <1>1, <1>2, MoveExplained DEF propose, LifecycleStates
<1>3. ASSUME NEW r \in Revisions, NEW by \in Actors, approve(r, by)
      PROVE  HistoryExplainsLedger'
  BY <1>1, <1>3, MoveExplained DEF approve, LifecycleStates
<1>4. ASSUME NEW r \in Revisions, reject(r)
      PROVE  HistoryExplainsLedger'
  BY <1>1, <1>4, MoveExplained DEF reject, LifecycleStates
<1>5. ASSUME NEW r \in Revisions, register(r)
      PROVE  HistoryExplainsLedger'
  BY <1>1, <1>5, RegisterExplained
<1>6. ASSUME NEW a \in Artifacts, NEW by \in Actors, NEW b \in BOOLEAN, ceilingWrite(a, by, b)
      PROVE  HistoryExplainsLedger'
  BY <1>1, <1>6, CeilingExplained
<1>7. ASSUME NEW a \in Artifacts, NEW p \in Projects, NEW by \in Actors, NEW b \in BOOLEAN,
             projectWrite(a, p, by, b)
      PROVE  HistoryExplainsLedger'
  BY <1>1, <1>7, ProjectExplained
<1>8. ASSUME NEW r \in Revisions, NEW by \in Actors, retire(r, by)
      PROVE  HistoryExplainsLedger'
  BY <1>1, <1>8, RetireExplained
<1>9. CASE UNCHANGED vars
  BY <1>1, <1>9, HistoryExplained DEF vars
<1> QED
  BY <1>1, <1>2, <1>3, <1>4, <1>5, <1>6, <1>7, <1>8, <1>9
     DEF Next, enableFunctionWide, disableFunctionWide, enableForProject, disableForProject

(* The audit log alone tells the state of every revision and whether every *)
(* row is on, in any ledger that the commands can reach.                   *)
THEOREM LogTellsLedger == Spec => []HistoryExplainsLedger
<1>1. Init => HistoryExplainsLedger
  BY DEF Init, HistoryExplainsLedger, isEnabled
<1> QED
  BY <1>1, ExplainedStep, LedgerInvariant, PTL DEF Spec
=============================================================================
