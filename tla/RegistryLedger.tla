--------------------------- MODULE RegistryLedger ---------------------------
(***************************************************************************)
(* The registry ledger of packages/registry: which generated artifact may  *)
(* be reused, by which project, and who signed for it.                     *)
(*                                                                         *)
(* The ledger of the code is a value: every command is a pure function of  *)
(* it that either returns a new ledger or refuses and returns its own      *)
(* argument.  A refusal changes nothing, so it is no step of this module.  *)
(* A content hash covers id, kind, version, capabilities and files (path   *)
(* and text) of an artifact, so a revision is the record of these and is   *)
(* its own hash; the files of a revision are one opaque value.             *)
(* Timestamps, workflow ids and notes are left out, and so is the author   *)
(* of an audit event.  An enablement row keeps the whole actor who wrote   *)
(* it, of whom the code keeps the id.                                      *)
(***************************************************************************)
EXTENDS Naturals, Sequences

CONSTANTS
  Artifacts,    \* artifact ids
  Projects,     \* real project ids; the ceiling "*" is not one of them
  Files,        \* what the files of an artifact may be, path and text
  Revisions,    \* records [artifact, kind, version, capabilities, files]
  Actors,       \* records [kind, id, key, named]; key is the id trimmed and in
                \* lower case, named what guardrails' isNamedHuman says of it
  Kinds, Versions, Scopes,
  MaxHistory,   \* bound on the length of the audit log
  None

Ceiling == "*"

Signature == [approver : Actors, contentHash : Revisions]

Row == [enabled : BOOLEAN, installedBy : Actors,
        grantedScopes : SUBSET Scopes, version : Versions]

ASSUME LedgerAssumption ==
  /\ Revisions \subseteq [artifact : Artifacts, kind : Kinds,
                          version : Versions, capabilities : SUBSET Scopes,
                          files : Files]
  /\ Actors \subseteq [kind : {"human", "tool", "agent", "system"},
                       id : STRING, key : STRING, named : BOOLEAN]
  /\ Ceiling \notin Projects
  /\ MaxHistory \in Nat
  /\ None \notin Revisions \cup Actors \cup Signature \cup Row

VARIABLES
  state,         \* state[r]: the lifecycle state of r, "absent" before propose
  proposedBy,    \* proposedBy[r]: who proposed r
  approval,      \* approval[r]: the signature [approver, contentHash] or None
  supersededBy,  \* supersededBy[r]: the revision that replaced r, or None
  rows,          \* rows[a][p]: the enablement row of a for p, or None
  history        \* the append-only audit log

vars == <<state, proposedBy, approval, supersededBy, rows, history>>

LifecycleStates ==
  {"proposed", "approved", "registered", "rejected", "superseded", "retired"}

TRANSITIONS ==
  [s \in LifecycleStates |->
     CASE s = "proposed"   -> {"approved", "rejected"}
       [] s = "approved"   -> {"registered", "retired"}
       [] s = "registered" -> {"superseded", "retired"}
       [] OTHER            -> {}]

canTransition(from, to) == from \in LifecycleStates /\ to \in TRANSITIONS[from]

TERMINAL_STATES == {s \in LifecycleStates : TRANSITIONS[s] = {}}

RowKeys == Projects \cup {Ceiling}

Events ==
  LifecycleStates \cup {"enabled", "disabled", "project-enabled", "project-disabled"}

Event == [event : Events, revision : Revisions, project : RowKeys]
-----------------------------------------------------------------------------
(* Who may sign.                                                           *)
namedHuman(by) == by.kind = "human" /\ by.named

isSelfApproval(by, a) == by.key = a

isSameActor(x, y) == x.kind = y.kind /\ x.key = y.key

signableByProposer(by, r) == namedHuman(by) /\ ~isSelfApproval(by, r.artifact)

mayApprove(by, r) ==
  /\ namedHuman(by)
  /\ ~isSelfApproval(by, r.artifact)
  /\ ~isSameActor(by, proposedBy[r])

(* Reads, computed afresh from the ledger.                                 *)
isRegistered(a, r) == r.artifact = a /\ state[r] = "registered"

hasRegistered(a) == \E r \in Revisions : isRegistered(a, r)

currentRegistered(a) ==
  IF hasRegistered(a) THEN CHOOSE r \in Revisions : isRegistered(a, r) ELSE None

isEnabled(a, p) == rows[a][p] # None /\ rows[a][p].enabled

(* May p run artifact a?  Presented is the hash of the bytes on hand, or   *)
(* None when the caller gives neither the bytes nor a hash: nothing is     *)
(* compared then, and the answer says so.  The ceiling itself may be asked *)
(* about, and needs no project row.                                        *)
reuseReason(a, p, presented) ==
  IF ~hasRegistered(a)                          THEN "no_ceiling_row"
  ELSE IF presented \notin {None, currentRegistered(a)} THEN "content_drift"
  ELSE IF ~isEnabled(a, Ceiling)                THEN "ceiling_not_enabled"
  ELSE IF p # Ceiling /\ ~isEnabled(a, p)       THEN "not_enabled"
  ELSE "ok"

reuseDecision(a, p, presented) ==
  LET reason == reuseReason(a, p, presented)
  IN  [reason |-> reason, allowed |-> reason = "ok", entry |-> currentRegistered(a),
       grantedScopes |-> IF reason = "ok" THEN rows[a][Ceiling].grantedScopes ELSE {},
       verified |-> presented # None /\ reason # "no_ceiling_row"]
-----------------------------------------------------------------------------
event(name, r, p) == [event |-> name, revision |-> r, project |-> p]

(* appendHistory, within the bound of the model.                           *)
Log(e) == Len(history) < MaxHistory /\ history' = Append(history, e)

LogSecond(e, f) == Log(f)

LogBoth(e, f) ==
  Len(history) + 1 < MaxHistory /\ history' = Append(Append(history, e), f)

upsertRow(a, p, row) == [rows EXCEPT ![a] = [@ EXCEPT ![p] = row]]

Init ==
  /\ state = [r \in Revisions |-> "absent"]
  /\ proposedBy = [r \in Revisions |-> None]
  /\ approval = [r \in Revisions |-> None]
  /\ supersededBy = [r \in Revisions |-> None]
  /\ rows = [a \in Artifacts |-> [p \in RowKeys |-> None]]
  /\ history = <<>>

(* Content that is on record is never proposed again, whatever became of   *)
(* it; one artifact id is one kind of thing.                               *)
proposableOnceClosed(r) == state[r] \notin {"proposed", "approved", "registered"}

proposable(r) == state[r] = "absent"

propose(r, by) ==
  /\ \A s \in Revisions :
        s.artifact = r.artifact /\ state[s] # "absent" => s.kind = r.kind
  /\ proposable(r)
  /\ state' = [state EXCEPT ![r] = "proposed"]
  /\ proposedBy' = [proposedBy EXCEPT ![r] = by]
  /\ Log(event("proposed", r, Ceiling))
  /\ UNCHANGED <<approval, supersededBy, rows>>

approve(r, by) ==
  /\ canTransition(state[r], "approved")
  /\ mayApprove(by, r)
  /\ state' = [state EXCEPT ![r] = "approved"]
  /\ approval' = [approval EXCEPT ![r] = [approver |-> by, contentHash |-> r]]
  /\ Log(event("approved", r, Ceiling))
  /\ UNCHANGED <<proposedBy, supersededBy, rows>>

(* Refusing grants nothing: any actor may.                                 *)
reject(r) ==
  /\ canTransition(state[r], "rejected")
  /\ state' = [state EXCEPT ![r] = "rejected"]
  /\ Log(event("rejected", r, Ceiling))
  /\ UNCHANGED <<proposedBy, approval, supersededBy, rows>>

(* The ceiling row, if there is one, follows the newly registered revision *)
(* without being opened; project rows are left alone.                      *)
ceilingAsIs(r) == rows

ceilingFromScratch(r) ==
  upsertRow(r.artifact, Ceiling,
            [version |-> r.version, grantedScopes |-> r.capabilities])

followCeiling(r) ==
  IF rows[r.artifact][Ceiling] = None THEN rows
  ELSE upsertRow(r.artifact, Ceiling,
         [rows[r.artifact][Ceiling] EXCEPT !.version = r.version,
                                           !.grantedScopes = r.capabilities])

(* The revision that register supersedes in the same call.                 *)
sameVersionIncumbent(r) ==
  LET s == currentRegistered(r.artifact)
  IN  IF s # None /\ s.version = r.version THEN s ELSE None

incumbentOf(r) == currentRegistered(r.artifact)

register(r) ==
  /\ state[r] = "approved"
  /\ approval[r] # None
  /\ approval[r].contentHash = r
  /\ namedHuman(approval[r].approver)
  /\ LET incumbent == incumbentOf(r) IN
       IF incumbent = None
       THEN /\ state' = [state EXCEPT ![r] = "registered"]
            /\ Log(event("registered", r, Ceiling))
            /\ UNCHANGED supersededBy
       ELSE /\ state' = [state EXCEPT ![r] = "registered",
                                      ![incumbent] = "superseded"]
            /\ LogBoth(event("superseded", incumbent, Ceiling),
                       event("registered", r, Ceiling))
            /\ supersededBy' = [supersededBy EXCEPT ![incumbent] = r]
  /\ rows' = followCeiling(r)
  /\ UNCHANGED <<proposedBy, approval>>

(* Widening needs a named human, narrowing does not.                       *)
ceilingWrite(a, by, enabled) ==
  /\ enabled => namedHuman(by)
  /\ hasRegistered(a)
  /\ rows[a][Ceiling] # None => rows[a][Ceiling].enabled # enabled
  /\ LET r == currentRegistered(a) IN
       /\ rows' = upsertRow(a, Ceiling,
                    [enabled |-> enabled, installedBy |-> by,
                     grantedScopes |-> r.capabilities, version |-> r.version])
       /\ Log(event(IF enabled THEN "enabled" ELSE "disabled", r, Ceiling))
  /\ UNCHANGED <<state, proposedBy, approval, supersededBy>>

enableFunctionWide(a, by) == ceilingWrite(a, by, TRUE)

disableFunctionWide(a, by) == ceilingWrite(a, by, FALSE)

(* The first row that is there: the ceiling's, else the project's own.     *)
scopesFor(a, p) ==
  CASE rows[a][Ceiling] # None -> rows[a][Ceiling].grantedScopes
    [] rows[a][Ceiling] = None /\ rows[a][p] # None -> rows[a][p].grantedScopes
    [] OTHER -> {}

versionFor(a) ==
  IF rows[a][Ceiling] # None THEN rows[a][Ceiling].version
                             ELSE currentRegistered(a).version

(* A project may turn an artifact off, never widen the Function's consent. *)
mayWiden(a) == isEnabled(a, Ceiling)

projectWrite(a, p, by, enabled) ==
  /\ enabled => namedHuman(by)
  /\ hasRegistered(a)
  /\ enabled => mayWiden(a)
  /\ rows[a][p] # None => rows[a][p].enabled # enabled
  /\ ~enabled => rows[a][p] # None
  /\ rows' = upsertRow(a, p,
               [enabled |-> enabled, installedBy |-> by,
                grantedScopes |-> scopesFor(a, p), version |-> versionFor(a)])
  /\ Log(event(IF enabled THEN "project-enabled" ELSE "project-disabled",
               currentRegistered(a), p))
  /\ UNCHANGED <<state, proposedBy, approval, supersededBy>>

enableForProject(a, p, by) == projectWrite(a, p, by, TRUE)

disableForProject(a, p, by) == projectWrite(a, p, by, FALSE)

leavesCeilingOpen(r) == FALSE

closesCeiling(r) == state[r] = "registered" /\ isEnabled(r.artifact, Ceiling)

(* Retiring the registered revision closes the ceiling in the same call;   *)
(* project rows stay.                                                      *)
retire(r, by) ==
  /\ canTransition(state[r], "retired")
  /\ state' = [state EXCEPT ![r] = "retired"]
  /\ \/ /\ closesCeiling(r)
        /\ rows' = upsertRow(r.artifact, Ceiling,
                     [rows[r.artifact][Ceiling] EXCEPT !.enabled = FALSE,
                                                       !.installedBy = by])
        /\ LogBoth(event("disabled", r, Ceiling), event("retired", r, Ceiling))
     \/ /\ ~closesCeiling(r)
        /\ Log(event("retired", r, Ceiling))
        /\ UNCHANGED rows
  /\ UNCHANGED <<proposedBy, approval, supersededBy>>

Next ==
  \/ \E r \in Revisions, by \in Actors :
       propose(r, by) \/ approve(r, by) \/ retire(r, by)
  \/ \E r \in Revisions : reject(r) \/ register(r)
  \/ \E a \in Artifacts, by \in Actors :
       enableFunctionWide(a, by) \/ disableFunctionWide(a, by)
  \/ \E a \in Artifacts, p \in Projects, by \in Actors :
       enableForProject(a, p, by) \/ disableForProject(a, p, by)

Spec == Init /\ [][Next]_vars
-----------------------------------------------------------------------------
(* Every variable holds a value of the shape the code's types give it.     *)
TypeOK ==
  /\ state \in [Revisions -> LifecycleStates \cup {"absent"}]
  /\ proposedBy \in [Revisions -> Actors \cup {None}]
  /\ approval \in [Revisions -> Signature \cup {None}]
  /\ supersededBy \in [Revisions -> Revisions \cup {None}]
  /\ rows \in [Artifacts -> [RowKeys -> Row \cup {None}]]
  /\ history \in Seq(Event)

(* "Two registered revisions of one id is not a state this module can      *)
(* produce": register supersedes the incumbent in the same call.           *)
AtMostOneRegistered ==
  \A r, s \in Revisions :
    /\ r.artifact = s.artifact
    /\ state[r] = "registered"
    /\ state[s] = "registered"
    => r = s

(* Whatever reuseDecision allows is the registered revision of that very   *)
(* artifact, signed over its own content by a named human who is neither   *)
(* its proposer nor an account named like the artifact; the scopes granted *)
(* are the ones signed for; and the ceiling's row, and the project's own   *)
(* if one was asked about, were last written by a named human.  When bytes *)
(* or a hash were presented they are that revision's.  When none were, the *)
(* answer says unverified: it is about the registered revision only, and   *)
(* nothing is claimed of the bytes about to run.                           *)
ReuseIsConsented ==
  \A a \in Artifacts, p \in RowKeys, presented \in Revisions \cup {None} :
    LET d == reuseDecision(a, p, presented)
        r == d.entry
    IN  d.allowed =>
          /\ r \in Revisions
          /\ r.artifact = a
          /\ d.verified <=> presented # None
          /\ d.verified => presented = r
          /\ approval[r] # None
          /\ approval[r].contentHash = r
          /\ namedHuman(approval[r].approver)
          /\ approval[r].approver.key # a
          /\ ~isSameActor(approval[r].approver, proposedBy[r])
          /\ d.grantedScopes = r.capabilities
          /\ namedHuman(rows[a][Ceiling].installedBy)
          /\ namedHuman(rows[a][p].installedBy)

(* An open ceiling always stands for the registered revision: it carries   *)
(* that revision's version and exactly the scopes that were signed.  No    *)
(* order of register, retire and enable calls leaves it open over nothing. *)
OpenCeilingFollowsRegistered ==
  \A a \in Artifacts :
    isEnabled(a, Ceiling) =>
      \E r \in Revisions :
        /\ isRegistered(a, r)
        /\ rows[a][Ceiling].grantedScopes = r.capabilities
        /\ rows[a][Ceiling].version = r.version

(* A project never holds a row of an artifact the Function has no row of,  *)
(* so the fallbacks of projectWrite for a missing ceiling are dead code.   *)
ProjectRowNeedsCeiling ==
  \A a \in Artifacts, p \in Projects :
    rows[a][p] # None => rows[a][Ceiling] # None

(* Position i of the log is the last one that satisfies the others' test.  *)
lastLifecycle(i, r) ==
  /\ history[i].revision = r
  /\ history[i].event \in LifecycleStates
  /\ \A j \in DOMAIN history :
       j > i => ~(history[j].revision = r /\ history[j].event \in LifecycleStates)

lastSwitch(i, a, p) ==
  LET switches(j) == /\ history[j].revision.artifact = a
                     /\ history[j].project = p
                     /\ history[j].event \notin LifecycleStates
  IN  switches(i) /\ \A j \in DOMAIN history : j > i => ~switches(j)

(* The audit log alone tells the ledger: the last lifecycle event of a     *)
(* revision names its state, and a switch (ceiling or project) is on       *)
(* exactly when the last event about it says so.  A transition that        *)
(* changed a row without its event, or logged in the wrong order, breaks   *)
(* this.                                                                   *)
HistoryExplainsLedger ==
  /\ \A r \in Revisions :
       state[r] # "absent" =>
         \E i \in DOMAIN history :
           lastLifecycle(i, r) /\ history[i].event = state[r]
  /\ \A a \in Artifacts, p \in RowKeys, i \in DOMAIN history :
       lastSwitch(i, a, p) =>
         (isEnabled(a, p) <=> history[i].event \in {"enabled", "project-enabled"})
  /\ \A a \in Artifacts, p \in RowKeys :
       isEnabled(a, p) => \E i \in DOMAIN history : lastSwitch(i, a, p)

(* A signature is given once: it is never altered, withdrawn or carried    *)
(* over to other content, be it other in its files only, and an ended      *)
(* revision stays ended.                                                   *)
SignatureIsFinal ==
  [][\A r \in Revisions :
       /\ approval[r] # None => approval'[r] = approval[r]
       /\ state[r] \in TERMINAL_STATES => state'[r] = state[r]]_vars

(* The abstract catalogue, read off the ledger.                            *)
signedRevisions == {r \in Revisions : approval[r] # None}

endedRevisions == {r \in Revisions : state[r] \in TERMINAL_STATES}

offeredRevisions == [a \in Artifacts |-> currentRegistered(a)]

openArtifacts == {a \in Artifacts : isEnabled(a, Ceiling)}

consentedProjects == [a \in Artifacts |-> {p \in Projects : isEnabled(a, p)}]

Catalogue == INSTANCE ReuseCatalogue WITH
  signed <- signedRevisions, ended <- endedRevisions, offered <- offeredRevisions,
  open <- openArtifacts, consented <- consentedProjects

(* The ledger keeps the catalogue's promise: every command is one of its   *)
(* steps or changes nothing a reusing project can see.                     *)
CataloguePromise == Catalogue!Spec

(* "The project row must not be able to record a wider set" than the       *)
(* ceiling row (packages/registry/src/entry.ts, packages/registry/src/     *)
(* ledger.ts): what those comments say of an artifact with both rows.      *)
ProjectRowWithinCeiling ==
  \A a \in Artifacts, p \in Projects :
    rows[a][p] # None /\ rows[a][Ceiling] # None =>
      rows[a][p].grantedScopes \subseteq rows[a][Ceiling].grantedScopes
=============================================================================
