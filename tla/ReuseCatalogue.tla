--------------------------- MODULE ReuseCatalogue ---------------------------
(***************************************************************************)
(* What packages/registry promises to the projects that reuse an artifact, *)
(* without actors, scopes or an audit log: a revision is offered only once *)
(* it is signed, an ended revision never comes back, the switch of an      *)
(* artifact is open only while a revision of it is offered, and a project  *)
(* consents only under an open switch.  RegistryLedger implements it.      *)
(***************************************************************************)
CONSTANTS
  Artifacts,   \* artifact ids
  Projects,    \* project ids
  Revisions,   \* records with a field "artifact": content-addressed revisions
  None

VARIABLES
  signed,      \* revisions a human has signed
  ended,       \* revisions that are rejected, superseded or retired
  offered,     \* offered[a]: the revision of a in the catalogue, or None
  open,        \* artifacts whose Function-wide switch is open
  consented    \* consented[a]: projects that have asked for a

vars == <<signed, ended, offered, open, consented>>

Init ==
  /\ signed = {}
  /\ ended = {}
  /\ offered = [a \in Artifacts |-> None]
  /\ open = {}
  /\ consented = [a \in Artifacts |-> {}]

Sign(r) ==
  /\ r \notin signed \cup ended
  /\ signed' = signed \cup {r}
  /\ UNCHANGED <<ended, offered, open, consented>>

(* A revision that is not in the catalogue is given up.                    *)
Abandon(r) ==
  /\ r \notin ended
  /\ offered[r.artifact] # r
  /\ ended' = ended \cup {r}
  /\ UNCHANGED <<signed, offered, open, consented>>

(* A signed revision enters the catalogue and ends the one it replaces, in *)
(* one step: the switch and the consents stay as they are.                 *)
Offer(r) ==
  /\ r \in signed \ ended
  /\ offered[r.artifact] # r
  /\ offered' = [offered EXCEPT ![r.artifact] = r]
  /\ ended' = ended \cup ({offered[r.artifact]} \ {None})
  /\ UNCHANGED <<signed, open, consented>>

(* The offered revision leaves the catalogue, which closes the switch.     *)
Withdraw(r) ==
  /\ offered[r.artifact] = r
  /\ offered' = [offered EXCEPT ![r.artifact] = None]
  /\ ended' = ended \cup {r}
  /\ open' = open \ {r.artifact}
  /\ UNCHANGED <<signed, consented>>

Switch(a) ==
  /\ offered[a] # None
  /\ open' = IF a \in open THEN open \ {a} ELSE open \cup {a}
  /\ UNCHANGED <<signed, ended, offered, consented>>

Consent(a, p) ==
  /\ a \in open
  /\ consented' = [consented EXCEPT ![a] = @ \cup {p}]
  /\ UNCHANGED <<signed, ended, offered, open>>

Refuse(a, p) ==
  /\ offered[a] # None
  /\ consented' = [consented EXCEPT ![a] = @ \ {p}]
  /\ UNCHANGED <<signed, ended, offered, open>>

Next ==
  \/ \E r \in Revisions : Sign(r) \/ Abandon(r) \/ Offer(r) \/ Withdraw(r)
  \/ \E a \in Artifacts : Switch(a)
  \/ \E a \in Artifacts, p \in Projects : Consent(a, p) \/ Refuse(a, p)

Spec == Init /\ [][Next]_vars
=============================================================================
