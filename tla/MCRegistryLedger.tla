-------------------------- MODULE MCRegistryLedger --------------------------
(* Instances of RegistryLedger for TLC.                                    *)
EXTENDS RegistryLedger, TLC

actor(kind, id, key, named) == [kind |-> kind, id |-> id, key |-> key, named |-> named]

(* A person, an agent, and a person whose account is named like the        *)
(* artifact but spelled differently.  What the agent proposes, ann may     *)
(* sign; what ann proposes, nobody here may.                               *)
MCActors ==
  { actor("human", "ann", "ann", TRUE), actor("agent", "bob", "bob", FALSE),
    actor("human", "CLOCK", "clock", TRUE) }

revision(a, kind, version, caps, files) ==
  [artifact |-> a, kind |-> kind, version |-> version, capabilities |-> caps,
   files |-> files]

CONSTANTS f1, f2, f3

(* As an app, two revisions that differ in nothing but their files; as a   *)
(* script, a revision and a narrower successor.  One id is one kind, so    *)
(* which pair it is depends on what is proposed first.                     *)
OneArtifact ==
  { revision("clock", "app", "v1", {"read"}, f1),
    revision("clock", "app", "v1", {"read"}, f2),
    revision("clock", "script", "v1", {"read", "write"}, f3),
    revision("clock", "script", "v2", {"read"}, f3) }

(* Nothing but their files tells the two apps apart.                       *)
FirstFiles == Permutations({f1, f2})
=============================================================================
