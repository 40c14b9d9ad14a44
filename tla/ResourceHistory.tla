---------------------------- MODULE ResourceHistory ----------------------------
(***************************************************************************)
(* What the resource store promises: the revisions of a resource form a    *)
(* history that only grows, one revision per change that was made against  *)
(* the latest one; an active revision repeats the draft before it and is   *)
(* another person's; whoever asks is told of the latest revision of some   *)
(* moment of the call, and is told of a change of theirs only when it      *)
(* stands.  An error promises nothing: the change may have landed.         *)
(***************************************************************************)
EXTENDS Naturals, Sequences

CONSTANTS
  Clients,
  Requests,  \* records with a kind: get, propose, revise or activate
  None

VARIABLES
  history,  \* the revisions
  call,     \* per client: its request, the length of the history when it began,
            \* and the revision it has made, 0 before; or None
  answer    \* per client: the revision its last call was told of, 0 for none

vars == <<history, call, answer>>

Init == history = <<>> /\ call = [c \in Clients |-> None] /\ answer = [c \in Clients |-> 0]

Begin(c, q) ==
  /\ call[c] = None
  /\ call' = [call EXCEPT ![c] = [request |-> q, since |-> Len(history), landed |-> 0]]
  /\ answer' = [answer EXCEPT ![c] = 0]
  /\ UNCHANGED history

latest == history[Len(history)]
drafted(q) == [state |-> "draft", definition |-> q.definition, actor |-> q.actor]

\* A change is made against the latest revision, and never twice.
Land(c, q) ==
  /\ call[c] # None /\ call[c].request = q /\ call[c].landed = 0
  /\ \/ q.kind = "propose" /\ history = <<>> /\ history' = <<drafted(q)>>
     \/ q.kind = "revise" /\ history # <<>> /\ q.expected = Len(history) /\ history' = Append(history, drafted(q))
     \/ /\ q.kind = "activate" /\ history # <<>> /\ q.expected = Len(history)
        /\ latest.state = "draft" /\ latest.actor # q.actor
        /\ history' = Append(history, [state |-> "active", definition |-> latest.definition, actor |-> q.actor])
  /\ call' = [call EXCEPT ![c].landed = Len(history')]
  /\ UNCHANGED answer

Tell(c, n) ==
  /\ call[c] # None
  /\ n \in 1 .. Len(history)
  /\ IF call[c].request.kind = "get" THEN n >= call[c].since ELSE n = call[c].landed
  /\ answer' = [answer EXCEPT ![c] = n] /\ call' = [call EXCEPT ![c] = None]
  /\ UNCHANGED history

Fail(c) ==
  /\ call[c] # None
  /\ call' = [call EXCEPT ![c] = None] /\ answer' = [answer EXCEPT ![c] = 0]
  /\ UNCHANGED history

Crash == call' = [c \in Clients |-> None] /\ UNCHANGED <<history, answer>>

Next ==
  \/ \E c \in Clients :
       \/ (\E q \in Requests : Begin(c, q))
       \/ Land(c, call[c].request)
       \/ \E n \in 1 .. Len(history) : Tell(c, n)
       \/ Fail(c)
  \/ Crash

Spec == Init /\ [][Next]_vars
=============================================================================
