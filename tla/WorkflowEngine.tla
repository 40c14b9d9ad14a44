---------------------------- MODULE WorkflowEngine ----------------------------
(***************************************************************************)
(* One workflow graph and its runner: packages/workflow of studio-drafts.  *)
(* A run visits the nodes in a topological order, calls the adapters of    *)
(* the nodes that reach outside, and stops at an approval gate with a      *)
(* pause.  A pause is resumed by a human whom the server's adapter         *)
(* authorizes, written out as a checkpoint, and restored from one, in this *)
(* process or in a later one.  Several resumes of a pause may be waiting   *)
(* for their authorization at once.                                        *)
(*                                                                         *)
(* A node is its place in the runner's order, so every edge leads upwards. *)
(* The process has one thread: while a run computes nothing else moves;    *)
(* it yields in an adapter, at a gate and at its end.                      *)
(***************************************************************************)
EXTENDS Naturals, Sequences, FiniteSets

CONSTANTS
  Graphs,      \* the graphs the schema lets through
  Data,        \* values: what a run is started with and what nodes return
  Runs,        \* run states
  Started,     \* those of a call of run; the others are of a restore
  Resumes,     \* calls of resume that may overlap
  People, Initiator,
  maxSteps,
  MaxRestarts, \* bound on the process deaths
  None

ASSUME WorkflowAssumption ==
  /\ Started \subseteq Runs
  /\ Initiator \in People /\ None \notin People \cup Data \cup {"completed", "paused"}
  /\ maxSteps \in Nat \ {0} /\ MaxRestarts \in Nat

Types == {"manual", "adapter", "set", "branch", "approval", "output"}
Ports == {"default", "true", "false"}

(* A graph: the type of each node (adapter stands for http, resource and   *)
(* llm), its edges, the value of a set node or a condition, where mapped   *)
(* data come from (0: the seed; n: not mapped) and the nodes whose         *)
(* configuration and adapter are complete.                                 *)
ASSUME GraphAssumption ==
  \A g \in Graphs :
    /\ g.type \in Seq(Types)
    /\ g.edges \subseteq {e \in [source : DOMAIN g.type, target : DOMAIN g.type, port : Ports] :
                            e.source < e.target}
    /\ \A e \in g.edges : (g.type[e.source] = "branch") <=> (e.port # "default")
    /\ g.value \in [DOMAIN g.type -> Data]
    /\ g.from \in [DOMAIN g.type -> 0 .. Len(g.type)]
    /\ \A n \in DOMAIN g.type : g.from[n] <= n /\ (g.type[n] \in {"manual", "approval"} => g.from[n] = n)
    /\ g.ready \subseteq DOMAIN g.type

VARIABLES
  g,        \* the runner's graph
  run,      \* per run: its State, where it stands, and the calls it made so far
  pauses,   \* the results that resume and checkpoint know: <<run, node>>
  resume,   \* per resume: the pause it is about, while it is being authorized
  stored,   \* the checkpoint on disk, or None
  granted,  \* history: <<person, gate>> the adapter has authorized
  restarts

vars == <<g, run, pauses, resume, stored, granted, restarts>>

Nodes == DOMAIN g.type
ofType(t) == {n \in Nodes : g.type[n] = t}
incoming(n) == {e \in g.edges : e.target = n}

-----------------------------------------------------------------------------
(* What a run's state, or a checkpoint, says of a node *)

\* The edges into n that carry a value: a condition feeds its chosen port only.
active(s, n) == {e \in incoming(n) : /\ s.values[e.source] # None
                                     /\ s.branches[e.source] \in {None, e.port}}
skipped(s, n) == incoming(n) # {} /\ active(s, n) = {}

\* What n works on; None when a mapped source was skipped.
dataOf(s, n) ==
  IF g.from[n] = 0 THEN s.seed
  ELSE IF g.from[n] < n THEN s.values[g.from[n]]
  ELSE IF active(s, n) = {} THEN s.seed
  ELSE s.values[(CHOOSE e \in active(s, n) : TRUE).source]

\* What the nodes that call no adapter return, and the port a condition takes.
computed(s, n) == IF g.type[n] = "set" THEN g.value[n] ELSE dataOf(s, n)
chosen(s, n) == IF g.type[n] # "branch" THEN None
                ELSE IF dataOf(s, n) = g.value[n] THEN "true" ELSE "false"

\* A node is refused: too many active inputs, no mapped source, no configuration.
visitable(s, n) == Cardinality(active(s, n)) <= 1 /\ dataOf(s, n) # None /\ n \in g.ready

-----------------------------------------------------------------------------
(* Admission *)

root == CHOOSE n \in ofType("manual") : TRUE

\* The nodes a walk from the root reaches without the gate: the least closed set.
avoids(gate, R) ==
  /\ root \in R /\ gate \notin R
  /\ \A e \in g.edges : e.source \in R /\ e.target # gate => e.target \in R

admissible ==
  /\ Cardinality(ofType("manual")) = 1
  /\ \A n \in Nodes : incoming(n) = {} <=> n = root
  /\ ofType("output") # {}
  /\ \A e \in g.edges : e.source \notin ofType("output")
  /\ \A gate \in ofType("approval") : \E R \in SUBSET Nodes : avoids(gate, R) /\ R \cap ofType("output") = {}

-----------------------------------------------------------------------------
(* State *)

At == {"new", "advance", "calling", "paused", "completed", "blocked", "lost"}

\* State, and with it a checkpoint; exact: it comes from no damaged file.
States ==
  [at : At, index : Nat, steps : Nat, seed : Data \cup {None}, output : Data \cup {None},
   values : [Nodes -> Data \cup {None}], branches : [Nodes -> {"true", "false", None}],
   trace : [Nodes -> {"completed", "skipped", "paused", None}], human : [Nodes -> People \cup {None}],
   calls : [Nodes -> Nat], pending : Data \cup {None}, exact : BOOLEAN]

Asked == [run : Runs, node : ofType("approval"), name : People \ {Initiator}, data : Data]

TypeOK ==
  /\ g \in Graphs
  /\ run \in [Runs -> States]
  /\ \A r \in Runs : run[r].at \in {"advance", "calling", "paused"} => run[r].steps <= maxSteps
  /\ pauses \subseteq {p \in Runs \X ofType("approval") : run[p[1]].at = "paused" /\ run[p[1]].index = p[2]}
  /\ resume \in [Resumes -> {None} \cup Asked]
  /\ granted \subseteq People \X Nodes
  /\ restarts \in 0 .. MaxRestarts

blank ==
  LET nowhere == [n \in Nodes |-> None]
  IN [at |-> "new", index |-> 1, steps |-> 0, seed |-> None, output |-> None, values |-> nowhere,
      branches |-> nowhere, trace |-> nowhere, human |-> nowhere, calls |-> [n \in Nodes |-> 0],
      pending |-> None, exact |-> TRUE]

Init ==
  /\ g \in Graphs
  /\ run = [r \in Runs |-> blank]
  /\ pauses = {} /\ resume = [u \in Resumes |-> None] /\ stored = None
  /\ granted = {} /\ restarts = 0

-----------------------------------------------------------------------------
(* advance: one node after the other *)

idle == \A r \in Runs : run[r].at # "advance"
elsewhere == UNCHANGED <<g, resume, stored, granted, restarts>>
here(r) == run[r].index
to(r, s) == run' = [run EXCEPT ![r] = s]

start(r) ==
  /\ idle /\ r \in Started /\ run[r].at = "new"
  /\ \E seed \in Data :
       to(r, [run[r] EXCEPT !.seed = seed, !.at = IF admissible THEN "advance" ELSE "blocked"])
  /\ UNCHANGED pauses /\ elsewhere

skip(r) ==
  /\ run[r].at = "advance" /\ here(r) \in Nodes
  /\ skipped(run[r], here(r))
  /\ to(r, [run[r] EXCEPT !.trace[here(r)] = "skipped", !.index = @ + 1])
  /\ UNCHANGED pauses /\ elsewhere

stepsLeftOfOneMore(s) == s.steps <= maxSteps
stepsLeft(s) == s.steps < maxSteps

\* The node a run has come to and may enter.
enters(r) ==
  /\ run[r].at = "advance" /\ here(r) \in Nodes
  /\ ~skipped(run[r], here(r))
  /\ stepsLeft(run[r])
  /\ visitable(run[r], here(r))

refuse(r) ==
  /\ run[r].at = "advance" /\ here(r) \in Nodes
  /\ ~skipped(run[r], here(r))
  /\ ~stepsLeft(run[r]) \/ ~visitable(run[r], here(r))
  /\ to(r, [run[r] EXCEPT !.at = "blocked", !.steps = @ + 1])
  /\ UNCHANGED pauses /\ elsewhere

\* What a node leaves in the state once it has a value.
visited(s, n, value) ==
  [s EXCEPT !.values[n] = value, !.branches[n] = chosen(s, n), !.trace[n] = "completed", !.index = n + 1,
            !.output = IF g.type[n] = "output" THEN dataOf(s, n) ELSE @, !.at = "advance"]

compute(r) ==
  /\ enters(r)
  /\ g.type[here(r)] \in {"manual", "set", "branch", "output"}
  /\ to(r, visited([run[r] EXCEPT !.steps = @ + 1], here(r), computed(run[r], here(r))))
  /\ UNCHANGED pauses /\ elsewhere

call(r) ==
  /\ enters(r)
  /\ g.type[here(r)] = "adapter"
  /\ to(r, [run[r] EXCEPT !.at = "calling", !.steps = @ + 1, !.calls[here(r)] = @ + 1])
  /\ UNCHANGED pauses /\ elsewhere

answer(r) ==
  /\ idle /\ run[r].at = "calling"
  /\ \E value \in Data : to(r, visited(run[r], here(r), value))
  /\ UNCHANGED pauses /\ elsewhere

\* The adapter throws, is out of time, or returns what cannot be kept: the run ends.
calledAgain(s) == [s EXCEPT !.at = "advance"]
failed(s) == [s EXCEPT !.at = "blocked"]
fail(r) ==
  /\ idle /\ run[r].at = "calling"
  /\ to(r, failed(run[r]))
  /\ UNCHANGED pauses /\ elsewhere

pause(r) ==
  /\ enters(r)
  /\ g.type[here(r)] = "approval"
  /\ to(r, [run[r] EXCEPT !.at = "paused", !.steps = @ + 1, !.trace[here(r)] = "paused",
                          !.pending = dataOf(run[r], here(r))])
  /\ pauses' = pauses \cup {<<r, here(r)>>}
  /\ elsewhere

complete(r) ==
  /\ run[r].at = "advance" /\ here(r) \notin Nodes
  /\ to(r, [run[r] EXCEPT !.at = "completed"])
  /\ UNCHANGED pauses /\ elsewhere

-----------------------------------------------------------------------------
(* resume: the authorization is awaited, then the pause is consumed *)

quiet == UNCHANGED <<g, restarts>>

\* A pause that is not known, or the initiator's own name, is refused at once.
ask(u) ==
  /\ idle /\ resume[u] = None
  /\ \E p \in pauses, name \in People \ {Initiator} :
       resume' = [resume EXCEPT ![u] = [run |-> p[1], node |-> p[2], name |-> name, data |-> run[p[1]].pending]]
  /\ UNCHANGED <<run, pauses, stored, granted>> /\ quiet

\* The pause of a resume is the one it read before it waited.
pauseByThen(u) == <<resume[u].run, run[resume[u].run].index>>
pauseOf(u) == <<resume[u].run, resume[u].node>>

\* What a consumed pause leaves in its run, which goes on.
approved(s, n, data, name) ==
  [s EXCEPT !.at = "advance", !.index = @ + 1, !.pending = None,
            !.values[n] = data, !.trace[n] = "completed", !.human[n] = name]

\* The pause may have been consumed while the authorization was awaited.
authorized(u) ==
  /\ idle /\ resume[u] # None
  /\ granted' = granted \cup {<<resume[u].name, resume[u].node>>}
  /\ IF pauseOf(u) \in pauses
     THEN /\ pauses' = pauses \ {pauseOf(u)}
          /\ to(resume[u].run, approved(run[resume[u].run], pauseOf(u)[2], resume[u].data, resume[u].name))
     ELSE UNCHANGED <<run, pauses>>
  /\ resume' = [resume EXCEPT ![u] = None]
  /\ UNCHANGED stored /\ quiet

\* The adapter says no, throws or is out of time: the pause stays.
notAuthorized(u) ==
  /\ idle /\ resume[u] # None
  /\ resume' = [resume EXCEPT ![u] = None]
  /\ UNCHANGED <<run, pauses, stored, granted>> /\ quiet

-----------------------------------------------------------------------------
(* Checkpoints *)

checkpoint(r) ==
  /\ idle
  /\ <<r, here(r)>> \in pauses
  /\ stored' = [run[r] EXCEPT !.at = "new"]
  /\ UNCHANGED <<run, pauses, resume, granted>> /\ quiet

\* A file that was changed behind the program's back, in one entry.
damaged(c) ==
  {[c EXCEPT !.index = n] : n \in Nodes} \cup {[c EXCEPT !.steps = n] : n \in Nodes} \cup
  {[c EXCEPT !.values[n] = d] : n \in Nodes, d \in Data \cup {None}} \cup
  {[c EXCEPT !.branches[n] = b] : n \in Nodes, b \in {"true", "false", None}} \cup
  {[c EXCEPT !.trace[n] = t] : n \in Nodes, t \in {"completed", "skipped", "paused", None}} \cup
  {[c EXCEPT !.human[n] = h] : n \in Nodes, h \in People \cup {None}} \cup
  {[c EXCEPT !.seed = d] : d \in Data} \cup {[c EXCEPT !.pending = d] : d \in Data}

\* validateCheckpointState: every node up to the gate, recomputed where that is pure.
countsEveryNode(c, n) == n <= c.index
countsAsStep(c, n) == n <= c.index /\ ~skipped(c, n)

untouched(c, n) == c.values[n] = None /\ c.branches[n] = None /\ c.human[n] = None

approvedByOther(c, n) == IF g.type[n] = "approval" THEN c.human[n] \notin {None, Initiator} ELSE c.human[n] = None

validNode(c, n) ==
  IF n > c.index THEN untouched(c, n) /\ c.trace[n] = None
  ELSE IF skipped(c, n) THEN n # c.index /\ c.trace[n] = "skipped" /\ untouched(c, n)
  ELSE /\ visitable(c, n)
       /\ IF n = c.index
          THEN /\ g.type[n] = "approval" /\ c.trace[n] = "paused" /\ untouched(c, n)
               /\ c.pending = dataOf(c, n)
          ELSE /\ c.trace[n] = "completed" /\ c.values[n] # None
               /\ c.branches[n] = chosen(c, n)
               /\ g.type[n] # "adapter" => c.values[n] = computed(c, n)
               /\ approvedByOther(c, n)

accepted(c) ==
  /\ c.index \in Nodes
  /\ \A n \in Nodes : validNode(c, n)
  /\ c.steps = Cardinality({n \in Nodes : countsAsStep(c, n)}) /\ c.steps <= maxSteps
  /\ c.output = None
  /\ admissible

\* restore: a pause of its own, in this process or in the next one.
restore(r) ==
  /\ idle /\ r \notin Started /\ run[r].at = "new"
  /\ stored # None
  /\ \E c \in {stored} \cup damaged(stored) :
       /\ accepted(c)
       /\ to(r, [c EXCEPT !.at = "paused", !.exact = @ /\ c = stored])
       /\ pauses' = pauses \cup {<<r, c.index>>}
  /\ UNCHANGED <<resume, stored, granted>> /\ quiet

\* The process dies at an await: its runs and their pauses are gone.
restart ==
  /\ idle /\ restarts < MaxRestarts
  /\ restarts' = restarts + 1
  /\ run' = [r \in Runs |-> IF run[r].at \in {"calling", "paused"} THEN [run[r] EXCEPT !.at = "lost"] ELSE run[r]]
  /\ pauses' = {} /\ resume' = [u \in Resumes |-> None]
  /\ UNCHANGED <<g, stored, granted>>

Next ==
  \/ \E r \in Runs : \/ start(r) \/ skip(r) \/ refuse(r) \/ compute(r) \/ call(r) \/ answer(r) \/ fail(r)
                     \/ pause(r) \/ complete(r) \/ checkpoint(r) \/ restore(r)
  \/ \E u \in Resumes : ask(u) \/ authorized(u) \/ notAuthorized(u)
  \/ restart

Spec == Init /\ [][Next]_vars

-----------------------------------------------------------------------------
(* Properties *)

\* What a workflow returns has passed every approval gate of its graph, each
\* approved by someone other than the initiator whom the server authorized for
\* that gate: whichever branches were taken, however many resumes overlapped,
\* and through any restore.  A checkpoint changed from outside is no evidence of
\* who approved (checkpoint.ts says so), but cannot drop a gate.
OutputIsApproved ==
  \A r \in Runs, out \in Nodes :
    g.type[out] = "output" /\ run[r].trace[out] = "completed" =>
      \A gate \in ofType("approval") :
        /\ run[r].trace[gate] = "completed"
        /\ run[r].human[gate] \notin {None, Initiator}
        /\ run[r].exact => <<run[r].human[gate], gate>> \in granted

\* Along a run and the restores of its checkpoints no adapter is called twice:
\* not when it was out of time (its effect may have happened all the same), not
\* by resumes that wait for their authorizations at once, not by a restore.  This
\* counts along one lineage: that a run and a restored copy of it do not both go
\* on, each with a call of its own, is not the engine's doing but that of the
\* claim which the approval journal takes before a restore (WorkflowApproval).
EffectsOnce == \A r \in Runs, n \in Nodes : run[r].calls[n] <= 1

\* A pause that was written out can be taken up again: the validator accepts
\* whatever the engine has produced, with its skipped nodes, its conditions and
\* the answers of its adapters.
PausesRestore == stored # None => accepted(stored)
=============================================================================
