------------------------- MODULE WorkflowEngineProofs -------------------------
(***************************************************************************)
(* For every graph that the schema lets through, any number of runs,       *)
(* overlapping resumes, people and restarts: the state keeps its shape,    *)
(* what a workflow returns has passed every gate, no adapter is called     *)
(* twice along a run and the restores of its checkpoints, and every        *)
(* checkpoint is accepted again.                                           *)
(*                                                                         *)
(* The argument for the gates: a completed node is the root or has a       *)
(* completed source (Behind).  Were an output completed and a gate not,    *)
(* the completed nodes would lie in the set that the walk from the root    *)
(* reaches without the gate (CompletedAvoid, by the least node outside     *)
(* it), and admission found no output there.  For a run that was restored, *)
(* the validator's recomputation establishes the same (AcceptedBehind),    *)
(* whatever was done to the file.                                          *)
(*                                                                         *)
(* The argument for the checkpoints: what the validator recomputes of a    *)
(* node depends on the nodes before it only (BeforeDecides), so a node     *)
(* that was passed stays valid (Passed), and the steps are the nodes that  *)
(* were entered (TakenCounted).                                            *)
(***************************************************************************)
EXTENDS WorkflowEngine, WellFoundedInduction, FiniteSetTheorems, TLAPS

(* Every set of naturals that is not empty has a least element.            *)
LEMMA LeastNatural ==
  ASSUME NEW T \in SUBSET Nat, T # {}
  PROVE  \E x \in T : \A y \in T : ~(y < x)
<1>1. \E x \in T : \A y \in T : <<y, x>> \notin OpToRel(<, Nat)
  BY NatLessThanWellFounded, WFMin
<1>2. PICK x \in T : \A y \in T : <<y, x>> \notin OpToRel(<, Nat)
  BY <1>1
<1>3. ASSUME NEW y \in T, y < x
      PROVE  <<y, x>> \in OpToRel(<, Nat)
  BY <1>3 DEF OpToRel
<1> QED
  BY <1>2, <1>3

-----------------------------------------------------------------------------
(* Shapes *)

Ports3 == {"true", "false", None}
Marks == {"completed", "skipped", "paused", None}
Values == Data \cup {None}

\* The graph that is run is a graph: its nodes are in the runner's order.
LEMMA GraphFacts ==
  ASSUME g \in Graphs
  PROVE  /\ Nodes = 1 .. Len(g.type) /\ Len(g.type) \in Nat /\ Nodes \subseteq Nat
         /\ \A n \in Nodes : g.type[n] \in Types /\ g.value[n] \in Data /\ g.from[n] \in 0 .. n
         /\ \A e \in g.edges : e.source \in Nodes /\ e.target \in Nodes /\ e.source < e.target
         /\ \A n \in Nodes : g.type[n] \in {"manual", "approval"} => g.from[n] = n
<1>1. /\ g.type \in Seq(Types)
      /\ g.edges \subseteq {e \in [source : Nodes, target : Nodes, port : Ports] : e.source < e.target}
      /\ g.value \in [Nodes -> Data]
      /\ g.from \in [Nodes -> 0 .. Len(g.type)]
      /\ \A n \in Nodes : g.from[n] <= n /\ (g.type[n] \in {"manual", "approval"} => g.from[n] = n)
  BY GraphAssumption DEF Nodes
<1>2. Nodes = 1 .. Len(g.type) /\ Len(g.type) \in Nat
  BY <1>1 DEF Nodes
<1>3. ASSUME NEW n \in Nodes
      PROVE  g.type[n] \in Types /\ g.value[n] \in Data /\ g.from[n] \in 0 .. n
  BY <1>1, <1>2
<1>4. \A e \in g.edges : e.source \in Nodes /\ e.target \in Nodes /\ e.source < e.target
  BY <1>1
<1> QED
  BY <1>1, <1>2, <1>3, <1>4

(* What a node works on, returns and chooses is of the right kind.         *)
LEMMA DataTyped ==
  ASSUME g \in Graphs, NEW s \in States, NEW n \in Nodes
  PROVE  /\ dataOf(s, n) \in Values /\ computed(s, n) \in Values /\ chosen(s, n) \in Ports3
         /\ dataOf(s, n) # None => computed(s, n) # None
<1>1. /\ s.seed \in Values
      /\ \A m \in Nodes : s.values[m] \in Values
  BY DEF States, Values
<1>2. ASSUME active(s, n) # {}
      PROVE  s.values[(CHOOSE e \in active(s, n) : TRUE).source] \in Values
  <2>1. (CHOOSE e \in active(s, n) : TRUE) \in active(s, n)
    BY <1>2
  <2>2. (CHOOSE e \in active(s, n) : TRUE) \in g.edges
    BY <2>1 DEF active, incoming
  <2> QED
    BY <1>1, <2>2, GraphFacts
<1>3. g.from[n] \in 0 .. n /\ Nodes = 1 .. Len(g.type) /\ Len(g.type) \in Nat
  BY GraphFacts
<1>4. g.from[n] # 0 /\ g.from[n] < n => g.from[n] \in Nodes
  BY <1>3
<1>5. dataOf(s, n) \in Values
  BY <1>1, <1>2, <1>4 DEF dataOf
<1>6. g.value[n] \in Data /\ None \notin Data
  BY GraphFacts, WorkflowAssumption
<1>7. computed(s, n) \in Values /\ (dataOf(s, n) # None => computed(s, n) # None)
  BY <1>5, <1>6 DEF computed, Values
<1> QED
  BY <1>5, <1>7 DEF chosen, Ports3

\* Every change a step makes to a run leaves it a run.
LEMMA StatesClosed ==
  ASSUME NEW s \in States, NEW a \in At
  PROVE  /\ [s EXCEPT !.at = a] \in States
         /\ \A d \in Values : [s EXCEPT !.seed = d, !.at = a] \in States
         /\ \A ts \in [Nodes -> Marks], i \in Nat : [s EXCEPT !.trace = ts, !.index = i] \in States
         /\ \A k \in Nat : [s EXCEPT !.steps = k] \in States /\ [s EXCEPT !.at = a, !.steps = k] \in States
         /\ \A k \in Nat, cs \in [Nodes -> Nat] : [s EXCEPT !.at = a, !.steps = k, !.calls = cs] \in States
         /\ \A k \in Nat, ts \in [Nodes -> Marks], d \in Values :
              [s EXCEPT !.at = a, !.steps = k, !.trace = ts, !.pending = d] \in States
         /\ \A x \in BOOLEAN : [s EXCEPT !.at = a, !.exact = x] \in States
<1>1. [s EXCEPT !.at = a] \in States
  BY Zenon DEF States
<1>2. \A d \in Values : [s EXCEPT !.seed = d, !.at = a] \in States
  BY Zenon DEF States, Values
<1>3. \A ts \in [Nodes -> Marks], i \in Nat : [s EXCEPT !.trace = ts, !.index = i] \in States
  BY Zenon DEF States, Marks
<1>4. \A k \in Nat : [s EXCEPT !.steps = k] \in States /\ [s EXCEPT !.at = a, !.steps = k] \in States
  BY Zenon DEF States
<1>5. \A k \in Nat, cs \in [Nodes -> Nat] : [s EXCEPT !.at = a, !.steps = k, !.calls = cs] \in States
  BY Zenon DEF States
<1>6. \A k \in Nat, ts \in [Nodes -> Marks], d \in Values :
        [s EXCEPT !.at = a, !.steps = k, !.trace = ts, !.pending = d] \in States
  BY Zenon DEF States, Values, Marks
<1>7. \A x \in BOOLEAN : [s EXCEPT !.at = a, !.exact = x] \in States
  BY Zenon DEF States
<1> QED
  BY <1>1, <1>2, <1>3, <1>4, <1>5, <1>6, <1>7

\* A run that consumed a value or a decision is a run.
LEMMA ConsumedClosed ==
  ASSUME NEW s \in States, NEW i \in Nat, NEW d \in Values,
         NEW vs \in [Nodes -> Values], NEW ts \in [Nodes -> Marks]
  PROVE  /\ \A bs \in [Nodes -> Ports3] :
              [s EXCEPT !.values = vs, !.branches = bs, !.trace = ts, !.index = i, !.output = d, !.at = "advance"]
                \in States
         /\ \A hs \in [Nodes -> People \cup {None}] :
              [s EXCEPT !.at = "advance", !.index = i, !.pending = d, !.values = vs, !.trace = ts, !.human = hs]
                \in States
<1>1. "advance" \in At
  BY DEF At
<1>2. \A bs \in [Nodes -> Ports3] :
        [s EXCEPT !.values = vs, !.branches = bs, !.trace = ts, !.index = i, !.output = d, !.at = "advance"] \in States
  BY Zenon, <1>1 DEF States, Values, Marks, Ports3
<1>3. \A hs \in [Nodes -> People \cup {None}] :
        [s EXCEPT !.at = "advance", !.index = i, !.pending = d, !.values = vs, !.trace = ts, !.human = hs] \in States
  BY Zenon, <1>1 DEF States, Values, Marks
<1> QED
  BY <1>2, <1>3

-----------------------------------------------------------------------------
(* What is true of a run's state, and of a checkpoint, when the            *)
(* authorizations G have been given                                        *)

Live == {"advance", "calling", "paused"}

Reached(s, n) == n # root => \E e \in incoming(n) : s.trace[e.source] = "completed"

ApprovedBy(s, n, G) ==
  /\ s.human[n] \notin {None, Initiator}
  /\ s.exact => <<s.human[n], n>> \in G

(* Completed nodes lie behind the run, have a completed source, and were   *)
(* approved where they are gates.                                          *)
Behind(s, G) ==
  /\ \A n \in Nodes : s.trace[n] = "completed" =>
       /\ n < s.index /\ admissible /\ Reached(s, n)
       /\ g.type[n] = "approval" => ApprovedBy(s, n, G)
  /\ \A n \in Nodes : s.values[n] # None => s.trace[n] = "completed"

CallsOnce(s) ==
  \A n \in Nodes :
    /\ s.calls[n] \in {0, 1}
    /\ s.calls[n] = 1 => n < s.index \/ (n = s.index /\ s.at \in {"calling", "blocked", "lost"})

(* Where a run waits, it has come to along completed nodes.                *)
AtGate(s) ==
  /\ s.index \in Nodes /\ g.type[s.index] = "approval"
  /\ s.trace[s.index] = "paused" /\ s.pending # None /\ Reached(s, s.index)

AtCall(s) == s.index \in Nodes /\ g.type[s.index] = "adapter" /\ Reached(s, s.index)

Good(s, G) ==
  /\ Behind(s, G) /\ CallsOnce(s)
  /\ s.at \in Live => admissible
  /\ s.at \in Live \cup {"new"} => s.steps <= maxSteps
  /\ s.at = "paused" => AtGate(s)
  /\ s.at = "calling" => AtCall(s)

Kept(s, G) == s \in States /\ s.at = "new" /\ AtGate(s) /\ Good(s, G)

EngineInv ==
  /\ TypeOK
  /\ \A r \in Runs : Good(run[r], granted)
  /\ stored # None => Kept(stored, granted)

(* A run that enters a node has come to it along completed nodes.          *)
LEMMA EnterReached ==
  ASSUME g \in Graphs, admissible, NEW s \in States, NEW G, Behind(s, G),
         NEW n \in Nodes, ~skipped(s, n)
  PROVE  Reached(s, n)
<1>1. SUFFICES ASSUME n # root
               PROVE  \E e \in incoming(n) : s.trace[e.source] = "completed"
  BY DEF Reached
<1>2. incoming(n) # {}
  BY <1>1 DEF admissible
<1>3. PICK e \in active(s, n) : TRUE
  BY <1>2 DEF skipped
<1>4. e \in incoming(n) /\ s.values[e.source] # None /\ e.source \in Nodes
  BY <1>3, GraphFacts DEF active, incoming
<1> QED
  BY <1>4 DEF Behind

\* What is good with some decisions is good with more.
LEMMA GoodGrows ==
  ASSUME NEW s, NEW G, NEW H, G \subseteq H, Good(s, G)
  PROVE  Good(s, H)
BY DEF Good, Behind, ApprovedBy

(* A node gets its value: it is completed, and the run goes on.            *)
LEMMA VisitedGood ==
  ASSUME g \in Graphs, NEW s \in States, NEW G, Behind(s, G), CallsOnce(s), admissible, s.steps <= maxSteps,
         s.index \in Nodes, g.type[s.index] # "approval", Reached(s, s.index), NEW value \in Data
  PROVE  visited(s, s.index, value) \in States /\ Good(visited(s, s.index, value), G)
<1>. DEFINE n == s.index
            t == visited(s, n, value)
<1>. DEFINE vs == [s.values EXCEPT ![n] = value]
            bs == [s.branches EXCEPT ![n] = chosen(s, n)]
            ts == [s.trace EXCEPT ![n] = "completed"]
            o == IF g.type[n] = "output" THEN dataOf(s, n) ELSE s.output
<1>1. /\ vs \in [Nodes -> Values] /\ bs \in [Nodes -> Ports3] /\ ts \in [Nodes -> Marks]
      /\ n + 1 \in Nat /\ o \in Values
  <2>1. o = dataOf(s, n) \/ o = s.output
    OBVIOUS
  <2>2. dataOf(s, n) \in Values /\ s.output \in Values /\ chosen(s, n) \in Ports3
    BY DataTyped DEF States, Values
  <2>3. o \in Values
    BY <2>1, <2>2
  <2>4. vs \in [Nodes -> Values] /\ bs \in [Nodes -> Ports3] /\ ts \in [Nodes -> Marks]
    BY <2>2 DEF States, Values, Marks, Ports3
  <2> QED
    BY <2>3, <2>4 DEF States
<1>2. t \in States
  <2>1. t = [s EXCEPT !.values = vs, !.branches = bs, !.trace = ts, !.index = n + 1, !.output = o, !.at = "advance"]
    BY DEF visited, States
  <2>. HIDE DEF vs, bs, ts, o, t, n
  <2> QED
    BY <1>1, <2>1, ConsumedClosed
<1>3. /\ t.values = [s.values EXCEPT ![n] = value] /\ t.trace = [s.trace EXCEPT ![n] = "completed"]
      /\ t.index = n + 1 /\ t.at = "advance" /\ t.human = s.human /\ t.calls = s.calls
      /\ t.steps = s.steps /\ t.exact = s.exact
  BY DEF visited, States
<1>4. \A m \in Nodes : s.trace[m] = "completed" => t.trace[m] = "completed"
  BY <1>3 DEF States
<1>5. \A m \in Nodes : Reached(s, m) => Reached(t, m)
  BY <1>4, GraphFacts DEF Reached, incoming
<1>6. Behind(t, G)
  <2>1. ASSUME NEW m \in Nodes, t.trace[m] = "completed"
        PROVE  /\ m < t.index /\ admissible /\ Reached(t, m)
               /\ g.type[m] = "approval" => ApprovedBy(t, m, G)
    <3>1. CASE m = n
      BY <1>3, <1>5, <3>1 DEF States
    <3>2. CASE m # n
      <4>1. s.trace[m] = "completed"
        BY <1>3, <2>1, <3>2 DEF States
      <4> QED
        BY <1>3, <1>5, <4>1, GraphFacts DEF Behind, ApprovedBy, States
    <3> QED
      BY <3>1, <3>2
  <2>2. \A m \in Nodes : t.values[m] # None => t.trace[m] = "completed"
    BY <1>3 DEF Behind, States
  <2> QED
    BY <2>1, <2>2 DEF Behind
<1>7. CallsOnce(t)
  <2>1. n \in Nat /\ Nodes \subseteq Nat
    BY GraphFacts
  <2> QED
    BY <1>3, <2>1 DEF CallsOnce
<1> QED
  BY <1>2, <1>3, <1>6, <1>7 DEF Good

(* A run changes where it is and no more.                                  *)
LEMMA StandingKeeps ==
  ASSUME g \in Graphs, NEW s \in States, NEW t \in States, NEW G, Behind(s, G), CallsOnce(s),
         t.values = s.values, t.trace = s.trace, t.human = s.human, t.index = s.index, t.exact = s.exact,
         t.calls = s.calls,
         s.at \in {"calling", "blocked", "lost"} => t.at \in {"calling", "blocked", "lost"}
  PROVE  Behind(t, G) /\ CallsOnce(t) /\ \A n \in Nodes : Reached(s, n) => Reached(t, n)
BY DEF Behind, CallsOnce, Reached, ApprovedBy

\* A run that is blocked or lost is good.
LEMMA EndedGood ==
  ASSUME g \in Graphs, NEW s \in States, NEW G, Good(s, G), NEW k \in Nat,
         NEW a \in {"blocked", "lost"}
  PROVE  /\ [s EXCEPT !.at = a] \in States /\ Good([s EXCEPT !.at = a], G)
         /\ [s EXCEPT !.at = a, !.steps = k] \in States /\ Good([s EXCEPT !.at = a, !.steps = k], G)
<1>1. a \in At
  BY DEF At
<1>2. [s EXCEPT !.at = a] \in States /\ [s EXCEPT !.at = a, !.steps = k] \in States
  BY <1>1, StatesClosed
<1>3. ASSUME NEW t \in States, t = [s EXCEPT !.at = a] \/ t = [s EXCEPT !.at = a, !.steps = k]
      PROVE  Good(t, G)
  <2>1. /\ t.values = s.values /\ t.trace = s.trace /\ t.human = s.human /\ t.index = s.index
        /\ t.exact = s.exact /\ t.calls = s.calls /\ t.at = a
    BY <1>3 DEF States
  <2>2. Behind(t, G) /\ CallsOnce(t)
    BY <2>1, StandingKeeps DEF Good
  <2> QED
    BY <2>1, <2>2 DEF Good, Live
<1> QED
  BY <1>2, <1>3

\* A run that completes is good.
LEMMA CompletedGood ==
  ASSUME g \in Graphs, NEW s \in States, NEW G, Good(s, G), s.at = "advance"
  PROVE  [s EXCEPT !.at = "completed"] \in States /\ Good([s EXCEPT !.at = "completed"], G)
<1>. DEFINE t == [s EXCEPT !.at = "completed"]
<1>1. t \in States
  BY StatesClosed DEF At
<1>2. /\ t.values = s.values /\ t.trace = s.trace /\ t.human = s.human /\ t.index = s.index
      /\ t.exact = s.exact /\ t.calls = s.calls /\ t.at = "completed"
  BY DEF States
<1>3. Behind(t, G) /\ CallsOnce(t)
  BY <1>1, <1>2, StandingKeeps DEF Good
<1> QED
  BY <1>1, <1>2, <1>3 DEF Good, Live

\* A run that starts is good.
LEMMA StartedGood ==
  ASSUME g \in Graphs, NEW s \in States, NEW G, Good(s, G), s.at = "new", s.steps <= maxSteps,
         NEW d \in Data, NEW a \in {"advance", "blocked"}, a = "advance" => admissible
  PROVE  [s EXCEPT !.seed = d, !.at = a] \in States /\ Good([s EXCEPT !.seed = d, !.at = a], G)
<1>. DEFINE t == [s EXCEPT !.seed = d, !.at = a]
<1>1. t \in States
  <2>1. a \in At /\ d \in Values
    BY DEF At, Values
  <2> QED
    BY <2>1, StatesClosed
<1>2. /\ t.values = s.values /\ t.trace = s.trace /\ t.human = s.human /\ t.index = s.index
      /\ t.exact = s.exact /\ t.calls = s.calls /\ t.at = a /\ t.steps = s.steps
  BY DEF States
<1>3. Behind(t, G) /\ CallsOnce(t)
  BY <1>1, <1>2, StandingKeeps DEF Good
<1> QED
  BY <1>1, <1>2, <1>3 DEF Good, Live

\* A run that skips a node it does not reach is good.
LEMMA SkipGood ==
  ASSUME g \in Graphs, NEW s \in States, NEW G, Good(s, G), s.at = "advance", s.index \in Nodes
  PROVE  LET t == [s EXCEPT !.trace[s.index] = "skipped", !.index = s.index + 1]
         IN t \in States /\ Good(t, G)
<1>. DEFINE t == [s EXCEPT !.trace[s.index] = "skipped", !.index = s.index + 1]
            ts == [s.trace EXCEPT ![s.index] = "skipped"]
<1>1. ts \in [Nodes -> Marks] /\ s.index + 1 \in Nat /\ s.at \in At
  BY DEF States, Marks
<1>2. t = [s EXCEPT !.trace = ts, !.index = s.index + 1]
  OBVIOUS
<1>3. t \in States
  <2>. HIDE DEF t, ts
  <2> QED
    BY <1>1, <1>2, StatesClosed
<1>4. /\ t.trace = ts /\ t.values = s.values /\ t.human = s.human /\ t.exact = s.exact
      /\ t.calls = s.calls /\ t.at = s.at /\ t.index = s.index + 1 /\ t.steps = s.steps
  BY DEF States
<1>5. \A m \in Nodes : t.trace[m] = "completed" <=> s.trace[m] = "completed"
  BY <1>4, GraphFacts DEF States, Good, Behind
<1>6. \A m \in Nodes : Reached(s, m) => Reached(t, m)
  BY <1>5, GraphFacts DEF Reached, incoming
<1>7. Behind(t, G)
  <2>1. s.index \in Nat /\ Nodes \subseteq Nat
    BY GraphFacts
  <2>. HIDE DEF t
  <2> QED
    BY <1>4, <1>5, <1>6, <2>1 DEF Good, Behind, ApprovedBy
<1>8. CallsOnce(t)
  <2>1. s.index \in Nat /\ Nodes \subseteq Nat
    BY GraphFacts
  <2> QED
    BY <1>4, <2>1 DEF Good, CallsOnce
<1> QED
  BY <1>3, <1>4, <1>7, <1>8 DEF Good, Live

\* A run that calls an adapter is good.
LEMMA CallGood ==
  ASSUME g \in Graphs, NEW s \in States, NEW G, Good(s, G), s.at = "advance", s.index \in Nodes,
         s.steps < maxSteps, g.type[s.index] = "adapter", Reached(s, s.index)
  PROVE  LET t == [s EXCEPT !.at = "calling", !.steps = @ + 1, !.calls[s.index] = @ + 1]
         IN t \in States /\ Good(t, G)
<1>. DEFINE t == [s EXCEPT !.at = "calling", !.steps = @ + 1, !.calls[s.index] = @ + 1]
            cs == [s.calls EXCEPT ![s.index] = @ + 1]
<1>1. cs \in [Nodes -> Nat] /\ s.steps + 1 \in Nat /\ "calling" \in At
  BY DEF States, At
<1>2. t = [s EXCEPT !.at = "calling", !.steps = s.steps + 1, !.calls = cs]
  BY DEF States
<1>3. t \in States
  <2>. HIDE DEF t, cs
  <2> QED
    BY <1>1, <1>2, StatesClosed
<1>4. /\ t.trace = s.trace /\ t.values = s.values /\ t.human = s.human /\ t.exact = s.exact
      /\ t.calls = cs /\ t.at = "calling" /\ t.index = s.index /\ t.steps = s.steps + 1
  BY DEF States
<1>5. Behind(t, G) /\ Reached(t, t.index)
  BY <1>4 DEF Good, Behind, Reached, ApprovedBy
<1>6. CallsOnce(t)
  <2>1. s.index \in Nat /\ Nodes \subseteq Nat
    BY GraphFacts
  <2>2. s.calls[s.index] = 0
    BY <2>1 DEF Good, CallsOnce
  <2>3. \A m \in Nodes : cs[m] = IF m = s.index THEN 1 ELSE s.calls[m]
    BY <2>2 DEF States
  <2>. HIDE DEF cs, t
  <2> QED
    BY <1>4, <2>1, <2>3 DEF Good, CallsOnce
<1>7. t.steps <= maxSteps
  BY <1>4, WorkflowAssumption DEF States
<1>. HIDE DEF t
<1>8. Good(t, G)
  BY <1>4, <1>5, <1>6, <1>7 DEF Good, Live, AtCall
<1> QED
  BY <1>3, <1>8 DEF t

\* A run that pauses at an approval node is good.
LEMMA PauseGood ==
  ASSUME g \in Graphs, NEW s \in States, NEW G, Good(s, G), s.at = "advance", s.index \in Nodes,
         s.steps < maxSteps, g.type[s.index] = "approval", Reached(s, s.index), dataOf(s, s.index) # None
  PROVE  LET t == [s EXCEPT !.at = "paused", !.steps = @ + 1, !.trace[s.index] = "paused",
                            !.pending = dataOf(s, s.index)]
         IN t \in States /\ Good(t, G) /\ t.at = "paused" /\ t.index = s.index
<1>. DEFINE t == [s EXCEPT !.at = "paused", !.steps = @ + 1, !.trace[s.index] = "paused",
                           !.pending = dataOf(s, s.index)]
            ts == [s.trace EXCEPT ![s.index] = "paused"]
            d == dataOf(s, s.index)
<1>1. ts \in [Nodes -> Marks] /\ s.steps + 1 \in Nat /\ "paused" \in At /\ d \in Values
  BY DataTyped DEF States, At, Marks
<1>2. t = [s EXCEPT !.at = "paused", !.steps = s.steps + 1, !.trace = ts, !.pending = d]
  BY DEF States
<1>3. t \in States
  <2>. HIDE DEF t, ts, d
  <2> QED
    BY <1>1, <1>2, StatesClosed
<1>4. /\ t.trace = ts /\ t.values = s.values /\ t.human = s.human /\ t.exact = s.exact /\ t.pending = d
      /\ t.calls = s.calls /\ t.at = "paused" /\ t.index = s.index /\ t.steps = s.steps + 1
  BY DEF States
<1>5. \A m \in Nodes : t.trace[m] = "completed" <=> s.trace[m] = "completed"
  BY <1>4, GraphFacts DEF States, Good, Behind
<1>6. \A m \in Nodes : Reached(s, m) => Reached(t, m)
  BY <1>5, GraphFacts DEF Reached, incoming
<1>7. t.trace[s.index] = "paused" /\ t.steps <= maxSteps
  BY <1>4, WorkflowAssumption DEF States
<1>. HIDE DEF t
<1>8. Behind(t, G)
  BY <1>4, <1>5, <1>6 DEF Good, Behind, ApprovedBy
<1>9. CallsOnce(t)
  BY <1>4 DEF Good, CallsOnce
<1>10. Good(t, G)
  BY <1>4, <1>6, <1>7, <1>8, <1>9 DEF Good, Live, AtGate
<1> QED
  BY <1>3, <1>4, <1>10 DEF t

\* A run that goes on after an approval is good.
LEMMA ApprovedGood ==
  ASSUME g \in Graphs, NEW s \in States, NEW G, NEW H, Good(s, G), G \subseteq H, s.at = "paused",
         NEW d \in Data, NEW name \in People \ {Initiator}, <<name, s.index>> \in H
  PROVE  approved(s, s.index, d, name) \in States /\ Good(approved(s, s.index, d, name), H)
<1>. DEFINE n == s.index
            t == approved(s, n, d, name)
            vs == [s.values EXCEPT ![n] = d]
            ts == [s.trace EXCEPT ![n] = "completed"]
            hs == [s.human EXCEPT ![n] = name]
<1>0. AtGate(s) /\ admissible /\ s.steps <= maxSteps /\ n \in Nodes /\ n \in Nat /\ Nodes \subseteq Nat
      /\ name # None /\ d # None
  BY GraphFacts, WorkflowAssumption DEF Good, Live, AtGate
<1>1. /\ vs \in [Nodes -> Values] /\ ts \in [Nodes -> Marks] /\ hs \in [Nodes -> People \cup {None}]
      /\ n + 1 \in Nat /\ None \in Values
  BY <1>0 DEF States, Values, Marks
<1>2. t = [s EXCEPT !.at = "advance", !.index = n + 1, !.pending = None, !.values = vs, !.trace = ts, !.human = hs]
  BY DEF approved, States
<1>3. t \in States
  <2>. HIDE DEF t, vs, ts, hs, n
  <2> QED
    BY <1>1, <1>2, ConsumedClosed
<1>4. /\ t.trace = ts /\ t.values = vs /\ t.human = hs /\ t.exact = s.exact
      /\ t.calls = s.calls /\ t.at = "advance" /\ t.index = n + 1 /\ t.steps = s.steps
  BY DEF approved, States
<1>5. \A m \in Nodes : /\ m = n => t.trace[m] = "completed" /\ t.values[m] = d /\ t.human[m] = name
                       /\ m # n => t.trace[m] = s.trace[m] /\ t.values[m] = s.values[m] /\ t.human[m] = s.human[m]
  BY <1>0, <1>4 DEF States
<1>. HIDE DEF t
<1>6. \A m \in Nodes : Reached(s, m) => Reached(t, m)
  BY <1>5, GraphFacts DEF Reached, incoming
<1>7. Behind(t, H)
  <2>1. ASSUME NEW m \in Nodes, t.trace[m] = "completed"
        PROVE  /\ m < t.index /\ admissible /\ Reached(t, m)
               /\ g.type[m] = "approval" => ApprovedBy(t, m, H)
    <3>1. CASE m = n
      BY <1>0, <1>4, <1>5, <1>6, <3>1 DEF AtGate, ApprovedBy
    <3>2. CASE m # n
      <4>1. s.trace[m] = "completed"
        BY <1>5, <2>1, <3>2
      <4> QED
        BY <1>0, <1>4, <1>5, <1>6, <3>2, <4>1 DEF Good, Behind, ApprovedBy
    <3> QED
      BY <3>1, <3>2
  <2>2. \A m \in Nodes : t.values[m] # None => t.trace[m] = "completed"
    BY <1>5 DEF Good, Behind
  <2> QED
    BY <2>1, <2>2 DEF Behind
<1>8. CallsOnce(t)
  BY <1>0, <1>4 DEF Good, CallsOnce
<1>9. Good(t, H)
  BY <1>0, <1>4, <1>7, <1>8 DEF Good, Live
<1> QED
  BY <1>3, <1>9 DEF t

-----------------------------------------------------------------------------
(* Checkpoints: what the validator lets through *)

(* One entry of the file differs, and what the adapters were called is not *)
(* in the file.                                                            *)
LEMMA DamagedTyped ==
  ASSUME g \in Graphs, NEW s \in States, NEW c \in damaged(s)
  PROVE  /\ c \in States /\ c.calls = s.calls /\ c.exact = s.exact
         /\ c.index = s.index \/ c.trace = s.trace
<1>1. ASSUME NEW n \in Nodes
      PROVE  /\ [s EXCEPT !.index = n] \in States /\ [s EXCEPT !.steps = n] \in States
             /\ \A d \in Values : [s EXCEPT !.values[n] = d] \in States
             /\ \A b \in {"true", "false", None} : [s EXCEPT !.branches[n] = b] \in States
             /\ \A t \in {"completed", "skipped", "paused", None} : [s EXCEPT !.trace[n] = t] \in States
             /\ \A h \in People \cup {None} : [s EXCEPT !.human[n] = h] \in States
  <2>1. n \in Nat
    BY GraphFacts
  <2>2. [s EXCEPT !.index = n] \in States /\ [s EXCEPT !.steps = n] \in States
    BY Zenon, <2>1 DEF States
  <2>3. ASSUME NEW d \in Values
        PROVE  [s EXCEPT !.values[n] = d] \in States
    <3>1. [s.values EXCEPT ![n] = d] \in [Nodes -> Data \cup {None}]
      BY DEF States, Values
    <3> QED
      BY Zenon, <3>1 DEF States
  <2>4. ASSUME NEW b \in {"true", "false", None}
        PROVE  [s EXCEPT !.branches[n] = b] \in States
    <3>1. [s.branches EXCEPT ![n] = b] \in [Nodes -> {"true", "false", None}]
      BY DEF States
    <3> QED
      BY Zenon, <3>1 DEF States
  <2>5. ASSUME NEW t \in {"completed", "skipped", "paused", None}
        PROVE  [s EXCEPT !.trace[n] = t] \in States
    <3>1. [s.trace EXCEPT ![n] = t] \in [Nodes -> {"completed", "skipped", "paused", None}]
      BY DEF States
    <3> QED
      BY Zenon, <3>1 DEF States
  <2>6. ASSUME NEW h \in People \cup {None}
        PROVE  [s EXCEPT !.human[n] = h] \in States
    <3>1. [s.human EXCEPT ![n] = h] \in [Nodes -> People \cup {None}]
      BY DEF States
    <3> QED
      BY Zenon, <3>1 DEF States
  <2> QED
    BY <2>2, <2>3, <2>4, <2>5, <2>6
<1>2. ASSUME NEW d \in Data
      PROVE  [s EXCEPT !.seed = d] \in States /\ [s EXCEPT !.pending = d] \in States
  BY Zenon DEF States
<1>3. c \in States
  <2>1. \/ \E n \in Nodes : c = [s EXCEPT !.index = n]
        \/ \E n \in Nodes : c = [s EXCEPT !.steps = n]
        \/ \E n \in Nodes : \E d \in Values : c = [s EXCEPT !.values[n] = d]
        \/ \E n \in Nodes : \E b \in {"true", "false", None} : c = [s EXCEPT !.branches[n] = b]
        \/ \E n \in Nodes : \E t \in {"completed", "skipped", "paused", None} : c = [s EXCEPT !.trace[n] = t]
        \/ \E n \in Nodes : \E h \in People \cup {None} : c = [s EXCEPT !.human[n] = h]
        \/ \E d \in Data : c = [s EXCEPT !.seed = d] \/ c = [s EXCEPT !.pending = d]
    BY SMT DEF damaged, Values
  <2> QED
    BY Zenon, <1>1, <1>2, <2>1
<1>4. c.calls = s.calls /\ c.exact = s.exact /\ (c.index = s.index \/ c.trace = s.trace)
  BY DEF damaged, States
<1> QED
  BY <1>3, <1>4

(* A checkpoint that is accepted has come to its gate along completed      *)
(* nodes, each gate before it approved by somebody else.                   *)
LEMMA AcceptedBehind ==
  ASSUME g \in Graphs, NEW c \in States, accepted(c), NEW n \in Nodes
  PROVE  /\ c.values[n] # None => c.trace[n] = "completed"
         /\ c.trace[n] = "completed" =>
              /\ n < c.index /\ Reached(c, n)
              /\ g.type[n] = "approval" => c.human[n] \notin {None, Initiator}
         /\ n = c.index => g.type[n] = "approval" /\ c.trace[n] = "paused" /\ c.pending # None /\ Reached(c, n)
         /\ n > c.index => c.trace[n] = None
         /\ n < c.index => c.trace[n] \in {"completed", "skipped"}
<1>1. validNode(c, n) /\ n \in Nat /\ c.index \in Nodes /\ c.index \in Nat /\ admissible
  BY GraphFacts DEF accepted
<1>2. \A m \in Nodes : c.values[m] # None => c.trace[m] = "completed"
  <2>1. ASSUME NEW m \in Nodes, c.values[m] # None
        PROVE  c.trace[m] = "completed"
    <3>1. validNode(c, m) /\ m \in Nat
      BY GraphFacts DEF accepted
    <3> QED
      BY <1>1, <2>1, <3>1 DEF validNode, untouched
  <2> QED
    BY <2>1
<1>3. ~skipped(c, n) => Reached(c, n)
  <2>1. SUFFICES ASSUME ~skipped(c, n), n # root
                 PROVE  \E e \in incoming(n) : c.trace[e.source] = "completed"
    BY DEF Reached
  <2>2. incoming(n) # {}
    BY <1>1, <2>1 DEF admissible
  <2>3. PICK e \in active(c, n) : TRUE
    BY <2>1, <2>2 DEF skipped
  <2>4. e \in incoming(n) /\ c.values[e.source] # None /\ e.source \in Nodes
    BY <2>3, GraphFacts DEF active, incoming
  <2> QED
    BY <1>2, <2>4
<1>4. CASE n > c.index
  BY <1>1, <1>2, <1>4, WorkflowAssumption DEF validNode
<1>5. CASE n <= c.index /\ skipped(c, n)
  BY <1>1, <1>2, <1>5 DEF validNode
<1>6. CASE n <= c.index /\ ~skipped(c, n)
  BY <1>1, <1>2, <1>3, <1>6 DEF validNode, visitable, approvedByOther
<1> QED
  BY <1>1, <1>4, <1>5, <1>6

\* A run that is restored from what the validator accepts is good.
LEMMA RestoredGood ==
  ASSUME g \in Graphs, NEW k \in States, NEW G, Kept(k, G), NEW c \in {k} \cup damaged(k), accepted(c)
  PROVE  LET t == [c EXCEPT !.at = "paused", !.exact = @ /\ c = k]
         IN t \in States /\ Good(t, G) /\ t.at = "paused" /\ t.index = c.index
            /\ c.index \in Nodes /\ g.type[c.index] = "approval"
<1>. DEFINE t == [c EXCEPT !.at = "paused", !.exact = @ /\ c = k]
<1>1. c \in States /\ c.calls = k.calls /\ (c.index = k.index \/ c.trace = k.trace)
  BY DamagedTyped
<1>2. t \in States
  <2>1. (c.exact /\ c = k) \in BOOLEAN /\ "paused" \in At
    BY DEF At
  <2>2. t = [c EXCEPT !.at = "paused", !.exact = (c.exact /\ c = k)]
    BY <1>1 DEF States
  <2>. HIDE DEF t
  <2> QED
    BY <1>1, <2>1, <2>2, StatesClosed
<1>3. /\ t.trace = c.trace /\ t.values = c.values /\ t.human = c.human /\ t.pending = c.pending
      /\ t.calls = c.calls /\ t.at = "paused" /\ t.index = c.index /\ t.steps = c.steps
      /\ t.exact => c = k /\ k.exact
  BY <1>1 DEF States
<1>. HIDE DEF t
<1>4. admissible /\ c.index \in Nodes /\ c.steps <= maxSteps
  BY DEF accepted
<1>5. /\ c.trace[c.index] = "paused" /\ g.type[c.index] = "approval"
      /\ c.pending # None /\ Reached(c, c.index)
  BY <1>1, <1>4, AcceptedBehind
<1>6. AtGate(t)
  BY <1>3, <1>4, <1>5 DEF AtGate, Reached
<1>7. c.index = k.index
  <2>1. k.index \in Nodes /\ k.trace[k.index] = "paused" /\ k.index \in Nat /\ c.index \in Nat
    BY <1>4, GraphFacts DEF Kept, AtGate
  <2>2. SUFFICES ASSUME c.trace = k.trace
                 PROVE  c.index = k.index
    BY <1>1
  <2>3. ~(k.index > c.index)
    BY <1>1, <2>1, <2>2, AcceptedBehind, WorkflowAssumption
  <2>4. ~(k.index < c.index)
    BY <1>1, <2>1, <2>2, AcceptedBehind
  <2> QED
    BY <2>1, <2>3, <2>4
<1>8. CallsOnce(t)
  BY <1>1, <1>3, <1>7 DEF Kept, Good, CallsOnce
<1>9. Behind(t, G)
  <2>1. ASSUME NEW m \in Nodes, t.trace[m] = "completed"
        PROVE  /\ m < t.index /\ admissible /\ Reached(t, m)
               /\ g.type[m] = "approval" => ApprovedBy(t, m, G)
    <3>1. m < c.index /\ Reached(c, m) /\ (g.type[m] = "approval" => c.human[m] \notin {None, Initiator})
      BY <1>1, <1>3, <2>1, AcceptedBehind
    <3>2. Reached(t, m)
      BY <1>3, <3>1 DEF Reached
    <3>3. t.exact /\ g.type[m] = "approval" => <<t.human[m], m>> \in G
      BY <1>3, <2>1 DEF Kept, Good, Behind, ApprovedBy
    <3> QED
      BY <1>3, <1>4, <3>1, <3>2, <3>3 DEF ApprovedBy
  <2>2. \A m \in Nodes : t.values[m] # None => t.trace[m] = "completed"
    BY <1>1, <1>3, AcceptedBehind
  <2> QED
    BY <2>1, <2>2 DEF Behind
<1>10. Good(t, G)
  BY <1>3, <1>4, <1>6, <1>8, <1>9 DEF Good, Live
<1> QED
  BY <1>2, <1>3, <1>4, <1>5, <1>10 DEF t

-----------------------------------------------------------------------------
(* The steps *)

PauseOK(p, runs) == p \in Runs \X ofType("approval") /\ runs[p[1]].at = "paused" /\ runs[p[1]].index = p[2]

(* The graph stays, so that it is enough to look at the new values.        *)
LEMMA InvAfter ==
  ASSUME g \in Graphs, UNCHANGED g,
         run' \in [Runs -> States],
         \A r \in Runs : Good(run'[r], granted'),
         stored' # None => Kept(stored', granted'),
         resume' \in [Resumes -> {None} \cup Asked],
         \A p \in pauses' : PauseOK(p, run'),
         granted' \subseteq People \X Nodes, restarts' \in 0 .. MaxRestarts
  PROVE  EngineInv'
<1>1. Nodes' = Nodes
  BY DEF Nodes
<1>2. States' = States
  BY <1>1 DEF States
<1>3. \A n : incoming(n)' = incoming(n)
  BY DEF incoming
<1>4. ofType("approval")' = ofType("approval")
  BY <1>1 DEF ofType
<1>5. root' = root
  BY <1>1 DEF root, ofType
<1>6. admissible' = admissible
  BY <1>1 DEF admissible, avoids, ofType, incoming, root
<1>7. \A r \in Runs : Good(run[r], granted)'
  BY <1>1, <1>3, <1>5, <1>6 DEF Good, Behind, ApprovedBy, Reached, CallsOnce, AtGate, AtCall
<1>8. (stored # None => Kept(stored, granted))'
  BY <1>1, <1>2, <1>3, <1>5, <1>6 DEF Kept, Good, Behind, ApprovedBy, Reached, CallsOnce, AtGate, AtCall
<1>9. TypeOK'
  <2>1. \A r \in Runs : run'[r].at \in Live => run'[r].steps <= maxSteps
    BY DEF Good
  <2>2. pauses' \subseteq {p \in Runs \X ofType("approval") : run'[p[1]].at = "paused" /\ run'[p[1]].index = p[2]}
    BY DEF PauseOK
  <2>3. Asked' = Asked
    BY <1>4 DEF Asked
  <2> QED
    BY <1>1, <1>2, <1>4, <2>1, <2>2, <2>3 DEF TypeOK, Live
<1> QED
  BY <1>7, <1>8, <1>9 DEF EngineInv

(* One run moves that was not waiting at a gate.                           *)
LEMMA OneRun ==
  ASSUME EngineInv, NEW r \in Runs, NEW t \in States, Good(t, granted), run' = [run EXCEPT ![r] = t],
         run[r].at # "paused", elsewhere,
         pauses' = pauses \/ (pauses' = pauses \cup {<<r, t.index>>} /\ PauseOK(<<r, t.index>>, [run EXCEPT ![r] = t]))
  PROVE  EngineInv'
<1>1. run \in [Runs -> States] /\ g \in Graphs
  BY DEF EngineInv, TypeOK
<1>2. run' \in [Runs -> States] /\ run'[r] = t /\ \A q \in Runs : q # r => run'[q] = run[q]
  BY <1>1
<1>3. \A q \in Runs : Good(run'[q], granted')
  BY <1>2 DEF EngineInv, elsewhere
<1>4. \A p \in pauses : PauseOK(p, run) /\ PauseOK(p, run')
  <2>1. ASSUME NEW p \in pauses
        PROVE  PauseOK(p, run) /\ PauseOK(p, run')
    <3>1. PauseOK(p, run)
      BY DEF EngineInv, TypeOK, PauseOK
    <3> QED
      BY <1>2, <3>1 DEF PauseOK
  <2> QED
    BY <2>1
<1>5. \A p \in pauses' : PauseOK(p, run')
  BY <1>4
<1>6. resume \in [Resumes -> {None} \cup Asked]
  BY DEF EngineInv, TypeOK
<1>7. g \in Graphs /\ UNCHANGED <<g, resume, stored, granted, restarts>> /\ granted \subseteq People \X Nodes
      /\ restarts \in 0 .. MaxRestarts
  BY DEF elsewhere, EngineInv, TypeOK
<1>8. stored' # None => Kept(stored', granted')
  BY <1>7 DEF EngineInv
<1> QED
  BY <1>2, <1>3, <1>5, <1>6, <1>7, <1>8, InvAfter

\* The steps of the runner keep the invariant.
LEMMA AdvanceKeeps ==
  ASSUME EngineInv, NEW r \in Runs,
         start(r) \/ skip(r) \/ refuse(r) \/ compute(r) \/ call(r) \/ pause(r) \/ complete(r)
  PROVE  EngineInv'
<1>. DEFINE s == run[r]
<1>0. /\ g \in Graphs /\ s \in States /\ Good(s, granted) /\ run \in [Runs -> States]
      /\ s.steps \in Nat /\ s.steps + 1 \in Nat
  BY DEF EngineInv, TypeOK, States
<1>1. CASE start(r)
  <2>1. PICK seed \in Data :
          run' = [run EXCEPT ![r] = [s EXCEPT !.seed = seed, !.at = IF admissible THEN "advance" ELSE "blocked"]]
    BY <1>0, <1>1 DEF start, to
  <2>2. PICK a \in {"advance", "blocked"} :
          run' = [run EXCEPT ![r] = [s EXCEPT !.seed = seed, !.at = a]] /\ (a = "advance" => admissible)
    BY <2>1
  <2>3. s.at = "new" /\ s.steps <= maxSteps
    BY <1>0, <1>1 DEF start, to, Good
  <2> QED
    BY <1>0, <1>1, <2>2, <2>3, StartedGood, OneRun DEF start
<1>2. ASSUME s.at = "advance", s.index \in Nodes, ~skipped(s, s.index)
      PROVE  Reached(s, s.index)
  BY <1>0, <1>2, EnterReached DEF Good, Live
<1>3. CASE skip(r)
  <2>1. s.at = "advance" /\ s.index \in Nodes /\ elsewhere /\ pauses' = pauses
        /\ run' = [run EXCEPT ![r] = [s EXCEPT !.trace[s.index] = "skipped", !.index = s.index + 1]]
    BY <1>0, <1>3 DEF skip, to, here
  <2> QED
    BY <1>0, <2>1, SkipGood, OneRun
<1>4. CASE refuse(r)
  <2>1. s.at = "advance" /\ elsewhere /\ pauses' = pauses
        /\ run' = [run EXCEPT ![r] = [s EXCEPT !.at = "blocked", !.steps = s.steps + 1]]
    BY <1>0, <1>4 DEF refuse, to
  <2> QED
    BY <1>0, <2>1, EndedGood, OneRun
<1>5. CASE compute(r)
  <2>1. /\ s.at = "advance" /\ s.index \in Nodes /\ ~skipped(s, s.index) /\ s.steps < maxSteps
        /\ dataOf(s, s.index) # None /\ g.type[s.index] # "approval" /\ elsewhere /\ pauses' = pauses
        /\ run' = [run EXCEPT ![r] = visited([s EXCEPT !.steps = s.steps + 1], s.index, computed(s, s.index))]
    BY <1>0, <1>5 DEF compute, to, enters, here, stepsLeft, visitable
  <2>. DEFINE q == [s EXCEPT !.steps = s.steps + 1]
  <2>2. /\ q.values = s.values /\ q.trace = s.trace /\ q.human = s.human /\ q.index = s.index
        /\ q.exact = s.exact /\ q.calls = s.calls /\ q.at = s.at /\ q.steps = s.steps + 1
    BY <1>0 DEF States
  <2>3. q \in States
    <3>1. s.at \in At
      BY <1>0 DEF States
    <3> QED
      BY <1>0, <3>1, StatesClosed
  <2>. HIDE DEF q
  <2>4. Behind(q, granted) /\ CallsOnce(q) /\ Reached(q, q.index)
    BY <1>0, <1>2, <2>1, <2>2, <2>3, StandingKeeps DEF Good
  <2>5. q.steps <= maxSteps /\ admissible
    BY <1>0, <2>1, <2>2, WorkflowAssumption DEF Good, Live
  <2>6. computed(s, s.index) \in Data
    BY <1>0, <2>1, DataTyped DEF Values
  <2>. DEFINE t == visited(q, s.index, computed(s, s.index))
  <2>7. t \in States /\ Good(t, granted)
    BY <1>0, <2>1, <2>2, <2>3, <2>4, <2>5, <2>6, VisitedGood
  <2>8. run' = [run EXCEPT ![r] = t]
    BY <2>1 DEF q
  <2>. HIDE DEF t
  <2> QED
    BY <2>1, <2>7, <2>8, OneRun
<1>6. CASE call(r)
  <2>1. /\ s.at = "advance" /\ s.index \in Nodes /\ ~skipped(s, s.index) /\ s.steps < maxSteps
        /\ g.type[s.index] = "adapter" /\ elsewhere /\ pauses' = pauses
        /\ run' = [run EXCEPT ![r] = [s EXCEPT !.at = "calling", !.steps = @ + 1, !.calls[s.index] = @ + 1]]
    BY <1>0, <1>6 DEF call, to, enters, here, stepsLeft
  <2>. DEFINE t == [s EXCEPT !.at = "calling", !.steps = @ + 1, !.calls[s.index] = @ + 1]
  <2>2. t \in States /\ Good(t, granted)
    BY <1>0, <1>2, <2>1, CallGood
  <2>3. run' = [run EXCEPT ![r] = t]
    BY <2>1
  <2>. HIDE DEF t
  <2> QED
    BY <2>1, <2>2, <2>3, OneRun
<1>7. CASE pause(r)
  <2>1. /\ s.at = "advance" /\ s.index \in Nodes /\ ~skipped(s, s.index) /\ s.steps < maxSteps
        /\ g.type[s.index] = "approval" /\ dataOf(s, s.index) # None /\ elsewhere
        /\ pauses' = pauses \cup {<<r, s.index>>}
        /\ run' = [run EXCEPT ![r] = [s EXCEPT !.at = "paused", !.steps = @ + 1, !.trace[s.index] = "paused",
                                               !.pending = dataOf(s, s.index)]]
    BY <1>0, <1>7 DEF pause, to, enters, here, stepsLeft, visitable
  <2>. DEFINE t == [s EXCEPT !.at = "paused", !.steps = @ + 1, !.trace[s.index] = "paused",
                             !.pending = dataOf(s, s.index)]
  <2>2. t \in States /\ Good(t, granted) /\ t.at = "paused" /\ t.index = s.index
    BY <1>0, <1>2, <2>1, PauseGood
  <2>3. run' = [run EXCEPT ![r] = t]
    BY <2>1
  <2>. HIDE DEF t
  <2>4. PauseOK(<<r, t.index>>, [run EXCEPT ![r] = t])
    BY <1>0, <2>1, <2>2 DEF PauseOK, ofType
  <2> QED
    BY <2>1, <2>2, <2>3, <2>4, OneRun
<1>8. CASE complete(r)
  <2>1. s.at = "advance" /\ elsewhere /\ pauses' = pauses
        /\ run' = [run EXCEPT ![r] = [s EXCEPT !.at = "completed"]]
    BY <1>0, <1>8 DEF complete, to
  <2> QED
    BY <1>0, <2>1, CompletedGood, OneRun
<1> QED
  BY <1>1, <1>3, <1>4, <1>5, <1>6, <1>7, <1>8

\* The end of an adapter call keeps the invariant.
LEMMA AnswerKeeps ==
  ASSUME EngineInv, NEW r \in Runs, answer(r) \/ fail(r)
  PROVE  EngineInv'
<1>. DEFINE s == run[r]
<1>0. g \in Graphs /\ s \in States /\ Good(s, granted) /\ s.at = "calling" /\ elsewhere /\ pauses' = pauses
  BY DEF EngineInv, TypeOK, answer, fail
<1>1. CASE answer(r)
  <2>1. PICK value \in Data : run' = [run EXCEPT ![r] = visited(s, s.index, value)]
    BY <1>1 DEF answer, to, here
  <2>2. s.index \in Nodes /\ g.type[s.index] # "approval" /\ Reached(s, s.index)
        /\ admissible /\ s.steps <= maxSteps /\ Behind(s, granted) /\ CallsOnce(s)
    BY <1>0 DEF Good, Live, AtCall
  <2>. DEFINE t == visited(s, s.index, value)
  <2>3. t \in States /\ Good(t, granted)
    BY <1>0, <2>2, VisitedGood
  <2>4. run' = [run EXCEPT ![r] = t]
    BY <2>1
  <2>. HIDE DEF t
  <2> QED
    BY <1>0, <2>3, <2>4, OneRun
<1>2. CASE fail(r)
  <2>1. run' = [run EXCEPT ![r] = [s EXCEPT !.at = "blocked"]]
    BY <1>2 DEF fail, failed, to
  <2>2. s.steps \in Nat
    BY <1>0 DEF States
  <2> QED
    BY <1>0, <2>1, <2>2, EndedGood, OneRun
<1> QED
  BY <1>1, <1>2

(* What the rest of the invariant says, where a step leaves it alone.      *)
LEMMA InvParts ==
  ASSUME EngineInv
  PROVE  /\ g \in Graphs /\ run \in [Runs -> States]
         /\ resume \in [Resumes -> {None} \cup Asked]
         /\ \A p \in pauses : PauseOK(p, run)
         /\ granted \subseteq People \X Nodes /\ restarts \in 0 .. MaxRestarts
BY DEF EngineInv, TypeOK, PauseOK

\* A decision that is asked for and refused keeps the invariant.
LEMMA AskKeeps ==
  ASSUME EngineInv, NEW u \in Resumes, ask(u) \/ notAuthorized(u)
  PROVE  EngineInv'
<1>1. UNCHANGED <<g, run, pauses, stored, granted, restarts>>
  BY DEF ask, notAuthorized, quiet
<1>2. resume' \in [Resumes -> {None} \cup Asked]
  <2>1. CASE notAuthorized(u)
    BY <2>1, InvParts DEF notAuthorized
  <2>2. CASE ask(u)
    <3>1. PICK p \in pauses, name \in People \ {Initiator} :
            resume' = [resume EXCEPT ![u] = [run |-> p[1], node |-> p[2], name |-> name, data |-> run[p[1]].pending]]
      BY <2>2 DEF ask
    <3>2. p[1] \in Runs /\ p[2] \in ofType("approval") /\ run[p[1]].at = "paused"
      BY InvParts DEF PauseOK
    <3>3. run[p[1]].pending \in Data
      BY <3>2, InvParts DEF EngineInv, Good, AtGate, States
    <3>. DEFINE q == [run |-> p[1], node |-> p[2], name |-> name, data |-> run[p[1]].pending]
    <3>4. q \in Asked
      BY <3>2, <3>3 DEF Asked
    <3>5. resume' = [resume EXCEPT ![u] = q]
      BY <3>1
    <3>. HIDE DEF q
    <3> QED
      BY <3>4, <3>5, InvParts
  <2> QED
    BY <2>1, <2>2
<1>3. g \in Graphs /\ run' \in [Runs -> States] /\ \A r \in Runs : Good(run'[r], granted')
  BY <1>1, InvParts DEF EngineInv
<1>4. (stored' # None => Kept(stored', granted')) /\ \A p \in pauses' : PauseOK(p, run')
  BY <1>1, InvParts DEF EngineInv
<1>5. granted' \subseteq People \X Nodes /\ restarts' \in 0 .. MaxRestarts
  BY <1>1, InvParts
<1> QED
  BY <1>1, <1>2, <1>3, <1>4, <1>5, InvAfter

\* A decision that is authorized keeps the invariant.
LEMMA AuthorizedKeeps ==
  ASSUME EngineInv, NEW u \in Resumes, authorized(u)
  PROVE  EngineInv'
<1>. DEFINE q == resume[u]
            s == run[q.run]
            H == granted \cup {<<q.name, q.node>>}
<1>1. /\ q \in Asked /\ granted' = H /\ UNCHANGED <<g, stored, restarts>>
      /\ resume' = [resume EXCEPT ![u] = None]
  BY InvParts DEF authorized, quiet
<1>2. granted \subseteq H /\ H \subseteq People \X Nodes
  BY <1>1, InvParts DEF Asked, ofType
<1>3. \A r \in Runs : Good(run[r], H)
  BY <1>2, GoodGrows DEF EngineInv
<1>4. stored # None => Kept(stored, H)
  BY <1>2, GoodGrows DEF EngineInv, Kept
<1>5. resume' \in [Resumes -> {None} \cup Asked]
  BY <1>1, InvParts
<1>6. CASE UNCHANGED <<run, pauses>>
  BY <1>1, <1>2, <1>3, <1>4, <1>5, <1>6, InvParts, InvAfter
<1>7. CASE <<q.run, q.node>> \in pauses
  <2>1. /\ pauses' = pauses \ {<<q.run, q.node>>}
        /\ run' = [run EXCEPT ![q.run] = approved(s, q.node, q.data, q.name)]
    BY <1>7 DEF authorized, pauseOf, to
  <2>2. s.at = "paused" /\ s.index = q.node /\ q.run \in Runs /\ s \in States /\ Good(s, granted)
    BY <1>1, <1>7, InvParts DEF PauseOK, Asked, EngineInv
  <2>3. <<q.name, q.node>> \in H /\ q.data \in Data /\ q.name \in People \ {Initiator}
    BY <1>1 DEF Asked
  <2>. DEFINE t == approved(s, q.node, q.data, q.name)
  <2>. HIDE DEF H
  <2>4. t \in States /\ Good(t, H)
    BY <1>2, <2>2, <2>3, InvParts, ApprovedGood
  <2>5. run' = [run EXCEPT ![q.run] = t]
    BY <2>1
  <2>. HIDE DEF t, q
  <2>6. run' \in [Runs -> States] /\ \A r \in Runs : Good(run'[r], H)
    BY <1>3, <2>2, <2>4, <2>5, InvParts
  <2>7. \A p \in pauses' : PauseOK(p, run')
    <3>1. ASSUME NEW p \in pauses'
          PROVE  PauseOK(p, run')
      <4>1. p \in pauses /\ p # <<q.run, q.node>> /\ PauseOK(p, run)
        BY <2>1, InvParts
      <4>2. p[1] # q.run
        BY <2>2, <4>1 DEF PauseOK, s
      <4> QED
        BY <2>2, <2>5, <4>1, <4>2, InvParts DEF PauseOK
    <3> QED
      BY <3>1
  <2> QED
    BY <1>1, <1>2, <1>4, <1>5, <2>6, <2>7, InvParts, InvAfter
<1> QED
  BY <1>6, <1>7 DEF authorized, pauseOf

\* A checkpoint keeps the invariant.
LEMMA CheckpointKeeps ==
  ASSUME EngineInv, NEW r \in Runs, checkpoint(r)
  PROVE  EngineInv'
<1>. DEFINE s == run[r]
            t == [s EXCEPT !.at = "new"]
<1>1. /\ PauseOK(<<r, s.index>>, run) /\ stored' = t
      /\ UNCHANGED <<g, run, pauses, resume, granted, restarts>>
  BY InvParts DEF checkpoint, here, quiet
<1>2. s \in States /\ Good(s, granted) /\ s.at = "paused" /\ g \in Graphs
  BY <1>1, InvParts DEF EngineInv, PauseOK
<1>3. t \in States
  BY <1>2, StatesClosed DEF At
<1>4. /\ t.values = s.values /\ t.trace = s.trace /\ t.human = s.human /\ t.index = s.index
      /\ t.exact = s.exact /\ t.calls = s.calls /\ t.at = "new" /\ t.steps = s.steps /\ t.pending = s.pending
  BY <1>2 DEF States
<1>. HIDE DEF t
<1>5. Behind(t, granted) /\ CallsOnce(t)
  BY <1>2, <1>3, <1>4, StandingKeeps DEF Good
<1>6. AtGate(t) /\ Good(t, granted)
  BY <1>2, <1>4, <1>5 DEF Good, Live, AtGate, Reached
<1>7. Kept(stored', granted')
  BY <1>1, <1>3, <1>4, <1>6 DEF Kept
<1> QED
  BY <1>1, <1>7, InvParts, InvAfter DEF EngineInv

\* A restored checkpoint, damaged or not, keeps the invariant.
LEMMA RestoreKeeps ==
  ASSUME EngineInv, NEW r \in Runs, restore(r)
  PROVE  EngineInv'
<1>1. PICK c \in {stored} \cup damaged(stored) :
        /\ accepted(c)
        /\ run' = [run EXCEPT ![r] = [c EXCEPT !.at = "paused", !.exact = @ /\ c = stored]]
        /\ pauses' = pauses \cup {<<r, c.index>>}
  BY DEF restore, to
<1>2. stored # None /\ run[r].at = "new" /\ elsewhere
  BY DEF restore, quiet, elsewhere
<1>3. stored \in States /\ Kept(stored, granted) /\ g \in Graphs /\ run \in [Runs -> States]
  BY <1>2, InvParts DEF EngineInv, Kept
<1>. DEFINE t == [c EXCEPT !.at = "paused", !.exact = @ /\ c = stored]
<1>4. t \in States /\ Good(t, granted) /\ t.at = "paused" /\ t.index = c.index
      /\ c.index \in Nodes /\ g.type[c.index] = "approval"
  BY <1>1, <1>3, RestoredGood
<1>5. run' = [run EXCEPT ![r] = t]
  BY <1>1
<1>. HIDE DEF t
<1>6. PauseOK(<<r, t.index>>, [run EXCEPT ![r] = t])
  BY <1>3, <1>4 DEF PauseOK, ofType
<1> QED
  BY <1>1, <1>2, <1>4, <1>5, <1>6, OneRun

\* A restart of the server keeps the invariant.
LEMMA RestartKeeps ==
  ASSUME EngineInv, restart
  PROVE  EngineInv'
<1>1. /\ run' = [r \in Runs |-> IF run[r].at \in {"calling", "paused"} THEN [run[r] EXCEPT !.at = "lost"] ELSE run[r]]
      /\ pauses' = {} /\ resume' = [u \in Resumes |-> None]
      /\ UNCHANGED <<g, stored, granted>> /\ restarts' \in 0 .. MaxRestarts
  BY InvParts, WorkflowAssumption DEF restart
<1>2. ASSUME NEW r \in Runs
      PROVE  run'[r] \in States /\ Good(run'[r], granted)
  <2>1. run[r] \in States /\ Good(run[r], granted) /\ g \in Graphs /\ run[r].steps \in Nat
    BY InvParts DEF EngineInv, States
  <2>2. run'[r] = run[r] \/ run'[r] = [run[r] EXCEPT !.at = "lost"]
    BY <1>1
  <2> QED
    BY <2>1, <2>2, EndedGood
<1>3. run' \in [Runs -> States]
  <2>1. run' = [r \in Runs |-> run'[r]]
    BY <1>1
  <2> QED
    BY <1>2, <2>1
<1> QED
  BY <1>1, <1>2, <1>3, InvParts, InvAfter DEF EngineInv

\* The invariant holds before any run starts.
LEMMA EngineInvInit == Init => EngineInv
<1>1. SUFFICES ASSUME Init PROVE EngineInv
  OBVIOUS
<1>2. g \in Graphs /\ \A r \in Runs : run[r] = blank
  BY <1>1 DEF Init
<1>3. blank \in States
  <2>1. /\ [n \in Nodes |-> None] \in [Nodes -> Data \cup {None}]
        /\ [n \in Nodes |-> None] \in [Nodes -> {"true", "false", None}]
        /\ [n \in Nodes |-> None] \in [Nodes -> {"completed", "skipped", "paused", None}]
        /\ [n \in Nodes |-> None] \in [Nodes -> People \cup {None}]
        /\ [n \in Nodes |-> 0] \in [Nodes -> Nat]
    OBVIOUS
  <2>2. "new" \in At /\ 1 \in Nat /\ 0 \in Nat
    BY DEF At
  <2> QED
    BY <2>1, <2>2 DEF blank, States
<1>4. Good(blank, granted)
  <2>1. /\ \A n \in Nodes : blank.trace[n] = None /\ blank.values[n] = None /\ blank.calls[n] = 0
        /\ blank.at = "new" /\ blank.steps = 0
    BY DEF blank
  <2> QED
    BY <2>1, WorkflowAssumption DEF Good, Behind, CallsOnce, Live
<1>5. TypeOK
  BY <1>1, <1>2, <1>3, WorkflowAssumption DEF Init, TypeOK, blank
<1> QED
  BY <1>1, <1>2, <1>4, <1>5 DEF EngineInv, Init

\* Every step keeps the invariant.
LEMMA EngineInvNext ==
  ASSUME EngineInv, [Next]_vars
  PROVE  EngineInv'
<1>1. CASE UNCHANGED vars
  BY <1>1, InvParts, InvAfter DEF vars, EngineInv
<1>2. CASE Next
  BY <1>2, AdvanceKeeps, AnswerKeeps, AskKeeps, AuthorizedKeeps, CheckpointKeeps, RestoreKeeps, RestartKeeps
     DEF Next
<1> QED
  BY <1>1, <1>2

\* The inductive invariant behind the theorems below: every run is good with
\* respect to the decisions that were made.
THEOREM EngineInvariant == Spec => []EngineInv
<1>1. EngineInv /\ [Next]_vars => EngineInv'
  BY EngineInvNext
<1> QED
  BY EngineInvInit, <1>1, PTL DEF Spec

(* Runs, pauses and waiting resumes keep their shape: whoever waits for an *)
(* authorization is not the initiator, and every pause that can be resumed *)
(* is that of a run standing at that gate.                                 *)
THEOREM EngineTypes == Spec => []TypeOK
<1>1. EngineInv => TypeOK
  BY DEF EngineInv
<1> QED
  BY <1>1, EngineInvariant, PTL

(* Were a gate left out, the completed nodes would all lie in what the     *)
(* walk from the root reaches without it.                                  *)
LEMMA CompletedAvoid ==
  ASSUME g \in Graphs, NEW s \in States, NEW G, Behind(s, G), NEW gate \in Nodes, s.trace[gate] # "completed",
         NEW R \in SUBSET Nodes, avoids(gate, R), NEW m \in Nodes, s.trace[m] = "completed"
  PROVE  m \in R
<1>. DEFINE Outside == {n \in Nodes : s.trace[n] = "completed" /\ n \notin R}
<1>1. SUFFICES ASSUME Outside # {}
               PROVE  FALSE
  OBVIOUS
<1>2. PICK n \in Outside : \A k \in Outside : ~(k < n)
  <2>1. Outside \in SUBSET Nat
    BY GraphFacts
  <2>. HIDE DEF Outside
  <2> QED
    BY <1>1, <2>1, LeastNatural
<1>3. n # root
  BY <1>2 DEF avoids
<1>4. PICK e \in incoming(n) : s.trace[e.source] = "completed"
  BY <1>2, <1>3 DEF Behind, Reached
<1>5. e \in g.edges /\ e.target = n /\ e.source \in Nodes /\ e.source < n
  BY <1>4, GraphFacts DEF incoming
<1>6. e.source \in R
  BY <1>2, <1>4, <1>5
<1>7. n # gate
  BY <1>2
<1> QED
  BY <1>2, <1>5, <1>6, <1>7 DEF avoids

(* Nothing is returned around a gate, for every graph that is admitted.    *)
THEOREM OutputPassesGates == Spec => []OutputIsApproved
<1>1. ASSUME EngineInv, NEW r \in Runs, NEW out \in Nodes, g.type[out] = "output",
             run[r].trace[out] = "completed", NEW gate \in ofType("approval")
      PROVE  /\ run[r].trace[gate] = "completed"
             /\ run[r].human[gate] \notin {None, Initiator}
             /\ run[r].exact => <<run[r].human[gate], gate>> \in granted
  <2>1. g \in Graphs /\ run[r] \in States /\ Behind(run[r], granted) /\ gate \in Nodes
    BY <1>1, InvParts DEF EngineInv, Good, ofType
  <2>2. run[r].trace[gate] = "completed"
    <3>1. SUFFICES ASSUME run[r].trace[gate] # "completed"
                   PROVE  FALSE
      OBVIOUS
    <3>2. PICK R \in SUBSET Nodes : avoids(gate, R) /\ R \cap ofType("output") = {}
      BY <1>1, <2>1 DEF Behind, admissible
    <3>3. out \in R
      BY <1>1, <2>1, <3>1, <3>2, CompletedAvoid
    <3> QED
      BY <1>1, <3>2, <3>3 DEF ofType
  <2> QED
    BY <2>1, <2>2 DEF Behind, ApprovedBy, ofType
<1>2. EngineInv => OutputIsApproved
  BY <1>1 DEF OutputIsApproved
<1> QED
  BY <1>2, EngineInvariant, PTL

(* An adapter is called at most once along a run and its restores.         *)
THEOREM AdaptersCalledOnce == Spec => []EffectsOnce
<1>1. EngineInv => EffectsOnce
  BY DEF EngineInv, Good, CallsOnce, EffectsOnce
<1> QED
  BY <1>1, EngineInvariant, PTL
-----------------------------------------------------------------------------
(* What the engine leaves behind is what the validator recomputes *)

\* A node the run has passed, and one it has not come to.
Passed(s, n) ==
  IF skipped(s, n) THEN s.trace[n] = "skipped" /\ untouched(s, n)
  ELSE /\ visitable(s, n)
       /\ s.trace[n] = "completed" /\ s.values[n] # None
       /\ s.branches[n] = chosen(s, n)
       /\ g.type[n] # "adapter" => s.values[n] = computed(s, n)
       /\ approvedByOther(s, n)

Ahead(s, n) == untouched(s, n) /\ s.trace[n] = None

\* The nodes before k that were entered.
Taken(s, k) == {n \in Nodes : n < k /\ ~skipped(s, n)}

Returned(s) == s.output # None => \E out \in ofType("output") : s.trace[out] = "completed"

\* At a node that was entered and is not finished.
Inside(s) == s.index \in Nodes /\ ~skipped(s, s.index) /\ visitable(s, s.index)

Replays(s) ==
  /\ \A n \in Nodes : n < s.index => Passed(s, n)
  /\ \A n \in Nodes : s.index < n => Ahead(s, n)
  /\ s.index \in Nodes => untouched(s, s.index)
  /\ s.steps = Cardinality(Taken(s, s.index)) + (IF s.at = "advance" THEN 0 ELSE 1)
  /\ Returned(s)
  /\ s.at = "advance" /\ s.index \in Nodes => s.trace[s.index] = None
  /\ s.at # "advance" => Inside(s)
  /\ s.at = "paused" => s.trace[s.index] = "paused" /\ s.pending = dataOf(s, s.index)

(* What is said of a node depends on the nodes before it only.             *)
LEMMA BeforeDecides ==
  ASSUME g \in Graphs, NEW s, NEW t, NEW n \in Nodes, t.seed = s.seed,
         \A m \in Nodes : m < n => t.values[m] = s.values[m] /\ t.branches[m] = s.branches[m]
  PROVE  /\ (skipped(t, n) <=> skipped(s, n)) /\ dataOf(t, n) = dataOf(s, n)
         /\ computed(t, n) = computed(s, n) /\ chosen(t, n) = chosen(s, n)
         /\ (visitable(t, n) <=> visitable(s, n))
<1>1. \A e \in incoming(n) : e.source \in Nodes /\ e.source < n
  BY GraphFacts DEF incoming
<1>2. active(t, n) = active(s, n)
  BY <1>1 DEF active
<1>3. (skipped(t, n) <=> skipped(s, n))
  BY <1>2 DEF skipped
<1>4. dataOf(t, n) = dataOf(s, n)
  <2>1. g.from[n] \in 0 .. n /\ n \in Nat /\ Nodes = 1 .. Len(g.type) /\ Len(g.type) \in Nat
    BY GraphFacts
  <2>2. CASE g.from[n] = 0
    BY <2>2 DEF dataOf
  <2>3. CASE g.from[n] # 0 /\ g.from[n] < n
    <3>1. g.from[n] \in Nodes
      BY <2>1, <2>3
    <3> QED
      BY <2>3, <3>1 DEF dataOf
  <2>4. CASE g.from[n] # 0 /\ ~(g.from[n] < n)
    <3>1. CASE active(s, n) = {}
      BY <1>2, <2>4, <3>1 DEF dataOf
    <3>2. CASE active(s, n) # {}
      <4>1. (CHOOSE e \in active(s, n) : TRUE) \in active(s, n)
        BY <3>2
      <4>2. (CHOOSE e \in active(s, n) : TRUE) \in incoming(n)
        BY <4>1 DEF active
      <4> QED
        BY <1>1, <1>2, <2>4, <3>2, <4>2 DEF dataOf
    <3> QED
      BY <3>1, <3>2
  <2> QED
    BY <2>2, <2>3, <2>4
<1>5. computed(t, n) = computed(s, n) /\ chosen(t, n) = chosen(s, n)
  BY <1>4 DEF computed, chosen
<1>6. (visitable(t, n) <=> visitable(s, n))
  BY <1>2, <1>4 DEF visitable
<1> QED
  BY <1>3, <1>4, <1>5, <1>6

\* Nodes are finitely many, and so are those a run has taken.
LEMMA TakenCounted ==
  ASSUME g \in Graphs, NEW s, NEW n \in Nodes
  PROVE  /\ IsFiniteSet(Taken(s, n)) /\ Cardinality(Taken(s, n)) \in Nat
         /\ Taken(s, n + 1) = IF skipped(s, n) THEN Taken(s, n) ELSE Taken(s, n) \cup {n}
         /\ Cardinality(Taken(s, n + 1)) = Cardinality(Taken(s, n)) + (IF skipped(s, n) THEN 0 ELSE 1)
<1>1. Nodes = 1 .. Len(g.type) /\ Len(g.type) \in Nat /\ Nodes \subseteq Nat /\ n \in Nat
  BY GraphFacts
<1>2. IsFiniteSet(Nodes)
  BY <1>1, FS_Interval
<1>3. IsFiniteSet(Taken(s, n)) /\ Cardinality(Taken(s, n)) \in Nat
  <2>1. Taken(s, n) \in SUBSET Nodes
    BY DEF Taken
  <2> QED
    BY <1>2, <2>1, FS_Subset, FS_CardinalityType
<1>4. \A m \in Nodes : m < n + 1 <=> m < n \/ m = n
  BY <1>1
<1>5. Taken(s, n + 1) = IF skipped(s, n) THEN Taken(s, n) ELSE Taken(s, n) \cup {n}
  BY <1>4 DEF Taken
<1>6. n \notin Taken(s, n)
  BY <1>1 DEF Taken
<1>7. Cardinality(Taken(s, n) \cup {n}) = Cardinality(Taken(s, n)) + 1
  BY <1>3, <1>6, FS_AddElement
<1>8. CASE skipped(s, n)
  BY <1>3, <1>5, <1>8
<1>9. CASE ~skipped(s, n)
  BY <1>3, <1>5, <1>7, <1>9
<1> QED
  BY <1>8, <1>9

\* A run that has finished its node, in whichever way, goes on.
LEMMA GoesOn ==
  ASSUME g \in Graphs, NEW s \in States, Replays(s), NEW n \in Nodes, s.index = n,
         NEW t \in States, t.at = "advance", t.index = n + 1, t.seed = s.seed,
         \A m \in Nodes \ {n} : /\ t.values[m] = s.values[m] /\ t.branches[m] = s.branches[m]
                                /\ t.trace[m] = s.trace[m] /\ t.human[m] = s.human[m],
         Passed(t, n), Returned(t),
         t.steps = s.steps + (IF s.at = "advance" /\ ~skipped(s, n) THEN 1 ELSE 0)
  PROVE  Replays(t)
<1>1. Nodes = 1 .. Len(g.type) /\ Len(g.type) \in Nat /\ Nodes \subseteq Nat /\ n \in Nat
  BY GraphFacts
<1>2. \A m \in Nodes : m <= n =>
        /\ (skipped(t, m) <=> skipped(s, m)) /\ dataOf(t, m) = dataOf(s, m)
        /\ computed(t, m) = computed(s, m) /\ chosen(t, m) = chosen(s, m) /\ (visitable(t, m) <=> visitable(s, m))
  <2>1. ASSUME NEW m \in Nodes, m <= n
        PROVE  \A k \in Nodes : k < m => t.values[k] = s.values[k] /\ t.branches[k] = s.branches[k]
    BY <1>1, <2>1
  <2> QED
    BY <2>1, BeforeDecides
<1>3. ASSUME NEW m \in Nodes, m < t.index
      PROVE  Passed(t, m)
  <2>1. CASE m = n
    BY <2>1
  <2>2. CASE m # n
    <3>1. m < n /\ m <= n
      BY <1>1, <1>3, <2>2
    <3>2. Passed(s, m)
      BY <3>1 DEF Replays
    <3> QED
      BY <1>2, <2>2, <3>1, <3>2 DEF Passed, untouched, approvedByOther
  <2> QED
    BY <2>1, <2>2
<1>4. \A m \in Nodes : n < m => Ahead(t, m)
  BY <1>1 DEF Replays, Ahead, untouched
<1>5. t.steps = Cardinality(Taken(t, n + 1))
  <2>1. Taken(t, n) = Taken(s, n)
    BY <1>1, <1>2 DEF Taken
  <2>2. Cardinality(Taken(t, n + 1)) = Cardinality(Taken(s, n)) + (IF skipped(s, n) THEN 0 ELSE 1)
    <3>1. Cardinality(Taken(t, n + 1)) = Cardinality(Taken(t, n)) + (IF skipped(t, n) THEN 0 ELSE 1)
      BY TakenCounted
    <3>2. n <= n
      BY <1>1
    <3> QED
      BY <1>2, <2>1, <3>1, <3>2
  <2>3. Cardinality(Taken(s, n)) \in Nat
    BY TakenCounted
  <2>4. s.at # "advance" => ~skipped(s, n)
    BY DEF Replays, Inside
  <2>5. s.steps = Cardinality(Taken(s, n)) + (IF s.at = "advance" THEN 0 ELSE 1)
    BY DEF Replays
  <2> QED
    BY <2>2, <2>3, <2>4, <2>5
<1>6. \A m \in Nodes : t.index < m => Ahead(t, m)
  BY <1>1, <1>4
<1>7. t.index \in Nodes => untouched(t, t.index) /\ t.trace[t.index] = None
  BY <1>1, <1>4 DEF Ahead
<1>8. t.steps = Cardinality(Taken(t, t.index)) + 0
  BY <1>5 DEF States
<1> QED
  BY <1>3, <1>6, <1>7, <1>8 DEF Replays

\* A run that enters a node and stays there, for an answer or a decision.
LEMMA StaysInside ==
  ASSUME g \in Graphs, NEW s \in States, Replays(s), s.at = "advance", NEW n \in Nodes, s.index = n,
         ~skipped(s, n), visitable(s, n),
         NEW t \in States, t.at \in {"calling", "paused"}, t.index = n, t.seed = s.seed,
         t.values = s.values, t.branches = s.branches, t.human = s.human, t.output = s.output,
         \A m \in Nodes \ {n} : t.trace[m] = s.trace[m],
         t.at = "paused" => t.trace[n] = "paused" /\ t.pending = dataOf(s, n),
         t.steps = s.steps + 1
  PROVE  Replays(t)
<1>1. Nodes \subseteq Nat /\ n \in Nat
  BY GraphFacts
<1>2. \A m \in Nodes :
        /\ (skipped(t, m) <=> skipped(s, m)) /\ dataOf(t, m) = dataOf(s, m)
        /\ computed(t, m) = computed(s, m) /\ chosen(t, m) = chosen(s, m) /\ (visitable(t, m) <=> visitable(s, m))
  BY BeforeDecides
<1>3. \A m \in Nodes : m < n => Passed(t, m)
  <2>1. ASSUME NEW m \in Nodes, m < n
        PROVE  Passed(t, m)
    <3>1. Passed(s, m) /\ m # n
      BY <1>1, <2>1 DEF Replays
    <3> QED
      BY <1>2, <3>1 DEF Passed, untouched, approvedByOther
  <2> QED
    BY <2>1
<1>4. ASSUME NEW m \in Nodes, n < m
      PROVE  Ahead(t, m)
  <2>1. m # n
    BY <1>1, <1>4
  <2>2. Ahead(s, m)
    BY <1>4 DEF Replays
  <2> QED
    BY <2>1, <2>2 DEF Ahead, untouched
<1>5. t.steps = Cardinality(Taken(t, n)) + 1
  <2>1. Taken(t, n) = Taken(s, n)
    BY <1>2 DEF Taken
  <2>2. s.steps = Cardinality(Taken(s, n)) + 0 /\ Cardinality(Taken(s, n)) \in Nat
    BY TakenCounted DEF Replays
  <2> QED
    BY <2>1, <2>2
<1>6. untouched(t, n) /\ Inside(t)
  BY <1>2 DEF Replays, untouched, Inside
<1>7. Returned(t)
  <2>1. ASSUME t.output # None
        PROVE  \E out \in ofType("output") : t.trace[out] = "completed"
    <3>1. PICK out \in ofType("output") : s.trace[out] = "completed"
      BY <2>1 DEF Replays, Returned
    <3>2. out # n /\ out \in Nodes
      BY <3>1, WorkflowAssumption DEF Replays, ofType
    <3> QED
      BY <3>1, <3>2
  <2> QED
    BY <2>1 DEF Returned
<1> QED
  BY <1>2, <1>3, <1>4, <1>5, <1>6, <1>7 DEF Replays

\* The validator accepts a run that waits at a gate.
LEMMA PausedAccepted ==
  ASSUME g \in Graphs, NEW s \in States, NEW G, Good(s, G), Replays(s), s.at = "paused"
  PROVE  accepted([s EXCEPT !.at = "new"])
<1>. DEFINE c == [s EXCEPT !.at = "new"]
            n == s.index
<1>1. /\ c.index = n /\ c.values = s.values /\ c.branches = s.branches /\ c.trace = s.trace /\ c.human = s.human
      /\ c.seed = s.seed /\ c.steps = s.steps /\ c.output = s.output /\ c.pending = s.pending
  BY DEF States
<1>2. Nodes \subseteq Nat /\ n \in Nodes /\ n \in Nat
  BY GraphFacts DEF Good, AtGate
<1>. HIDE DEF c, n
<1>3. \A m \in Nodes :
        /\ skipped(c, m) <=> skipped(s, m)
        /\ dataOf(c, m) = dataOf(s, m) /\ computed(c, m) = computed(s, m) /\ chosen(c, m) = chosen(s, m)
        /\ visitable(c, m) <=> visitable(s, m)
  BY <1>1, BeforeDecides
<1>4. ASSUME NEW m \in Nodes
      PROVE  validNode(c, m)
  <2>1. CASE m > n
    <3>1. Ahead(s, m)
      BY <1>2, <2>1 DEF Replays, n
    <3> QED
      BY <1>1, <2>1, <3>1 DEF Ahead, untouched, validNode
  <2>2. CASE m = n
    <3>1. Inside(s) /\ untouched(s, n) /\ s.trace[n] = "paused" /\ s.pending = dataOf(s, n) /\ g.type[n] = "approval"
      BY <1>2 DEF Replays, Good, AtGate, n
    <3>2. ~skipped(c, m) /\ visitable(c, m) /\ ~(m > c.index)
      BY <1>1, <1>2, <1>3, <2>2, <3>1 DEF Inside, n
    <3> QED
      BY <1>1, <1>3, <2>2, <3>1, <3>2 DEF untouched, validNode
  <2>3. CASE m < n
    <3>1. Passed(s, m)
      BY <2>3 DEF Replays, n
    <3>2. ~(m > c.index) /\ m # c.index
      BY <1>1, <1>2, <2>3
    <3> QED
      BY <1>1, <1>3, <3>1, <3>2 DEF Passed, untouched, approvedByOther, validNode
  <2> QED
    BY <1>2, <2>1, <2>2, <2>3
<1>5. c.steps = Cardinality({m \in Nodes : countsAsStep(c, m)})
  <2>1. \A m \in Nodes : m <= n <=> m < n + 1
    BY <1>2
  <2>2. {m \in Nodes : countsAsStep(c, m)} = Taken(s, n + 1)
    BY <1>1, <1>3, <2>1 DEF countsAsStep, Taken
  <2>3. ~skipped(s, n) /\ s.steps = Cardinality(Taken(s, n)) + 1
    BY DEF Replays, Inside, n
  <2> QED
    BY <1>1, <1>2, <2>2, <2>3, TakenCounted
<1>6. c.output = None
  <2>1. SUFFICES ASSUME s.output # None
                 PROVE  FALSE
    BY <1>1
  <2>2. PICK out \in ofType("output") : s.trace[out] = "completed"
    BY <2>1 DEF Replays, Returned
  <2>3. admissible /\ n \in ofType("approval") /\ s.trace[n] # "completed" /\ out \in Nodes /\ Behind(s, G)
    BY <2>2 DEF Good, Live, AtGate, ofType, n
  <2>4. PICK R \in SUBSET Nodes : avoids(n, R) /\ R \cap ofType("output") = {}
    BY <2>3 DEF admissible
  <2>5. out \in R
    BY <1>2, <2>2, <2>3, <2>4, CompletedAvoid
  <2> QED
    BY <2>2, <2>4, <2>5
<1>7. admissible /\ c.steps <= maxSteps
  BY <1>1 DEF Good, Live
<1>8. c.index \in Nodes
  BY <1>1, <1>2
<1>9. accepted(c)
  BY <1>4, <1>5, <1>6, <1>7, <1>8 DEF accepted
<1> QED
  BY <1>9 DEF c

\* What the validator accepts, damaged or not, could have been left by a run.
LEMMA AcceptedReplays ==
  ASSUME g \in Graphs, NEW c \in States, accepted(c), NEW t \in States, t.at = "paused",
         t.index = c.index, t.values = c.values, t.branches = c.branches, t.trace = c.trace, t.human = c.human,
         t.seed = c.seed, t.steps = c.steps, t.output = c.output, t.pending = c.pending
  PROVE  Replays(t)
<1>. DEFINE n == c.index
<1>1. Nodes \subseteq Nat /\ n \in Nodes /\ n \in Nat /\ \A m \in Nodes : validNode(c, m)
  BY GraphFacts DEF accepted
<1>2. \A m \in Nodes :
        /\ skipped(t, m) <=> skipped(c, m)
        /\ dataOf(t, m) = dataOf(c, m) /\ computed(t, m) = computed(c, m) /\ chosen(t, m) = chosen(c, m)
        /\ visitable(t, m) <=> visitable(c, m)
  BY BeforeDecides
<1>3. ASSUME NEW m \in Nodes, m < n
      PROVE  Passed(t, m)
  <2>1. validNode(c, m) /\ ~(m > c.index) /\ m # c.index
    BY <1>1, <1>3
  <2> QED
    BY <1>2, <2>1 DEF validNode, Passed, untouched, approvedByOther
<1>4. ASSUME NEW m \in Nodes, n < m
      PROVE  Ahead(t, m)
  <2>1. validNode(c, m) /\ m > c.index
    BY <1>1, <1>4
  <2> QED
    BY <2>1 DEF validNode, Ahead, untouched
<1>5. /\ ~skipped(c, n) /\ visitable(c, n) /\ untouched(c, n) /\ c.trace[n] = "paused"
      /\ c.pending = dataOf(c, n)
  <2>1. validNode(c, n) /\ ~(n > c.index)
    BY <1>1
  <2> QED
    BY <2>1 DEF validNode
<1>6. t.steps = Cardinality(Taken(t, n)) + 1
  <2>1. \A m \in Nodes : m <= n <=> m < n + 1
    BY <1>1
  <2>2. {m \in Nodes : countsAsStep(c, m)} = Taken(t, n + 1)
    BY <1>2, <2>1 DEF countsAsStep, Taken
  <2>3. Cardinality(Taken(t, n + 1)) = Cardinality(Taken(t, n)) + 1
    BY <1>1, <1>2, <1>5, TakenCounted
  <2> QED
    BY <2>2, <2>3 DEF accepted
<1>7. Inside(t) /\ untouched(t, n) /\ t.pending = dataOf(t, n) /\ t.trace[n] = "paused"
  BY <1>1, <1>2, <1>5 DEF Inside, untouched
<1>8. Returned(t)
  BY DEF Returned, accepted
<1> QED
  BY <1>3, <1>4, <1>6, <1>7, <1>8 DEF Replays

\* A run that has just started.
LEMMA StartedReplays ==
  ASSUME g \in Graphs, NEW d \in Data
  PROVE  Replays([blank EXCEPT !.seed = d, !.at = "advance"])
<1>. DEFINE t == [blank EXCEPT !.seed = d, !.at = "advance"]
<1>1. /\ t.index = 1 /\ t.steps = 0 /\ t.at = "advance" /\ t.output = None
      /\ \A m \in Nodes : Ahead(t, m)
  BY DEF blank, Ahead, untouched
<1>2. \A m \in Nodes : ~(m < 1)
  BY GraphFacts
<1>. HIDE DEF t
<1>3. Taken(t, 1) = {}
  BY <1>2 DEF Taken
<1>4. t.steps = Cardinality(Taken(t, t.index)) + 0
  BY <1>1, <1>3, FS_EmptySet
<1>5. Returned(t) /\ \A m \in Nodes : t.trace[m] = None /\ untouched(t, m)
  BY <1>1 DEF Returned, Ahead
<1>6. Replays(t)
  BY <1>1, <1>2, <1>4, <1>5 DEF Replays
<1> QED
  BY <1>6 DEF t

-----------------------------------------------------------------------------
(* A resume that waits is about a gate its run still stands at, with the   *)
(* data it read there, or has left for good.                               *)
Waits(q, rs) ==
  /\ rs[q.run].at # "new"
  /\ q.node <= rs[q.run].index
  /\ q.node = rs[q.run].index => rs[q.run].at = "paused" /\ rs[q.run].pending = q.data

ReplayInv ==
  /\ \A r \in Runs : run[r].at = "new" => run[r] = blank
  /\ \A r \in Runs : run[r].at \in Live => Replays(run[r])
  /\ \A u \in Resumes : resume[u] # None => Waits(resume[u], run)
  /\ PausesRestore

(* The invariant is about the graph, which never changes.                  *)
LEMMA ReplayAfter ==
  ASSUME UNCHANGED g,
         \A r \in Runs : run'[r].at = "new" => run'[r] = blank,
         \A r \in Runs : run'[r].at \in Live => Replays(run'[r]),
         \A u \in Resumes : resume'[u] # None => Waits(resume'[u], run'),
         stored' # None => accepted(stored')
  PROVE  ReplayInv'
<1>1. Nodes' = Nodes
  BY DEF Nodes
<1>2. \A n : incoming(n)' = incoming(n)
  BY DEF incoming
<1>3. \A t : ofType(t)' = ofType(t)
  BY <1>1 DEF ofType
<1>4. root' = root
  BY <1>3 DEF root
<1>5. admissible' = admissible
  BY <1>1 DEF admissible, avoids, ofType, incoming, root
<1>6. \A s, n : active(s, n)' = active(s, n)
  BY <1>2 DEF active
<1>7. \A s, n : (skipped(s, n)' <=> skipped(s, n)) /\ dataOf(s, n)' = dataOf(s, n)
  <2>1. \A s, n : skipped(s, n)' <=> skipped(s, n)
    BY <1>2, <1>6 DEF skipped
  <2>2. ASSUME NEW s, NEW n
        PROVE  dataOf(s, n)' = dataOf(s, n)
    <3>1. (CHOOSE e \in active(s, n) : TRUE)' = (CHOOSE e \in active(s, n) : TRUE)
      BY Zenon, <1>6
    <3> QED
      BY <1>6, <3>1 DEF dataOf
  <2> QED
    BY <2>1, <2>2
<1>8. \A s, n : computed(s, n)' = computed(s, n) /\ chosen(s, n)' = chosen(s, n)
  BY <1>7 DEF computed, chosen
<1>9. \A s, n : visitable(s, n)' <=> visitable(s, n)
  BY <1>6, <1>7 DEF visitable
<1>10. blank' = blank
  BY <1>1 DEF blank
<1>11. \A s, n : (Passed(s, n)' <=> Passed(s, n)) /\ (Ahead(s, n)' <=> Ahead(s, n))
  BY <1>7, <1>8, <1>9 DEF Passed, Ahead, untouched, approvedByOther
<1>12. \A s, k : Taken(s, k)' = Taken(s, k)
  BY <1>1, <1>7 DEF Taken
<1>13. \A s : (Returned(s)' <=> Returned(s)) /\ (Inside(s)' <=> Inside(s))
  BY <1>1, <1>3, <1>7, <1>9 DEF Returned, Inside
<1>14. \A s : Replays(s)' <=> Replays(s)
  BY <1>1, <1>7, <1>11, <1>12, <1>13 DEF Replays, untouched
<1>15. \A c, n : validNode(c, n)' <=> validNode(c, n)
  BY <1>7, <1>8, <1>9 DEF validNode, untouched, approvedByOther
<1>16. \A c : {n \in Nodes : countsAsStep(c, n)}' = {n \in Nodes : countsAsStep(c, n)}
  BY <1>1, <1>7 DEF countsAsStep
<1>17. \A c : accepted(c)' <=> accepted(c)
  BY <1>1, <1>5, <1>15, <1>16 DEF accepted
<1>18. (\A r \in Runs : run[r].at \in Live => Replays(run[r]))'
  BY <1>14
<1>19. PausesRestore'
  BY <1>17 DEF PausesRestore
<1> QED
  BY <1>10, <1>18, <1>19 DEF ReplayInv, Waits

(* One run moves that was not waiting at a gate.                           *)
LEMMA OneRunReplays ==
  ASSUME EngineInv, ReplayInv, run' \in [Runs -> States], elsewhere,
         NEW r \in Runs, run' = [run EXCEPT ![r] = run'[r]],
         run[r].at # "paused", run'[r].at # "new", run[r].index <= run'[r].index,
         run'[r].at \in Live => Replays(run'[r])
  PROVE  ReplayInv'
<1>1. /\ run \in [Runs -> States] /\ \A q \in Runs : q # r => run'[q] = run[q]
      /\ UNCHANGED <<g, resume, stored>>
  BY InvParts DEF elsewhere
<1>2. ASSUME NEW u \in Resumes, resume[u] # None
      PROVE  Waits(resume[u], run')
  <2>. DEFINE q == resume[u]
  <2>1. Waits(q, run) /\ q \in Asked
    BY <1>2, InvParts DEF ReplayInv
  <2>2. CASE q.run # r
    BY <1>1, <2>1, <2>2 DEF Waits, Asked
  <2>3. CASE q.run = r
    <3>1. q.node \in Nat /\ run[r].index \in Nat /\ run'[r].index \in Nat
      BY <1>1, <2>1, InvParts, GraphFacts DEF Asked, ofType, States
    <3> QED
      BY <2>1, <2>3, <3>1 DEF Waits
  <2> QED
    BY <2>2, <2>3
<1>3. stored' # None => accepted(stored')
  BY <1>1 DEF ReplayInv, PausesRestore
<1>4. \A q \in Runs : run'[q].at = "new" => run'[q] = blank
  BY <1>1 DEF ReplayInv
<1>5. \A q \in Runs : run'[q].at \in Live => Replays(run'[q])
  BY <1>1 DEF ReplayInv
<1> QED
  BY <1>1, <1>2, <1>3, <1>4, <1>5, ReplayAfter

\* A node that gets its value is passed.
LEMMA VisitedReplays ==
  ASSUME g \in Graphs, NEW s \in States, Replays(s), s.at \in {"advance", "calling"}, NEW n \in Nodes, s.index = n,
         ~skipped(s, n), visitable(s, n), g.type[n] # "approval", NEW value \in Data,
         g.type[n] # "adapter" => value = computed(s, n),
         NEW k, k = s.steps + (IF s.at = "advance" THEN 1 ELSE 0),
         NEW t \in States, t = visited([s EXCEPT !.steps = k], n, value)
  PROVE  Replays(t) /\ t.at = "advance" /\ t.index = n + 1
<1>1. LET b == [s EXCEPT !.steps = k]
      IN dataOf(b, n) = dataOf(s, n) /\ chosen(b, n) = chosen(s, n)
  <2>. DEFINE b == [s EXCEPT !.steps = k]
  <2>1. b.seed = s.seed /\ b.values = s.values /\ b.branches = s.branches
    BY DEF States
  <2>. HIDE DEF b
  <2>2. dataOf(b, n) = dataOf(s, n) /\ chosen(b, n) = chosen(s, n)
    BY <2>1, BeforeDecides
  <2> QED
    BY <2>2 DEF b
<1>2. /\ t.values = [s.values EXCEPT ![n] = value] /\ t.branches = [s.branches EXCEPT ![n] = chosen(s, n)]
      /\ t.trace = [s.trace EXCEPT ![n] = "completed"] /\ t.index = n + 1 /\ t.at = "advance"
      /\ t.human = s.human /\ t.steps = k /\ t.seed = s.seed
      /\ t.output = IF g.type[n] = "output" THEN dataOf(s, n) ELSE s.output
  BY <1>1 DEF visited, States
<1>3. \A m \in Nodes \ {n} : /\ t.values[m] = s.values[m] /\ t.branches[m] = s.branches[m]
                             /\ t.trace[m] = s.trace[m] /\ t.human[m] = s.human[m]
  BY <1>2 DEF States
<1>4. t.values[n] = value /\ t.branches[n] = chosen(s, n) /\ t.trace[n] = "completed" /\ t.human[n] = s.human[n]
  BY <1>2 DEF States
<1>5. /\ skipped(t, n) <=> skipped(s, n)
      /\ computed(t, n) = computed(s, n) /\ chosen(t, n) = chosen(s, n)
      /\ visitable(t, n) <=> visitable(s, n)
  <2>1. \A m \in Nodes : m < n => t.values[m] = s.values[m] /\ t.branches[m] = s.branches[m]
    BY <1>3, GraphFacts
  <2> QED
    BY <1>2, <2>1, BeforeDecides
<1>6. Passed(t, n)
  <2>1. untouched(s, n) /\ value # None
    BY WorkflowAssumption DEF Replays
  <2> QED
    BY <1>4, <1>5, <2>1 DEF Passed, untouched, approvedByOther
<1>7. Returned(t)
  <2>1. CASE g.type[n] = "output"
    BY <1>4, <2>1 DEF Returned, ofType
  <2>2. CASE g.type[n] # "output"
    <3>1. ASSUME t.output # None
          PROVE  \E out \in ofType("output") : t.trace[out] = "completed"
      <4>1. PICK out \in ofType("output") : s.trace[out] = "completed"
        BY <1>2, <2>2, <3>1 DEF Replays, Returned
      <4>2. out \in Nodes \ {n}
        BY <2>2 DEF ofType
      <4> QED
        BY <1>3, <4>1, <4>2
    <3> QED
      BY <3>1 DEF Returned
  <2> QED
    BY <2>1, <2>2
<1>8. t.steps = s.steps + (IF s.at = "advance" /\ ~skipped(s, n) THEN 1 ELSE 0)
  BY <1>2
<1> QED
  BY <1>2, <1>3, <1>6, <1>7, <1>8, GoesOn

\* What a run does by itself leaves it replayable.
LEMMA AdvanceReplays ==
  ASSUME EngineInv, ReplayInv, run' \in [Runs -> States], NEW r \in Runs,
         start(r) \/ skip(r) \/ refuse(r) \/ compute(r) \/ call(r) \/ pause(r) \/ complete(r)
  PROVE  ReplayInv'
<1>. DEFINE s == run[r]
            t == run'[r]
            n == s.index
<1>0. g \in Graphs /\ run \in [Runs -> States] /\ s \in States /\ t \in States /\ n \in Nat /\ elsewhere
      /\ n <= n /\ n <= n + 1
  <2>1. elsewhere
    BY DEF start, skip, refuse, compute, call, pause, complete
  <2>2. g \in Graphs /\ run \in [Runs -> States] /\ s \in States /\ t \in States
    BY InvParts
  <2>3. n \in Nat
    BY <2>2 DEF States
  <2> QED
    BY <2>1, <2>2, <2>3
<1>1. s.at = "advance" => Replays(s)
  BY DEF ReplayInv, Live
<1>2. CASE start(r)
  <2>1. PICK d \in Data : run' = [run EXCEPT ![r] = [s EXCEPT !.seed = d, !.at = IF admissible THEN "advance" ELSE "blocked"]]
    BY <1>2 DEF start, to
  <2>2. s = blank /\ s.at = "new"
    BY <1>2 DEF start, ReplayInv
  <2>3. t = [blank EXCEPT !.seed = d, !.at = IF admissible THEN "advance" ELSE "blocked"]
    BY <1>0, <2>1, <2>2
  <2>4. t.index = n /\ t.at = IF admissible THEN "advance" ELSE "blocked"
    BY <2>2, <2>3 DEF blank
  <2>5. t.at \in Live => Replays(t)
    <3>1. CASE admissible
      BY <1>0, <2>3, <3>1, StartedReplays
    <3>2. CASE ~admissible
      BY <2>4, <3>2 DEF Live
    <3> QED
      BY <3>1, <3>2
  <2>6. run' = [run EXCEPT ![r] = t]
    BY <1>0, <2>1
  <2> QED
    BY <1>0, <2>2, <2>4, <2>5, <2>6, OneRunReplays
<1>3. CASE refuse(r) \/ complete(r)
  <2>1. s.at = "advance" /\ \/ run' = [run EXCEPT ![r] = [s EXCEPT !.at = "blocked", !.steps = @ + 1]]
                            \/ run' = [run EXCEPT ![r] = [s EXCEPT !.at = "completed"]]
    BY <1>3 DEF refuse, complete, to
  <2>2. (t = [s EXCEPT !.at = "blocked", !.steps = @ + 1] \/ t = [s EXCEPT !.at = "completed"])
        /\ run' = [run EXCEPT ![r] = t]
    BY <1>0, <2>1
  <2>3. t.index = n /\ t.at \in {"blocked", "completed"}
    BY <1>0, <2>2 DEF States
  <2> QED
    BY <1>0, <2>1, <2>2, <2>3, OneRunReplays DEF Live
<1>4. CASE skip(r)
  <2>1. /\ s.at = "advance" /\ n \in Nodes /\ skipped(s, n)
        /\ run' = [run EXCEPT ![r] = [s EXCEPT !.trace[n] = "skipped", !.index = @ + 1]]
    BY <1>4 DEF skip, here, to
  <2>2. /\ t.values = s.values /\ t.branches = s.branches /\ t.human = s.human /\ t.index = n + 1
        /\ t.trace = [s.trace EXCEPT ![n] = "skipped"] /\ t.at = "advance" /\ t.seed = s.seed
        /\ t.steps = s.steps /\ t.output = s.output /\ run' = [run EXCEPT ![r] = t]
    BY <1>0, <2>1 DEF States
  <2>3. t.trace[n] = "skipped" /\ \A m \in Nodes \ {n} : t.trace[m] = s.trace[m]
    BY <1>0, <2>1, <2>2 DEF States
  <2>4. skipped(t, n)
    BY <1>0, <2>1, <2>2, BeforeDecides
  <2>5. Passed(t, n)
    BY <1>1, <2>1, <2>2, <2>3, <2>4 DEF Passed, Replays, untouched
  <2>6. Returned(t)
    <3>1. ASSUME t.output # None
          PROVE  \E out \in ofType("output") : t.trace[out] = "completed"
      <4>1. PICK out \in ofType("output") : s.trace[out] = "completed"
        BY <1>1, <2>1, <2>2, <3>1 DEF Replays, Returned
      <4>2. out \in Nodes \ {n}
        BY <1>1, <2>1, <4>1, WorkflowAssumption DEF Replays, ofType
      <4> QED
        BY <2>3, <4>1, <4>2
    <3> QED
      BY <3>1 DEF Returned
  <2>7. t.steps = s.steps + (IF s.at = "advance" /\ ~skipped(s, n) THEN 1 ELSE 0)
    BY <1>0, <2>1, <2>2 DEF States
  <2>. HIDE DEF t, s, n
  <2>8. Replays(t)
    BY <1>0, <1>1, <2>1, <2>2, <2>3, <2>5, <2>6, <2>7, GoesOn DEF n
  <2> QED
    BY <1>0, <2>1, <2>2, <2>8, OneRunReplays DEF t, s, n
<1>5. CASE compute(r)
  <2>1. /\ s.at = "advance" /\ n \in Nodes /\ ~skipped(s, n) /\ visitable(s, n)
        /\ g.type[n] \in {"manual", "set", "branch", "output"}
        /\ run' = [run EXCEPT ![r] = visited([s EXCEPT !.steps = @ + 1], n, computed(s, n))]
    BY <1>5 DEF compute, enters, here, to
  <2>2. t = visited([s EXCEPT !.steps = s.steps + 1], n, computed(s, n)) /\ run' = [run EXCEPT ![r] = t]
    BY <1>0, <2>1
  <2>3. computed(s, n) \in Data
    BY <1>0, <2>1, DataTyped DEF visitable, Values
  <2>. HIDE DEF t, s, n
  <2>4. Replays(t) /\ t.at = "advance" /\ t.index = n + 1
    BY <1>0, <1>1, <2>1, <2>2, <2>3, VisitedReplays DEF n
  <2> QED
    BY <1>0, <2>1, <2>2, <2>4, OneRunReplays DEF t, s, n
<1>6. CASE call(r)
  <2>1. /\ s.at = "advance" /\ n \in Nodes /\ ~skipped(s, n) /\ visitable(s, n)
        /\ run' = [run EXCEPT ![r] = [s EXCEPT !.at = "calling", !.steps = @ + 1, !.calls[n] = @ + 1]]
    BY <1>6 DEF call, enters, here, to
  <2>2. /\ t.values = s.values /\ t.branches = s.branches /\ t.human = s.human /\ t.index = n
        /\ t.trace = s.trace /\ t.at = "calling" /\ t.seed = s.seed
        /\ t.steps = s.steps + 1 /\ t.output = s.output /\ run' = [run EXCEPT ![r] = t]
    BY <1>0, <2>1 DEF States
  <2>. HIDE DEF t, s, n
  <2>3. Replays(t)
    BY <1>0, <1>1, <2>1, <2>2, StaysInside DEF n
  <2> QED
    BY <1>0, <2>1, <2>2, <2>3, OneRunReplays DEF t, s, n
<1>7. CASE pause(r)
  <2>1. /\ s.at = "advance" /\ n \in Nodes /\ ~skipped(s, n) /\ visitable(s, n)
        /\ run' = [run EXCEPT ![r] = [s EXCEPT !.at = "paused", !.steps = @ + 1, !.trace[n] = "paused",
                                               !.pending = dataOf(s, n)]]
    BY <1>7 DEF pause, enters, here, to
  <2>2. /\ t.values = s.values /\ t.branches = s.branches /\ t.human = s.human /\ t.index = n
        /\ t.trace = [s.trace EXCEPT ![n] = "paused"] /\ t.at = "paused" /\ t.seed = s.seed
        /\ t.pending = dataOf(s, n)
        /\ t.steps = s.steps + 1 /\ t.output = s.output /\ run' = [run EXCEPT ![r] = t]
    BY <1>0, <2>1 DEF States
  <2>3. t.trace[n] = "paused" /\ \A m \in Nodes \ {n} : t.trace[m] = s.trace[m]
    BY <1>0, <2>1, <2>2 DEF States
  <2>. HIDE DEF t, s, n
  <2>4. Replays(t)
    BY <1>0, <1>1, <2>1, <2>2, <2>3, StaysInside DEF n
  <2> QED
    BY <1>0, <2>1, <2>2, <2>4, OneRunReplays DEF t, s, n
<1> QED
  BY <1>2, <1>3, <1>4, <1>5, <1>6, <1>7

\* The end of an adapter call leaves the run replayable, or ends it.
LEMMA AnswerReplays ==
  ASSUME EngineInv, ReplayInv, run' \in [Runs -> States], NEW r \in Runs, answer(r) \/ fail(r)
  PROVE  ReplayInv'
<1>. DEFINE s == run[r]
            t == run'[r]
            n == s.index
<1>0. /\ g \in Graphs /\ run \in [Runs -> States] /\ s \in States /\ t \in States
      /\ elsewhere /\ s.at = "calling"
  BY InvParts DEF answer, fail
<1>1. n \in Nat /\ n <= n /\ n <= n + 1
  BY <1>0 DEF States
<1>2. Replays(s) /\ Inside(s) /\ n \in Nodes /\ ~skipped(s, n) /\ visitable(s, n) /\ g.type[n] = "adapter"
  BY <1>0 DEF ReplayInv, Live, Replays, Inside, EngineInv, Good, AtCall
<1>3. CASE answer(r)
  <2>1. PICK value \in Data : run' = [run EXCEPT ![r] = visited(s, n, value)]
    BY <1>3 DEF answer, here, to
  <2>2. t = visited(s, n, value) /\ run' = [run EXCEPT ![r] = t]
    BY <1>0, <2>1
  <2>3. s = [s EXCEPT !.steps = s.steps] /\ s.steps = s.steps + 0
    BY <1>0 DEF States
  <2>. HIDE DEF t, s, n
  <2>4. Replays(t) /\ t.at = "advance" /\ t.index = n + 1
    BY <1>0, <1>2, <2>2, <2>3, VisitedReplays DEF n
  <2> QED
    BY <1>0, <1>1, <2>2, <2>4, OneRunReplays DEF t, s, n
<1>4. CASE fail(r)
  <2>1. t = [s EXCEPT !.at = "blocked"] /\ run' = [run EXCEPT ![r] = t]
    BY <1>0, <1>4 DEF fail, failed, to
  <2>2. t.index = n /\ t.at = "blocked"
    BY <1>0, <2>1 DEF States
  <2> QED
    BY <1>0, <1>1, <2>1, <2>2, OneRunReplays DEF Live
<1> QED
  BY <1>3, <1>4

\* A resume reads the gate and the data it will be authorized for.
LEMMA AskReplays ==
  ASSUME EngineInv, ReplayInv, NEW u \in Resumes, ask(u) \/ notAuthorized(u)
  PROVE  ReplayInv'
<1>1. UNCHANGED <<g, run, stored>>
  BY DEF ask, notAuthorized, quiet
<1>2. ASSUME NEW v \in Resumes, resume'[v] # None
      PROVE  Waits(resume'[v], run')
  <2>1. CASE notAuthorized(u)
    <3>1. resume'[v] = resume[v]
      BY <1>2, <2>1, InvParts DEF notAuthorized
    <3> QED
      BY <1>1, <1>2, <3>1 DEF ReplayInv
  <2>2. CASE ask(u)
    <3>1. PICK p \in pauses, name \in People \ {Initiator} :
            resume' = [resume EXCEPT ![u] = [run |-> p[1], node |-> p[2], name |-> name, data |-> run[p[1]].pending]]
      BY <2>2 DEF ask
    <3>2. run[p[1]].at = "paused" /\ run[p[1]].index = p[2] /\ p[2] \in Nat
      BY InvParts, GraphFacts DEF PauseOK, ofType
    <3>. DEFINE q == [run |-> p[1], node |-> p[2], name |-> name, data |-> run[p[1]].pending]
    <3>3. Waits(q, run)
      BY <3>2 DEF Waits
    <3>4. resume' = [resume EXCEPT ![u] = q]
      BY <3>1
    <3>. HIDE DEF q
    <3>5. resume'[v] = IF v = u THEN q ELSE resume[v]
      BY <3>4, InvParts
    <3> QED
      BY <1>1, <1>2, <3>3, <3>5 DEF ReplayInv
  <2> QED
    BY <2>1, <2>2
<1>3. stored' # None => accepted(stored')
  BY <1>1 DEF ReplayInv, PausesRestore
<1> QED
  BY <1>1, <1>2, <1>3, ReplayAfter DEF ReplayInv

\* What an authorized resume leaves in its run is what the gate was given.
LEMMA AuthorizedReplays ==
  ASSUME EngineInv, ReplayInv, run' \in [Runs -> States], NEW u \in Resumes, authorized(u)
  PROVE  ReplayInv'
<1>. DEFINE q == resume[u]
            r == q.run
            s == run[r]
            t == run'[r]
            n == q.node
<1>1. /\ q \in Asked /\ UNCHANGED <<g, stored>> /\ resume' = [resume EXCEPT ![u] = None]
      /\ Waits(q, run) /\ r \in Runs /\ s \in States /\ g \in Graphs /\ t \in States
  BY InvParts DEF authorized, quiet, Asked, ReplayInv
<1>2. n \in Nodes /\ n \in Nat /\ s.index \in Nat /\ g.type[n] = "approval"
  BY <1>1, GraphFacts DEF Asked, ofType, States
<1>3. \A v \in Resumes : resume'[v] # None => resume'[v] = resume[v] /\ v # u
  BY <1>1, InvParts
<1>4. stored' # None => accepted(stored')
  BY <1>1 DEF ReplayInv, PausesRestore
<1>5. CASE UNCHANGED <<run, pauses>>
  <2>1. \A v \in Resumes : resume'[v] # None => Waits(resume'[v], run')
    BY <1>3, <1>5 DEF ReplayInv
  <2> QED
    BY <1>1, <1>4, <1>5, <2>1, ReplayAfter DEF ReplayInv
<1>6. CASE <<r, n>> \in pauses
  <2>1. run' = [run EXCEPT ![r] = approved(s, n, q.data, q.name)]
    BY <1>6 DEF authorized, pauseOf, to
  <2>2. s.at = "paused" /\ s.index = n
    BY <1>6, InvParts DEF PauseOK
  <2>3. Replays(s) /\ s.pending = q.data
    BY <1>1, <2>2 DEF ReplayInv, Live, Waits
  <2>4. /\ t = approved(s, n, q.data, q.name)
        /\ \A x \in Runs \ {r} : run'[x] = run[x]
    BY <1>1, <2>1, InvParts
  <2>. HIDE DEF t, s, n, q
  <2>5. /\ t.at = "advance" /\ t.index = n + 1 /\ t.seed = s.seed /\ t.branches = s.branches
        /\ t.values = [s.values EXCEPT ![n] = q.data] /\ t.trace = [s.trace EXCEPT ![n] = "completed"]
        /\ t.human = [s.human EXCEPT ![n] = q.name] /\ t.steps = s.steps /\ t.output = s.output
    BY <1>1, <2>2, <2>4 DEF approved, States
  <2>6. /\ t.values[n] = q.data /\ t.trace[n] = "completed" /\ t.human[n] = q.name
        /\ \A m \in Nodes \ {n} : /\ t.values[m] = s.values[m] /\ t.trace[m] = s.trace[m]
                                  /\ t.human[m] = s.human[m]
    BY <1>1, <1>2, <2>5 DEF States
  <2>7. /\ untouched(s, n) /\ ~skipped(s, n) /\ visitable(s, n) /\ s.pending = dataOf(s, n)
        /\ q.data \in Data /\ q.name \in People \ {Initiator}
    BY <1>1, <1>2, <2>2, <2>3 DEF Replays, Inside, Asked
  <2>8. /\ skipped(t, n) <=> skipped(s, n)
        /\ dataOf(t, n) = dataOf(s, n) /\ (visitable(t, n) <=> visitable(s, n))
    <3>1. \A m \in Nodes : m < n => t.values[m] = s.values[m] /\ t.branches[m] = s.branches[m]
      BY <1>2, <2>5, <2>6, GraphFacts
    <3>2. t.seed = s.seed /\ g \in Graphs /\ n \in Nodes
      BY <1>1, <1>2, <2>5
    <3> QED
      BY <3>1, <3>2, BeforeDecides
  <2>9. Passed(t, n)
    <3>1. computed(t, n) = dataOf(t, n) /\ chosen(t, n) = None
      BY <1>2 DEF computed, chosen
    <3>2. q.data # None /\ q.name # None
      BY <2>7, WorkflowAssumption
    <3> QED
      BY <1>2, <2>3, <2>5, <2>6, <2>7, <2>8, <3>1, <3>2 DEF Passed, untouched, approvedByOther
  <2>10. Returned(t)
    BY <2>3, <2>5, <1>2, <2>6 DEF Returned, Replays, ofType
  <2>11. t.steps = s.steps + (IF s.at = "advance" /\ ~skipped(s, n) THEN 1 ELSE 0)
    BY <1>1, <2>2, <2>5 DEF States
  <2>12. Replays(t)
    BY <1>1, <1>2, <2>2, <2>3, <2>5, <2>6, <2>9, <2>10, <2>11, GoesOn
  <2>13. ASSUME NEW v \in Resumes, resume'[v] # None
         PROVE  Waits(resume'[v], run')
    <3>1. resume'[v] = resume[v] /\ Waits(resume[v], run) /\ resume[v] \in Asked
      BY <1>3, <2>13, InvParts DEF ReplayInv
    <3>2. CASE resume[v].run # r
      BY <2>4, <3>1, <3>2 DEF Waits, Asked
    <3>3. CASE resume[v].run = r
      <4>1. resume[v].node <= n /\ resume[v].node \in Nat
        BY <2>2, <3>1, <3>3, GraphFacts, <1>1 DEF Waits, Asked, ofType, s
      <4>2. resume[v].node <= n + 1 /\ resume[v].node # n + 1
        BY <1>2, <4>1
      <4> QED
        BY <2>5, <3>1, <3>3, <4>2 DEF Waits, t
    <3> QED
      BY <3>2, <3>3
  <2>14. \A x \in Runs : run'[x].at = "new" => run'[x] = blank
    BY <2>4, <2>5 DEF ReplayInv, t
  <2>15. \A x \in Runs : run'[x].at \in Live => Replays(run'[x])
    BY <2>4, <2>12 DEF ReplayInv, t
  <2> QED
    BY <1>1, <1>4, <2>13, <2>14, <2>15, ReplayAfter
<1> QED
  BY <1>5, <1>6 DEF authorized, pauseOf

\* A checkpoint is one that the validator accepts.
LEMMA CheckpointReplays ==
  ASSUME EngineInv, ReplayInv, NEW r \in Runs, checkpoint(r)
  PROVE  ReplayInv'
<1>1. /\ PauseOK(<<r, run[r].index>>, run) /\ stored' = [run[r] EXCEPT !.at = "new"]
      /\ UNCHANGED <<g, run, resume>>
  BY InvParts DEF checkpoint, here, quiet
<1>2. run[r] \in States /\ Good(run[r], granted) /\ Replays(run[r]) /\ run[r].at = "paused" /\ g \in Graphs
  BY <1>1, InvParts DEF EngineInv, ReplayInv, PauseOK, Live
<1>3. accepted(stored')
  BY <1>1, <1>2, PausedAccepted
<1> QED
  BY <1>1, <1>3, ReplayAfter DEF ReplayInv

\* A run that is restored stands where the accepted checkpoint says.
LEMMA RestoreReplays ==
  ASSUME EngineInv, ReplayInv, run' \in [Runs -> States], NEW r \in Runs, restore(r)
  PROVE  ReplayInv'
<1>1. PICK c \in {stored} \cup damaged(stored) :
        /\ accepted(c)
        /\ run' = [run EXCEPT ![r] = [c EXCEPT !.at = "paused", !.exact = @ /\ c = stored]]
  BY DEF restore, to
<1>. DEFINE t == run'[r]
<1>2. /\ stored # None /\ run[r].at = "new" /\ UNCHANGED <<g, stored, resume>>
      /\ g \in Graphs /\ run \in [Runs -> States] /\ t \in States
  BY InvParts DEF restore, quiet
<1>3. c \in States
  BY <1>1, <1>2, DamagedTyped DEF EngineInv, Kept
<1>4. t = [c EXCEPT !.at = "paused", !.exact = @ /\ c = stored]
  BY <1>1, <1>2
<1>5. /\ t.at = "paused" /\ t.index = c.index /\ t.values = c.values /\ t.branches = c.branches
      /\ t.trace = c.trace /\ t.human = c.human /\ t.seed = c.seed /\ t.steps = c.steps
      /\ t.output = c.output /\ t.pending = c.pending
  BY <1>3, <1>4 DEF States
<1>. HIDE DEF t
<1>6. Replays(t)
  BY <1>1, <1>2, <1>3, <1>5, AcceptedReplays
<1>7. run[r] = blank /\ run[r].index = 1 /\ elsewhere /\ run' = [run EXCEPT ![r] = t]
  BY <1>1, <1>2, <1>4 DEF ReplayInv, blank, restore, quiet, elsewhere
<1>8. 1 <= t.index
  BY <1>1, <1>2, <1>5, GraphFacts DEF accepted
<1> QED
  BY <1>2, <1>5, <1>6, <1>7, <1>8, OneRunReplays DEF t

\* A restart ends what the process was at.
LEMMA RestartReplays ==
  ASSUME EngineInv, ReplayInv, restart
  PROVE  ReplayInv'
<1>1. /\ run' = [r \in Runs |-> IF run[r].at \in {"calling", "paused"} THEN [run[r] EXCEPT !.at = "lost"] ELSE run[r]]
      /\ \A u \in Resumes : resume'[u] = None
      /\ UNCHANGED <<g, stored>>
  BY DEF restart
<1>2. \A r \in Runs : run'[r] = run[r] \/ run'[r].at = "lost"
  BY <1>1, InvParts DEF States
<1>3. stored' # None => accepted(stored')
  BY <1>1 DEF ReplayInv, PausesRestore
<1> QED
  BY <1>1, <1>2, <1>3, ReplayAfter DEF ReplayInv, Live

\* Every step keeps the runs replayable.
LEMMA ReplayNext ==
  ASSUME EngineInv, EngineInv', ReplayInv, [Next]_vars
  PROVE  ReplayInv'
<1>1. CASE UNCHANGED vars
  <2>1. stored' # None => accepted(stored')
    BY <1>1 DEF vars, ReplayInv, PausesRestore
  <2> QED
    BY <1>1, <2>1, ReplayAfter DEF vars, ReplayInv
<1>2. CASE Next
  <2>1. g' = g
    BY <1>2 DEF Next, start, skip, refuse, compute, call, answer, fail, pause, complete, checkpoint, restore,
                ask, authorized, notAuthorized, restart, elsewhere, quiet
  <2>2. States' = States
    BY <2>1 DEF States, Nodes
  <2>3. run' \in [Runs -> States]
    BY <2>2 DEF EngineInv, TypeOK
  <2> QED
    BY <1>2, <2>3, AdvanceReplays, AnswerReplays, AskReplays, AuthorizedReplays, CheckpointReplays,
       RestoreReplays, RestartReplays DEF Next
<1> QED
  BY <1>1, <1>2

(* Whatever the engine writes out its validator takes back: for every      *)
(* graph, with its skipped nodes, conditions and answers, and after any    *)
(* number of restores, also of checkpoints that were damaged and accepted. *)
THEOREM CheckpointsRestore == Spec => []PausesRestore
<1>1. Init => ReplayInv
  BY DEF Init, ReplayInv, PausesRestore, blank, Live
<1>2. EngineInv /\ EngineInv' /\ ReplayInv /\ [Next]_vars => ReplayInv'
  BY ReplayNext
<1>3. ReplayInv => PausesRestore
  BY DEF ReplayInv
<1> QED
  BY <1>1, <1>2, <1>3, EngineInvariant, PTL DEF Spec
=============================================================================
