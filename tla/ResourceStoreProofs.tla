-------------------------- MODULE ResourceStoreProofs --------------------------
(***************************************************************************)
(* For any number of clients, persons, definitions, revisions, failures    *)
(* and crashes: the resource store implements ResourceHistory.             *)
(*                                                                         *)
(* The step that maps to the history's change is the move of the head.     *)
(* It needs to know that the head is still where the caller read it under  *)
(* the lock, and that the file beside it holds what the caller wrote: only *)
(* one call at a time is between opening a file and moving the head,       *)
(* because it holds the lock, or because it is the only proposal of the    *)
(* resource and nothing can be changed before it has moved the head.       *)
(***************************************************************************)
EXTENDS ResourceStore, SequenceTheorems, TLAPS

Reading == {"head", "file", "source"}
Writing == {"open", "write", "move"}

\* One changed value leaves a function of its type.
LEMMA ExceptTyped ==
  ASSUME NEW S, NEW T, NEW f \in [S -> T], NEW x, NEW y \in T
  PROVE  [f EXCEPT ![x] = y] \in [S -> T]
OBVIOUS

\* Every change a step makes to a call leaves it a call.
LEMMA CallsClosed ==
  /\ \A q \in Calls, s \in Steps : [q EXCEPT !.step = s] \in Calls
  /\ \A q \in Calls, s \in Steps, a \in Afters : [q EXCEPT !.step = s, !.after = a] \in Calls
  /\ \A q \in Calls, s \in Steps, n \in 0 .. MaxRevision : [q EXCEPT !.step = s, !.seen = n] \in Calls
  /\ \A q \in Calls, s \in Steps, n \in 0 .. MaxRevision : [q EXCEPT !.step = s, !.landed = n] \in Calls
  /\ \A q \in Calls, s \in Steps, r \in {None} \cup Records : [q EXCEPT !.step = s, !.read = r] \in Calls
  /\ \A q \in Calls, s \in Steps, a \in Afters, r \in {None} \cup Records :
       [q EXCEPT !.step = s, !.after = a, !.read = r] \in Calls
  /\ \A q \in Calls, s \in Steps, r \in {None} \cup Records, t \in {None} \cup Records :
       [q EXCEPT !.step = s, !.record = t, !.read = r] \in Calls
<1>. USE DEF Calls
<1>1. \A q \in Calls, s \in Steps : [q EXCEPT !.step = s] \in Calls
  BY Zenon
<1>2. \A q \in Calls, s \in Steps, a \in Afters : [q EXCEPT !.step = s, !.after = a] \in Calls
  BY Zenon
<1>3. \A q \in Calls, s \in Steps, n \in 0 .. MaxRevision : [q EXCEPT !.step = s, !.seen = n] \in Calls
  BY Zenon
<1>4. \A q \in Calls, s \in Steps, n \in 0 .. MaxRevision : [q EXCEPT !.step = s, !.landed = n] \in Calls
  BY Zenon
<1>5. \A q \in Calls, s \in Steps, r \in {None} \cup Records : [q EXCEPT !.step = s, !.read = r] \in Calls
  BY Zenon
<1>6. \A q \in Calls, s \in Steps, a \in Afters, r \in {None} \cup Records :
       [q EXCEPT !.step = s, !.after = a, !.read = r] \in Calls
  BY Zenon
<1>7. \A q \in Calls, s \in Steps, r \in {None} \cup Records, t \in {None} \cup Records :
       [q EXCEPT !.step = s, !.record = t, !.read = r] \in Calls
  BY Zenon
<1> QED
  BY <1>1, <1>2, <1>3, <1>4, <1>5, <1>6, <1>7

-----------------------------------------------------------------------------
(* What is known of a call q, wherever it is.                              *)

numberOf(q) == IF q.request.kind = "propose" THEN 1 ELSE q.seen + 1
Holding(q) == q.request.kind # "propose" /\ q.after \in {"write", "compare"}

(* The record a change writes, against the revision the head names.        *)
Right(q) ==
  /\ q.request.kind = "activate" =>
       /\ file[head].state = "draft" /\ file[head].actor # q.request.actor
       /\ q.record = activated(q.request, file[head])
  /\ q.request.kind = "revise" => q.record = drafted(q.request)

ProposeFits(q) ==
  \/ q.step \in Writing /\ q.after = "answer" /\ q.landed = 0 /\ head = 0 /\ q.record = drafted(q.request)
  \/ q.step = "sync" /\ q.after = "answer" /\ q.landed >= 1
  \/ q.step \in Reading /\ q.after = "compare" /\ q.landed >= 1

GetFits(q) == q.step \in Reading /\ q.after = "answer" /\ (q.step # "head" => q.since <= q.seen)

ChangeFits(q) ==
  \/ q.step \in Reading \cup {"lock"} /\ q.after \in {"prepare", "lock"} /\ q.landed = 0
  \/ q.step \in Reading /\ q.after = "write" /\ q.landed = 0 /\ (q.step # "head" => q.seen = head)
  \/ /\ q.step \in Writing /\ q.after = "write" /\ q.landed = 0
     /\ q.seen = head /\ q.seen = q.request.expected /\ head >= 1 /\ Right(q)
  \/ q.step = "sync" /\ q.after = "write" /\ q.landed >= 1
  \/ q.step \in Reading /\ q.after = "compare" /\ q.landed >= 1

Fits(q) ==
  /\ q.since <= head /\ q.landed <= head /\ q.seen <= head
  /\ q.step \in {"file", "source"} => q.seen >= 1
  /\ q.step = "source" => q.read \in Records /\ q.read.state = "active"
  /\ q.step = "move" => file[numberOf(q)] = q.record
  /\ q.request.kind = "propose" => proposed /\ ProposeFits(q)
  /\ q.request.kind = "get" => GetFits(q)
  /\ q.request.kind \in {"revise", "activate"} => ChangeFits(q)

Files == (head > 0 => proposed) /\ \A n \in 1 .. head : file[n] \in Records
AllFit == \A c \in Clients : call[c] # None => Fits(call[c])
Locked == \A c \in Clients : call[c] # None /\ Holding(call[c]) => lock
Alone ==
  \A c, d \in Clients :
    /\ call[c] # None /\ call[d] # None
    /\ \/ Holding(call[c]) /\ Holding(call[d])
       \/ call[c].request.kind = "propose" /\ call[d].request.kind = "propose"
    => c = d

StoreInv == TypeOK /\ Files /\ AllFit /\ Locked /\ Alone

(* Only one call is at its file, and nobody else relies on what follows it. *)
LEMMA OneWriter ==
  ASSUME StoreInv, NEW c \in Clients, NEW d \in Clients, c # d, call[c] # None, call[d] # None,
         call[c].step \in Writing
  PROVE  /\ call[d].step \notin Writing
         /\ call[d].after = "write" => call[d].step \notin {"file", "source"}
<1>1. Fits(call[c]) /\ Fits(call[d]) /\ head \in Nat /\ call[c] \in Calls /\ call[d] \in Calls
  BY DEF StoreInv, AllFit, TypeOK
<1>2. /\ call[c].request.kind \in {"get", "propose", "revise", "activate"} /\ call[c].seen \in Nat
      /\ call[d].request.kind \in {"get", "propose", "revise", "activate"} /\ call[d].seen \in Nat
  BY <1>1 DEF Calls, Requests
<1>3. SUFFICES ASSUME call[d].step \in Writing \/ (call[d].after = "write" /\ call[d].step \in {"file", "source"})
               PROVE  FALSE
  OBVIOUS
<1>4. \/ call[c].request.kind = "propose" /\ head = 0
      \/ Holding(call[c]) /\ head >= 1
  BY <1>1, <1>2 DEF Fits, ProposeFits, GetFits, ChangeFits, Holding, Writing, Reading
<1>5. \/ call[d].request.kind = "propose" /\ head = 0
      \/ Holding(call[d]) /\ head >= 1
  BY <1>1, <1>2, <1>3 DEF Fits, ProposeFits, GetFits, ChangeFits, Holding, Writing, Reading
<1>6. ~(head = 0 /\ head >= 1)
  BY <1>1
<1> QED
  BY <1>4, <1>5, <1>6 DEF StoreInv, Alone

-----------------------------------------------------------------------------
(* A step that leaves the files and the head alone: a call goes on or ends. *)

Ends(c) ==
  /\ call' = [call EXCEPT ![c] = None] /\ lock' \in {lock, lock /\ ~holdsLock(c)}
  /\ \E n \in 0 .. MaxRevision :
       /\ answer' = [answer EXCEPT ![c] = n]
       /\ n # 0 => n <= head /\ IF kind(c) = "get" THEN n >= call[c].since ELSE n = call[c].landed

GoesOn(c, q) ==
  /\ q \in Calls /\ Fits(q) /\ call' = [call EXCEPT ![c] = q] /\ UNCHANGED answer
  /\ q.request = call[c].request /\ q.since = call[c].since /\ q.landed = call[c].landed
  /\ \/ (Holding(q) <=> Holding(call[c])) /\ UNCHANGED lock
     \/ lock = FALSE /\ lock' = TRUE

Quiet(c) ==
  /\ call[c] # None /\ UNCHANGED <<file, head, proposed>>
  /\ failures' \in 0 .. MaxFailures /\ crashes' \in 0 .. MaxCrashes
  /\ Ends(c) \/ \E q \in Calls : GoesOn(c, q)

\* An answer that fits its call ends it as the history does.
LEMMA EndsWith ==
  ASSUME StoreInv, NEW c \in Clients, call[c] # None, NEW n \in 0 .. MaxRevision, finish(c, n),
         n # 0 => n <= head /\ IF kind(c) = "get" THEN n >= call[c].since ELSE n = call[c].landed
  PROVE  Ends(c)
BY DEF finish, Ends

\* A call that fits the files fits them while they do not change.
LEMMA SameFits ==
  ASSUME UNCHANGED <<file, head, proposed>>, NEW q, Fits(q)
  PROVE  Fits(q)'
BY DEF Fits, ProposeFits, GetFits, ChangeFits, Right

\* A step that changes no file keeps the invariant.
LEMMA QuietNext ==
  ASSUME StoreInv, NEW c \in Clients, Quiet(c)
  PROVE  StoreInv'
<1>1. /\ call \in [Clients -> {None} \cup Calls] /\ lock \in BOOLEAN /\ answer \in [Clients -> 0 .. MaxRevision]
      /\ file \in [Numbers -> {None, Partial} \cup Records] /\ head \in 0 .. MaxRevision /\ proposed \in BOOLEAN
      /\ call[c] # None /\ UNCHANGED <<file, head, proposed>>
      /\ failures' \in 0 .. MaxFailures /\ crashes' \in 0 .. MaxCrashes
  BY DEF StoreInv, TypeOK, Quiet
<1>2. Files'
  BY <1>1 DEF StoreInv, Files
<1>3. ASSUME NEW q, call' = [call EXCEPT ![c] = q], q \in {None} \cup Calls, q # None => Fits(q),
             lock' \in BOOLEAN, answer' \in [Clients -> 0 .. MaxRevision]
      PROVE  TypeOK' /\ AllFit' /\ \A d \in Clients : call'[d] = IF d = c THEN q ELSE call[d]
  <2>1. \A d \in Clients : call'[d] = IF d = c THEN q ELSE call[d]
    BY <1>1, <1>3
  <2>2. call' \in [Clients -> {None} \cup Calls]
    BY <1>1, <1>3, ExceptTyped
  <2>3. TypeOK'
    BY <1>1, <1>3, <2>2 DEF TypeOK
  <2>4. AllFit'
    <3>1. SUFFICES ASSUME NEW d \in Clients, NEW r, r = call'[d], r # None
                   PROVE  Fits(r)'
      BY DEF AllFit, Fits, ProposeFits, GetFits, ChangeFits, Right, numberOf
    <3>2. Fits(r)
      BY <1>3, <2>1, <3>1 DEF StoreInv, AllFit
    <3> QED
      BY <1>1, <3>2, SameFits
  <2> QED
    BY <2>1, <2>3, <2>4
<1>4. CASE Ends(c)
  <2>1. /\ call' = [call EXCEPT ![c] = None]
        /\ lock' = lock \/ lock' = (lock /\ ~holdsLock(c))
    BY <1>4 DEF Ends
  <2>2. lock' \in BOOLEAN
    BY <1>1, <2>1, Zenon
  <2>3. answer' \in [Clients -> 0 .. MaxRevision]
    BY <1>1, <1>4 DEF Ends
  <2>4. TypeOK' /\ AllFit' /\ \A d \in Clients : call'[d] = IF d = c THEN None ELSE call[d]
    BY <1>3, <2>1, <2>2, <2>3
  <2>5. holdsLock(c) <=> Holding(call[c])
    BY DEF holdsLock, Holding, kind
  <2>6. Locked'
    <3>1. SUFFICES ASSUME NEW d \in Clients, call'[d] # None, Holding(call[d]), d # c
                   PROVE  lock'
      BY <2>4 DEF Locked, Holding
    <3>2. lock /\ call[d] # None
      BY <2>4, <3>1 DEF StoreInv, Locked
    <3>3. ~holdsLock(c)
      BY <1>1, <2>5, <3>1, <3>2 DEF StoreInv, Alone
    <3> QED
      BY <2>1, <3>2, <3>3
  <2>7. Alone'
    BY <2>4 DEF StoreInv, Alone, Holding
  <2> QED
    BY <1>2, <2>4, <2>6, <2>7 DEF StoreInv
<1>5. CASE \E q \in Calls : GoesOn(c, q)
  <2>1. PICK q \in Calls : GoesOn(c, q)
    BY <1>5
  <2>2. lock' \in BOOLEAN
    BY <1>1, <2>1 DEF GoesOn
  <2>3. TypeOK' /\ AllFit' /\ \A d \in Clients : call'[d] = IF d = c THEN q ELSE call[d]
    BY <1>1, <1>3, <2>1, <2>2 DEF GoesOn
  <2>4. Locked'
    BY <1>1, <2>1, <2>3 DEF StoreInv, Locked, GoesOn, Holding
  <2>5. Alone'
    <3>1. CASE Holding(q) <=> Holding(call[c])
      BY <1>1, <2>1, <2>3, <3>1 DEF StoreInv, Alone, GoesOn, Holding
    <3>2. CASE lock = FALSE
      <4>1. \A d \in Clients : call[d] # None => ~Holding(call[d])
        BY <3>2 DEF StoreInv, Locked
      <4> QED
        BY <1>1, <2>1, <2>3, <4>1 DEF StoreInv, Alone, GoesOn, Holding
    <3> QED
      BY <2>1, <3>1, <3>2 DEF GoesOn
  <2> QED
    BY <1>2, <2>3, <2>4, <2>5 DEF StoreInv
<1> QED
  BY <1>4, <1>5 DEF Quiet

\* What a request asks to write is a record.
LEMMA RequestTyped ==
  ASSUME NEW q \in Requests
  PROVE  /\ q.kind \in {"get", "propose", "revise", "activate"}
         /\ q.kind \in {"propose", "revise"} => drafted(q) \in Records
         /\ q.kind = "activate" => \A r \in Records : activated(q, r) \in Records
         /\ q.kind \in {"revise", "activate"} => q.expected \in 1 .. MaxRevision - 1
<1>1. /\ q.kind \in {"get", "propose", "revise", "activate"}
      /\ q.kind \in {"propose", "revise"} => q.actor \in Actors /\ q.definition \in Definitions
      /\ q.kind = "activate" => q.actor \in Actors
      /\ q.kind \in {"revise", "activate"} => q.expected \in 1 .. MaxRevision - 1
  BY DEF Requests
<1> QED
  BY <1>1 DEF drafted, activated, Records

(* What the invariant says of the call c.                                  *)
LEMMA CallFacts ==
  ASSUME StoreInv, NEW c \in Clients, call[c] # None
  PROVE  /\ call[c] \in Calls /\ Fits(call[c]) /\ call[c].request \in Requests
         /\ call[c].request.kind \in {"get", "propose", "revise", "activate"}
         /\ call[c].seen \in 0 .. MaxRevision /\ call[c].landed \in 0 .. MaxRevision
         /\ call[c].since \in 0 .. MaxRevision /\ call[c].step \in Steps /\ call[c].after \in Afters
         /\ head \in 0 .. MaxRevision /\ lock \in BOOLEAN /\ MaxRevision \in Nat
         /\ failures \in 0 .. MaxFailures /\ crashes \in 0 .. MaxCrashes
<1>1. call[c] \in Calls /\ Fits(call[c])
  BY DEF StoreInv, TypeOK, AllFit
<1>2. call[c].request \in Requests
  BY <1>1 DEF Calls
<1>3. call[c].request.kind \in {"get", "propose", "revise", "activate"}
  BY <1>2, RequestTyped
<1>4. head \in 0 .. MaxRevision /\ lock \in BOOLEAN /\ failures \in 0 .. MaxFailures /\ crashes \in 0 .. MaxCrashes
      /\ MaxRevision \in Nat
  BY ResourceAssumption DEF StoreInv, TypeOK
<1> QED
  BY <1>1, <1>2, <1>3, <1>4 DEF Calls

\* To have read a record changes no file.
LEMMA FoundQuiet ==
  ASSUME StoreInv, NEW c \in Clients, call[c] # None, call[c].step \in {"file", "source"},
         NEW r \in Records, found(c, r), UNCHANGED <<file, head, proposed>>, bounds,
         call[c].step = "file" => r = file[call[c].seen], call[c].step = "source" => r.state = "active"
  PROVE  Quiet(c)
<1>. DEFINE q == call[c]
<1>0. /\ q \in Calls /\ Fits(q) /\ q.request \in Requests
      /\ q.request.kind \in {"get", "propose", "revise", "activate"}
      /\ q.seen \in 0 .. MaxRevision /\ q.landed \in 0 .. MaxRevision
      /\ q.since \in 0 .. MaxRevision /\ head \in 0 .. MaxRevision /\ MaxRevision \in Nat
      /\ failures' \in 0 .. MaxFailures /\ crashes' \in 0 .. MaxCrashes
      /\ kind(c) = q.request.kind /\ q = call[c] /\ q.step \in {"file", "source"}
  BY CallFacts DEF bounds, kind
<1>. HIDE DEF q
<1>1. SUFFICES Ends(c) \/ \E p \in Calls : GoesOn(c, p)
  BY <1>0 DEF Quiet
<1>2. CASE q.after = "answer" /\ finish(c, q.seen)
  <2>1. q.request.kind = "get" /\ q.since <= q.seen /\ q.seen <= head
    BY <1>0, <1>2 DEF Fits, ProposeFits, GetFits, ChangeFits, Writing
  <2> QED
    BY <1>0, <1>2, <2>1, EndsWith
<1>3. CASE q.after = "compare" /\ finish(c, q.landed)
  <2>1. q.request.kind # "get" /\ q.landed <= head
    BY <1>0, <1>3 DEF Fits, GetFits
  <2> QED
    BY <1>0, <1>3, <2>1, EndsWith
<1>4. CASE q.after = "prepare" /\ proceed([call EXCEPT ![c].step = "head", ![c].after = "lock", ![c].read = None])
  <2>. DEFINE p == [q EXCEPT !.step = "head", !.after = "lock", !.read = None]
  <2>1. p \in Calls
    BY <1>0, CallsClosed DEF Steps, Afters
  <2>2. q.request.kind \in {"revise", "activate"} /\ q.landed = 0
    BY <1>0, <1>4 DEF Fits, ProposeFits, GetFits, ChangeFits, Writing
  <2>3. Fits(p)
    BY <1>0, <2>2 DEF Fits, ChangeFits, Reading, Calls
  <2>4. call' = [call EXCEPT ![c] = p] /\ UNCHANGED <<answer, lock>>
    BY <1>0, <1>4 DEF proceed
  <2>5. p.request = q.request /\ p.since = q.since /\ p.landed = q.landed /\ p.after = "lock"
    BY <1>0 DEF Calls
  <2> QED
    BY <1>0, <1>4, <2>1, <2>3, <2>4, <2>5 DEF GoesOn, Holding
<1>5. CASE q.after = "lock" /\ proceed([call EXCEPT ![c].step = "lock", ![c].read = None])
  <2>. DEFINE p == [q EXCEPT !.step = "lock", !.read = None]
  <2>1. p \in Calls
    BY <1>0, CallsClosed DEF Steps, Afters
  <2>2. q.request.kind \in {"revise", "activate"} /\ q.landed = 0
    BY <1>0, <1>5 DEF Fits, ProposeFits, GetFits, ChangeFits, Writing
  <2>3. Fits(p)
    BY <1>0, <1>5, <2>2 DEF Fits, ChangeFits, Reading, Calls
  <2>4. call' = [call EXCEPT ![c] = p] /\ UNCHANGED <<answer, lock>>
    BY <1>0, <1>5 DEF proceed
  <2>5. p.request = q.request /\ p.since = q.since /\ p.landed = q.landed /\ p.after = q.after
    BY <1>0 DEF Calls
  <2> QED
    BY <1>0, <2>1, <2>3, <2>4, <2>5 DEF GoesOn, Holding
<1>6. CASE /\ q.after = "write" /\ asExpected(c) /\ transformable(c, r)
           /\ proceed([call EXCEPT ![c].step = "open", ![c].record = transformed(c, r), ![c].read = None])
  <2>. DEFINE t == transformed(c, r)
  <2>. DEFINE p == [q EXCEPT !.step = "open", !.record = t, !.read = None]
  <2>1. q.request.kind \in {"revise", "activate"} /\ q.landed = 0 /\ q.seen = head /\ q.seen >= 1
        /\ q.seen = q.request.expected
    BY <1>0, <1>6 DEF Fits, ProposeFits, GetFits, ChangeFits, asExpected
  <2>2. t \in Records
    BY <1>0, <2>1, RequestTyped DEF transformed
  <2>3. /\ q.request.kind = "activate" =>
             /\ r = file[head] /\ file[head].state = "draft" /\ file[head].actor # q.request.actor
             /\ t = activated(q.request, file[head])
        /\ q.request.kind = "revise" => t = drafted(q.request)
    BY <1>0, <1>6, <2>1 DEF transformed, transformable
  <2>. HIDE DEF t
  <2>4. p \in Calls
    BY <1>0, <2>2, CallsClosed DEF Steps
  <2>5. p.request = q.request /\ p.since = q.since /\ p.landed = q.landed /\ p.after = q.after
        /\ p.step = "open" /\ p.record = t /\ p.seen = q.seen
    BY <1>0 DEF Calls
  <2>6. call' = [call EXCEPT ![c] = p] /\ UNCHANGED <<answer, lock>>
    BY <1>0, <1>6 DEF proceed, t
  <2>. HIDE DEF p
  <2>7. Fits(p)
    BY <1>0, <1>6, <2>1, <2>3, <2>5 DEF Fits, ChangeFits, Right, Reading, Writing
  <2> QED
    BY <1>0, <2>4, <2>5, <2>6, <2>7 DEF GoesOn, Holding
<1> QED
  BY <1>0, <1>2, <1>3, <1>4, <1>5, <1>6 DEF found

(* A call that ends with an error.                                         *)
LEMMA ErrorQuiet ==
  ASSUME StoreInv, NEW c \in Clients, call[c] # None, finish(c, 0), UNCHANGED <<file, head, proposed>>,
         failures' \in 0 .. MaxFailures, crashes' \in 0 .. MaxCrashes
  PROVE  Quiet(c)
<1>1. 0 \in 0 .. MaxRevision
  BY ResourceAssumption
<1> QED
  BY <1>1, EndsWith DEF Quiet

(* A call that takes its next step with nothing else changed.              *)
LEMMA StepQuiet ==
  ASSUME StoreInv, NEW c \in Clients, call[c] # None, UNCHANGED <<file, head, proposed>>, bounds,
         NEW p \in Calls, proceed([call EXCEPT ![c] = p]), Fits(p),
         p.request = call[c].request, p.since = call[c].since, p.landed = call[c].landed, p.after = call[c].after
  PROVE  Quiet(c)
BY CallFacts DEF Quiet, GoesOn, Holding, proceed, bounds

\* The reads change no file.
LEMMA ReadQuiet ==
  ASSUME StoreInv, NEW c \in Clients, readHead(c) \/ readFile(c) \/ readSource(c)
  PROVE  call[c] # None /\ Quiet(c)
<1>. DEFINE q == call[c]
<1>0. /\ q # None /\ q \in Calls /\ Fits(q) /\ q.step \in Reading
      /\ q.request.kind \in {"get", "propose", "revise", "activate"}
      /\ q.seen \in 0 .. MaxRevision /\ q.landed \in 0 .. MaxRevision
      /\ q.since \in 0 .. MaxRevision /\ head \in 0 .. MaxRevision /\ MaxRevision \in Nat
      /\ failures' \in 0 .. MaxFailures /\ crashes' \in 0 .. MaxCrashes
      /\ UNCHANGED <<file, head, proposed>> /\ bounds /\ q = call[c]
  <2>1. q # None /\ q.step \in Reading /\ UNCHANGED <<file, head, proposed>> /\ bounds
    BY DEF readHead, readFile, readSource, at, Reading
  <2> QED
    BY <2>1, CallFacts DEF bounds
<1>. HIDE DEF q
<1>1. finish(c, 0) => Quiet(c)
  BY <1>0, ErrorQuiet
<1>2. CASE readHead(c) /\ head # 0
  <2>. DEFINE p == [q EXCEPT !.step = "file", !.seen = head]
  <2>1. p \in Calls
    BY <1>0, CallsClosed DEF Steps
  <2>2. proceed([call EXCEPT ![c] = p]) /\ q.step = "head"
    BY <1>0, <1>2 DEF readHead, at, proceed
  <2>3. p.request = q.request /\ p.since = q.since /\ p.landed = q.landed /\ p.after = q.after
        /\ p.step = "file" /\ p.seen = head
    BY <1>0 DEF Calls
  <2>. HIDE DEF p
  <2>4. head >= 1 /\ head <= head
    BY <1>0, <1>2
  <2>5. q.request.kind = "propose" => proposed /\ ProposeFits(p)
    BY <1>0, <2>2, <2>3 DEF Fits, ProposeFits, Reading, Writing
  <2>6. q.request.kind = "get" => GetFits(p)
    BY <1>0, <2>2, <2>3 DEF Fits, GetFits, Reading
  <2>7. q.request.kind \in {"revise", "activate"} => ChangeFits(p)
    BY <1>0, <2>2, <2>3 DEF Fits, ChangeFits, Reading, Writing
  <2>8. Fits(p)
    BY <1>0, <2>3, <2>4, <2>5, <2>6, <2>7 DEF Fits
  <2> QED
    BY <1>0, <2>1, <2>2, <2>3, <2>8, StepQuiet
<1>3. CASE readFile(c)
  <2>. DEFINE r == file[q.seen]
  <2>1. q.step = "file" /\ q.seen \in 1 .. head
    BY <1>0, <1>3 DEF readFile, at, Fits
  <2>2. r \in Records
    BY <2>1 DEF StoreInv, Files
  <2>3. \/ r.state = "draft" /\ found(c, r)
        \/ r.state = "active" /\ proceed([call EXCEPT ![c].step = "source", ![c].read = r])
        \/ finish(c, 0)
    BY <1>0, <1>3 DEF readFile
  <2>4. CASE found(c, r)
    BY <1>0, <2>1, <2>2, <2>4, FoundQuiet
  <2>5. CASE r.state = "active" /\ proceed([call EXCEPT ![c].step = "source", ![c].read = r])
    <3>. DEFINE p == [q EXCEPT !.step = "source", !.read = r]
    <3>. HIDE DEF r
    <3>1. p \in Calls
      BY <1>0, <2>2, CallsClosed DEF Steps
    <3>2. proceed([call EXCEPT ![c] = p])
      BY <1>0, <2>5 DEF proceed
    <3>3. p.request = q.request /\ p.since = q.since /\ p.landed = q.landed /\ p.after = q.after
          /\ p.step = "source" /\ p.seen = q.seen /\ p.read = r
      BY <1>0 DEF Calls
    <3>. HIDE DEF p
    <3>4. Fits(p)
      BY <1>0, <2>1, <2>2, <2>5, <3>3 DEF Fits, ProposeFits, GetFits, ChangeFits, Reading, Writing
    <3> QED
      BY <1>0, <3>1, <3>2, <3>3, <3>4, StepQuiet
  <2> QED
    BY <1>0, <1>1, <2>3, <2>4, <2>5
<1>4. CASE readSource(c)
  <2>1. q.step = "source" /\ q.read \in Records /\ q.read.state = "active"
    BY <1>0, <1>4 DEF readSource, at, Fits
  <2>2. found(c, call[c].read) \/ finish(c, 0)
    BY <1>4 DEF readSource
  <2> QED
    BY <1>0, <1>1, <2>1, <2>2, FoundQuiet
<1> QED
  BY <1>0, <1>1, <1>2, <1>3, <1>4 DEF readHead

\* Making the lock, syncing and failing change no revision file.
LEMMA LockQuiet ==
  ASSUME StoreInv, NEW c \in Clients, makeLock(c) \/ sync(c) \/ operationFails(c)
  PROVE  call[c] # None /\ Quiet(c)
<1>. DEFINE q == call[c]
<1>0. /\ q # None /\ q \in Calls /\ Fits(q)
      /\ q.request.kind \in {"get", "propose", "revise", "activate"}
      /\ q.seen \in 0 .. MaxRevision /\ q.landed \in 0 .. MaxRevision
      /\ q.since \in 0 .. MaxRevision /\ head \in 0 .. MaxRevision
      /\ failures \in 0 .. MaxFailures /\ crashes \in 0 .. MaxCrashes /\ lock \in BOOLEAN
      /\ UNCHANGED <<file, head, proposed>> /\ q = call[c]
  BY CallFacts DEF makeLock, sync, operationFails, at
<1>. HIDE DEF q
<1>1. CASE makeLock(c)
  <2>. DEFINE p == [q EXCEPT !.step = "head", !.after = "write"]
  <2>1. q.step = "lock" /\ bounds
    BY <1>0, <1>1 DEF makeLock, at
  <2>2. CASE finish(c, 0)
    BY <1>0, <2>1, <2>2, ErrorQuiet DEF bounds
  <2>3. CASE ~lock /\ call' = [call EXCEPT ![c].step = "head", ![c].after = "write"] /\ lock' = TRUE /\ UNCHANGED answer
    <3>1. p \in Calls
      BY <1>0, CallsClosed DEF Steps, Afters
    <3>2. call' = [call EXCEPT ![c] = p]
      BY <1>0, <2>3
    <3>3. p.request = q.request /\ p.since = q.since /\ p.landed = q.landed /\ p.after = "write"
          /\ p.step = "head" /\ p.seen = q.seen
      BY <1>0 DEF Calls
    <3>. HIDE DEF p
    <3>4. q.request.kind \in {"revise", "activate"} /\ q.landed = 0
      BY <1>0, <2>1 DEF Fits, ProposeFits, GetFits, ChangeFits, Writing, Reading
    <3>5. Fits(p)
      BY <1>0, <3>3, <3>4 DEF Fits, ChangeFits, Reading
    <3>6. GoesOn(c, p)
      BY <1>0, <2>3, <3>1, <3>2, <3>3, <3>5 DEF GoesOn
    <3> QED
      BY <1>0, <2>1, <3>1, <3>6 DEF Quiet, bounds
  <2> QED
    BY <1>0, <1>1, <2>2, <2>3 DEF makeLock
<1>2. CASE sync(c)
  <2>. DEFINE p == [q EXCEPT !.step = "head", !.after = "compare"]
  <2>1. q.step = "sync" /\ bounds /\ proceed([call EXCEPT ![c].step = "head", ![c].after = "compare"])
    BY <1>0, <1>2 DEF sync, at
  <2>2. p \in Calls
    BY <1>0, CallsClosed DEF Steps, Afters
  <2>3. call' = [call EXCEPT ![c] = p] /\ UNCHANGED <<answer, lock>>
    BY <1>0, <2>1 DEF proceed
  <2>4. p.request = q.request /\ p.since = q.since /\ p.landed = q.landed /\ p.after = "compare"
        /\ p.step = "head" /\ p.seen = q.seen
    BY <1>0 DEF Calls
  <2>. HIDE DEF p
  <2>5. q.landed >= 1 /\ q.request.kind # "get" /\ (q.request.kind # "propose" => q.after = "write")
    BY <1>0, <2>1 DEF Fits, ProposeFits, GetFits, ChangeFits, Writing, Reading
  <2>6. Fits(p)
    BY <1>0, <2>4, <2>5 DEF Fits, ProposeFits, ChangeFits, Reading
  <2>7. GoesOn(c, p)
    BY <1>0, <2>2, <2>3, <2>4, <2>5, <2>6 DEF GoesOn, Holding
  <2> QED
    BY <1>0, <2>1, <2>2, <2>7 DEF Quiet, bounds
<1>3. CASE operationFails(c)
  <2>1. failures' \in 0 .. MaxFailures
    BY <1>0, <1>3, ResourceAssumption DEF operationFails
  <2>2. Ends(c)
    <3>1. 0 \in 0 .. MaxRevision
      BY ResourceAssumption
    <3> QED
      BY <1>0, <1>3, <3>1 DEF operationFails, Ends
  <2> QED
    BY <1>0, <1>3, <2>1, <2>2 DEF operationFails, Quiet
<1> QED
  BY <1>0, <1>1, <1>2, <1>3

-----------------------------------------------------------------------------
(* The writer's steps                                                      *)

(* What the others know is not about the file of the one that writes.      *)
LEMMA OtherFits ==
  ASSUME StoreInv, NEW c \in Clients, call[c] # None, call[c].step \in Writing,
         NEW d \in Clients, d # c, call[d] # None, NEW q, q = call[d],
         head' \in Nat, head <= head', UNCHANGED proposed
  PROVE  Fits(q)'
<1>1. q.step \notin Writing /\ (q.after = "write" => q.step \notin {"file", "source"})
  BY OneWriter
<1>2. Fits(q) /\ q.since \in Nat /\ q.landed \in Nat /\ q.seen \in Nat /\ head \in Nat
  BY CallFacts
<1>3. q.since <= head' /\ q.landed <= head' /\ q.seen <= head'
  BY <1>2 DEF Fits
<1>4. q.request.kind = "propose" => ProposeFits(q)'
  BY <1>1, <1>2 DEF Fits, ProposeFits
<1>5. q.request.kind \in {"revise", "activate"} => ChangeFits(q)'
  BY <1>1, <1>2 DEF Fits, ChangeFits, Reading, Writing
<1> QED
  BY <1>1, <1>2, <1>3, <1>4, <1>5 DEF Fits, GetFits, Writing

(* The writer goes on as q, with its file written or the head moved.       *)
Writes(c, q) ==
  /\ call[c] # None /\ call[c].step \in Writing
  /\ q \in Calls /\ call' = [call EXCEPT ![c] = q] /\ q.request = call[c].request /\ q.after = call[c].after
  /\ file' \in [Numbers -> {None, Partial} \cup Records] /\ head' \in 0 .. MaxRevision /\ head <= head'
  /\ UNCHANGED <<lock, proposed, answer, failures, crashes>>

\* A step that writes a file keeps the invariant when the call fits it.
LEMMA WritesNext ==
  ASSUME StoreInv, NEW c \in Clients, NEW q, Writes(c, q), Fits(q)', Files'
  PROVE  StoreInv'
<1>0. /\ call \in [Clients -> {None} \cup Calls] /\ call' = [call EXCEPT ![c] = q] /\ q \in {None} \cup Calls
      /\ call[c] # None
  BY DEF StoreInv, TypeOK, Writes
<1>1. \A d \in Clients : call'[d] = IF d = c THEN q ELSE call[d]
  BY <1>0
<1>2. call' \in [Clients -> {None} \cup Calls]
  BY <1>0, ExceptTyped
<1>3. TypeOK'
  BY <1>2 DEF StoreInv, TypeOK, Writes
<1>4. AllFit'
  <2>1. SUFFICES ASSUME NEW d \in Clients, NEW r, r = call'[d], r # None
                 PROVE  Fits(r)'
    BY DEF AllFit, Fits, ProposeFits, GetFits, ChangeFits, Right, numberOf
  <2>2. head' \in Nat /\ head <= head' /\ UNCHANGED proposed /\ call[c].step \in Writing
    BY DEF Writes
  <2>3. CASE d = c
    BY <1>1, <2>1, <2>3
  <2>4. CASE d # c
    <3>1. r = call[d] /\ call[d] # None
      BY <1>1, <2>1, <2>4
    <3> QED
      BY <1>0, <2>2, <2>4, <3>1, OtherFits
  <2> QED
    BY <2>3, <2>4
<1>5. Locked' /\ Alone'
  BY <1>0, <1>1 DEF Writes, StoreInv, Locked, Alone, Holding
<1> QED
  BY <1>3, <1>4, <1>5 DEF StoreInv

(* What is known of the one that writes.                                   *)
LEMMA WriterFacts ==
  ASSUME StoreInv, NEW c \in Clients, call[c] # None, call[c].step \in Writing
  PROVE  /\ call[c].landed = 0 /\ number(c) = head + 1 /\ number(c) = numberOf(call[c])
         /\ number(c) \in Numbers /\ call[c].record \in Records
         /\ call[c].request.kind = "propose" =>
              head = 0 /\ call[c].record = drafted(call[c].request) /\ call[c].after = "answer"
         /\ call[c].request.kind \in {"revise", "activate"} =>
              head >= 1 /\ call[c].request.expected = head /\ call[c].after = "write" /\ Right(call[c])
         /\ call[c].request.kind \in {"propose", "revise", "activate"} /\ proposed
<1>. DEFINE q == call[c]
<1>0. /\ q \in Calls /\ Fits(q) /\ q.request \in Requests /\ q.step \in Writing /\ q # None
      /\ q.request.kind \in {"get", "propose", "revise", "activate"}
      /\ head \in 0 .. MaxRevision /\ MaxRevision \in Nat \ {0} /\ q = call[c]
  BY CallFacts, ResourceAssumption
<1>. HIDE DEF q
<1>1. q.request.kind \in {"propose", "revise", "activate"}
  BY <1>0 DEF Fits, GetFits, Reading, Writing
<1>2. CASE q.request.kind = "propose"
  <2>1. head = 0 /\ q.landed = 0 /\ q.record = drafted(q.request) /\ q.after = "answer" /\ proposed
    BY <1>0, <1>2 DEF Fits, ProposeFits, Reading, Writing
  <2>2. drafted(q.request) \in Records
    BY <1>0, <1>2, RequestTyped
  <2>3. number(c) = 1 /\ numberOf(q) = 1 /\ 1 \in Numbers
    BY <1>0, <1>2 DEF number, numberOf, kind, Numbers
  <2> QED
    BY <1>0, <1>2, <2>1, <2>2, <2>3
<1>3. CASE q.request.kind \in {"revise", "activate"}
  <2>1. /\ q.landed = 0 /\ q.seen = head /\ q.request.expected = head /\ head >= 1 /\ q.after = "write"
        /\ Right(q) /\ q.request.kind # "propose"
    BY <1>0, <1>3 DEF Fits, ChangeFits, Reading, Writing
  <2>2. number(c) = head + 1 /\ numberOf(q) = head + 1
    BY <1>0, <2>1 DEF number, numberOf, kind
  <2>3. head \in 1 .. MaxRevision - 1
    BY <1>0, <1>3, <2>1, RequestTyped
  <2>4. head + 1 \in Numbers
    BY <1>0, <2>3 DEF Numbers
  <2>5. file[head] \in Records
    <3>1. head \in 1 .. head
      BY <2>3, <1>0
    <3> QED
      BY <3>1 DEF StoreInv, Files
  <2>6. q.record \in Records
    BY <1>0, <1>3, <2>1, <2>5, RequestTyped DEF Right
  <2>7. proposed
    BY <1>0, <2>1 DEF StoreInv, Files
  <2> QED
    BY <1>0, <1>3, <2>1, <2>2, <2>4, <2>6, <2>7
<1> QED
  BY <1>0, <1>1, <1>2, <1>3

\* Opening the file of a revision disturbs no file up to the head.
LEMMA OpenNext ==
  ASSUME StoreInv, NEW c \in Clients, openFile(c)
  PROVE  call[c] # None /\ (Quiet(c) \/ (StoreInv' /\ \E q \in Calls : Writes(c, q) /\ q.since = call[c].since
                                          /\ q.landed = call[c].landed /\ head' = head
                                          /\ \A n \in 1 .. head : file'[n] = file[n]))
<1>. DEFINE q == call[c]
<1>p. PICK p : p = [call[c] EXCEPT !.step = "write"]
  OBVIOUS
<1>0. /\ q # None /\ q \in Calls /\ Fits(q) /\ q = call[c] /\ q.step = "open" /\ q.step \in Writing
      /\ head \in 0 .. MaxRevision /\ UNCHANGED <<head, proposed, failures, crashes>>
      /\ failures \in 0 .. MaxFailures /\ crashes \in 0 .. MaxCrashes
      /\ file \in [Numbers -> {None, Partial} \cup Records] /\ head <= head
  BY CallFacts DEF openFile, at, Writing, bounds, StoreInv, TypeOK
<1>1. CASE finish(c, 0) /\ UNCHANGED file
  BY <1>0, <1>1, ErrorQuiet
<1>2. CASE file' = [file EXCEPT ![number(c)] = Partial] /\ proceed([call EXCEPT ![c].step = "write"])
  <2>1. number(c) = head + 1 /\ number(c) \in Numbers
    BY <1>0, WriterFacts
  <2>2. file' \in [Numbers -> {None, Partial} \cup Records]
    BY <1>0, <1>2, ExceptTyped
  <2>3. \A n \in 1 .. head : file'[n] = file[n]
    BY <1>0, <1>2, <2>1 DEF Numbers
  <2>. HIDE DEF q
  <2>4. p \in Calls
    BY <1>0, <1>p, CallsClosed DEF Steps
  <2>5. /\ p.request = q.request /\ p.since = q.since /\ p.landed = q.landed /\ p.after = q.after
        /\ p.step = "write" /\ p.seen = q.seen /\ p.record = q.record
    BY <1>0, <1>p DEF Calls
  <2>6. call' = [call EXCEPT ![c] = p] /\ UNCHANGED <<answer, lock>>
    BY <1>0, <1>p, <1>2 DEF proceed
  <2>7. Writes(c, p)
    BY <1>0, <2>2, <2>4, <2>5, <2>6 DEF Writes
  <2>8. Files'
    BY <1>0, <2>3 DEF StoreInv, Files
  <2>9. Fits(p)'
    <3>1. head >= 1 => file'[head] = file[head]
      BY <1>0, <2>3
    <3>2. q.request.kind = "propose" => proposed' /\ ProposeFits(p)'
      BY <1>0, <2>5 DEF Fits, ProposeFits, Writing, Reading
    <3>3. q.request.kind \in {"revise", "activate"} => ChangeFits(p)'
      BY <1>0, <2>5, <3>1 DEF Fits, ChangeFits, Writing, Reading, Right
    <3>4. q.request.kind # "get"
      BY <1>0 DEF Fits, GetFits, Writing, Reading
    <3> QED
      BY <1>0, <2>5, <3>2, <3>3, <3>4 DEF Fits
  <2>10. StoreInv'
    BY <2>7, <2>8, <2>9, WritesNext
  <2> QED
    BY <1>0, <2>3, <2>4, <2>5, <2>7, <2>10
<1> QED
  BY <1>0, <1>1, <1>2 DEF openFile

\* Writing the file of a revision disturbs no file up to the head.
LEMMA WriteNext ==
  ASSUME StoreInv, NEW c \in Clients, writeFile(c)
  PROVE  call[c] # None /\ StoreInv' /\ \E q \in Calls : Writes(c, q) /\ q.since = call[c].since
                                          /\ q.landed = call[c].landed /\ head' = head
                                          /\ \A n \in 1 .. head : file'[n] = file[n]
<1>. DEFINE q == call[c]
<1>p. PICK p : p = [call[c] EXCEPT !.step = "move"]
  OBVIOUS
<1>0. /\ q # None /\ q \in Calls /\ Fits(q) /\ q = call[c] /\ q.step = "write" /\ q.step \in Writing
      /\ head \in 0 .. MaxRevision /\ UNCHANGED <<head, proposed, failures, crashes>>
      /\ file' = [file EXCEPT ![number(c)] = q.record] /\ proceed([call EXCEPT ![c].step = "move"])
      /\ file \in [Numbers -> {None, Partial} \cup Records] /\ head <= head
  BY CallFacts DEF writeFile, at, Writing, bounds, StoreInv, TypeOK
<1>1. number(c) = head + 1 /\ number(c) \in Numbers /\ q.record \in Records /\ number(c) = numberOf(q)
  BY <1>0, WriterFacts
<1>2. file' \in [Numbers -> {None, Partial} \cup Records] /\ file'[number(c)] = q.record
  BY <1>0, <1>1, ExceptTyped
<1>3. \A n \in 1 .. head : file'[n] = file[n]
  BY <1>0, <1>1 DEF Numbers
<1>. HIDE DEF q
<1>4. p \in Calls
  BY <1>0, <1>p, CallsClosed DEF Steps
<1>5. /\ p.request = q.request /\ p.since = q.since /\ p.landed = q.landed /\ p.after = q.after
      /\ p.step = "move" /\ p.seen = q.seen /\ p.record = q.record
  BY <1>0, <1>p DEF Calls
<1>6. call' = [call EXCEPT ![c] = p] /\ UNCHANGED <<answer, lock>>
  BY <1>0, <1>p DEF proceed
<1>7. Writes(c, p)
  BY <1>0, <1>2, <1>4, <1>5, <1>6 DEF Writes
<1>8. Files'
  BY <1>0, <1>3 DEF StoreInv, Files
<1>9. Fits(p)'
  <2>1. head >= 1 => file'[head] = file[head]
    BY <1>0, <1>3
  <2>2. q.request.kind = "propose" => proposed' /\ ProposeFits(p)'
    BY <1>0, <1>5 DEF Fits, ProposeFits, Writing, Reading
  <2>3. q.request.kind \in {"revise", "activate"} => ChangeFits(p)'
    BY <1>0, <1>5, <2>1 DEF Fits, ChangeFits, Writing, Reading, Right
  <2>4. q.request.kind # "get"
    BY <1>0 DEF Fits, GetFits, Writing, Reading
  <2>5. file'[numberOf(p)] = p.record
    BY <1>1, <1>2, <1>5 DEF numberOf
  <2> QED
    BY <1>0, <1>5, <2>2, <2>3, <2>4, <2>5 DEF Fits, numberOf
<1> QED
  BY <1>0, <1>3, <1>4, <1>5, <1>7, <1>8, <1>9, WritesNext

\* Moving the head publishes the record beside it.
LEMMA MoveNext ==
  ASSUME StoreInv, NEW c \in Clients, moveHead(c)
  PROVE  StoreInv' /\ call[c] # None /\ call[c].step = "move" /\ head' = head + 1 /\ file' = file
         /\ \E q \in Calls : Writes(c, q) /\ q.since = call[c].since /\ q.landed = head + 1
<1>. DEFINE q == call[c]
<1>p. PICK p : p = [call[c] EXCEPT !.step = "sync", !.landed = number(c)]
  OBVIOUS
<1>0. /\ q # None /\ q \in Calls /\ Fits(q) /\ q = call[c] /\ q.step = "move" /\ q.step \in Writing
      /\ head \in 0 .. MaxRevision /\ UNCHANGED <<file, proposed, failures, crashes>>
      /\ head' = number(c) /\ proceed([call EXCEPT ![c].step = "sync", ![c].landed = number(c)])
      /\ file \in [Numbers -> {None, Partial} \cup Records]
      /\ q.since \in 0 .. MaxRevision /\ q.seen \in 0 .. MaxRevision
  BY CallFacts DEF moveHead, at, Writing, bounds, StoreInv, TypeOK
<1>1. /\ number(c) = head + 1 /\ number(c) \in Numbers /\ q.record \in Records /\ number(c) = numberOf(q)
      /\ q.request.kind \in {"propose", "revise", "activate"} /\ proposed
      /\ q.request.kind = "propose" => q.after = "answer"
      /\ q.request.kind \in {"revise", "activate"} => q.after = "write"
  BY <1>0, WriterFacts
<1>2. head + 1 \in 0 .. MaxRevision /\ head + 1 >= 1 /\ head <= head + 1 /\ head' = head + 1
  BY <1>0, <1>1 DEF Numbers
<1>3. file[head + 1] = q.record
  BY <1>0, <1>1 DEF Fits
<1>. HIDE DEF q
<1>4. p \in Calls
  BY <1>0, <1>p, <1>1, <1>2, CallsClosed DEF Steps
<1>5. /\ p.request = q.request /\ p.since = q.since /\ p.landed = head + 1 /\ p.after = q.after
      /\ p.step = "sync" /\ p.seen = q.seen
  BY <1>0, <1>p, <1>1 DEF Calls
<1>6. call' = [call EXCEPT ![c] = p] /\ UNCHANGED <<answer, lock>>
  BY <1>0, <1>p DEF proceed
<1>7. Writes(c, p)
  BY <1>0, <1>2, <1>4, <1>5, <1>6 DEF Writes
<1>8. Files'
  <2>1. ASSUME NEW n \in 1 .. head'
        PROVE  file[n] \in Records
    BY <1>0, <1>1, <1>2, <1>3, <2>1 DEF StoreInv, Files
  <2> QED
    BY <1>0, <1>1, <2>1 DEF Files
<1>9. Fits(p)'
  <2>1. p.since <= head' /\ p.landed <= head' /\ p.seen <= head' /\ p.landed >= 1
    BY <1>0, <1>2, <1>5 DEF Fits
  <2>2. ProposeFits(p)' \/ q.request.kind # "propose"
    BY <1>1, <1>5, <2>1 DEF ProposeFits
  <2>3. ChangeFits(p)' \/ q.request.kind \notin {"revise", "activate"}
    BY <1>1, <1>5, <2>1 DEF ChangeFits
  <2> QED
    BY <1>0, <1>1, <1>5, <2>1, <2>2, <2>3 DEF Fits
<1> QED
  BY <1>0, <1>2, <1>4, <1>5, <1>7, <1>8, <1>9, WritesNext

-----------------------------------------------------------------------------
(* A call that begins, a process that dies, and the start                  *)

\* A request starts having seen at least the head of its start.
LEMMA BeginNext ==
  ASSUME StoreInv, NEW c \in Clients, begin(c)
  PROVE  /\ StoreInv' /\ call[c] = None /\ UNCHANGED <<file, head>>
         /\ answer' = [answer EXCEPT ![c] = 0]
         /\ \E p \in Calls : call' = [call EXCEPT ![c] = p] /\ p.since = head /\ p.landed = 0
<1>0. /\ call \in [Clients -> {None} \cup Calls] /\ call[c] = None /\ head \in 0 .. MaxRevision
      /\ answer \in [Clients -> 0 .. MaxRevision] /\ answer' = [answer EXCEPT ![c] = 0]
      /\ proposed \in BOOLEAN /\ UNCHANGED <<file, head, lock, failures, crashes>>
      /\ MaxRevision \in Nat \ {0}
  BY ResourceAssumption DEF StoreInv, TypeOK, begin, bounds
<1>1. PICK q \in Requests :
        /\ q.kind = "propose" => ~proposed
        /\ proposed' = (proposed \/ q.kind = "propose")
        /\ call' = [call EXCEPT ![c] =
             [request |-> q, since |-> head, landed |-> 0, seen |-> 0,
              step |-> IF q.kind = "propose" THEN "open" ELSE "head",
              after |-> CASE q.kind = "activate" -> "prepare" [] q.kind = "revise" -> "lock" [] OTHER -> "answer",
              read |-> None,
              record |-> IF q.kind = "propose" THEN drafted(q) ELSE None]]
  BY DEF begin
<1>2. PICK step : step = IF q.kind = "propose" THEN "open" ELSE "head"
  OBVIOUS
<1>3. PICK after :
        after = CASE q.kind = "activate" -> "prepare" [] q.kind = "revise" -> "lock" [] OTHER -> "answer"
  OBVIOUS
<1>4. PICK record : record = IF q.kind = "propose" THEN drafted(q) ELSE None
  OBVIOUS
<1>5. PICK p : p = [request |-> q, since |-> head, landed |-> 0, seen |-> 0, step |-> step, after |-> after,
                    read |-> None, record |-> record]
  OBVIOUS
<1>6. call' = [call EXCEPT ![c] = p]
  BY <1>1, <1>2, <1>3, <1>4, <1>5
<1>7. p \in Calls
  <2>1. step \in Steps /\ after \in Afters
    BY <1>2, <1>3, RequestTyped DEF Steps, Afters
  <2>2. record \in {None} \cup Records
    BY <1>4, RequestTyped
  <2>3. 0 \in 0 .. MaxRevision /\ None \in {None} \cup Records
    BY <1>0
  <2> QED
    BY <1>0, <1>5, <2>1, <2>2, <2>3 DEF Calls
<1>8. /\ p.request = q /\ p.since = head /\ p.landed = 0 /\ p.seen = 0 /\ p.step = step /\ p.after = after
      /\ p.record = record
  BY <1>5
<1>9. \A d \in Clients : call'[d] = IF d = c THEN p ELSE call[d]
  BY <1>0, <1>6
<1>10. TypeOK'
  <2>1. call' \in [Clients -> {None} \cup Calls]
    BY <1>0, <1>6, <1>7, ExceptTyped
  <2>2. answer' \in [Clients -> 0 .. MaxRevision]
    BY <1>0
  <2>3. proposed' \in BOOLEAN
    BY <1>1, Zenon
  <2> QED
    BY <1>0, <2>1, <2>2, <2>3 DEF StoreInv, TypeOK
<1>11. Files'
  <2>1. proposed => proposed'
    BY <1>1
  <2> QED
    BY <1>0, <2>1 DEF StoreInv, Files
<1>12. Fits(p)'
  <2>1. q.kind = "propose" => proposed' /\ ~proposed
    BY <1>1
  <2>2. q.kind = "propose" => proposed' /\ ProposeFits(p)'
    BY <1>0, <1>2, <1>3, <1>4, <1>8, <2>1 DEF StoreInv, Files, ProposeFits, Writing
  <2>3. q.kind = "get" => GetFits(p)'
    BY <1>2, <1>3, <1>8 DEF GetFits, Reading
  <2>4. q.kind \in {"revise", "activate"} => ChangeFits(p)'
    BY <1>2, <1>3, <1>8 DEF ChangeFits, Reading
  <2> QED
    BY <1>0, <1>2, <1>8, <2>2, <2>3, <2>4 DEF Fits
<1>13. AllFit'
  <2>1. SUFFICES ASSUME NEW d \in Clients, NEW r, r = call'[d], r # None
                 PROVE  Fits(r)'
    BY DEF AllFit, Fits, ProposeFits, GetFits, ChangeFits, Right, numberOf
  <2>2. CASE d = c
    BY <1>9, <1>12, <2>1, <2>2
  <2>3. CASE d # c
    <3>1. Fits(r) /\ (proposed => proposed')
      BY <1>1, <1>9, <2>1, <2>3 DEF StoreInv, AllFit
    <3>2. ProposeFits(r) => ProposeFits(r)'
      BY <1>0 DEF ProposeFits
    <3>3. ChangeFits(r) => ChangeFits(r)'
      BY <1>0 DEF ChangeFits, Right
    <3> QED
      BY <1>0, <3>1, <3>2, <3>3 DEF Fits, GetFits
  <2> QED
    BY <2>2, <2>3
<1>14. Locked' /\ Alone'
  <2>1. after \notin {"write", "compare"}
    BY <1>3, RequestTyped
  <2>2. q.kind = "propose" => \A d \in Clients : call[d] # None => call[d].request.kind # "propose"
    BY <1>1 DEF StoreInv, AllFit, Fits
  <2>3. \A d \in Clients : call'[d] # None /\ Holding(call'[d]) => d # c
    BY <1>8, <1>9, <2>1 DEF Holding
  <2>4. Locked'
    BY <1>0, <1>9, <2>3 DEF StoreInv, Locked, Holding
  <2>5. Alone'
    BY <1>8, <1>9, <2>1, <2>2 DEF StoreInv, Alone, Holding
  <2> QED
    BY <2>4, <2>5
<1> QED
  BY <1>0, <1>6, <1>7, <1>8, <1>10, <1>11, <1>13, <1>14 DEF StoreInv

\* A crash forgets the calls and keeps the files.
LEMMA CrashNext ==
  ASSUME StoreInv, crash
  PROVE  StoreInv'
<1>1. /\ call' = [d \in Clients |-> None] /\ UNCHANGED <<file, head, lock, proposed, answer, failures>>
      /\ crashes' \in 0 .. MaxCrashes
  BY ResourceAssumption DEF crash, StoreInv, TypeOK
<1>2. TypeOK'
  BY <1>1 DEF StoreInv, TypeOK
<1> QED
  BY <1>1, <1>2 DEF StoreInv, Files, AllFit, Locked, Alone

\* The invariant holds of an empty store.
LEMMA StoreInit ==
  ASSUME Init
  PROVE  StoreInv
<1>1. TypeOK
  <2>1. 0 \in 0 .. MaxRevision /\ 0 \in 0 .. MaxFailures /\ 0 \in 0 .. MaxCrashes
    BY ResourceAssumption
  <2>2. call \in [Clients -> {None} \cup Calls] /\ file \in [Numbers -> {None, Partial} \cup Records]
        /\ answer \in [Clients -> 0 .. MaxRevision]
    BY <2>1 DEF Init
  <2> QED
    BY <2>1, <2>2 DEF Init, TypeOK
<1>2. ~(head > 0) /\ 1 .. head = {}
  BY DEF Init
<1> QED
  BY <1>1, <1>2 DEF Init, StoreInv, Files, AllFit, Locked, Alone

\* Every step keeps the invariant.
LEMMA StoreNext ==
  ASSUME StoreInv, [Next]_vars
  PROVE  StoreInv'
<1>1. CASE UNCHANGED vars
  <2>1. TypeOK' /\ Files'
    BY <1>1 DEF vars, StoreInv, TypeOK, Files
  <2>2. AllFit'
    <3>1. SUFFICES ASSUME NEW d \in Clients, NEW r, r = call'[d], r # None
                   PROVE  Fits(r)'
      BY DEF AllFit, Fits, ProposeFits, GetFits, ChangeFits, Right, numberOf
    <3>2. Fits(r) /\ UNCHANGED <<file, head, proposed>>
      BY <1>1, <3>1 DEF vars, StoreInv, AllFit
    <3> QED
      BY <3>2, SameFits
  <2>3. Locked' /\ Alone'
    BY <1>1 DEF vars, StoreInv, Locked, Alone, Holding
  <2> QED
    BY <2>1, <2>2, <2>3 DEF StoreInv
<1>2. ASSUME NEW c \in Clients, readHead(c) \/ readFile(c) \/ readSource(c) \/ makeLock(c) \/ sync(c) \/ operationFails(c)
      PROVE  StoreInv'
  BY <1>2, ReadQuiet, LockQuiet, QuietNext
<1>3. ASSUME NEW c \in Clients, begin(c) \/ openFile(c) \/ writeFile(c) \/ moveHead(c)
      PROVE  StoreInv'
  BY <1>3, BeginNext, OpenNext, WriteNext, MoveNext, QuietNext
<1> QED
  BY <1>1, <1>2, <1>3, CrashNext DEF Next

-----------------------------------------------------------------------------
(* The mapping to ResourceHistory                                          *)

Hist == [n \in 1 .. head |-> file[n]]
Told == [c \in Clients |-> IF call[c] = None THEN None
                           ELSE [request |-> call[c].request, since |-> call[c].since, landed |-> call[c].landed]]
TellOf(q) == [request |-> q.request, since |-> q.since, landed |-> q.landed]

\* The history is what the files say up to the head.
LEMMA HistIs ==
  ASSUME StoreInv
  PROVE  Hist \in Seq(Records) /\ Len(Hist) = head /\ \A n \in 1 .. head : Hist[n] = file[n]
<1>1. Hist \in [1 .. head -> Records] /\ head \in Nat
  BY DEF Hist, StoreInv, Files, TypeOK
<1>2. Hist \in Seq(Records)
  BY <1>1, SeqDef
<1>3. DOMAIN Hist = 1 .. head /\ DOMAIN Hist = 1 .. Len(Hist) /\ Len(Hist) \in Nat
  BY <1>1, <1>2, LenProperties
<1>4. Len(Hist) = head
  BY <1>1, <1>3
<1> QED
  BY <1>2, <1>4 DEF Hist

\* What a client was told is in its call.
LEMMA ToldIs ==
  ASSUME StoreInv, NEW c \in Clients
  PROVE  /\ call[c] = None <=> Told[c] = None
         /\ call[c] # None => Told[c] = TellOf(call[c])
<1>1. Told[c] = IF call[c] = None THEN None ELSE TellOf(call[c])
  BY DEF Told, TellOf
<1>2. call[c] # None => TellOf(call[c]) \in [request : Requests, since : 0 .. MaxRevision, landed : 0 .. MaxRevision]
  BY CallFacts DEF TellOf
<1> QED
  BY <1>1, <1>2, NoneAssumption

(* How the mapped calls follow the calls.                                  *)
LEMMA ToldFollows ==
  ASSUME StoreInv, NEW c \in Clients, NEW q, q \in {None} \cup Calls, call' = [call EXCEPT ![c] = q]
  PROVE  Told' = [Told EXCEPT ![c] = IF q = None THEN None ELSE TellOf(q)]
<1>1. \A d \in Clients : call'[d] = IF d = c THEN q ELSE call[d]
  BY DEF StoreInv, TypeOK
<1>2. Told' = [d \in Clients |-> IF call'[d] = None THEN None
                 ELSE [request |-> call'[d].request, since |-> call'[d].since, landed |-> call'[d].landed]]
  BY DEF Told
<1>3. Told' = [d \in Clients |-> IF d = c THEN IF q = None THEN None ELSE TellOf(q) ELSE Told[d]]
  BY <1>1, <1>2 DEF Told, TellOf
<1> QED
  BY <1>3 DEF Told

\* A call that reads on tells its client nothing yet.
LEMMA ToldStays ==
  ASSUME StoreInv, NEW c \in Clients, call[c] # None, NEW q \in Calls, call' = [call EXCEPT ![c] = q],
         TellOf(q) = TellOf(call[c])
  PROVE  Told' = Told
<1>1. q # None
  BY NoneAssumption
<1>2. Told' = [Told EXCEPT ![c] = TellOf(q)]
  BY <1>1, ToldFollows
<1>3. Told[c] = TellOf(q)
  BY ToldIs
<1> QED
  BY <1>2, <1>3 DEF Told

(* The history's state is left alone, but for the calls.                   *)
LEMMA HistStays ==
  ASSUME head' = head, \A n \in 1 .. head : file'[n] = file[n]
  PROVE  Hist' = Hist
BY DEF Hist

\* A step that changes no file is no step of the history, or an answer.
LEMMA QuietMaps ==
  ASSUME StoreInv, NEW c \in Clients, Quiet(c)
  PROVE  [History!Next]_(History!vars)
<1>1. Hist' = Hist
  BY HistStays DEF Quiet
<1>2. CASE Ends(c)
  <2>1. PICK n \in 0 .. MaxRevision :
          /\ answer' = [answer EXCEPT ![c] = n]
          /\ n # 0 => n <= head /\ IF kind(c) = "get" THEN n >= call[c].since ELSE n = call[c].landed
    BY <1>2 DEF Ends
  <2>2. Told' = [Told EXCEPT ![c] = None]
    BY <1>2, ToldFollows DEF Ends
  <2>3. Told[c] # None /\ Told[c].request = call[c].request /\ Told[c].since = call[c].since
        /\ Told[c].landed = call[c].landed
    <3>1. call[c] # None
      BY DEF Quiet
    <3>2. Told[c] # None /\ Told[c] = TellOf(call[c])
      BY <3>1, ToldIs
    <3> QED
      BY <3>2 DEF TellOf
  <2>4. CASE n = 0
    <3>1. History!Fail(c)
      BY <1>1, <2>1, <2>2, <2>3, <2>4 DEF History!Fail, Hist, Told
    <3> QED
      BY <3>1 DEF History!Next
  <2>5. CASE n # 0
    <3>1. n \in 1 .. Len(Hist)
      BY <2>1, <2>5, HistIs DEF StoreInv, TypeOK
    <3>2. IF Told[c].request.kind = "get" THEN n >= Told[c].since ELSE n = Told[c].landed
      BY <2>1, <2>3, <2>5 DEF kind
    <3>3. History!Tell(c, n)
      BY <1>1, <2>1, <2>2, <2>3, <3>1, <3>2 DEF History!Tell, Hist, Told
    <3> QED
      BY <3>1, <3>3 DEF History!Next, Hist
  <2> QED
    BY <2>4, <2>5
<1>3. CASE \E q \in Calls : GoesOn(c, q)
  <2>1. Told' = Told /\ answer' = answer
    BY <1>3, ToldStays DEF GoesOn, TellOf, Quiet
  <2> QED
    BY <1>1, <2>1 DEF History!vars, Hist, Told
<1> QED
  BY <1>2, <1>3 DEF Quiet

\* A file beside the head is no step of the history.
LEMMA WriteMaps ==
  ASSUME StoreInv, NEW c \in Clients, openFile(c) \/ writeFile(c)
  PROVE  [History!Next]_(History!vars)
<1>1. CASE Quiet(c)
  BY <1>1, QuietMaps
<1>2. CASE \E q \in Calls : Writes(c, q) /\ q.since = call[c].since /\ q.landed = call[c].landed /\ head' = head
                            /\ \A n \in 1 .. head : file'[n] = file[n]
  <2>1. Hist' = Hist
    BY <1>2, HistStays
  <2>2. Told' = Told /\ answer' = answer
    BY <1>2, ToldStays DEF Writes, TellOf
  <2> QED
    BY <2>1, <2>2 DEF History!vars, Hist, Told
<1> QED
  BY <1>1, <1>2, OpenNext, WriteNext

\* A request that starts is the history's question.
LEMMA BeginMaps ==
  ASSUME StoreInv, NEW c \in Clients, begin(c)
  PROVE  History!Next
<1>1. PICK p \in Calls : call' = [call EXCEPT ![c] = p] /\ p.since = head /\ p.landed = 0
  BY BeginNext
<1>2. Hist' = Hist /\ answer' = [answer EXCEPT ![c] = 0] /\ Told[c] = None
  BY BeginNext, HistStays, ToldIs
<1>3. p # None /\ p.request \in Requests
  BY NoneAssumption DEF Calls
<1>4. Told' = [Told EXCEPT ![c] = [request |-> p.request, since |-> Len(Hist), landed |-> 0]]
  BY <1>1, <1>3, ToldFollows, HistIs DEF TellOf
<1>5. History!Begin(c, p.request)
  BY <1>2, <1>4 DEF History!Begin, Hist, Told
<1> QED
  BY <1>3, <1>5 DEF History!Next

\* A move of the head is the history's landing.
LEMMA MoveMaps ==
  ASSUME StoreInv, NEW c \in Clients, moveHead(c)
  PROVE  History!Next
<1>. DEFINE q == call[c]
<1>1. /\ q # None /\ q.step \in Writing /\ head' = head + 1 /\ file' = file /\ StoreInv'
      /\ head \in Nat /\ q.step = "move"
  BY MoveNext DEF Writing, StoreInv, TypeOK
<1>2. PICK p \in Calls : Writes(c, p) /\ p.since = q.since /\ p.landed = head + 1
  BY MoveNext
<1>3. /\ q.landed = 0 /\ q.record \in Records /\ number(c) = head + 1 /\ number(c) = numberOf(q)
      /\ q.request.kind = "propose" => head = 0 /\ q.record = drafted(q.request)
      /\ q.request.kind \in {"revise", "activate"} => head >= 1 /\ q.request.expected = head /\ Right(q)
      /\ q.request.kind \in {"propose", "revise", "activate"} /\ q.request \in Requests
  BY <1>1, WriterFacts, CallFacts
<1>4. file[head + 1] = q.record
  BY <1>1, <1>3, CallFacts DEF Fits
<1>5. Hist \in Seq(Records) /\ Len(Hist) = head /\ \A n \in 1 .. head : Hist[n] = file[n]
  BY HistIs
<1>6. Hist' = Append(Hist, q.record)
  <2>1. Hist' = [n \in 1 .. head + 1 |-> file[n]]
    BY <1>1 DEF Hist
  <2>2. /\ Append(Hist, q.record) \in Seq(Records) /\ Len(Append(Hist, q.record)) = head + 1
        /\ \A n \in 1 .. head : Append(Hist, q.record)[n] = Hist[n]
        /\ Append(Hist, q.record)[head + 1] = q.record
    BY <1>3, <1>5, AppendProperties
  <2>3. Append(Hist, q.record) \in [1 .. head + 1 -> Records]
    BY <2>2, LenProperties
  <2>4. \A n \in 1 .. head + 1 : Append(Hist, q.record)[n] = file[n]
    <3>1. \A n \in 1 .. head + 1 : n \in 1 .. head \/ n = head + 1
      BY <1>1
    <3> QED
      BY <1>4, <1>5, <2>2, <3>1
  <2> QED
    BY <2>1, <2>3, <2>4
<1>7. Len(Hist') = head + 1 /\ (Hist = <<>> <=> head = 0)
  <2>1. Len(Hist') = head + 1
    BY <1>3, <1>5, <1>6, AppendProperties
  <2> QED
    BY <1>1, <1>5, <2>1, EmptySeq
<1>8. Told' = [Told EXCEPT ![c].landed = head + 1]
  <2>1. p # None
    BY NoneAssumption
  <2>2. Told' = [Told EXCEPT ![c] = TellOf(p)]
    BY <1>2, <2>1, ToldFollows DEF Writes
  <2>3. Told[c] = TellOf(q)
    BY <1>1, ToldIs
  <2>4. TellOf(p) = [Told[c] EXCEPT !.landed = head + 1]
    BY <1>2, <2>3 DEF TellOf, Writes
  <2> QED
    BY <2>2, <2>4
<1>9. Told[c] # None /\ Told[c].request = q.request /\ Told[c].landed = 0 /\ answer' = answer
  <2>1. Told[c] # None /\ Told[c] = TellOf(q)
    BY <1>1, ToldIs
  <2> QED
    BY <1>2, <1>3, <2>1 DEF TellOf, Writes
<1>w. PICK w \in Requests : w = q.request
  BY <1>3
<1>10. \/ w.kind = "propose" /\ Hist = <<>> /\ Hist' = <<drafted(w)>>
       \/ w.kind = "revise" /\ Hist # <<>> /\ w.expected = Len(Hist)
          /\ Hist' = Append(Hist, drafted(w))
       \/ /\ w.kind = "activate" /\ Hist # <<>> /\ w.expected = Len(Hist)
          /\ Hist[Len(Hist)].state = "draft" /\ Hist[Len(Hist)].actor # w.actor
          /\ Hist' = Append(Hist, [state |-> "active", definition |-> Hist[Len(Hist)].definition,
                                   actor |-> w.actor])
  <2>1. CASE w.kind = "propose"
    <3>1. Hist = <<>> /\ q.record = drafted(w)
      BY <1>3, <1>w, <1>7, <2>1
    <3>2. Append(<<>>, q.record) = <<q.record>>
      OBVIOUS
    <3> QED
      BY <1>6, <2>1, <3>1, <3>2
  <2>2. CASE w.kind = "revise"
    BY <1>1, <1>3, <1>w, <1>5, <1>6, <1>7, <2>2 DEF Right
  <2>3. CASE w.kind = "activate"
    <3>1. head >= 1 /\ w.expected = head /\ Right(q) /\ Hist[head] = file[head]
      BY <1>1, <1>3, <1>w, <1>5, <2>3
    <3>2. q.record = [state |-> "active", definition |-> Hist[head].definition, actor |-> w.actor]
      BY <1>w, <2>3, <3>1 DEF Right, activated
    <3> QED
      BY <1>1, <1>w, <1>5, <1>6, <1>7, <2>3, <3>1, <3>2 DEF Right
  <2> QED
    BY <1>3, <1>w, <2>1, <2>2, <2>3
<1>11. Told[c].request = w
  BY <1>9, <1>w
<1>12. History!Land(c, Told[c].request)
  BY <1>7, <1>8, <1>9, <1>10, <1>11, Zenon DEF History!Land, History!latest, History!drafted, drafted, Hist, Told
<1> QED
  BY <1>12, Zenon DEF History!Next, Told

-----------------------------------------------------------------------------
(* The theorems                                                            *)

\* Every step is one of the history, or none.
LEMMA StoreMaps ==
  ASSUME StoreInv, [Next]_vars
  PROVE  [History!Next]_(History!vars)
<1>1. CASE UNCHANGED vars
  BY <1>1 DEF vars, History!vars
<1>2. ASSUME NEW c \in Clients, readHead(c) \/ readFile(c) \/ readSource(c) \/ makeLock(c) \/ sync(c) \/ operationFails(c)
      PROVE  [History!Next]_(History!vars)
  BY <1>2, ReadQuiet, LockQuiet, QuietMaps
<1>3. ASSUME NEW c \in Clients, begin(c) \/ openFile(c) \/ writeFile(c) \/ moveHead(c)
      PROVE  [History!Next]_(History!vars)
  BY <1>3, BeginMaps, WriteMaps, MoveMaps
<1>4. CASE crash
  <2>1. call' = [d \in Clients |-> None] /\ Hist' = Hist /\ answer' = answer
    BY <1>4, HistStays DEF crash
  <2>2. Told' = [d \in Clients |-> None]
    BY <2>1 DEF Told
  <2>3. History!Crash
    BY <2>1, <2>2 DEF History!Crash, Hist, Told
  <2> QED
    BY <2>3 DEF History!Next
<1> QED
  BY <1>1, <1>2, <1>3, <1>4 DEF Next

\* An empty store is an empty history.
LEMMA StoreInitMaps ==
  ASSUME Init
  PROVE  History!Init
<1>1. [n \in 1 .. head |-> file[n]] = <<>>
  BY DEF Init
<1> QED
  BY <1>1 DEF Init, History!Init

(* The state the proofs keep, in every behaviour.                          *)
THEOREM StoreInvariant == Spec => []StoreInv
<1>1. Init => StoreInv
  BY StoreInit
<1>2. StoreInv /\ [Next]_vars => StoreInv'
  BY StoreNext
<1> QED
  BY <1>1, <1>2, PTL DEF Spec

(* The files of resources/store.ts up to the head are a history that keeps *)
(* the promise of ResourceHistory, whatever calls overlap, fail or die.    *)
THEOREM StoreKeepsPromise == Spec => HistoryPromise
<1>1. Init => History!Init
  BY StoreInitMaps
<1>2. StoreInv /\ [Next]_vars => [History!Next]_(History!vars)
  BY StoreMaps
<1> QED
  BY <1>1, <1>2, StoreInvariant, PTL DEF Spec, HistoryPromise, History!Spec
=============================================================================
