------------------------ MODULE CliExecutionsProofs ------------------------
(***************************************************************************)
(* The execution tracker, for any number of executions, cancel requests,   *)
(* log streams, output streams and stages: a cancellation is kept and      *)
(* obeyed while the tracker knows the execution, and the tracker knows     *)
(* exactly the executions that have finished and keeps few of them.        *)
(***************************************************************************)
EXTENDS CliExecutions, SequenceTheorems, FiniteSetTheorems, TLAPS

\* The points of run_discovery behind the start of a stage's process.
PastSpawn == {"running", "after", "report", "completing", "done", "raised"}

\* What TypeOK says of the variables that decide.
Shapes ==
    /\ run \in [Executions -> Points]
    /\ status \in [Executions -> ExecutionStatus]
    /\ started \in [Executions -> Nat]
    /\ tracked \subseteq Executions
    /\ canceller \in [Cancellers -> [at : {"idle", "signalled", "done"}, of : SUBSET Executions]]

\* An execution that has not started is unknown to the tracker.
NewIsUnknown(e) ==
    run[e] = "new" => status[e] = "pending" /\ started[e] = 0 /\ e \notin tracked

\* No stage is counted before the cancellation; after it, a counted stage has
\* been passed, and the loop is not entered again.
Counted(e) ==
    e \in tracked =>
        /\ status[e] # "cancelled" => started[e] = 0
        /\ started[e] = 0 \/ (started[e] = 1 /\ run[e] \in PastSpawn)

CInv == Shapes /\ \A e \in Executions : NewIsUnknown(e) /\ Counted(e)

-----------------------------------------------------------------------------
LEMMA CInvInit == Init => CInv
BY DEF Init, CInv, Shapes, NewIsUnknown, Counted, Points, ExecutionStatus

\* A step that changes none of the four variables that decide keeps CInv.
LEMMA IdleStep ==
    ASSUME CInv, UNCHANGED <<run, status, started, canceller>>, tracked' \subseteq tracked
    PROVE  CInv'
BY DEF CInv, Shapes, NewIsUnknown, Counted

\* complete() leaves a cancelled execution as it is and adds none to the tracker.
LEMMA FinishShape ==
    ASSUME Shapes, NEW e \in Executions, Finish(e)
    PROVE  /\ status' \in [Executions -> ExecutionStatus]
           /\ tracked' \subseteq tracked
           /\ \A x \in Executions : x # e => status'[x] = status[x]
           /\ (status[e] = "cancelled") <=> (status'[e] = "cancelled")
<1>1. CASE e \notin tracked
  BY <1>1 DEF Finish, Complete, Shapes, logged, registry
<1>2. CASE e \in tracked /\ status[e] = "cancelled"
  BY <1>2 DEF Finish, Complete, Shapes, Cleanup
<1>3. CASE e \in tracked /\ status[e] # "cancelled"
  <2>1. /\ status' = [status EXCEPT ![e] = IF ~failed[e] THEN "succeeded" ELSE "failed"]
        /\ tracked' \subseteq tracked
    BY <1>3 DEF Finish, Complete, Cleanup
  <2> QED BY <1>3, <2>1 DEF Shapes, ExecutionStatus
<1> QED BY <1>1, <1>2, <1>3

-----------------------------------------------------------------------------
(* The steps.                                                              *)

\* Every step of run_discovery keeps the invariant.
LEMMA RunnerKeeps ==
    ASSUME CInv, NEW e \in Executions, Start(e) \/ RunnerStep(e)
    PROVE  CInv'
<1> USE DEF CInv
<1>1. CASE Start(e)
  BY <1>1 DEF Start, Goto, Shapes, NewIsUnknown, Counted, Points,
     ExecutionStatus, clients
<1>2. CASE Begin(e)
  BY <1>2 DEF Begin, At, Goto, Shapes, NewIsUnknown, Counted, Points,
     PastSpawn, registry, clients
<1>3. CASE CheckStage(e)
  <2>1. run' \in [Executions -> Points]
    BY <1>3 DEF CheckStage, At, Goto, Shapes, Points, logged
  <2>2. /\ run[e] = "check" /\ run'[e] \in {"check", "report", "spawn"}
        /\ \A x \in Executions : x # e => run'[x] = run[x]
    BY <1>3 DEF CheckStage, At, Goto, Shapes
  <2>3. UNCHANGED <<status, tracked, canceller, started>>
    BY <1>3 DEF CheckStage, registry, clients
  <2> QED BY <2>1, <2>2, <2>3 DEF Shapes, NewIsUnknown, Counted, PastSpawn
<1>4. CASE Spawn(e)
  <2>1. /\ run[e] = "spawn" /\ run' = [run EXCEPT ![e] = "running"]
        /\ started' = IF status[e] = "cancelled" THEN [started EXCEPT ![e] = @ + 1] ELSE started
        /\ UNCHANGED <<status, tracked, canceller>>
    BY <1>4 DEF Spawn, At, Goto, registry, clients
  <2> QED BY <2>1 DEF Shapes, NewIsUnknown, Counted, Points, PastSpawn
<1>5. CASE StageRaises(e)
  BY <1>5 DEF StageRaises, At, Goto, Shapes, NewIsUnknown, Counted, Points, PastSpawn,
     logged, registry, clients
<1>6. CASE EngineReturns(e)
  BY <1>6 DEF EngineReturns, At, Goto, Shapes, NewIsUnknown, Counted,
     Points, PastSpawn, registry, clients
<1>7. CASE AfterStage(e)
  <2>1. run' \in [Executions -> Points]
    BY <1>7 DEF AfterStage, Goto, Shapes, Points, logged
  <2>2. /\ run[e] = "after" /\ \A x \in Executions : x # e => run'[x] = run[x]
        /\ run'[e] = IF ExecutionCancelled(e) THEN "report" ELSE "check"
    BY <1>7 DEF AfterStage, At, Goto, Shapes
  <2>3. UNCHANGED <<status, tracked, canceller, started>>
    BY <1>7 DEF AfterStage, registry, clients
  <2> QED BY <2>1, <2>2, <2>3 DEF Shapes, NewIsUnknown, Counted, PastSpawn, ExecutionCancelled
<1>8. CASE Report(e)
  BY <1>8 DEF Report, At, Goto, Shapes, NewIsUnknown, Counted, Points,
     PastSpawn, registry, clients
<1>9. CASE Finish(e)
  <2>1. /\ run[e] = "completing" /\ run' = [run EXCEPT ![e] = "done"]
        /\ UNCHANGED <<started, canceller>>
    BY <1>9 DEF Finish, At, Goto, clients
  <2>2. Shapes'
    BY <1>9, <2>1, FinishShape DEF Shapes, Points
  <2>3. ASSUME NEW x \in Executions PROVE NewIsUnknown(x)' /\ Counted(x)'
    BY <1>9, <2>1, <2>3, FinishShape DEF Shapes, NewIsUnknown, Counted, PastSpawn
  <2> QED BY <2>2, <2>3
<1> QED
  BY <1>1, <1>2, <1>3, <1>4, <1>5, <1>6, <1>7, <1>8, <1>9 DEF RunnerStep

\* The reader threads, the cancel requests and the streams keep it too.
LEMMA OthersKeep ==
    ASSUME CInv,
           \/ \E e \in Executions : LogStep(e)
           \/ \E c \in Cancellers : RequestCancel(c) \/ MarkCancelled(c)
           \/ \E s \in Streams : Open(s) \/ StreamStep(s) \/ Leave(s)
    PROVE  CInv'
<1>1. ASSUME NEW e \in Executions, NEW src \in Sources, ReadLine(e, src)
      PROVE  CInv'
  BY <1>1, IdleStep DEF ReadLine, registry, clients
<1>2. ASSUME NEW e \in Executions, NEW w \in Writers,
             TakeNewest(e, w) \/ Tell(e, w) \/ LogReturns(e, w)
      PROVE  CInv'
  BY <1>2, IdleStep DEF TakeNewest, Tell, LogReturns, registry, clients, runner
<1>3. ASSUME NEW c \in Cancellers, RequestCancel(c)
      PROVE  CInv'
  BY <1>3 DEF RequestCancel, CInv, Shapes, NewIsUnknown, Counted, runner, logged, registry
<1>4. ASSUME NEW c \in Cancellers, MarkCancelled(c)
      PROVE  CInv'
  <2>1. PICK e \in Executions :
            IF e \in tracked
            THEN status' = [status EXCEPT ![e] = "cancelled"]
            ELSE UNCHANGED status
    BY <1>4 DEF MarkCancelled, CInv, Shapes
  <2>2. /\ UNCHANGED <<run, tracked, started>>
        /\ canceller' = [canceller EXCEPT ![c].at = "done"]
    BY <1>4 DEF MarkCancelled, runner
  <2> QED
    BY <2>1, <2>2 DEF CInv, Shapes, NewIsUnknown, Counted, ExecutionStatus
<1>5. ASSUME NEW s \in Streams, Open(s) \/ StreamStep(s) \/ Leave(s)
      PROVE  CInv'
  <2>1. UNCHANGED <<run, status, tracked, canceller, started>>
    BY <1>5 DEF Open, StreamStep, Leave, Subscribe, SendExisting, SendNew, SendLast,
       Abandon, Close, runner, registry
  <2> QED BY <2>1, IdleStep DEF CInv, Shapes
<1> QED BY <1>1, <1>2, <1>3, <1>4, <1>5 DEF LogStep

LEMMA CInvNext == ASSUME CInv, [Next]_vars PROVE CInv'
<1>1. CASE Next
  BY <1>1, RunnerKeeps, OthersKeep DEF Next
<1>2. CASE UNCHANGED vars
  BY <1>2, IdleStep DEF vars, runner, logged, registry, clients, CInv, Shapes
<1> QED BY <1>1, <1>2

\* The invariant of the tracker, the discovery runs and the cancel requests.
THEOREM CancellationInvariant == Spec => []CInv
<1> QED BY CInvInit, CInvNext, PTL DEF Spec

-----------------------------------------------------------------------------
\* A cancelled discovery that the tracker still knows starts at most one more
\* stage, however many it has.
THEOREM CancellationObeyed == Spec => []CancelObeyed
<1>1. CInv => CancelObeyed
  BY DEF CInv, Shapes, Counted, CancelObeyed
<1> QED BY <1>1, CancellationInvariant, PTL

\* No step of any thread takes a cancellation back: complete() keeps it.
THEOREM CancellationKept == Spec => CancelKept
<1>1. ASSUME CInv, [Next]_vars
      PROVE  [\A e \in Executions : status[e] = "cancelled" => status'[e] = "cancelled"]_vars
  <2> SUFFICES ASSUME Next, NEW x \in Executions, status[x] = "cancelled"
               PROVE  status'[x] = "cancelled"
    BY <1>1
  <2>1. ASSUME NEW e \in Executions, Start(e) PROVE status'[x] = "cancelled"
    BY <1>1, <2>1 DEF Start, CInv, Shapes, NewIsUnknown
  <2>2. ASSUME NEW e \in Executions, Finish(e) PROVE status'[x] = "cancelled"
    BY <1>1, <2>2, FinishShape DEF CInv
  <2>3. ASSUME NEW c \in Cancellers, MarkCancelled(c) PROVE status'[x] = "cancelled"
    BY <1>1, <2>3 DEF MarkCancelled, CInv, Shapes
  <2>4. ASSUME NEW e \in Executions, RunnerStep(e), ~Finish(e) PROVE UNCHANGED status
    BY <2>4 DEF RunnerStep, Begin, CheckStage, Spawn, StageRaises, EngineReturns,
       AfterStage, Report
  <2>5. ASSUME NEW e \in Executions, LogStep(e) PROVE UNCHANGED status
    BY <2>5 DEF LogStep, ReadLine, TakeNewest, Tell, LogReturns
  <2>6. ASSUME NEW c \in Cancellers, RequestCancel(c) PROVE UNCHANGED status
    BY <2>6 DEF RequestCancel
  <2>7. ASSUME NEW s \in Streams, Open(s) \/ StreamStep(s) \/ Leave(s) PROVE UNCHANGED status
    BY <2>7 DEF Open, StreamStep, Leave, Subscribe, SendExisting, SendNew, SendLast,
       Abandon, Close
  <2> QED BY <2>1, <2>2, <2>3, <2>4, <2>5, <2>6, <2>7 DEF Next
<1> QED BY <1>1, CancellationInvariant, PTL DEF Spec, CancelKept

-----------------------------------------------------------------------------
(* The sequence of the finished executions.                                *)

\* The finished executions are a sequence in which each occurs once.
Distinct(q) == \A i, j \in DOMAIN q : q[i] = q[j] => i = j
Members(q)  == {q[i] : i \in DOMAIN q}

\* A sequence without one of its places: the later ones move up, ...
LEMMA PlaceLeftOut ==
    ASSUME NEW S, NEW q \in Seq(S), NEW k \in 1 .. Len(q)
    PROVE  LET r == SubSeq(q, 1, k - 1) \o SubSeq(q, k + 1, Len(q))
           IN  /\ r \in Seq(S) /\ Len(r) = Len(q) - 1
               /\ \A i \in 1 .. Len(q) - 1 : r[i] = q[IF i < k THEN i ELSE i + 1]
<1> DEFINE a == SubSeq(q, 1, k - 1)
           b == SubSeq(q, k + 1, Len(q))
<1>1. Len(q) \in Nat /\ k \in Nat
  OBVIOUS
<1>2. a \in Seq(S) /\ Len(a) = k - 1 /\ \A i \in 1 .. k - 1 : a[i] = q[i]
  BY <1>1
<1>3. b \in Seq(S) /\ Len(b) = Len(q) - k /\ \A i \in 1 .. Len(q) - k : b[i] = q[i + k]
  BY <1>1
<1> HIDE DEF a, b
<1>4. /\ a \o b \in Seq(S) /\ Len(a \o b) = Len(a) + Len(b)
      /\ \A i \in 1 .. Len(a) + Len(b) :
             (a \o b)[i] = IF i <= Len(a) THEN a[i] ELSE b[i - Len(a)]
  BY <1>2, <1>3, ConcatProperties
<1>5. PICK r : r = a \o b
  OBVIOUS
<1>6. /\ r \in Seq(S) /\ Len(r) = Len(q) - 1
      /\ \A i \in 1 .. Len(q) - 1 : r[i] = IF i <= k - 1 THEN a[i] ELSE b[i - (k - 1)]
  <2>1. Len(a) + Len(b) = Len(q) - 1
    BY <1>1, <1>2, <1>3
  <2> QED BY <1>2, <1>4, <1>5, <2>1
<1>7. ASSUME NEW i \in 1 .. Len(q) - 1 PROVE r[i] = q[IF i < k THEN i ELSE i + 1]
  <2>1. CASE i < k
    BY <1>1, <1>2, <1>6, <2>1
  <2>2. CASE ~(i < k)
    <3>1. i - (k - 1) \in 1 .. Len(q) - k /\ i - (k - 1) + k = i + 1 /\ ~(i <= k - 1)
      BY <1>1, <2>2
    <3> QED BY <1>3, <1>6, <2>2, <3>1
  <2> QED BY <2>1, <2>2
<1> QED BY <1>5, <1>6, <1>7 DEF a, b

\* ... and all but that one are still there, each once.
LEMMA OthersKept ==
    ASSUME NEW S, NEW q \in Seq(S), Distinct(q), NEW k \in 1 .. Len(q),
           NEW r \in Seq(S), Len(r) = Len(q) - 1,
           \A i \in 1 .. Len(q) - 1 : r[i] = q[IF i < k THEN i ELSE i + 1]
    PROVE  Distinct(r) /\ Members(r) = Members(q) \ {q[k]}
<1>1. Len(q) \in Nat /\ k \in Nat /\ DOMAIN q = 1 .. Len(q) /\ DOMAIN r = 1 .. Len(q) - 1
  OBVIOUS
<1> DEFINE from(i) == IF i < k THEN i ELSE i + 1
<1>2. ASSUME NEW i \in DOMAIN r
      PROVE  i \in Nat /\ from(i) \in DOMAIN q \ {k} /\ r[i] = q[from(i)]
  BY <1>1
<1>3. ASSUME NEW i \in DOMAIN r, NEW j \in DOMAIN r, r[i] = r[j] PROVE i = j
  <2>1. from(i) = from(j)
    BY <1>2, <1>3 DEF Distinct
  <2> QED BY <1>1, <1>2, <2>1
<1>4. ASSUME NEW i \in DOMAIN r PROVE r[i] \in Members(q) \ {q[k]}
  BY <1>1, <1>2, <1>4 DEF Distinct, Members
<1>5. ASSUME NEW i \in DOMAIN q, q[i] # q[k] PROVE q[i] \in Members(r)
  <2>1. CASE i < k
    <3>1. i \in DOMAIN r /\ r[i] = q[i]
      BY <1>1, <2>1
    <3> QED BY <3>1 DEF Members
  <2>2. CASE ~(i < k)
    <3>1. i - 1 \in DOMAIN r /\ ~(i - 1 < k) /\ i - 1 + 1 = i
      BY <1>1, <1>5, <2>2
    <3>2. r[i - 1] = q[i]
      BY <1>1, <3>1
    <3> QED BY <3>1, <3>2 DEF Members
  <2> QED BY <2>1, <2>2
<1> QED BY <1>3, <1>4, <1>5 DEF Distinct, Members

\* What is left when one is removed.
LEMMA WithoutKeeps ==
    ASSUME NEW S, NEW q \in Seq(S), Distinct(q), NEW e
    PROVE  /\ Without(q, e) \in Seq(S) /\ Distinct(Without(q, e))
           /\ Members(Without(q, e)) = Members(q) \ {e}
           /\ Len(Without(q, e)) = IF e \in Members(q) THEN Len(q) - 1 ELSE Len(q)
<1>1. CASE ~ \E i \in DOMAIN q : q[i] = e
  BY <1>1 DEF Without, Members
<1>2. CASE \E i \in DOMAIN q : q[i] = e
  <2>1. PICK k : k = CHOOSE i \in DOMAIN q : q[i] = e
    OBVIOUS
  <2>2. k \in 1 .. Len(q) /\ q[k] = e
    BY <1>2, <2>1
  <2>3. PICK r : r = Without(q, e)
    OBVIOUS
  <2>4. r = SubSeq(q, 1, k - 1) \o SubSeq(q, k + 1, Len(q))
    BY <1>2, <2>1, <2>3 DEF Without, RemoveAt
  <2>5. /\ r \in Seq(S) /\ Len(r) = Len(q) - 1
        /\ \A i \in 1 .. Len(q) - 1 : r[i] = q[IF i < k THEN i ELSE i + 1]
    BY <2>2, <2>4, PlaceLeftOut
  <2>6. Distinct(r) /\ Members(r) = Members(q) \ {e}
    BY <2>2, <2>5, OthersKept
  <2>7. e \in Members(q)
    BY <2>2 DEF Members
  <2> QED BY <2>3, <2>5, <2>6, <2>7
<1> QED BY <1>1, <1>2

\* What is there when one is added that was not.
LEMMA AppendPuts ==
    ASSUME NEW S, NEW r \in Seq(S), Distinct(r), NEW e \in S, e \notin Members(r)
    PROVE  /\ Append(r, e) \in Seq(S) /\ Distinct(Append(r, e))
           /\ Members(Append(r, e)) = Members(r) \cup {e}
           /\ Len(Append(r, e)) = Len(r) + 1 /\ Len(r) \in Nat
<1>1. /\ Append(r, e) \in Seq(S) /\ Len(Append(r, e)) = Len(r) + 1
      /\ Append(r, e)[Len(r) + 1] = e /\ \A i \in 1 .. Len(r) : Append(r, e)[i] = r[i]
  OBVIOUS
<1>2. Len(r) \in Nat /\ DOMAIN r = 1 .. Len(r)
  OBVIOUS
<1>3. PICK t : t = Append(r, e)
  OBVIOUS
<1>4. /\ t \in Seq(S) /\ Len(t) = Len(r) + 1 /\ DOMAIN t = 1 .. Len(r) + 1
      /\ t[Len(r) + 1] = e /\ \A i \in 1 .. Len(r) : t[i] = r[i]
  BY <1>1, <1>3
<1>5. \A i \in 1 .. Len(r) : t[i] # e /\ t[i] \in Members(r)
  BY <1>2, <1>4 DEF Members
<1>6. ASSUME NEW i \in DOMAIN t, NEW j \in DOMAIN t, t[i] = t[j] PROVE i = j
  <2>1. CASE i = Len(r) + 1 \/ j = Len(r) + 1
    BY <1>2, <1>4, <1>5, <1>6, <2>1
  <2>2. CASE i \in 1 .. Len(r) /\ j \in 1 .. Len(r)
    BY <1>2, <1>4, <1>6, <2>2 DEF Distinct
  <2> QED BY <1>2, <1>4, <2>1, <2>2
<1>7. Members(t) \subseteq Members(r) \cup {e}
  BY <1>2, <1>4, <1>5 DEF Members
<1>8. Members(r) \cup {e} \subseteq Members(t)
  BY <1>2, <1>4 DEF Members
<1> QED BY <1>2, <1>3, <1>4, <1>6, <1>7, <1>8 DEF Distinct

\* Who finishes is among the finished, once, and is one more only if it was not.
LEMMA EndingPuts ==
    ASSUME NEW S, ended \in Seq(S), Distinct(ended), NEW e \in S
    PROVE  /\ Ending(e) \in Seq(S) /\ Distinct(Ending(e))
           /\ Members(Ending(e)) = Members(ended) \cup {e}
           /\ Len(Ending(e)) \in Nat
           /\ Len(Ending(e)) = IF e \in Members(ended) THEN Len(ended) ELSE Len(ended) + 1
<1>1. PICK r : r = Without(ended, e)
  OBVIOUS
<1>2. /\ r \in Seq(S) /\ Distinct(r) /\ Members(r) = Members(ended) \ {e}
      /\ Len(r) = IF e \in Members(ended) THEN Len(ended) - 1 ELSE Len(ended)
  BY <1>1, WithoutKeeps
<1>3. /\ Append(r, e) \in Seq(S) /\ Distinct(Append(r, e))
      /\ Members(Append(r, e)) = Members(r) \cup {e}
      /\ Len(Append(r, e)) = Len(r) + 1 /\ Len(r) \in Nat
  BY <1>2, AppendPuts
<1>4. Len(ended) \in Nat /\ Ending(e) = Append(r, e)
  BY <1>1 DEF Ending
<1> QED BY <1>2, <1>3, <1>4

\* The cleanup takes the oldest off.
LEMMA SuffixKeeps ==
    ASSUME NEW S, NEW q \in Seq(S), Distinct(q), NEW x \in 0 .. Len(q)
    PROVE  LET r == SubSeq(q, x + 1, Len(q))
           IN  /\ r \in Seq(S) /\ Len(r) = Len(q) - x
               /\ Distinct(r) /\ Members(r) = Members(q) \ {q[i] : i \in 1 .. x}
<1>0. PICK r : r = SubSeq(q, x + 1, Len(q))
  OBVIOUS
<1>1. Len(q) \in Nat
  OBVIOUS
<1>2. r \in Seq(S) /\ Len(r) = Len(q) - x /\ \A i \in 1 .. Len(q) - x : r[i] = q[i + x]
  BY <1>0, <1>1
<1>3. Distinct(r)
  <2>1. ASSUME NEW i \in DOMAIN r, NEW j \in DOMAIN r, r[i] = r[j] PROVE i = j
    <3>1. i + x \in DOMAIN q /\ j + x \in DOMAIN q /\ i \in Nat /\ j \in Nat
      BY <1>1, <1>2
    <3>2. q[i + x] = q[j + x]
      BY <1>1, <1>2, <2>1
    <3>3. i + x = j + x
      BY <3>1, <3>2 DEF Distinct
    <3> QED BY <3>1, <3>3
  <2> QED BY <2>1 DEF Distinct
<1>4. ASSUME NEW i \in DOMAIN r PROVE r[i] \in Members(q) \ {q[k] : k \in 1 .. x}
  <2>1. i + x \in DOMAIN q /\ r[i] = q[i + x] /\ i + x > x
    BY <1>1, <1>2
  <2> QED BY <1>1, <2>1 DEF Distinct, Members
<1>5. ASSUME NEW i \in DOMAIN q, i > x PROVE q[i] \in Members(r)
  <2>1. i - x \in DOMAIN r /\ r[i - x] = q[i]
    BY <1>1, <1>2, <1>5
  <2> QED BY <2>1 DEF Members
<1>6. \A i \in DOMAIN q : i > x \/ i \in 1 .. x
  BY <1>1
<1>7. Members(r) \subseteq Members(q) \ {q[i] : i \in 1 .. x}
  BY <1>4 DEF Members
<1>8. Members(q) \ {q[i] : i \in 1 .. x} \subseteq Members(r)
  BY <1>5, <1>6 DEF Members
<1> QED BY <1>0, <1>2, <1>3, <1>7, <1>8

-----------------------------------------------------------------------------
(* The tracker, its log and its subscribers.                               *)

\* The variables of run_discovery; a stage that is started is one of its stages.
RunnerSound ==
    /\ stage \in [Executions -> 0..Stages]
    /\ failed \in [Executions -> BOOLEAN]
    /\ reader \in [Executions -> [Sources -> 0..MaxLines]]
    /\ \A e \in Executions : run[e] \in {"spawn", "running"} => stage[e] < Stages

LogSound ==
    /\ entries \in [Executions -> Nat]
    /\ lines \in [Executions -> SUBSET Nat]
    /\ telling \in [Executions -> [Writers -> LogCall]]
    /\ \A e \in Executions : lines[e] \subseteq 1..entries[e]

\* The finished executions of the tracker, and a discovery whose thread is done
\* is one of them, whoever cancelled it.
RegistrySound ==
    /\ ended \in Seq(Executions)
    /\ Distinct(ended)
    /\ Members(ended) = {e \in tracked : status[e] \in Finished}
    /\ \A e \in tracked : run[e] = "done" => status[e] \in Finished

StreamPoints == {"idle", "opened", "subscribed", "streaming"} \cup Closed

StreamState == [at : StreamPoints, of : SUBSET Executions, from : Nat,
                queue : SUBSET Nat, sent : SUBSET Nat]

\* Who subscribes to an execution does so once, and streams it and no other.
ClientsSound ==
    /\ subs \in [Executions -> Seq(Streams)]
    /\ stream \in [Streams -> StreamState]
    /\ \A s \in Streams : stream[s].at = "idle" \/ \E e \in Executions : stream[s].of = {e}
    /\ \A e \in Executions :
          /\ Distinct(subs[e])
          /\ \A s \in Members(subs[e]) :
                stream[s].of = {e} /\ stream[s].at \in {"subscribed", "streaming"}

EInv == CInv /\ RunnerSound /\ LogSound /\ RegistrySound /\ ClientsSound

LEMMA OutIsACall == Out \in LogCall
BY DEF Out, LogCall

LEMMA InitEInv == Init => EInv
<1> SUFFICES ASSUME Init PROVE EInv
  OBVIOUS
<1>1. RunnerSound
  BY BoundsAssumption DEF Init, RunnerSound
<1>2. LogSound
  BY OutIsACall DEF Init, LogSound
<1>3. RegistrySound
  BY DEF Init, RegistrySound, Members, Distinct
<1>4. ClientsSound
  <2>1. Distinct(<<>>) /\ Members(<<>>) = {}
    BY DEF Distinct, Members
  <2> QED BY <2>1 DEF Init, ClientsSound, StreamState, StreamPoints
<1> QED BY <1>1, <1>2, <1>3, <1>4, CInvInit DEF EInv

LEMMA RunnerStays ==
    ASSUME RunnerSound, UNCHANGED <<run, stage, failed, reader>> PROVE RunnerSound'
BY DEF RunnerSound

LEMMA NextRunnerSound == ASSUME EInv, Next PROVE RunnerSound'
<1> USE BoundsAssumption DEF EInv, CInv, Shapes
<1>1. ASSUME NEW e \in Executions, Start(e) PROVE RunnerSound'
  BY <1>1 DEF Start, Goto, RunnerSound
<1>2. ASSUME NEW e \in Executions, Begin(e) \/ AfterStage(e) \/ Finish(e) PROVE RunnerSound'
  BY <1>2 DEF Begin, AfterStage, Finish, At, Goto, RunnerSound
<1>3. ASSUME NEW e \in Executions, CheckStage(e) PROVE RunnerSound'
  <2>1. UNCHANGED reader
    BY <1>3 DEF CheckStage
  <2>2. \/ stage[e] < Stages /\ run' = [run EXCEPT ![e] = "report"] /\ UNCHANGED <<stage, failed>>
        \/ stage[e] < Stages /\ run' = [run EXCEPT ![e] = "spawn"] /\ UNCHANGED <<stage, failed>>
        \/ /\ stage[e] < Stages /\ run[e] = "check"
           /\ stage' = [stage EXCEPT ![e] = @ + 1]
           /\ failed' = [failed EXCEPT ![e] = TRUE]
           /\ UNCHANGED run
        \/ run' = [run EXCEPT ![e] = "report"] /\ UNCHANGED <<stage, failed>>
    BY <1>3 DEF CheckStage, Goto, At
  <2>3. \A x \in Executions : x # e => run'[x] = run[x] /\ stage'[x] = stage[x]
    BY <2>2 DEF RunnerSound
  <2>4. run'[e] \in {"spawn", "running"} => stage'[e] < Stages
    BY <2>2 DEF RunnerSound
  <2>5. stage' \in [Executions -> 0..Stages] /\ failed' \in [Executions -> BOOLEAN]
    <3>1. stage[e] < Stages => stage[e] + 1 \in 0..Stages
      BY DEF RunnerSound
    <3>2. \/ UNCHANGED <<stage, failed>>
          \/ /\ stage[e] < Stages /\ stage' = [stage EXCEPT ![e] = stage[e] + 1]
             /\ failed' = [failed EXCEPT ![e] = TRUE]
      BY <2>2
    <3> QED BY <3>1, <3>2 DEF RunnerSound
  <2> QED BY <2>1, <2>3, <2>4, <2>5 DEF RunnerSound
<1>4. ASSUME NEW e \in Executions, Spawn(e) PROVE RunnerSound'
  <2>1. /\ run[e] = "spawn" /\ run' = [run EXCEPT ![e] = "running"]
        /\ reader' = [reader EXCEPT ![e] = [src \in Sources |-> MaxLines]]
        /\ UNCHANGED <<stage, failed>>
    BY <1>4 DEF Spawn, At, Goto
  <2> QED BY <2>1 DEF RunnerSound
<1>5. ASSUME NEW e \in Executions, StageRaises(e) PROVE RunnerSound'
  BY <1>5 DEF StageRaises, Goto, RunnerSound
<1>6. ASSUME NEW e \in Executions, EngineReturns(e) PROVE RunnerSound'
  BY <1>6 DEF EngineReturns, At, Goto, RunnerSound
<1>7. ASSUME NEW e \in Executions, Report(e) PROVE RunnerSound'
  BY <1>7 DEF Report, At, Goto, RunnerSound
<1>8. ASSUME NEW e \in Executions, LogStep(e) PROVE RunnerSound'
  <2>1. ASSUME NEW src \in Sources, ReadLine(e, src) PROVE RunnerSound'
    <3>1. UNCHANGED <<run, stage, failed>> /\ reader[e][src] > 0
      BY <2>1 DEF ReadLine
    <3>2. \/ reader' = [reader EXCEPT ![e][src] = @ - 1]
          \/ reader' = [reader EXCEPT ![e][src] = 0]
      BY <2>1 DEF ReadLine
    <3>3. PICK n : n \in 0..MaxLines /\ reader' = [reader EXCEPT ![e][src] = n]
      <4>1. reader[e][src] \in 0..MaxLines
        BY DEF RunnerSound
      <4>2. reader[e][src] - 1 \in 0..MaxLines /\ 0 \in 0..MaxLines
        BY <3>1, <4>1
      <4> QED BY <3>2, <4>2
    <3>4. reader' \in [Executions -> [Sources -> 0..MaxLines]]
      BY <3>3 DEF RunnerSound
    <3> QED BY <3>1, <3>4 DEF RunnerSound
  <2>2. ASSUME NEW w \in Writers, TakeNewest(e, w) \/ Tell(e, w) \/ LogReturns(e, w)
        PROVE  RunnerSound'
    BY <2>2, RunnerStays DEF TakeNewest, Tell, LogReturns, runner
  <2> QED BY <1>8, <2>1, <2>2 DEF LogStep
<1>9. ASSUME NEW c \in Cancellers, RequestCancel(c) \/ MarkCancelled(c) PROVE RunnerSound'
  BY <1>9, RunnerStays DEF RequestCancel, MarkCancelled, runner
<1>10. ASSUME NEW s \in Streams, Open(s) \/ StreamStep(s) \/ Leave(s) PROVE RunnerSound'
  BY <1>10, RunnerStays DEF Open, StreamStep, Leave, Subscribe, SendExisting, SendNew, SendLast,
     Abandon, Close, runner
<1> QED BY <1>1, <1>2, <1>3, <1>4, <1>5, <1>6, <1>7, <1>8, <1>9, <1>10 DEF Next, RunnerStep

\* What a step does to the log of an execution.
Logs(e) ==
    /\ entries' = [entries EXCEPT ![e] = @ + 1]
    /\ \/ UNCHANGED <<lines, telling>>
       \/ /\ lines' = [lines EXCEPT ![e] = @ \cup {entries[e] + 1}]
          /\ \E w \in Writers : telling' = [telling EXCEPT ![e][w].at = "logged"]

LEMMA LogsKeep ==
    ASSUME LogSound, UNCHANGED <<entries, lines, telling>> \/ \E e \in Executions : Logs(e)
    PROVE  LogSound'
<1>1. CASE UNCHANGED <<entries, lines, telling>>
  BY <1>1 DEF LogSound
<1>2. ASSUME NEW e \in Executions, Logs(e) PROVE LogSound'
  <2>1. entries' \in [Executions -> Nat] /\ lines' \in [Executions -> SUBSET Nat]
    BY <1>2 DEF Logs, LogSound
  <2>2. ASSUME NEW x \in Executions PROVE lines'[x] \subseteq 1..entries'[x]
    <3>1. entries[x] \in Nat /\ lines[x] \subseteq 1..entries[x]
      BY DEF LogSound
    <3>2. CASE x = e
      <4>1. entries'[x] = entries[x] + 1 /\ lines'[x] \subseteq lines[x] \cup {entries[x] + 1}
        BY <1>2, <3>2 DEF Logs, LogSound
      <4> QED BY <3>1, <4>1
    <3>3. CASE x # e
      BY <1>2, <3>1, <3>3 DEF Logs, LogSound
    <3> QED BY <3>2, <3>3
  <2>3. telling' \in [Executions -> [Writers -> LogCall]]
    <3>1. CASE UNCHANGED telling
      BY <3>1 DEF LogSound
    <3>2. ASSUME NEW w \in Writers, telling' = [telling EXCEPT ![e][w].at = "logged"]
          PROVE  telling' \in [Executions -> [Writers -> LogCall]]
      BY <3>2 DEF LogSound, LogCall
    <3> QED BY <1>2, <3>1, <3>2 DEF Logs
  <2> QED BY <2>1, <2>2, <2>3 DEF LogSound
<1> QED BY <1>1, <1>2

\* The second part of log() changes the place of one thread in it.
LEMMA CallsKeep ==
    ASSUME LogSound, NEW e \in Executions, NEW w \in Writers,
           TakeNewest(e, w) \/ Tell(e, w) \/ LogReturns(e, w)
    PROVE  LogSound'
<1>1. UNCHANGED <<entries, lines>> /\ telling[e][w] \in LogCall /\ entries[e] \in Nat
  BY DEF TakeNewest, Tell, LogReturns, LogSound
<1>2. PICK t \in LogCall : telling' = [telling EXCEPT ![e][w] = t]
  <2>1. CASE TakeNewest(e, w)
    <3>1. PICK t : t = [telling[e][w] EXCEPT !.at = "calling", !.entry = entries[e]]
      OBVIOUS
    <3>2. t \in LogCall
      BY <1>1, <3>1 DEF LogCall
    <3> QED BY <2>1, <3>1, <3>2 DEF TakeNewest
  <2>2. CASE Tell(e, w)
    <3>1. PICK t : t = [telling[e][w] EXCEPT !.next = @ + 1]
      OBVIOUS
    <3>2. t \in LogCall
      BY <1>1, <3>1 DEF LogCall
    <3> QED BY <2>2, <3>1, <3>2 DEF Tell
  <2>3. CASE LogReturns(e, w)
    BY <2>3, OutIsACall DEF LogReturns
  <2> QED BY <2>1, <2>2, <2>3
<1>3. telling' \in [Executions -> [Writers -> LogCall]]
  BY <1>2 DEF LogSound
<1> QED BY <1>1, <1>3 DEF LogSound

LEMMA NextLogSound == ASSUME EInv, Next PROVE LogSound'
<1> DEFINE Told == UNCHANGED <<entries, lines, telling>> \/ \E e \in Executions : Logs(e)
<1>w. "runner" \in Writers /\ Sources \subseteq Writers
  BY DEF Writers
<1>1. ASSUME NEW e \in Executions, Start(e) \/ RunnerStep(e) PROVE Told
  BY <1>1, <1>w DEF Start, RunnerStep, Begin, CheckStage, Spawn, StageRaises, EngineReturns,
     AfterStage, Report, Finish, Complete, Log, AddLog, logged, Logs
<1>2. ASSUME NEW e \in Executions, NEW src \in Sources, ReadLine(e, src) PROVE Told
  BY <1>2, <1>w DEF ReadLine, Log, logged, Logs
<1>3. ASSUME NEW c \in Cancellers, RequestCancel(c) PROVE Told
  BY <1>3 DEF RequestCancel, logged
<1>4. ASSUME NEW c \in Cancellers, MarkCancelled(c) PROVE Told
  BY <1>4 DEF MarkCancelled, AddLog, logged, Logs, EInv, CInv, Shapes
<1>5. ASSUME NEW s \in Streams, Open(s) \/ StreamStep(s) \/ Leave(s) PROVE Told
  BY <1>5 DEF Open, StreamStep, Leave, Subscribe, SendExisting, SendNew, SendLast, Abandon,
     Close, logged
<1>6. Told => LogSound'
  BY LogsKeep DEF EInv
<1>7. LogSound
  BY DEF EInv
<1> QED BY <1>1, <1>2, <1>3, <1>4, <1>5, <1>6, <1>7, CallsKeep DEF Next, LogStep

\* The cleanup forgets the oldest of the sequence it is given, everywhere.
LEMMA CleanupKeeps ==
    ASSUME NEW q \in Seq(Executions), Distinct(q), Cleanup(q)
    PROVE  /\ ended' \in Seq(Executions) /\ Distinct(ended') /\ Len(ended') <= MaxCompleted
           /\ \E oldest : /\ oldest \subseteq Members(q)
                          /\ Members(ended') = Members(q) \ oldest
                          /\ tracked' = tracked \ oldest
                          /\ subs' = [e \in Executions |-> IF e \in oldest THEN <<>> ELSE subs[e]]
<1> DEFINE excess == IF Len(q) > MaxCompleted THEN Len(q) - MaxCompleted ELSE 0
           oldest == {q[i] : i \in 1..excess}
<1>1. Len(q) \in Nat /\ excess \in 0 .. Len(q) /\ Len(q) - excess <= MaxCompleted
  BY BoundsAssumption
<1>2. /\ ended' = SubSeq(q, excess + 1, Len(q))
      /\ tracked' = tracked \ oldest
      /\ subs' = [e \in Executions |-> IF e \in oldest THEN <<>> ELSE subs[e]]
  BY DEF Cleanup
<1>3. PICK x : x = excess
  OBVIOUS
<1>4. PICK r : r = ended'
  OBVIOUS
<1>5. r = SubSeq(q, x + 1, Len(q)) /\ x \in 0 .. Len(q)
  BY <1>1, <1>2, <1>3, <1>4
<1> HIDE DEF oldest, excess
<1>6. /\ r \in Seq(Executions) /\ Len(r) = Len(q) - x /\ Distinct(r)
      /\ Members(r) = Members(q) \ {q[i] : i \in 1 .. x}
  BY <1>5, SuffixKeeps
<1>7. oldest = {q[i] : i \in 1 .. x}
  BY <1>3 DEF oldest
<1>8. oldest \subseteq Members(q)
  BY <1>5, <1>7 DEF Members
<1>9. Len(r) <= MaxCompleted
  BY <1>1, <1>3, <1>6
<1> QED BY <1>2, <1>4, <1>6, <1>7, <1>8, <1>9

\* complete() of an execution that is tracked.
LEMMA FinishRegistry ==
    ASSUME EInv, NEW e \in Executions, Finish(e)
    PROVE  /\ RegistrySound'
           /\ e \in tracked => Len(ended') <= MaxCompleted
<1>1. /\ run[e] = "completing" /\ run' = [run EXCEPT ![e] = "done"]
      /\ Complete(e, ~failed[e])
  BY DEF Finish, At, Goto
<1>2. CASE e \notin tracked
  BY <1>1, <1>2 DEF Complete, registry, RegistrySound, EInv, CInv, Shapes
<1>3. CASE e \in tracked
  <2>1. PICK q : /\ q \in Seq(Executions) /\ Distinct(q) /\ Cleanup(q)
                 /\ Members(q) = {x \in tracked : status'[x] \in Finished}
    <3>1. CASE status[e] = "cancelled"
      <4>1. Cleanup(ended) /\ UNCHANGED status
        BY <1>1, <1>3, <3>1 DEF Complete
      <4> QED BY <4>1 DEF EInv, RegistrySound
    <3>2. CASE status[e] # "cancelled"
      <4>1. /\ status' = [status EXCEPT ![e] = IF ~failed[e] THEN "succeeded" ELSE "failed"]
            /\ Cleanup(Ending(e))
        BY <1>1, <1>3, <3>2 DEF Complete
      <4>2. /\ Ending(e) \in Seq(Executions) /\ Distinct(Ending(e))
            /\ Members(Ending(e)) = Members(ended) \cup {e}
        BY EndingPuts DEF EInv, RegistrySound
      <4>3. {x \in tracked : status'[x] \in Finished}
               = {x \in tracked : status[x] \in Finished} \cup {e}
        BY <1>3, <4>1 DEF Finished, EInv, CInv, Shapes
      <4> QED BY <4>1, <4>2, <4>3 DEF EInv, RegistrySound
    <3> QED BY <3>1, <3>2
  <2>2. PICK oldest : /\ oldest \subseteq Members(q)
                      /\ Members(ended') = Members(q) \ oldest
                      /\ tracked' = tracked \ oldest
    BY <2>1, CleanupKeeps
  <2>3. ended' \in Seq(Executions) /\ Distinct(ended') /\ Len(ended') <= MaxCompleted
    BY <2>1, CleanupKeeps
  <2>4. Members(ended') = {x \in tracked' : status'[x] \in Finished}
    BY <2>1, <2>2
  <2>5. \A x \in tracked' : run'[x] = "done" => status'[x] \in Finished
    <3>1. status'[e] \in Finished
      BY <1>1, <1>3 DEF Complete, Finished, EInv, CInv, Shapes
    <3>2. \A x \in Executions : x # e => status'[x] = status[x]
      BY FinishShape DEF EInv, CInv
    <3> QED BY <1>1, <2>2, <3>1, <3>2 DEF EInv, CInv, Shapes, RegistrySound
  <2>6. RegistrySound'
    BY <2>3, <2>4, <2>5 DEF RegistrySound, Distinct, Members
  <2> QED BY <2>3, <2>6
<1> QED BY <1>2, <1>3

\* tracker.cancel.
LEMMA CancelRegistry ==
    ASSUME EInv, NEW c \in Cancellers, MarkCancelled(c)
    PROVE  RegistrySound'
<1>1. PICK e \in Executions :
         IF e \in tracked
         THEN status' = [status EXCEPT ![e] = "cancelled"] /\ ended' = Ending(e)
         ELSE UNCHANGED <<status, ended>>
  BY DEF MarkCancelled, EInv, CInv, Shapes
<1>2. UNCHANGED <<run, tracked>>
  BY DEF MarkCancelled, runner
<1>3. CASE e \notin tracked
  BY <1>1, <1>2, <1>3 DEF EInv, RegistrySound
<1>4. CASE e \in tracked
  <2>1. /\ Ending(e) \in Seq(Executions) /\ Distinct(Ending(e))
        /\ Members(Ending(e)) = Members(ended) \cup {e}
    BY EndingPuts DEF EInv, RegistrySound
  <2>2. {x \in tracked' : status'[x] \in Finished} = {x \in tracked : status[x] \in Finished} \cup {e}
    BY <1>1, <1>2, <1>4 DEF Finished, EInv, CInv, Shapes
  <2>3. ended' \in Seq(Executions) /\ Distinct(ended')
    BY <1>1, <1>4, <2>1
  <2>4. Members(ended') = {x \in tracked' : status'[x] \in Finished}
    BY <1>1, <1>4, <2>1, <2>2 DEF EInv, RegistrySound
  <2>5. \A x \in tracked' : run'[x] = "done" => status'[x] \in Finished
    BY <1>1, <1>2, <1>4 DEF EInv, CInv, Shapes, RegistrySound, Finished
  <2> QED BY <2>3, <2>4, <2>5 DEF RegistrySound, Distinct, Members
<1> QED BY <1>3, <1>4

LEMMA NextRegistrySound == ASSUME EInv, Next PROVE RegistrySound'
<1>1. ASSUME NEW e \in Executions, Start(e) PROVE RegistrySound'
  <2>1. /\ run[e] = "new" /\ run' = [run EXCEPT ![e] = "begin"]
        /\ status' = [status EXCEPT ![e] = "running"]
        /\ tracked' = tracked \cup {e} /\ UNCHANGED ended
    BY <1>1 DEF Start, Goto
  <2>2. e \notin tracked
    BY <2>1 DEF EInv, CInv, NewIsUnknown
  <2>3. {x \in tracked' : status'[x] \in Finished} = {x \in tracked : status[x] \in Finished}
    BY <2>1, <2>2 DEF EInv, CInv, Shapes, Finished
  <2>4. \A x \in tracked' : run'[x] = "done" => status'[x] \in Finished
    BY <2>1, <2>2 DEF EInv, CInv, Shapes, RegistrySound
  <2> QED BY <2>1, <2>3, <2>4 DEF EInv, RegistrySound, Members, Distinct
<1>2. ASSUME NEW e \in Executions, RunnerStep(e), ~Finish(e) PROVE RegistrySound'
  <2>1. UNCHANGED <<status, tracked, ended>>
    BY <1>2 DEF RunnerStep, Begin, CheckStage, Spawn, StageRaises, EngineReturns, AfterStage,
       Report, registry
  <2>2. /\ run'[e] # "done" \/ run'[e] = run[e]
        /\ \A x \in Executions : x # e => run'[x] = run[x]
    BY <1>2 DEF RunnerStep, Begin, CheckStage, Spawn, StageRaises, EngineReturns, AfterStage,
       Report, Goto, EInv, CInv, Shapes
  <2> QED BY <2>1, <2>2 DEF EInv, CInv, Shapes, RegistrySound, Members, Distinct
<1>3. ASSUME NEW e \in Executions, LogStep(e) PROVE RegistrySound'
  <2>1. UNCHANGED <<run, status, tracked, ended>>
    BY <1>3 DEF LogStep, ReadLine, TakeNewest, Tell, LogReturns, runner, registry
  <2> QED BY <2>1 DEF EInv, RegistrySound, Members, Distinct
<1>4. ASSUME NEW c \in Cancellers, RequestCancel(c) PROVE RegistrySound'
  BY <1>4 DEF RequestCancel, runner, registry, EInv, RegistrySound, Members, Distinct
<1>5. ASSUME NEW s \in Streams, Open(s) \/ StreamStep(s) \/ Leave(s) PROVE RegistrySound'
  <2>1. UNCHANGED <<run, status, tracked, ended>>
    BY <1>5 DEF Open, StreamStep, Leave, Subscribe, SendExisting, SendNew, SendLast, Abandon,
       Close, runner, registry
  <2> QED BY <2>1 DEF EInv, RegistrySound, Members, Distinct
<1> QED BY <1>1, <1>2, <1>3, <1>4, <1>5, FinishRegistry, CancelRegistry DEF Next, RunnerStep

\* The clients keep their shape if no subscriber is added but by Subscribe.
LEMMA ClientsStay ==
    ASSUME ClientsSound, stream' = stream,
           subs' \in [Executions -> Seq(Streams)],
           \A e \in Executions : subs'[e] = subs[e] \/ subs'[e] = <<>>
    PROVE  ClientsSound'
<1>1. Distinct(<<>>) /\ Members(<<>>) = {}
  BY DEF Distinct, Members
<1>2. ASSUME NEW e \in Executions
      PROVE  /\ Distinct(subs'[e])
             /\ \A s \in Members(subs'[e]) :
                   stream'[s].of = {e} /\ stream'[s].at \in {"subscribed", "streaming"}
  BY <1>1 DEF ClientsSound
<1> QED BY <1>2 DEF ClientsSound, Distinct, Members

\* complete() and the cleanup only remove subscribers.
LEMMA FinishClients == ASSUME EInv, NEW e \in Executions, Finish(e) PROVE ClientsSound'
<1>1. UNCHANGED stream /\ Complete(e, ~failed[e])
  BY DEF Finish, clients
<1>2. CASE UNCHANGED subs
  BY <1>1, <1>2, ClientsStay DEF EInv, ClientsSound
<1>3. CASE \E q \in Seq(Executions) : Cleanup(q)
  <2>1. \E o : subs' = [x \in Executions |-> IF x \in o THEN <<>> ELSE subs[x]]
    BY <1>3 DEF Cleanup
  <2>2. /\ subs' \in [Executions -> Seq(Streams)]
        /\ \A x \in Executions : subs'[x] = subs[x] \/ subs'[x] = <<>>
    BY <2>1 DEF EInv, ClientsSound
  <2> QED BY <1>1, <2>2, ClientsStay DEF EInv
<1>4. ended \in Seq(Executions) /\ Ending(e) \in Seq(Executions)
  BY EndingPuts DEF EInv, RegistrySound
<1> QED BY <1>1, <1>2, <1>3, <1>4 DEF Complete, registry

\* A step of stream s alone, that leaves it with a shape.
LEMMA StreamTurns ==
    ASSUME ClientsSound, NEW s \in Streams, NEW r \in StreamState,
           stream' = [stream EXCEPT ![s] = r],
           r.at # "idle" => \E e \in Executions : r.of = {e},
           subs' \in [Executions -> Seq(Streams)],
           \A e \in Executions : Distinct(subs'[e]),
           \A e \in Executions : \A x \in Members(subs'[e]) : x # s => x \in Members(subs[e]),
           \A e \in Executions : s \in Members(subs'[e]) =>
               r.of = {e} /\ r.at \in {"subscribed", "streaming"}
    PROVE  ClientsSound'
<1>1. stream' \in [Streams -> StreamState]
  BY DEF ClientsSound
<1>2. stream'[s] = r /\ \A x \in Streams : x # s => stream'[x] = stream[x]
  BY DEF ClientsSound
<1>3. ASSUME NEW x \in Streams
      PROVE  stream'[x].at = "idle" \/ \E e \in Executions : stream'[x].of = {e}
  BY <1>2 DEF ClientsSound
<1>4. ASSUME NEW e \in Executions, NEW x \in Members(subs'[e])
      PROVE  stream'[x].of = {e} /\ stream'[x].at \in {"subscribed", "streaming"}
  <2>1. x \in Streams
    <3>1. subs'[e] \in Seq(Streams)
      OBVIOUS
    <3> QED BY <1>4, <3>1 DEF Members
  <2> QED BY <1>2, <1>4, <2>1 DEF ClientsSound
<1> QED BY <1>1, <1>3, <1>4 DEF ClientsSound, Distinct, Members

LEMMA StreamStepClients ==
    ASSUME EInv, NEW s \in Streams, Open(s) \/ StreamStep(s) \/ Leave(s)
    PROVE  ClientsSound'
<1> USE DEF StreamState
<1>0. ClientsSound
  BY DEF EInv
<1>1. stream \in [Streams -> StreamState] /\ stream[s] \in StreamState
  BY DEF EInv, ClientsSound
<1>2. subs \in [Executions -> Seq(Streams)] /\ entries \in [Executions -> Nat]
  BY DEF EInv, ClientsSound, LogSound
<1>d. \A x \in Executions : Distinct(subs[x])
  BY DEF EInv, ClientsSound
<1>3. CASE Open(s)
  <2>1. PICK e \in Executions :
            stream' = [stream EXCEPT ![s] = [stream[s] EXCEPT !.at = "opened", !.of = {e}]]
    BY <1>1, <1>3 DEF Open, EInv, CInv, Shapes
  <2>2. stream[s].at = "idle" /\ UNCHANGED subs
    BY <1>3 DEF Open, registry
  <2>3. PICK r : r = [stream[s] EXCEPT !.at = "opened", !.of = {e}]
    OBVIOUS
  <2>4. r \in StreamState /\ r.of = {e}
    BY <1>1, <2>3 DEF StreamPoints
  <2>5. \A x \in Executions : s \notin Members(subs[x])
    BY <2>2 DEF EInv, ClientsSound
  <2> HIDE DEF StreamState
  <2> QED BY <1>0, <1>2, <1>d, <2>1, <2>2, <2>3, <2>4, <2>5, StreamTurns
<1>4. CASE Subscribe(s)
  <2>1. stream[s].at = "opened"
        /\ stream' = [stream EXCEPT ![s] = [stream[s] EXCEPT !.at = "subscribed"]]
        /\ subs' = [e \in Executions |-> IF e \in stream[s].of THEN Append(subs[e], s) ELSE subs[e]]
    BY <1>1, <1>4 DEF Subscribe
  <2>2. PICK r : r = [stream[s] EXCEPT !.at = "subscribed"]
    OBVIOUS
  <2>3. r \in StreamState /\ r.of = stream[s].of /\ r.at = "subscribed"
    BY <1>1, <2>2 DEF StreamPoints
  <2>4. PICK e \in Executions : stream[s].of = {e}
    BY <2>1 DEF EInv, ClientsSound
  <2>5. \A x \in Executions : s \notin Members(subs[x])
    BY <2>1 DEF EInv, ClientsSound
  <2>6. ASSUME NEW x \in Executions
        PROVE  /\ subs'[x] \in Seq(Streams) /\ Distinct(subs'[x])
               /\ \A y \in Members(subs'[x]) : y # s => y \in Members(subs[x])
               /\ s \in Members(subs'[x]) => x = e
    <3>1. subs[x] \in Seq(Streams) /\ Distinct(subs[x]) /\ s \notin Members(subs[x])
      BY <1>2, <1>d, <2>5
    <3>2. CASE x = e
      <4>1. /\ Append(subs[x], s) \in Seq(Streams) /\ Distinct(Append(subs[x], s))
            /\ Members(Append(subs[x], s)) = Members(subs[x]) \cup {s}
        BY <3>1, AppendPuts
      <4> QED BY <2>1, <2>4, <3>2, <4>1
    <3>3. CASE x # e
      BY <2>1, <2>4, <3>1, <3>3
    <3> QED BY <3>2, <3>3
  <2>7. subs' \in [Executions -> Seq(Streams)]
    BY <2>1, <2>6
  <2>8. \A x \in Executions : s \in Members(subs'[x]) =>
            r.of = {x} /\ r.at \in {"subscribed", "streaming"}
    BY <2>3, <2>4, <2>6
  <2>9. stream' = [stream EXCEPT ![s] = r]
    BY <2>1, <2>2
  <2>10. \E x \in Executions : r.of = {x}
    BY <2>3, <2>4
  <2> HIDE DEF StreamState
  <2> QED BY <1>0, <2>3, <2>6, <2>7, <2>8, <2>9, <2>10, StreamTurns
<1>5. CASE SendExisting(s) \/ SendNew(s)
  <2>1. stream[s].at \in {"subscribed", "streaming"} /\ UNCHANGED subs
    BY <1>5 DEF SendExisting, SendNew, registry
  <2>2. PICK r \in StreamState :
            /\ r.at = "streaming" /\ r.of = stream[s].of
            /\ stream' = [stream EXCEPT ![s] = r]
    <3>1. CASE SendExisting(s)
      <4>1. PICK e \in Executions :
               stream' = [stream EXCEPT ![s] = [stream[s] EXCEPT !.at = "streaming",
                                                                 !.from = Oldest(e),
                                                                 !.sent = Oldest(e)..entries[e]]]
        BY <1>1, <3>1 DEF SendExisting
      <4>2. PICK r : r = [stream[s] EXCEPT !.at = "streaming", !.from = Oldest(e),
                                           !.sent = Oldest(e)..entries[e]]
        OBVIOUS
      <4>3. Oldest(e) \in Nat /\ Oldest(e)..entries[e] \subseteq Nat
        BY <1>2, BoundsAssumption DEF Oldest
      <4>4. r \in StreamState /\ r.at = "streaming" /\ r.of = stream[s].of
        BY <1>1, <4>2, <4>3 DEF StreamPoints
      <4> QED BY <4>1, <4>2, <4>4
    <3>2. CASE SendNew(s)
      <4>1. PICK k \in stream[s].queue :
               stream' = [stream EXCEPT ![s] = [stream[s] EXCEPT !.queue = @ \ {k},
                                                                 !.sent = @ \cup {k}]]
        BY <1>1, <3>2 DEF SendNew
      <4>2. PICK r : r = [stream[s] EXCEPT !.queue = @ \ {k}, !.sent = @ \cup {k}]
        OBVIOUS
      <4>3. r \in StreamState /\ r.at = "streaming" /\ r.of = stream[s].of
        BY <1>1, <3>2, <4>2 DEF SendNew
      <4> QED BY <4>1, <4>2, <4>3
    <3> QED BY <1>5, <3>1, <3>2
  <2>3. \E e \in Executions : stream[s].of = {e}
    BY <2>1 DEF EInv, ClientsSound
  <2>4. \A x \in Executions : s \in Members(subs[x]) => stream[s].of = {x}
    BY DEF EInv, ClientsSound
  <2>5. subs' \in [Executions -> Seq(Streams)] /\ subs' = subs
    BY <1>2, <2>1
  <2>6. \A x \in Executions : s \in Members(subs'[x]) =>
            r.of = {x} /\ r.at \in {"subscribed", "streaming"}
    BY <2>2, <2>4, <2>5
  <2>7. \E x \in Executions : r.of = {x}
    BY <2>2, <2>3
  <2> HIDE DEF StreamState
  <2> QED BY <1>0, <1>d, <2>2, <2>5, <2>6, <2>7, StreamTurns
<1>6. ASSUME NEW p \in Closed, NEW l \in SUBSET Nat, Close(s, p, l), stream[s].at # "idle"
      PROVE  ClientsSound'
  <2>1. /\ stream' = [stream EXCEPT ![s] = [stream[s] EXCEPT !.at = p, !.sent = @ \cup l,
                                                             !.queue = {}]]
        /\ subs' = [x \in Executions |-> Without(subs[x], s)]
    BY <1>1, <1>6 DEF Close
  <2>2. PICK r : r = [stream[s] EXCEPT !.at = p, !.sent = @ \cup l, !.queue = {}]
    OBVIOUS
  <2>3. r \in StreamState /\ r.of = stream[s].of
    BY <1>1, <2>2 DEF StreamPoints
  <2>4. \E e \in Executions : stream[s].of = {e}
    BY <1>6 DEF EInv, ClientsSound
  <2>5. ASSUME NEW x \in Executions
        PROVE  /\ subs'[x] \in Seq(Streams) /\ Distinct(subs'[x])
               /\ Members(subs'[x]) = Members(subs[x]) \ {s}
    <3>1. subs[x] \in Seq(Streams) /\ Distinct(subs[x]) /\ subs'[x] = Without(subs[x], s)
      BY <1>2, <1>d, <2>1
    <3> QED BY <3>1, WithoutKeeps
  <2>6. subs' \in [Executions -> Seq(Streams)]
    BY <2>1, <2>5
  <2>7. stream' = [stream EXCEPT ![s] = r]
    BY <2>1, <2>2
  <2> HIDE DEF StreamState
  <2> QED BY <1>0, <2>3, <2>4, <2>5, <2>6, <2>7, StreamTurns
<1>7. stream[s].queue \subseteq Nat
  BY <1>1
<1>8. CASE SendLast(s)
  BY <1>6, <1>7, <1>8 DEF SendLast, Closed
<1>9. CASE Abandon(s) \/ Leave(s)
  BY <1>6, <1>9 DEF Abandon, Leave, Closed
<1> QED BY <1>3, <1>4, <1>5, <1>8, <1>9 DEF StreamStep

\* log() hands its entry to a stream that subscribes to the execution.
LEMMA TellClients ==
    ASSUME EInv, NEW e \in Executions, NEW w \in Writers, Tell(e, w) PROVE ClientsSound'
<1>1. PICK s : s = subs[e][telling[e][w].next]
  OBVIOUS
<1>2. PICK k : k = telling[e][w].entry
  OBVIOUS
<1>3. ClientsSound /\ subs[e] \in Seq(Streams)
  BY DEF EInv, ClientsSound
<1>4. telling[e][w].next \in DOMAIN subs[e] /\ UNCHANGED subs
  BY DEF Tell, registry
<1>5. s \in Streams
  BY <1>1, <1>3, <1>4
<1>6. k \in Nat
  BY <1>2 DEF EInv, LogSound, LogCall
<1>7. stream[s] \in StreamState /\ stream \in [Streams -> StreamState]
  BY <1>3, <1>5 DEF ClientsSound
<1>8. PICK r : r = [stream[s] EXCEPT !.queue = @ \cup {k}]
  OBVIOUS
<1>9. r \in StreamState /\ r.at = stream[s].at /\ r.of = stream[s].of
  BY <1>6, <1>7, <1>8 DEF StreamState
<1>10. stream' = [stream EXCEPT ![s] = r]
  BY <1>1, <1>2, <1>5, <1>7, <1>8 DEF Tell
<1>11. \A x \in Executions : Distinct(subs[x])
  BY <1>3 DEF ClientsSound
<1>12. r.at # "idle" => \E x \in Executions : r.of = {x}
  BY <1>3, <1>5, <1>9 DEF ClientsSound
<1>13. \A x \in Executions : s \in Members(subs[x]) =>
           r.of = {x} /\ r.at \in {"subscribed", "streaming"}
  BY <1>3, <1>9 DEF ClientsSound
<1>14. subs' = subs /\ subs \in [Executions -> Seq(Streams)]
  BY <1>3, <1>4 DEF ClientsSound
<1> QED BY <1>3, <1>5, <1>9, <1>10, <1>11, <1>12, <1>13, <1>14, StreamTurns

LEMMA NextClientsSound == ASSUME EInv, Next PROVE ClientsSound'
<1>0. ClientsSound /\ subs \in [Executions -> Seq(Streams)]
  BY DEF EInv, ClientsSound
<1>1. ASSUME NEW e \in Executions, Start(e) \/ (RunnerStep(e) /\ ~Finish(e)) PROVE ClientsSound'
  <2>1. UNCHANGED <<subs, stream>>
    BY <1>1 DEF Start, RunnerStep, Begin, CheckStage, Spawn, StageRaises, EngineReturns,
       AfterStage, Report, registry, clients
  <2> QED BY <1>0, <2>1, ClientsStay
<1>2. ASSUME NEW e \in Executions, NEW src \in Sources, ReadLine(e, src) PROVE ClientsSound'
  BY <1>0, <1>2, ClientsStay DEF ReadLine, registry, clients
<1>3. ASSUME NEW e \in Executions, NEW w \in Writers, TakeNewest(e, w) \/ LogReturns(e, w)
      PROVE  ClientsSound'
  BY <1>0, <1>3, ClientsStay DEF TakeNewest, LogReturns, registry, clients
<1>4. ASSUME NEW c \in Cancellers, RequestCancel(c) \/ MarkCancelled(c) PROVE ClientsSound'
  BY <1>0, <1>4, ClientsStay DEF RequestCancel, MarkCancelled, registry
<1> QED BY <1>1, <1>2, <1>3, <1>4, TellClients, FinishClients, StreamStepClients
        DEF Next, RunnerStep, LogStep

\* The invariant of the tracker, its log and its subscribers.
THEOREM TrackerInvariant == Spec => []EInv
<1>1. ASSUME EInv, [Next]_vars PROVE EInv'
  <2>1. CASE Next
    BY <1>1, <2>1, CInvNext, NextRunnerSound, NextLogSound, NextRegistrySound, NextClientsSound
       DEF EInv
  <2>2. CASE UNCHANGED vars
    <3>1. CInv'
      BY <1>1, CInvNext DEF EInv
    <3>2. RunnerSound' /\ LogSound'
      BY <1>1, <2>2, RunnerStays, LogsKeep DEF vars, runner, logged, EInv
    <3>3. RegistrySound'
      BY <1>1, <2>2 DEF vars, runner, registry, EInv, RegistrySound, Members, Distinct
    <3>4. ClientsSound'
      BY <1>1, <2>2, ClientsStay DEF vars, registry, clients, EInv, ClientsSound
    <3> QED BY <3>1, <3>2, <3>3, <3>4 DEF EInv
  <2> QED BY <1>1, <2>1, <2>2
<1> QED BY <1>1, InitEInv, PTL DEF Spec

\* Every variable keeps to its type; the executions with a finished_at are
\* exactly the tracked ones that have finished, each once, although complete()
\* and tracker.cancel may both finish one, and a subscriber streams what it
\* has subscribed to.
THEOREM TrackerTypes == Spec => []TypeOK
<1>1. EInv => TypeOK
  BY DEF EInv, CInv, Shapes, RunnerSound, LogSound, RegistrySound, ClientsSound, TypeOK,
     Members, Distinct
<1> QED BY <1>1, TrackerInvariant, PTL

-----------------------------------------------------------------------------
(* The number of finished executions.                                      *)

LEMMA FewMore ==
    ASSUME NEW A, NEW B, A \subseteq B, B \subseteq Executions
    PROVE  /\ Cardinality(A) \in Nat /\ Cardinality(B) \in Nat
           /\ Cardinality(A) <= Cardinality(B)
           /\ A # B => Cardinality(A) + 1 <= Cardinality(B)
<1>1. IsFiniteSet(B) /\ IsFiniteSet(A)
  BY ExecutionsAssumption, FS_Subset
<1>2. Cardinality(A) \in Nat /\ Cardinality(B) \in Nat /\ Cardinality(A) <= Cardinality(B)
  BY <1>1, FS_CardinalityType, FS_Subset
<1>3. A # B => Cardinality(A) # Cardinality(B)
  BY <1>1, FS_Subset
<1> QED BY <1>2, <1>3

\* Only tracker.cancel lets the finished grow past the limit, by an execution
\* whose thread has yet to come to complete().
LEMMA NextEnded == ASSUME EInv, EndedBounded, Next PROVE EndedBounded'
<1> DEFINE U == {e \in tracked : status[e] = "cancelled" /\ run[e] # "done"}
<1>0. U \subseteq Executions /\ U' \subseteq Executions /\ Len(ended) \in Nat
  <2>1. CInv'
    BY CInvNext DEF EInv
  <2> QED BY <2>1 DEF EInv, CInv, Shapes, RegistrySound
<1>1. Cardinality(U) \in Nat /\ Cardinality(U') \in Nat
  BY <1>0, FewMore
<1>2. Len(ended) <= MaxCompleted + Cardinality(U)
  BY DEF EndedBounded
<1>3. SUFFICES Len(ended') <= MaxCompleted + Cardinality(U')
  BY DEF EndedBounded
<1> USE BoundsAssumption
<1>4. ASSUME UNCHANGED ended, U \subseteq U' PROVE Len(ended') <= MaxCompleted + Cardinality(U')
  <2>1. Cardinality(U) <= Cardinality(U')
    BY <1>0, <1>4, FewMore
  <2> HIDE DEF U
  <2> QED BY <1>0, <1>1, <1>2, <1>4, <2>1
<1>5. ASSUME NEW e \in Executions, Start(e) PROVE U \subseteq U' /\ UNCHANGED ended
  BY <1>5 DEF Start, Goto, EInv, CInv, Shapes, NewIsUnknown
<1>6. ASSUME NEW e \in Executions, RunnerStep(e), ~Finish(e) PROVE U \subseteq U' /\ UNCHANGED ended
  <2>1. UNCHANGED <<status, tracked, ended>>
    BY <1>6 DEF RunnerStep, Begin, CheckStage, Spawn, StageRaises, EngineReturns, AfterStage,
       Report, registry
  <2>2. /\ run'[e] # "done" \/ run'[e] = run[e]
        /\ \A x \in Executions : x # e => run'[x] = run[x]
    BY <1>6 DEF RunnerStep, Begin, CheckStage, Spawn, StageRaises, EngineReturns, AfterStage,
       Report, Goto, EInv, CInv, Shapes
  <2> QED BY <2>1, <2>2 DEF EInv, CInv, Shapes
<1>7. ASSUME NEW e \in Executions, Finish(e) PROVE Len(ended') <= MaxCompleted + Cardinality(U')
  <2>1. CASE e \in tracked
    <3>1. Len(ended') <= MaxCompleted /\ Len(ended') \in Nat
      BY <1>7, <2>1, FinishRegistry DEF RegistrySound
    <3> HIDE DEF U
    <3> QED BY <1>1, <3>1
  <2>2. CASE e \notin tracked
    <3>1. UNCHANGED <<status, tracked, ended>> /\ run' = [run EXCEPT ![e] = "done"]
      BY <1>7, <2>2 DEF Finish, Goto, Complete, registry
    <3>2. U \subseteq U'
      BY <2>2, <3>1 DEF EInv, CInv, Shapes
    <3> QED BY <1>4, <3>1, <3>2
  <2> QED BY <2>1, <2>2
<1>8. ASSUME NEW e \in Executions, LogStep(e) PROVE U \subseteq U' /\ UNCHANGED ended
  BY <1>8 DEF LogStep, ReadLine, TakeNewest, Tell, LogReturns, runner, registry
<1>9. ASSUME NEW c \in Cancellers, RequestCancel(c) PROVE U \subseteq U' /\ UNCHANGED ended
  BY <1>9 DEF RequestCancel, runner, registry
<1>10. ASSUME NEW c \in Cancellers, MarkCancelled(c)
       PROVE  Len(ended') <= MaxCompleted + Cardinality(U')
  <2>1. PICK e \in Executions :
           IF e \in tracked
           THEN status' = [status EXCEPT ![e] = "cancelled"] /\ ended' = Ending(e)
           ELSE UNCHANGED <<status, ended>>
    BY <1>10 DEF MarkCancelled, EInv, CInv, Shapes
  <2>2. UNCHANGED <<run, tracked>>
    BY <1>10 DEF MarkCancelled, runner
  <2>3. U \subseteq U'
    BY <2>1, <2>2 DEF EInv, CInv, Shapes
  <2>4. CASE e \notin tracked
    BY <1>4, <2>1, <2>3, <2>4
  <2>5. CASE e \in tracked
    <3>1. Len(ended') = IF e \in Members(ended) THEN Len(ended) ELSE Len(ended) + 1
      BY <2>1, <2>5, EndingPuts DEF EInv, RegistrySound
    <3>2. Cardinality(U) <= Cardinality(U') /\ (U # U' => Cardinality(U) + 1 <= Cardinality(U'))
      BY <1>0, <2>3, FewMore
    <3>3. CASE e \in Members(ended)
      <4> HIDE DEF U
      <4> QED BY <1>0, <1>1, <1>2, <3>1, <3>2, <3>3
    <3>4. CASE e \notin Members(ended)
      <4>1. status[e] \notin Finished /\ run[e] # "done"
        BY <2>5, <3>4 DEF EInv, RegistrySound
      <4>2. e \in U' /\ e \notin U
        BY <2>1, <2>2, <2>5, <4>1 DEF EInv, CInv, Shapes, Finished
      <4>3. U # U'
        BY <4>2
      <4> HIDE DEF U
      <4> QED BY <1>0, <1>1, <1>2, <3>1, <3>2, <3>4, <4>3
    <3> QED BY <3>3, <3>4
  <2> QED BY <2>4, <2>5
<1>11. ASSUME NEW s \in Streams, Open(s) \/ StreamStep(s) \/ Leave(s)
       PROVE  U \subseteq U' /\ UNCHANGED ended
  <2>1. UNCHANGED <<run, status, tracked, ended>>
    BY <1>11 DEF Open, StreamStep, Leave, Subscribe, SendExisting, SendNew, SendLast, Abandon,
       Close, runner, registry
  <2> QED BY <2>1
<1> HIDE DEF U
<1> QED BY <1>4, <1>5, <1>6, <1>7, <1>8, <1>9, <1>10, <1>11 DEF Next, RunnerStep

\* The tracker keeps at most _max_completed finished executions and, beyond
\* them, cancelled ones whose run_discovery is still on its way to complete():
\* _cleanup_old_executions runs only there.
THEOREM FinishedAreFew == Spec => []EndedBounded
<1>1. Init => EndedBounded
  <2> SUFFICES ASSUME Init PROVE EndedBounded
    OBVIOUS
  <2>1. Len(ended) = 0 /\ {e \in tracked : status[e] = "cancelled" /\ run[e] # "done"} = {}
    BY DEF Init
  <2> QED BY <2>1, FS_EmptySet, BoundsAssumption DEF EndedBounded
<1>2. EInv /\ EndedBounded /\ [Next]_vars => EndedBounded'
  <2>1. UNCHANGED vars /\ EndedBounded => EndedBounded'
    BY DEF vars, runner, registry, EndedBounded
  <2> QED BY <2>1, NextEnded
<1> QED BY <1>1, <1>2, TrackerInvariant, PTL DEF Spec
=============================================================================
