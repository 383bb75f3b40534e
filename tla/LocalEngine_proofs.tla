------------------------ MODULE LocalEngine_proofs ------------------------
(***************************************************************************)
(* Proofs about LocalEngine: collecting samples, the schedule of a local   *)
(* processor and run_batch, for every number of jobs, every limit, every   *)
(* schedule __init__ accepts and every sequence of requests.               *)
(*                                                                         *)
(*  - CollectInv is inductive.  running counts the jobs started and not    *)
(*    delivered, held the tasks inside the limiter, and what was delivered *)
(*    and what waits in the buffer are together the tasks that ended       *)
(*    before the first error, in the order in which they ended.            *)
(*  - CalendarInv is inductive.  It adds to ScheduleIsCalendar that slots  *)
(*    share no time and that the free slots are in order, which is why     *)
(*    only one slot of those a reservation meets can start before it.      *)
(*  - run_batch is proved by way of how many requests the first k batches  *)
(*    hold: a job whose requests have one sweep gives it to every program, *)
(*    a job of one program gives it every sweep (OneSweepForAll,           *)
(*    OneProgram), and requests that share a job are like a neighbour.     *)
(*                                                                         *)
(* What a loop of the code computes is proved by its least turn that goes  *)
(* wrong (LeastElement).                                                   *)
(***************************************************************************)
EXTENDS LocalEngine, FiniteSetTheorems, SequenceTheorems, WellFoundedInduction, TLAPS

\* A set of natural numbers has a smallest element: what induction over the numbers of
\* the jobs rests on.
LEMMA LeastElement ==
    ASSUME NEW S \in SUBSET Nat, S # {}
    PROVE  \E m \in S : \A y \in S : m <= y
<1>. DEFINE R == OpToRel(<, Nat)
<1>1. PICK m \in S : \A y \in S : <<y, m>> \notin R
  BY NatLessThanWellFounded, WFMin
<1>2. \A y \in S : ~(y < m)
  BY <1>1 DEF OpToRel
<1>. QED
  BY <1>2

\* The recursive definition of SamplesOf is one.
LEMMA SamplesRecursion ==
    LET N == Cardinality(Jobs) IN
    /\ N \in Nat /\ Jobs = 1..N
    /\ SamplesOf[0] = 0
    /\ \A n \in 1..N : SamplesOf[n] = SamplesOf[n - 1] + Reps[n]
    /\ \A n \in 0..N : SamplesOf[n] \in Nat
<1>. PICK N : N = Cardinality(Jobs)
  OBVIOUS
<1>1. N \in Nat /\ Jobs = 1..N /\ \A n \in 1..N : Reps[n] \in Nat
  BY FS_CardinalityType, CollectorAssumption
<1>. DEFINE Sums(g, n) == /\ g \in [0..n -> Nat] /\ g[0] = 0
                          /\ \A k \in 1..n : g[k] = g[k - 1] + Reps[k]
            Bad == {n \in 0..N : ~ \E g : Sums(g, n)}
<1>2. Bad = {}
  <2>. SUFFICES ASSUME Bad # {} PROVE FALSE
    OBVIOUS
  <2>1. PICK m \in Bad : \A y \in Bad : m <= y
    <3>1. Bad \in SUBSET Nat
      BY <1>1
    <3>. QED
      BY <3>1, LeastElement
  <2>2. m \in 0..N /\ ~ \E g : Sums(g, m)
    BY <2>1
  <2>3. m # 0
    <3>1. Sums([k \in 0..0 |-> 0], 0)
      OBVIOUS
    <3>. QED
      BY <2>2, <3>1
  <2>4. m - 1 \in 0..N /\ ~(m <= m - 1)
    BY <1>1, <2>2, <2>3
  <2>5. PICK h : Sums(h, m - 1)
    <3>. HIDE DEF Sums
    <3>. QED
      BY <2>1, <2>4
  <2>. DEFINE g == [k \in 0..m |-> IF k = m THEN h[m - 1] + Reps[m] ELSE h[k]]
  <2>6. m \in Nat /\ m > 0 /\ Reps[m] \in Nat
    BY <1>1, <2>2, <2>3
  <2>7. g \in [0..m -> Nat] /\ g[0] = 0
    BY <2>5, <2>6
  <2>8. \A k \in 1..m : g[k] = g[k - 1] + Reps[k]
    BY <2>5, <2>6
  <2>. QED
    BY <2>2, <2>7, <2>8
<1>3. PICK f : Sums(f, N)
  <2>1. N \in 0..N
    BY <1>1
  <2>. HIDE DEF Sums
  <2>. QED
    BY <1>2, <2>1
<1>. DEFINE Def(g) == g = [n \in 0..N |-> IF n = 0 THEN 0 ELSE g[n - 1] + Reps[n]]
<1>4. Def(f)
  BY <1>1, <1>3
<1>5. SamplesOf = CHOOSE g : Def(g)
  BY DEF SamplesOf
<1>6. \E g : Def(g)
  BY <1>4
<1>. HIDE DEF Def
<1>7. Def(SamplesOf)
  BY <1>5, <1>6
<1>8. SamplesOf = [n \in 0..N |-> IF n = 0 THEN 0 ELSE SamplesOf[n - 1] + Reps[n]]
  BY <1>7 DEF Def
<1>9. SamplesOf[0] = 0 /\ \A n \in 1..N : SamplesOf[n] = SamplesOf[n - 1] + Reps[n]
  <2>1. ASSUME NEW n \in 0..N
        PROVE  SamplesOf[n] = IF n = 0 THEN 0 ELSE SamplesOf[n - 1] + Reps[n]
    BY <1>8
  <2>2. 0 \in 0..N /\ \A n \in 1..N : n \in 0..N /\ n # 0
    BY <1>1
  <2>. QED
    BY <2>1, <2>2
<1>10. \A n \in 0..N : SamplesOf[n] \in Nat
  <2>. DEFINE Odd == {n \in 0..N : SamplesOf[n] \notin Nat}
  <2>. SUFFICES ASSUME Odd # {} PROVE FALSE
    OBVIOUS
  <2>1. PICK m \in Odd : \A y \in Odd : m <= y
    <3>1. Odd \in SUBSET Nat
      BY <1>1
    <3>. QED
      BY <3>1, LeastElement
  <2>2. m \in 0..N /\ m # 0 /\ SamplesOf[m] \notin Nat
    BY <1>9, <2>1
  <2>3. m \in 1..N /\ m - 1 \in 0..N /\ m - 1 \notin Odd
    BY <1>1, <2>1, <2>2
  <2>. QED
    BY <1>1, <1>9, <2>2, <2>3
<1>. QED
  BY <1>1, <1>9, <1>10
----------------------------------------------------------------------------
\* The invariant of collect_async.

Owed == Started \ ToSet(delivered)
Inside == {j \in Jobs : task[j] \in {"submitted", "awaiting"}}
Kept == Len(delivered) + Len(buffer)
Begun == offered - Len(queued)

\* Jobs are started in the order in which next_job() offered them.
StartInv ==
    /\ Begun \in Nat
    /\ \A i \in 1..Len(queued) : queued[i] = Begun + i
    /\ Started = 1..Begun
    /\ remaining = MaxTotalSamples - SamplesOf[Begun]
    /\ \A j \in Started : SamplesOf[j - 1] < MaxTotalSamples

\* running_jobs counts the jobs started and not delivered, held those in the limiter.
CountInv ==
    /\ running = Cardinality(Owed) /\ running <= Concurrency
    /\ held = Cardinality(Inside)

\* A task ends once, and with the outcome of its job, which stays.
LogInv ==
    /\ \A i, k \in DOMAIN log : log[i] = log[k] => i = k
    /\ \A i \in DOMAIN log : task[log[i]] = "ended" /\ worker[log[i]] \in {"result", "error"}

\* What was delivered and what is in the buffer are the tasks that ended before the
\* first error.
KeptInv ==
    /\ Kept <= Len(log)
    /\ \A i \in 1..Len(delivered) : delivered[i] = log[i]
    /\ \A i \in 1..Len(buffer) : buffer[i] = log[Len(delivered) + i]
    /\ \A i \in 1..Kept : worker[log[i]] = "result"
    /\ error = 0 => Kept = Len(log)
    /\ error # 0 => Kept < Len(log) /\ log[Kept + 1] = error /\ worker[error] = "error"

EndInv ==
    /\ main \in {"raising", "raised"} => error # 0 /\ buffer = << >>
    /\ main = "raised" => Active = {}
    /\ main = "returned" => running = 0

CollectInv == CollectorTypeOK /\ StartInv /\ CountInv /\ LogInv /\ KeptInv /\ EndInv

\* The sets the counters count are finite, and an active task is one running_jobs counts.
LEMMA CountFacts ==
    ASSUME CollectInv
    PROVE  /\ IsFiniteSet(Owed) /\ IsFiniteSet(Inside) /\ IsFiniteSet(Active)
           /\ Cardinality(Owed) \in Nat /\ Cardinality(Inside) \in Nat
           /\ Active \subseteq Owed /\ Inside \subseteq Active
<1>1. IsFiniteSet(Jobs)
  BY CollectorAssumption
<1>2. Owed \in SUBSET Jobs /\ Inside \in SUBSET Jobs /\ Active \in SUBSET Jobs /\ Inside \subseteq Active
  BY DEF Owed, Inside, Active, Started
<1>3. Active \subseteq Owed
  <2>. SUFFICES ASSUME NEW j \in Active, j \in ToSet(delivered) PROVE FALSE
    BY DEF Active, Owed, Started
  <2>1. delivered \in Seq(Jobs) /\ log \in Seq(Jobs)
    BY DEF CollectInv, CollectorTypeOK
  <2>2. PICK i \in 1..Len(delivered) : delivered[i] = j
    BY <2>1 DEF ToSet
  <2>3. delivered[i] = log[i] /\ i \in DOMAIN log
    <3>1. Len(delivered) \in Nat /\ Len(buffer) \in Nat /\ Len(log) \in Nat
      BY <2>1 DEF CollectInv, CollectorTypeOK
    <3>2. Len(delivered) + Len(buffer) <= Len(log)
      BY DEF CollectInv, KeptInv, Kept
    <3>3. i \in 1..Len(log)
      BY <3>1, <3>2
    <3>. QED
      BY <2>1, <3>3 DEF CollectInv, KeptInv
  <2>4. task[j] = "ended"
    BY <2>2, <2>3 DEF CollectInv, LogInv
  <2>. QED
    BY <2>4 DEF Active
<1>4. IsFiniteSet(Owed) /\ IsFiniteSet(Inside) /\ IsFiniteSet(Active)
  BY <1>1, <1>2, FS_Subset
<1>. QED
  BY <1>2, <1>3, <1>4, FS_CardinalityType

\* Lengths, as numbers.
LEMMA LengthFacts ==
    ASSUME CollectInv
    PROVE  /\ queued \in Seq(Jobs) /\ buffer \in Seq(Jobs) /\ delivered \in Seq(Jobs) /\ log \in Seq(Jobs)
           /\ Len(queued) \in Nat /\ Len(buffer) \in Nat /\ Len(delivered) \in Nat /\ Len(log) \in Nat
           /\ DOMAIN queued = 1..Len(queued) /\ DOMAIN buffer = 1..Len(buffer)
           /\ DOMAIN delivered = 1..Len(delivered) /\ DOMAIN log = 1..Len(log)
           /\ Kept \in Nat /\ Kept = Len(delivered) + Len(buffer)
BY DEF CollectInv, CollectorTypeOK, Kept

\* Parts of the invariant that a step does not touch.
LEMMA SameStart ==
    ASSUME StartInv, UNCHANGED <<queued, offered, remaining>>, Started' = Started
    PROVE  StartInv'
BY DEF StartInv, Begun

\* A step that moves no task into, out of or inside the limiter keeps the counts.
LEMMA SameCount ==
    ASSUME CountInv, UNCHANGED <<running, held, delivered>>, Started' = Started, Inside' = Inside
    PROVE  CountInv'
BY DEF CountInv, Owed, ToSet

\* A step that leaves the log and the jobs that ended alone keeps what the log says.
LEMMA SameLog ==
    ASSUME CollectInv, UNCHANGED log,
           \A k \in Jobs : task[k] = "ended" => task'[k] = "ended" /\ worker'[k] = worker[k]
    PROVE  LogInv' /\ \A i \in DOMAIN log : worker'[log[i]] = worker[log[i]]
<1>1. \A i \in DOMAIN log : task[log[i]] = "ended" /\ log[i] \in Jobs
  BY LengthFacts DEF CollectInv, LogInv
<1>2. \A i \in DOMAIN log : task'[log[i]] = "ended" /\ worker'[log[i]] = worker[log[i]]
  BY <1>1
<1>. QED
  BY <1>1, <1>2 DEF CollectInv, LogInv

\* A step that delivers, buffers and logs nothing keeps what was delivered.
LEMMA SameKept ==
    ASSUME CollectInv, UNCHANGED <<log, delivered, buffer, error>>,
           \A i \in DOMAIN log : worker'[log[i]] = worker[log[i]]
    PROVE  KeptInv'
<1>1. /\ Len(log) \in Nat /\ Kept \in Nat /\ DOMAIN log = 1..Len(log) /\ Kept' = Kept /\ Kept <= Len(log)
  BY LengthFacts DEF CollectInv, KeptInv, Kept
<1>2. \A i \in 1..Kept : i \in DOMAIN log
  BY <1>1
<1>3. error # 0 => Kept + 1 \in DOMAIN log /\ log[Kept + 1] = error /\ worker[error] = "error" /\ Kept < Len(log)
  <2>1. error # 0 => log[Kept + 1] = error /\ worker[error] = "error" /\ Kept < Len(log)
    BY DEF CollectInv, KeptInv
  <2>2. Kept < Len(log) => Kept + 1 \in 1..Len(log)
    BY <1>1
  <2>. QED
    BY <1>1, <2>1, <2>2
<1>4. \A i \in 1..Kept : worker'[log[i]] = "result"
  BY <1>2 DEF CollectInv, KeptInv
<1>5. error # 0 => worker'[error] = "error"
  BY <1>3
<1>6. /\ \A i \in 1..Len(delivered) : delivered[i] = log[i]
      /\ \A i \in 1..Len(buffer) : buffer[i] = log[Len(delivered) + i]
      /\ error = 0 => Kept = Len(log)
  BY DEF CollectInv, KeptInv
<1>. QED
  BY <1>1, <1>3, <1>4, <1>5, <1>6 DEF KeptInv

\* Steps that leave the tasks and the jobs alone leave everything alone but where
\* collect_async is.
LEMMA SameTasks ==
    ASSUME CollectInv, UNCHANGED <<task, held, error, log, jobVars>>
    PROVE  /\ Started' = Started /\ Inside' = Inside /\ Active' = Active
           /\ JobTypeOK' /\ LogInv'
           /\ task' \in [Jobs -> {"none", "spawned", "submitted", "awaiting", "ended", "interrupted"}]
           /\ log' \in Seq(Jobs) /\ held' \in 0..Limit /\ error' \in Jobs \cup {0}
<1>1. JobTypeOK'
  BY DEF CollectInv, CollectorTypeOK, JobTypeOK, jobVars
<1>2. LogInv'
  BY DEF CollectInv, LogInv, jobVars
<1>3. Started' = Started /\ Inside' = Inside /\ Active' = Active
  BY DEF Started, Inside, Active
<1>. QED
  BY <1>1, <1>2, <1>3 DEF CollectInv, CollectorTypeOK

\* The work pool is filled: asking next_job() and starting a job.
LEMMA AskStep ==
    ASSUME CollectInv, AskNextJob
    PROVE  CollectInv'
<1>1. PICK n \in 0..MaxBatch :
        /\ offered + n <= Cardinality(Jobs) /\ offered' = offered + n
        /\ queued' = [i \in 1..n |-> offered + i]
        /\ IF n = 0 THEN StopFilling ELSE UNCHANGED main
  BY DEF AskNextJob
<1>2. /\ main = "fill" /\ queued = << >>
      /\ UNCHANGED <<remaining, running, task, held, buffer, error, delivered, log, jobVars>>
  BY DEF AskNextJob
<1>3. main' \in {"fill", "wait", "returned"} /\ (main' = "returned" => running = 0)
  BY <1>1, <1>2 DEF StopFilling
<1>4. Cardinality(Jobs) \in Nat /\ Jobs = 1..Cardinality(Jobs)
  BY SamplesRecursion
<1>5. n \in Nat /\ offered \in Nat /\ Len(queued) = 0
  BY <1>2, CollectorAssumption DEF CollectInv, CollectorTypeOK
<1>6. /\ queued' \in Seq(Jobs) /\ Len(queued') = n /\ \A i \in 1..n : queued'[i] = offered + i
  <2>1. \A i \in 1..n : offered + i \in 1..Cardinality(Jobs)
    BY <1>1, <1>4, <1>5
  <2>2. \A i \in 1..n : offered + i \in Jobs
    BY <1>4, <2>1
  <2>. QED
    BY <1>1, <1>5, <2>2
<1>7. offered' \in 0..Cardinality(Jobs)
  BY <1>1, <1>4, <1>5
<1>8. /\ Started' = Started /\ Inside' = Inside /\ Active' = Active
      /\ JobTypeOK' /\ LogInv'
      /\ task' \in [Jobs -> {"none", "spawned", "submitted", "awaiting", "ended", "interrupted"}]
      /\ log' \in Seq(Jobs) /\ held' \in 0..Limit /\ error' \in Jobs \cup {0}
  BY <1>2, SameTasks
<1>9. CollectorTypeOK'
  BY <1>2, <1>3, <1>6, <1>7, <1>8 DEF CollectInv, CollectorTypeOK
<1>10. StartInv'
  <2>1. Begun = offered /\ Begun' = offered
    BY <1>1, <1>5, <1>6 DEF Begun
  <2>. QED
    BY <1>2, <1>6, <1>8, <2>1 DEF CollectInv, StartInv
<1>11. CountInv'
  BY <1>2, <1>8, SameCount DEF CollectInv
<1>12. KeptInv'
  BY <1>2, SameKept DEF jobVars
<1>13. EndInv'
  BY <1>2, <1>3 DEF EndInv
<1>. QED
  BY <1>8, <1>9, <1>10, <1>11, <1>12, <1>13 DEF CollectInv

\* StartJob: the next queued job is spawned, and its repetitions are taken from the samples left.
LEMMA StartStep ==
    ASSUME CollectInv, StartJob
    PROVE  CollectInv'
<1>1. /\ main = "fill" /\ remaining > 0 /\ running < Concurrency /\ queued # << >>
      /\ queued' = Tail(queued) /\ remaining' = remaining - Reps[Head(queued)]
      /\ running' = running + 1
      /\ task' = [task EXCEPT ![Head(queued)] = "spawned"]
      /\ UNCHANGED <<main, offered, held, buffer, error, delivered, log, jobVars>>
  BY DEF StartJob, HasRoom
<1>2. PICK j, m : j = Head(queued) /\ m = Len(queued)
  OBVIOUS
<1>3. /\ queued \in Seq(Jobs) /\ m \in Nat /\ m > 0 /\ j = queued[1] /\ j \in Jobs
      /\ queued' \in Seq(Jobs) /\ Len(queued') = m - 1
      /\ \A i \in 1..(m - 1) : queued'[i] = queued[i + 1]
  <2>1. queued \in Seq(Jobs)
    BY LengthFacts
  <2>. QED
    BY <1>1, <1>2, <2>1
<1>4. Begun \in Nat /\ offered \in Nat /\ Begun = offered - m /\ Begun' = Begun + 1
  BY <1>1, <1>2, <1>3 DEF CollectInv, StartInv, Begun, CollectorTypeOK
<1>5. j = Begun + 1 /\ \A i \in 1..m : queued[i] = Begun + i
  BY <1>2, <1>3, <1>4 DEF CollectInv, StartInv
<1>6. Started = 1..Begun
  BY DEF CollectInv, StartInv
<1>7. task \in [Jobs -> {"none", "spawned", "submitted", "awaiting", "ended", "interrupted"}]
  BY DEF CollectInv, CollectorTypeOK
<1>8. /\ j \notin Started /\ task[j] = "none"
      /\ Started' = Started \cup {j}
      /\ Inside' = Inside
  <2>1. j \notin Started
    BY <1>4, <1>5, <1>6
  <2>2. task[j] = "none"
    BY <1>3, <2>1 DEF Started
  <2>3. task'[j] = "spawned" /\ \A k \in Jobs : k # j => task'[k] = task[k]
    BY <1>1, <1>2, <1>7, <1>3
  <2>. QED
    BY <1>3, <2>1, <2>2, <2>3 DEF Started, Inside
<1>9. CollectorTypeOK'
  <2>1. task' \in [Jobs -> {"none", "spawned", "submitted", "awaiting", "ended", "interrupted"}]
    BY <1>1, <1>7
  <2>2. JobTypeOK'
    BY <1>1 DEF CollectInv, CollectorTypeOK, JobTypeOK, jobVars
  <2>3. remaining' \in Int /\ running' \in Int
    BY <1>1, <1>2, <1>3, CollectorAssumption DEF CollectInv, CollectorTypeOK
  <2>. QED
    BY <1>1, <1>3, <2>1, <2>2, <2>3 DEF CollectInv, CollectorTypeOK
<1>10. StartInv'
  <2>1. Started' = 1..Begun'
    BY <1>4, <1>5, <1>6, <1>8
  <2>2. \A i \in 1..Len(queued') : queued'[i] = Begun' + i
    <3>. SUFFICES ASSUME NEW i \in 1..(m - 1) PROVE queued'[i] = Begun + 1 + i
      BY <1>3, <1>4
    <3>1. i + 1 \in 1..m /\ i \in Nat
      BY <1>3
    <3>2. queued'[i] = Begun + (i + 1)
      BY <1>3, <1>5, <3>1
    <3>. QED
      BY <1>4, <3>1, <3>2
  <2>3. /\ SamplesOf[j] = SamplesOf[j - 1] + Reps[j] /\ j - 1 = Begun
        /\ SamplesOf[Begun] \in Nat /\ Reps[j] \in Nat
    <3>1. j - 1 = Begun
      BY <1>4, <1>5
    <3>2. Cardinality(Jobs) \in Nat /\ Jobs = 1..Cardinality(Jobs)
      BY SamplesRecursion
    <3>3. j \in 1..Cardinality(Jobs) /\ Begun \in 0..Cardinality(Jobs)
      BY <1>3, <1>4, <1>5, <3>2
    <3>. QED
      BY <1>3, <3>1, <3>3, SamplesRecursion, CollectorAssumption
  <2>4. remaining = MaxTotalSamples - SamplesOf[Begun] /\ MaxTotalSamples \in Nat
    BY CollectorAssumption DEF CollectInv, StartInv
  <2>5. remaining' = MaxTotalSamples - SamplesOf[Begun']
    <3>1. Begun' = j /\ remaining' = remaining - Reps[j]
      BY <1>1, <1>2, <1>4, <1>5
    <3>2. SamplesOf[j] = SamplesOf[Begun] + Reps[j]
      BY <2>3
    <3>3. \A x, y, z \in Nat : (x - y) - z = x - (y + z)
      OBVIOUS
    <3>. QED
      BY <2>3, <2>4, <3>1, <3>2, <3>3
  <2>6. SamplesOf[j - 1] < MaxTotalSamples
    BY <1>1, <2>3, <2>4
  <2>7. \A k \in Started' : SamplesOf[k - 1] < MaxTotalSamples
    BY <1>8, <2>6 DEF CollectInv, StartInv
  <2>8. Begun' \in Nat
    BY <1>4
  <2>. QED
    BY <2>1, <2>2, <2>5, <2>7, <2>8 DEF StartInv
<1>11. CountInv'
  <2>1. j \notin ToSet(delivered)
    <3>1. ASSUME j \in ToSet(delivered) PROVE FALSE
      <4>1. PICK i \in 1..Len(delivered) : delivered[i] = j
        BY <3>1, LengthFacts DEF ToSet
      <4>2. i \in DOMAIN log
        <5>1. Kept <= Len(log)
          BY DEF CollectInv, KeptInv
        <5>. QED
          BY <5>1, LengthFacts
      <4>3. log[i] = j
        BY <4>1 DEF CollectInv, KeptInv
      <4>4. task[j] = "ended"
        BY <4>2, <4>3 DEF CollectInv, LogInv
      <4>. QED
        BY <1>8, <4>4
    <3>. QED
      BY <3>1
  <2>2. Owed' = Owed \cup {j} /\ j \notin Owed
    BY <1>1, <1>8, <2>1 DEF Owed, ToSet
  <2>3. IsFiniteSet(Owed) /\ Cardinality(Owed) \in Nat
    BY CountFacts
  <2>4. Cardinality(Owed') = Cardinality(Owed) + 1
    BY <2>2, <2>3, FS_AddElement
  <2>5. running = Cardinality(Owed) /\ held = Cardinality(Inside) /\ Concurrency \in Nat
    BY CollectorAssumption DEF CollectInv, CountInv
  <2>6. running' <= Concurrency
    BY <1>1, <2>3, <2>5
  <2>. QED
    BY <1>1, <1>8, <2>4, <2>5, <2>6 DEF CountInv
<1>12. LogInv' /\ KeptInv'
  <2>1. \A k \in Jobs : task[k] = "ended" => task'[k] = "ended" /\ worker'[k] = worker[k]
    BY <1>1, <1>2, <1>7, <1>8 DEF jobVars
  <2>2. LogInv' /\ \A i \in DOMAIN log : worker'[log[i]] = worker[log[i]]
    BY <1>1, <2>1, SameLog
  <2>. QED
    BY <1>1, <2>2, SameKept
<1>13. EndInv'
  BY <1>1 DEF EndInv
<1>. QED
  BY <1>9, <1>10, <1>11, <1>12, <1>13 DEF CollectInv

\* The pool is full, an error is taken, or the scope is left.
LEMMA MainStep ==
    ASSUME CollectInv, PoolIsFull \/ TakeError \/ LeaveScope
    PROVE  CollectInv'
<1>1. UNCHANGED <<queued, offered, remaining, running, task, held, buffer, error, delivered, log, jobVars>>
  BY DEF PoolIsFull, TakeError, LeaveScope
<1>2. /\ main' \in {"wait", "returned", "raising", "raised"}
      /\ main' = "returned" => running = 0
      /\ main' \in {"raising", "raised"} => error # 0 /\ buffer = << >>
      /\ main' = "raised" => Active = {}
  BY DEF PoolIsFull, StopFilling, TakeError, LeaveScope, CollectInv, EndInv
<1>3. /\ Started' = Started /\ Inside' = Inside /\ Active' = Active
      /\ JobTypeOK' /\ LogInv'
      /\ task' \in [Jobs -> {"none", "spawned", "submitted", "awaiting", "ended", "interrupted"}]
      /\ log' \in Seq(Jobs) /\ held' \in 0..Limit /\ error' \in Jobs \cup {0}
  BY <1>1, SameTasks
<1>4. CollectorTypeOK'
  BY <1>1, <1>2, <1>3 DEF CollectInv, CollectorTypeOK
<1>5. StartInv' /\ CountInv'
  BY <1>1, <1>3, SameStart, SameCount DEF CollectInv
<1>6. KeptInv'
  BY <1>1, SameKept DEF jobVars
<1>7. EndInv'
  BY <1>1, <1>2, <1>3 DEF EndInv
<1>. QED
  BY <1>3, <1>4, <1>5, <1>6, <1>7 DEF CollectInv

\* A result is handed to on_job_result.
LEMMA TakeStep ==
    ASSUME CollectInv, TakeResult
    PROVE  CollectInv'
<1>1. /\ main = "wait" /\ buffer # << >> /\ buffer' = Tail(buffer) /\ running' = running - 1
      /\ delivered' = Append(delivered, Head(buffer)) /\ main' = "fill"
      /\ UNCHANGED <<queued, offered, remaining, task, held, error, log, jobVars>>
  BY DEF TakeResult
<1>2. PICK j, d, b : j = Head(buffer) /\ d = Len(delivered) /\ b = Len(buffer)
  OBVIOUS
<1>3. /\ d \in Nat /\ b \in Nat /\ b > 0 /\ j = buffer[1] /\ j \in Jobs
      /\ buffer' \in Seq(Jobs) /\ Len(buffer') = b - 1
      /\ \A i \in 1..(b - 1) : buffer'[i] = buffer[i + 1]
  <2>1. buffer \in Seq(Jobs) /\ delivered \in Seq(Jobs)
    BY LengthFacts
  <2>. QED
    BY <1>1, <1>2, <2>1
<1>4. /\ delivered' \in Seq(Jobs) /\ Len(delivered') = d + 1 /\ delivered'[d + 1] = j
      /\ \A i \in 1..d : delivered'[i] = delivered[i]
  <2>1. delivered \in Seq(Jobs)
    BY LengthFacts
  <2>. QED
    BY <1>1, <1>2, <1>3, <2>1
<1>5. /\ Started' = Started /\ Inside' = Inside /\ Active' = Active
      /\ JobTypeOK' /\ LogInv'
      /\ task' \in [Jobs -> {"none", "spawned", "submitted", "awaiting", "ended", "interrupted"}]
      /\ log' \in Seq(Jobs) /\ held' \in 0..Limit /\ error' \in Jobs \cup {0}
  BY <1>1, SameTasks
<1>6. CollectorTypeOK'
  <2>1. running' \in Int
    BY <1>1 DEF CollectInv, CollectorTypeOK
  <2>. QED
    BY <1>1, <1>3, <1>4, <1>5, <2>1 DEF CollectInv, CollectorTypeOK
<1>7. StartInv'
  BY <1>1, <1>5, SameStart DEF CollectInv
<1>8. /\ Kept = d + b /\ Kept' = d + b /\ Kept <= Len(log) /\ Len(log) \in Nat
      /\ DOMAIN log = 1..Len(log) /\ j = log[d + 1] /\ d + 1 \in DOMAIN log
      /\ \A i \in 1..d : delivered[i] = log[i]
      /\ \A i \in 1..b : buffer[i] = log[d + i]
  <2>1. Kept = d + b /\ Kept' = d + b /\ Len(log) \in Nat /\ DOMAIN log = 1..Len(log)
    BY <1>2, <1>3, <1>4, LengthFacts DEF Kept
  <2>2. /\ Kept <= Len(log) /\ \A i \in 1..d : delivered[i] = log[i]
        /\ \A i \in 1..b : buffer[i] = log[d + i]
    BY <1>2 DEF CollectInv, KeptInv
  <2>. QED
    BY <1>3, <2>1, <2>2
<1>9. KeptInv'
  <2>1. \A i \in 1..(d + 1) : delivered'[i] = log[i]
    <3>1. \A i \in 1..(d + 1) : i \in 1..d \/ i = d + 1
      BY <1>3
    <3>. QED
      BY <1>4, <1>8, <3>1
  <2>2. \A i \in 1..(b - 1) : buffer'[i] = log[d + 1 + i]
    <3>. SUFFICES ASSUME NEW i \in 1..(b - 1) PROVE buffer'[i] = log[d + 1 + i]
      OBVIOUS
    <3>1. i + 1 \in 1..b /\ d + (i + 1) = d + 1 + i
      BY <1>3
    <3>. QED
      BY <1>3, <1>8, <3>1
  <2>3. /\ \A i \in 1..Kept : worker[log[i]] = "result"
        /\ error = 0 => Kept = Len(log)
        /\ error # 0 => Kept < Len(log) /\ log[Kept + 1] = error /\ worker[error] = "error"
    BY DEF CollectInv, KeptInv
  <2>4. Kept' = Kept /\ worker' = worker /\ error' = error /\ log' = log
    BY <1>1, <1>8 DEF jobVars
  <2>. QED
    BY <1>3, <1>4, <1>8, <2>1, <2>2, <2>3, <2>4 DEF KeptInv
<1>10. CountInv'
  <2>1. j \in Started
    <3>1. task[j] = "ended"
      BY <1>8 DEF CollectInv, LogInv
    <3>. QED
      BY <1>3, <3>1 DEF Started
  <2>2. j \notin ToSet(delivered)
    <3>1. \A i \in 1..d : i \in DOMAIN log /\ i # d + 1
      BY <1>3, <1>8
    <3>2. \A i \in 1..d : delivered[i] # j
      BY <1>8, <3>1 DEF CollectInv, LogInv
    <3>3. DOMAIN delivered = 1..d
      BY <1>2, LengthFacts
    <3>. QED
      BY <3>2, <3>3 DEF ToSet
  <2>3. ToSet(delivered') = ToSet(delivered) \cup {j}
    <3>1. DOMAIN delivered = 1..d /\ DOMAIN delivered' = 1..(d + 1)
      BY <1>2, <1>4, LengthFacts
    <3>2. \A i : i \in 1..(d + 1) <=> i \in 1..d \/ i = d + 1
      BY <1>3
    <3>. QED
      BY <1>4, <3>1, <3>2 DEF ToSet
  <2>4. Owed' = Owed \ {j} /\ j \in Owed
    BY <1>5, <2>1, <2>2, <2>3 DEF Owed, ToSet
  <2>5. IsFiniteSet(Owed) /\ Cardinality(Owed) \in Nat
    BY CountFacts
  <2>6. Cardinality(Owed') = Cardinality(Owed) - 1
    BY <2>4, <2>5, FS_RemoveElement
  <2>7. running = Cardinality(Owed) /\ held = Cardinality(Inside) /\ running <= Concurrency
        /\ Concurrency \in Nat
    BY CollectorAssumption DEF CollectInv, CountInv
  <2>8. running' <= Concurrency
    BY <1>1, <2>5, <2>7
  <2>. QED
    BY <1>1, <1>5, <2>6, <2>7, <2>8 DEF CountInv
<1>11. EndInv'
  BY <1>1 DEF EndInv
<1>. QED
  BY <1>5, <1>6, <1>7, <1>9, <1>10, <1>11 DEF CollectInv

\* A step of one task, or of one job's thread: what it must leave alone.
LEMMA TaskFacts ==
    ASSUME CollectInv, NEW j \in Jobs, NEW t, task' = [task EXCEPT ![j] = t]
    PROVE  /\ task'[j] = t /\ \A k \in Jobs : k # j => task'[k] = task[k]
           /\ t \in {"spawned", "submitted", "awaiting", "ended", "interrupted"} =>
                 task' \in [Jobs -> {"none", "spawned", "submitted", "awaiting", "ended", "interrupted"}]
           /\ t # "none" /\ task[j] # "none" => Started' = Started
           /\ Inside' = IF t \in {"submitted", "awaiting"} THEN Inside \cup {j} ELSE Inside \ {j}
           /\ j \in Inside <=> task[j] \in {"submitted", "awaiting"}
<1>1. task \in [Jobs -> {"none", "spawned", "submitted", "awaiting", "ended", "interrupted"}]
  BY DEF CollectInv, CollectorTypeOK
<1>2. task'[j] = t /\ \A k \in Jobs : k # j => task'[k] = task[k]
  BY <1>1
<1>3. t \in {"spawned", "submitted", "awaiting", "ended", "interrupted"} =>
         task' \in [Jobs -> {"none", "spawned", "submitted", "awaiting", "ended", "interrupted"}]
  BY <1>1
<1>4. t # "none" /\ task[j] # "none" => Started' = Started
  BY <1>2 DEF Started
<1>5. Inside' = IF t \in {"submitted", "awaiting"} THEN Inside \cup {j} ELSE Inside \ {j}
  <2>1. CASE t \in {"submitted", "awaiting"}
    BY <1>2, <2>1 DEF Inside
  <2>2. CASE t \notin {"submitted", "awaiting"}
    BY <1>2, <2>2 DEF Inside
  <2>. QED
    BY <2>1, <2>2
<1>. QED
  BY <1>2, <1>3, <1>4, <1>5 DEF Inside

\* The task passes the limiter and creates its job.
LEMMA SubmitStep ==
    ASSUME CollectInv, NEW j \in Jobs, Submit(j)
    PROVE  CollectInv'
<1>1. /\ main = "wait" /\ task[j] = "spawned" /\ held < Limit /\ held' = held + 1
      /\ task' = [task EXCEPT ![j] = "submitted"]
      /\ state' = [state EXCEPT ![j] = "READY"]
      /\ worker' = [worker EXCEPT ![j] = IF simType = "ASYNCHRONOUS" THEN "started" ELSE "none"]
      /\ program' = program \cup {j} /\ UNCHANGED <<simType, failure, calls>>
      /\ UNCHANGED <<main, queued, offered, remaining, running, buffer, error, delivered, log>>
  BY DEF Submit, CreateJob
<1>2. /\ task'[j] = "submitted" /\ \A k \in Jobs : k # j => task'[k] = task[k]
      /\ task' \in [Jobs -> {"none", "spawned", "submitted", "awaiting", "ended", "interrupted"}]
      /\ Started' = Started /\ Inside' = Inside \cup {j} /\ j \notin Inside
  BY <1>1, TaskFacts
<1>3. JobTypeOK'
  BY <1>1 DEF CollectInv, CollectorTypeOK, JobTypeOK, JobStates
<1>4. CountInv' /\ held' \in 0..Limit
  <2>1. IsFiniteSet(Inside) /\ Cardinality(Inside) \in Nat
    BY CountFacts
  <2>2. Cardinality(Inside') = Cardinality(Inside) + 1
    BY <1>2, <2>1, FS_AddElement
  <2>3. held = Cardinality(Inside) /\ running = Cardinality(Owed) /\ running <= Concurrency
    BY DEF CollectInv, CountInv
  <2>4. Owed' = Owed
    BY <1>1, <1>2 DEF Owed, ToSet
  <2>5. held' \in 0..Limit
    BY <1>1, <2>1, <2>3, CollectorAssumption
  <2>. QED
    BY <1>1, <2>2, <2>3, <2>4, <2>5 DEF CountInv
<1>5. CollectorTypeOK'
  BY <1>1, <1>2, <1>3, <1>4 DEF CollectInv, CollectorTypeOK
<1>6. StartInv'
  BY <1>1, <1>2, SameStart DEF CollectInv
<1>7. \A k \in Jobs : task[k] = "ended" => task'[k] = "ended" /\ worker'[k] = worker[k]
  BY <1>1, <1>2 DEF CollectInv, CollectorTypeOK, JobTypeOK
<1>8. LogInv' /\ KeptInv'
  BY <1>1, <1>7, SameLog, SameKept
<1>9. EndInv'
  BY <1>1 DEF EndInv
<1>. QED
  BY <1>4, <1>5, <1>6, <1>8, <1>9 DEF CollectInv

\* It awaits the results, and computes them itself when the simulation is synchronous.
LEMMA AwaitStep ==
    ASSUME CollectInv, NEW j \in Jobs, AwaitResults(j)
    PROVE  CollectInv'
<1>1. /\ task[j] = "submitted" /\ task' = [task EXCEPT ![j] = "awaiting"]
      /\ worker' = worker \/ worker' = [worker EXCEPT ![j] = "started"]
      /\ UNCHANGED <<simType, state, failure, program, calls>>
      /\ UNCHANGED <<main, queued, offered, remaining, running, held, buffer, error, delivered, log>>
  BY DEF AwaitResults, ExecuteNow, jobVars
<1>2. /\ task'[j] = "awaiting" /\ \A k \in Jobs : k # j => task'[k] = task[k]
      /\ task' \in [Jobs -> {"none", "spawned", "submitted", "awaiting", "ended", "interrupted"}]
      /\ Started' = Started /\ Inside' = Inside
  <2>1. /\ task'[j] = "awaiting" /\ \A k \in Jobs : k # j => task'[k] = task[k]
        /\ task' \in [Jobs -> {"none", "spawned", "submitted", "awaiting", "ended", "interrupted"}]
        /\ Started' = Started
    BY <1>1, TaskFacts
  <2>2. Inside' = Inside
    BY <1>1, <2>1 DEF Inside
  <2>. QED
    BY <2>1, <2>2
<1>3. JobTypeOK'
  BY <1>1 DEF CollectInv, CollectorTypeOK, JobTypeOK
<1>4. CollectorTypeOK'
  BY <1>1, <1>2, <1>3 DEF CollectInv, CollectorTypeOK
<1>5. StartInv' /\ CountInv'
  BY <1>1, <1>2, SameStart, SameCount DEF CollectInv
<1>6. \A k \in Jobs : task[k] = "ended" => task'[k] = "ended" /\ worker'[k] = worker[k]
  BY <1>1, <1>2 DEF CollectInv, CollectorTypeOK, JobTypeOK
<1>7. LogInv' /\ KeptInv'
  BY <1>1, <1>6, SameLog, SameKept
<1>8. EndInv'
  <2>1. j \in Active
    BY <1>1 DEF Active
  <2>. QED
    BY <1>1, <2>1 DEF CollectInv, EndInv
<1>. QED
  BY <1>4, <1>5, <1>7, <1>8 DEF CollectInv

\* The threads of the jobs, and those that cancel or delete a job: they change nothing of
\* a job whose task has ended.
LEMMA JobStep ==
    ASSUME CollectInv, NEW j \in Jobs, Thread(j) \/ Meddle(j)
    PROVE  CollectInv'
<1>1. UNCHANGED <<main, queued, offered, remaining, running, task, held, buffer, error, delivered, log>>
  BY DEF Thread, Meddle
<1>2. \/ worker' = worker
      \/ /\ worker[j] \in {"started", "sampling", "failing"}
         /\ \E w \in {"sampling", "result", "failing", "error"} : worker' = [worker EXCEPT ![j] = w]
  BY DEF Thread, Meddle, Worker, WorkerStart, WorkerSucceeds, WorkerFails, WorkerRaises, CancelJob, DeleteJob
<1>3. JobTypeOK
  BY DEF CollectInv, CollectorTypeOK
<1>4. JobTypeOK'
  <2>1. CASE Worker(j)
    BY <1>3, <2>1 DEF JobTypeOK, JobStates, Worker, WorkerStart, WorkerSucceeds, WorkerFails, WorkerRaises
  <2>2. CASE CancelJob(j) \/ DeleteJob(j)
    BY <1>3, <2>2, JobAssumption DEF JobTypeOK, JobStates, CancelJob, DeleteJob
  <2>. QED
    BY <2>1, <2>2 DEF Thread, Meddle
<1>5. \A k \in Jobs : worker[k] \in {"result", "error"} => worker'[k] = worker[k]
  BY <1>2, <1>3 DEF JobTypeOK
<1>6. Started' = Started /\ Inside' = Inside /\ Active' = Active
  BY <1>1 DEF Started, Inside, Active
<1>7. CollectorTypeOK'
  BY <1>1, <1>4 DEF CollectInv, CollectorTypeOK
<1>8. StartInv' /\ CountInv'
  BY <1>1, <1>6, SameStart, SameCount DEF CollectInv
<1>9. \A i \in DOMAIN log : worker'[log[i]] = worker[log[i]]
  BY <1>5, LengthFacts DEF CollectInv, LogInv
<1>10. LogInv' /\ KeptInv'
  <2>1. LogInv'
    BY <1>1, <1>9 DEF CollectInv, LogInv
  <2>. QED
    BY <1>1, <1>9, <2>1, SameKept
<1>11. EndInv'
  BY <1>1, <1>6 DEF CollectInv, EndInv
<1>. QED
  BY <1>7, <1>8, <1>10, <1>11 DEF CollectInv

\* A task leaves the limiter: the place it had is free.
LEMMA ReleaseFacts ==
    ASSUME CollectInv, NEW j \in Inside, Inside' = Inside \ {j}, Started' = Started,
           held' = held - 1, UNCHANGED <<running, delivered>>
    PROVE  CountInv' /\ held' \in 0..Limit
<1>1. IsFiniteSet(Inside) /\ Cardinality(Inside) \in Nat
  BY CountFacts
<1>2. Cardinality(Inside') = Cardinality(Inside) - 1 /\ Cardinality(Inside') \in Nat
  <2>1. IsFiniteSet(Inside \ {j})
    BY <1>1, FS_Subset
  <2>. QED
    BY <1>1, <2>1, FS_RemoveElement, FS_CardinalityType
<1>3. held = Cardinality(Inside) /\ running = Cardinality(Owed) /\ running <= Concurrency
  BY DEF CollectInv, CountInv
<1>4. Owed' = Owed
  BY DEF Owed, ToSet
<1>5. held \in 0..Limit /\ Limit \in Nat
  BY CollectorAssumption DEF CollectInv, CollectorTypeOK
<1>. QED
  BY <1>1, <1>2, <1>3, <1>4, <1>5 DEF CountInv

\* A task ends by itself: it is logged once, with the outcome of its job.
LEMMA EndFacts ==
    ASSUME CollectInv, NEW j \in Jobs, task[j] = "awaiting", worker[j] \in {"result", "error"},
           task' = [task EXCEPT ![j] = "ended"], log' = Append(log, j),
           held' = held - 1, UNCHANGED <<running, delivered, jobVars>>
    PROVE  /\ CountInv' /\ held' \in 0..Limit /\ LogInv' /\ JobTypeOK' /\ worker' = worker
           /\ task' \in [Jobs -> {"none", "spawned", "submitted", "awaiting", "ended", "interrupted"}]
           /\ Started' = Started /\ log' \in Seq(Jobs)
           /\ Len(log') = Len(log) + 1 /\ log'[Len(log) + 1] = j
           /\ \A i \in 1..Len(log) : log'[i] = log[i]
<1>1. /\ task'[j] = "ended" /\ \A k \in Jobs : k # j => task'[k] = task[k]
      /\ task' \in [Jobs -> {"none", "spawned", "submitted", "awaiting", "ended", "interrupted"}]
      /\ Started' = Started
  BY TaskFacts
<1>2. j \in Inside /\ Inside' = Inside \ {j}
  BY <1>1 DEF Inside
<1>3. CountInv' /\ held' \in 0..Limit
  BY <1>1, <1>2, ReleaseFacts
<1>4. PICK m : m = Len(log)
  OBVIOUS
<1>5. /\ m \in Nat /\ log \in Seq(Jobs) /\ DOMAIN log = 1..m
  BY <1>4, LengthFacts
<1>6. /\ log' \in Seq(Jobs) /\ Len(log') = m + 1 /\ log'[m + 1] = j
      /\ DOMAIN log' = 1..(m + 1)
      /\ \A i \in 1..m : log'[i] = log[i]
  BY <1>4, <1>5
<1>7. JobTypeOK' /\ worker' = worker
  BY DEF CollectInv, CollectorTypeOK, JobTypeOK, jobVars
<1>8. \A i \in 1..m : /\ log[i] # j /\ task'[log[i]] = "ended"
                      /\ worker'[log[i]] \in {"result", "error"}
  <2>1. \A i \in 1..m : log[i] \in Jobs /\ task[log[i]] = "ended" /\ worker[log[i]] \in {"result", "error"}
    BY <1>5 DEF CollectInv, LogInv
  <2>. QED
    BY <1>1, <1>7, <2>1
<1>9. \A i \in 1..(m + 1) : i \in 1..m \/ i = m + 1
  BY <1>5
<1>10. LogInv'
  <2>1. \A i, k \in 1..m : log[i] = log[k] => i = k
    BY <1>5 DEF CollectInv, LogInv
  <2>2. ASSUME NEW i \in 1..(m + 1), NEW k \in 1..(m + 1), log'[i] = log'[k]
        PROVE  i = k
    <3>1. CASE i \in 1..m /\ k \in 1..m
      BY <1>6, <2>1, <2>2, <3>1
    <3>2. CASE i = m + 1 /\ k \in 1..m
      BY <1>6, <1>8, <2>2, <3>2
    <3>3. CASE i \in 1..m /\ k = m + 1
      BY <1>6, <1>8, <2>2, <3>3
    <3>. QED
      BY <1>9, <3>1, <3>2, <3>3
  <2>3. \A i \in 1..(m + 1) : task'[log'[i]] = "ended" /\ worker'[log'[i]] \in {"result", "error"}
    BY <1>1, <1>6, <1>7, <1>8, <1>9
  <2>. QED
    BY <1>6, <2>2, <2>3 DEF LogInv
<1>. QED
  BY <1>1, <1>3, <1>4, <1>6, <1>7, <1>10

\* Its results are added unless a job has failed before.
LEMMA FinishOkStep ==
    ASSUME CollectInv, NEW j \in Jobs, FinishOk(j)
    PROVE  CollectInv'
<1>1. /\ main = "wait" /\ task[j] = "awaiting" /\ worker[j] = "result"
      /\ task' = [task EXCEPT ![j] = "ended"] /\ held' = held - 1
      /\ buffer' = IF error = 0 THEN Append(buffer, j) ELSE buffer
      /\ log' = Append(log, j)
      /\ UNCHANGED <<main, queued, offered, remaining, running, error, delivered, jobVars>>
  BY DEF FinishOk, Release
<1>2. /\ CountInv' /\ held' \in 0..Limit /\ LogInv' /\ JobTypeOK' /\ worker' = worker
      /\ task' \in [Jobs -> {"none", "spawned", "submitted", "awaiting", "ended", "interrupted"}]
      /\ Started' = Started /\ log' \in Seq(Jobs)
      /\ Len(log') = Len(log) + 1 /\ log'[Len(log) + 1] = j
      /\ \A i \in 1..Len(log) : log'[i] = log[i]
  BY <1>1, EndFacts
<1>3. PICK m, d, b, q : m = Len(log) /\ d = Len(delivered) /\ b = Len(buffer) /\ q = Kept
  OBVIOUS
<1>4. m \in Nat /\ d \in Nat /\ b \in Nat /\ q = d + b /\ q \in Nat /\ buffer \in Seq(Jobs)
  BY <1>3, LengthFacts
<1>5. buffer' \in Seq(Jobs)
  BY <1>1, <1>4
<1>6. CollectorTypeOK'
  BY <1>1, <1>2, <1>5 DEF CollectInv, CollectorTypeOK
<1>7. StartInv'
  BY <1>1, <1>2, SameStart DEF CollectInv
<1>8. /\ q <= m
      /\ \A i \in 1..d : delivered[i] = log[i]
      /\ \A i \in 1..b : buffer[i] = log[d + i]
      /\ \A i \in 1..q : worker[log[i]] = "result"
      /\ error = 0 => q = m
      /\ error # 0 => q < m /\ log[q + 1] = error /\ worker[error] = "error"
  BY <1>3 DEF CollectInv, KeptInv
<1>9. /\ \A i \in 1..d : delivered'[i] = log'[i]
      /\ \A i \in 1..b : buffer[i] = log'[d + i]
      /\ \A i \in 1..q : worker'[log'[i]] = "result"
  <2>1. \A i \in 1..d : i \in 1..m
    BY <1>4, <1>8
  <2>2. \A i \in 1..b : d + i \in 1..m
    BY <1>4, <1>8
  <2>3. \A i \in 1..q : i \in 1..m
    BY <1>4, <1>8
  <2>. QED
    BY <1>1, <1>2, <1>3, <1>8, <2>1, <2>2, <2>3
<1>10. KeptInv'
  <2>1. CASE error = 0
    <3>1. Len(buffer') = b + 1 /\ buffer'[b + 1] = j /\ \A i \in 1..b : buffer'[i] = buffer[i]
      BY <1>1, <1>3, <1>4, <2>1
    <3>2. Len(delivered') = d /\ Len(log') = m + 1 /\ Kept' = q + 1 /\ q = m
      BY <1>1, <1>2, <1>3, <1>4, <1>8, <2>1, <3>1 DEF Kept
    <3>3. \A i \in 1..(b + 1) : buffer'[i] = log'[d + i]
      <4>1. \A i \in 1..(b + 1) : i \in 1..b \/ i = b + 1
        BY <1>4
      <4>2. log'[d + (b + 1)] = j
        <5>1. d + (b + 1) = m + 1
          BY <1>4, <3>2
        <5>. QED
          BY <1>2, <1>3, <5>1
      <4>. QED
        BY <1>9, <3>1, <4>1, <4>2
    <3>4. \A i \in 1..(q + 1) : worker'[log'[i]] = "result"
      <4>1. \A i \in 1..(q + 1) : i \in 1..q \/ i = q + 1
        BY <1>4
      <4>2. log'[q + 1] = j
        BY <1>2, <1>3, <3>2
      <4>. QED
        BY <1>1, <1>2, <1>9, <4>1, <4>2
    <3>5. Kept' <= Len(log') /\ Kept' = Len(log') /\ error' = 0
      BY <1>1, <1>4, <2>1, <3>2
    <3>. QED
      BY <1>9, <3>1, <3>2, <3>3, <3>4, <3>5 DEF KeptInv
  <2>2. CASE error # 0
    <3>1. buffer' = buffer /\ delivered' = delivered /\ Kept' = q /\ Len(log') = m + 1 /\ error' = error
      BY <1>1, <1>2, <1>3, <2>2 DEF Kept
    <3>2. q < m /\ log[q + 1] = error /\ worker[error] = "error"
      BY <1>8, <2>2
    <3>3. q + 1 \in 1..m /\ q < m + 1 /\ q <= m + 1
      BY <1>4, <3>2
    <3>4. log'[q + 1] = error
      BY <1>2, <1>3, <3>2, <3>3
    <3>. QED
      BY <1>2, <1>3, <1>9, <2>2, <3>1, <3>2, <3>3, <3>4 DEF KeptInv
  <2>. QED
    BY <2>1, <2>2
<1>11. EndInv'
  BY <1>1 DEF EndInv
<1>. QED
  BY <1>2, <1>6, <1>7, <1>10, <1>11 DEF CollectInv

\* Its error is kept if it is the first.
LEMMA FinishErrorStep ==
    ASSUME CollectInv, NEW j \in Jobs, FinishError(j)
    PROVE  CollectInv'
<1>1. /\ main = "wait" /\ task[j] = "awaiting" /\ worker[j] = "error"
      /\ task' = [task EXCEPT ![j] = "ended"] /\ held' = held - 1
      /\ error' = IF error = 0 THEN j ELSE error
      /\ log' = Append(log, j)
      /\ UNCHANGED <<main, queued, offered, remaining, running, buffer, delivered, jobVars>>
  BY DEF FinishError, Release
<1>2. /\ CountInv' /\ held' \in 0..Limit /\ LogInv' /\ JobTypeOK' /\ worker' = worker
      /\ task' \in [Jobs -> {"none", "spawned", "submitted", "awaiting", "ended", "interrupted"}]
      /\ Started' = Started /\ log' \in Seq(Jobs)
      /\ Len(log') = Len(log) + 1 /\ log'[Len(log) + 1] = j
      /\ \A i \in 1..Len(log) : log'[i] = log[i]
  BY <1>1, EndFacts
<1>3. PICK m, d, b, q : m = Len(log) /\ d = Len(delivered) /\ b = Len(buffer) /\ q = Kept
  OBVIOUS
<1>4. m \in Nat /\ d \in Nat /\ b \in Nat /\ q = d + b /\ q \in Nat
  BY <1>3, LengthFacts
<1>5. error' \in Jobs \cup {0} /\ error' # 0
  <2>1. j # 0
    <3>1. Cardinality(Jobs) \in Nat /\ Jobs = 1..Cardinality(Jobs)
      BY SamplesRecursion
    <3>. QED
      BY <3>1
  <2>. QED
    BY <1>1, <2>1 DEF CollectInv, CollectorTypeOK
<1>6. CollectorTypeOK'
  BY <1>1, <1>2, <1>5 DEF CollectInv, CollectorTypeOK
<1>7. StartInv'
  BY <1>1, <1>2, SameStart DEF CollectInv
<1>8. /\ q <= m
      /\ \A i \in 1..d : delivered[i] = log[i]
      /\ \A i \in 1..b : buffer[i] = log[d + i]
      /\ \A i \in 1..q : worker[log[i]] = "result"
      /\ error = 0 => q = m
      /\ error # 0 => q < m /\ log[q + 1] = error /\ worker[error] = "error"
  BY <1>3 DEF CollectInv, KeptInv
<1>9. /\ \A i \in 1..d : delivered'[i] = log'[i]
      /\ \A i \in 1..b : buffer'[i] = log'[d + i]
      /\ \A i \in 1..q : worker'[log'[i]] = "result"
  <2>1. \A i \in 1..d : i \in 1..m
    BY <1>4, <1>8
  <2>2. \A i \in 1..b : d + i \in 1..m
    BY <1>4, <1>8
  <2>3. \A i \in 1..q : i \in 1..m
    BY <1>4, <1>8
  <2>. QED
    BY <1>1, <1>2, <1>3, <1>8, <2>1, <2>2, <2>3
<1>10. q < m + 1 /\ q <= m + 1 /\ log'[q + 1] = error' /\ worker'[error'] = "error"
  <2>1. CASE error = 0
    BY <1>1, <1>2, <1>3, <1>4, <1>8, <2>1
  <2>2. CASE error # 0
    <3>1. q + 1 \in 1..m
      BY <1>4, <1>8, <2>2
    <3>. QED
      BY <1>1, <1>2, <1>3, <1>4, <1>8, <2>2, <3>1
  <2>. QED
    BY <2>1, <2>2
<1>11. KeptInv'
  <2>1. buffer' = buffer /\ delivered' = delivered /\ Kept' = q /\ Len(log') = m + 1
    BY <1>1, <1>2, <1>3 DEF Kept
  <2>. QED
    BY <1>3, <1>5, <1>9, <1>10, <2>1 DEF KeptInv
<1>12. EndInv'
  BY <1>1 DEF EndInv
<1>. QED
  BY <1>2, <1>6, <1>7, <1>11, <1>12 DEF CollectInv

\* A scope left by an exception interrupts its tasks.
LEMMA InterruptStep ==
    ASSUME CollectInv, NEW j \in Jobs, Interrupt(j)
    PROVE  CollectInv'
<1>1. /\ main = "raising" /\ j \in Active /\ task' = [task EXCEPT ![j] = "interrupted"]
      /\ IF task[j] = "spawned" THEN held' = held ELSE held' = held - 1
      /\ UNCHANGED <<main, queued, offered, remaining, running, buffer, error, delivered, log, jobVars>>
  BY DEF Interrupt, Release
<1>2. task[j] \in {"spawned", "submitted", "awaiting"}
  BY <1>1 DEF Active
<1>3. /\ task'[j] = "interrupted" /\ \A k \in Jobs : k # j => task'[k] = task[k]
      /\ task' \in [Jobs -> {"none", "spawned", "submitted", "awaiting", "ended", "interrupted"}]
      /\ Started' = Started
  BY <1>1, <1>2, TaskFacts
<1>4. CountInv' /\ held' \in 0..Limit
  <2>1. CASE task[j] = "spawned"
    <3>1. Inside' = Inside
      BY <1>3, <2>1 DEF Inside
    <3>. QED
      BY <1>1, <1>3, <2>1, <3>1, SameCount DEF CollectInv, CollectorTypeOK
  <2>2. CASE task[j] # "spawned"
    <3>1. j \in Inside /\ Inside' = Inside \ {j}
      BY <1>2, <1>3, <2>2 DEF Inside
    <3>. QED
      BY <1>1, <1>3, <2>2, <3>1, ReleaseFacts
  <2>. QED
    BY <2>1, <2>2
<1>5. JobTypeOK'
  BY <1>1 DEF CollectInv, CollectorTypeOK, JobTypeOK, jobVars
<1>6. CollectorTypeOK'
  BY <1>1, <1>3, <1>4, <1>5 DEF CollectInv, CollectorTypeOK
<1>7. StartInv'
  BY <1>1, <1>3, SameStart DEF CollectInv
<1>8. \A k \in Jobs : task[k] = "ended" => task'[k] = "ended" /\ worker'[k] = worker[k]
  BY <1>1, <1>2, <1>3 DEF jobVars
<1>9. LogInv' /\ KeptInv'
  BY <1>1, <1>8, SameLog, SameKept
<1>10. EndInv'
  BY <1>1 DEF CollectInv, EndInv
<1>. QED
  BY <1>4, <1>6, <1>7, <1>9, <1>10 DEF CollectInv

\* A collection begins with nothing started, held, logged or delivered.
LEMMA CollectInit ==
    ASSUME CollectorInit
    PROVE  CollectInv
<1>1. /\ main = "fill" /\ queued = << >> /\ buffer = << >> /\ delivered = << >> /\ log = << >>
      /\ offered = 0 /\ remaining = MaxTotalSamples /\ running = 0
      /\ task = [j \in Jobs |-> "none"] /\ held = 0 /\ error = 0
  BY DEF CollectorInit
<1>2. Started = {} /\ Inside = {} /\ Owed = {}
  BY <1>1 DEF Started, Inside, Owed
<1>3. CollectorTypeOK
  <2>1. JobTypeOK
    BY JobAssumption DEF CollectorInit, JobInit, JobTypeOK, JobStates
  <2>2. Cardinality(Jobs) \in Nat
    BY SamplesRecursion
  <2>. QED
    BY <1>1, <2>1, <2>2, CollectorAssumption DEF CollectorTypeOK
<1>4. StartInv
  <2>1. Begun = 0 /\ Len(queued) = 0
    <3>1. Len(queued) = 0
      BY <1>1
    <3>2. offered = 0
      BY <1>1
    <3>. QED
      BY <3>1, <3>2 DEF Begun
  <2>2. SamplesOf[0] = 0
    BY SamplesRecursion
  <2>3. remaining = MaxTotalSamples - SamplesOf[0]
    BY <1>1, <2>2, CollectorAssumption
  <2>. QED
    BY <1>2, <2>1, <2>3 DEF StartInv
<1>5. CountInv
  BY <1>1, <1>2, FS_EmptySet, CollectorAssumption DEF CountInv
<1>6. LogInv /\ KeptInv /\ EndInv
  BY <1>1 DEF LogInv, KeptInv, EndInv, Kept
<1>. QED
  BY <1>3, <1>4, <1>5, <1>6 DEF CollectInv

\* A step of LocalEngine that leaves collect_async alone.
LEMMA CollectStutters ==
    ASSUME CollectInv, UNCHANGED collectorVars
    PROVE  CollectInv'
<1>1. UNCHANGED <<main, queued, offered, remaining, running, task, held, buffer, error, delivered, log, jobVars>>
  BY DEF collectorVars
<1>2. /\ Started' = Started /\ Inside' = Inside /\ Active' = Active
      /\ JobTypeOK' /\ LogInv'
      /\ task' \in [Jobs -> {"none", "spawned", "submitted", "awaiting", "ended", "interrupted"}]
      /\ log' \in Seq(Jobs) /\ held' \in 0..Limit /\ error' \in Jobs \cup {0}
  BY <1>1, SameTasks
<1>3. CollectorTypeOK'
  BY <1>1, <1>2 DEF CollectInv, CollectorTypeOK
<1>4. StartInv' /\ CountInv'
  BY <1>1, <1>2, SameStart, SameCount DEF CollectInv
<1>5. KeptInv'
  BY <1>1, SameKept DEF jobVars
<1>6. EndInv'
  BY <1>1, <1>2 DEF CollectInv, EndInv
<1>. QED
  BY <1>2, <1>3, <1>4, <1>5, <1>6 DEF CollectInv

\* Every step of the scope, of a job's thread and of those that cancel or delete a job.
LEMMA CollectStep ==
    ASSUME CollectInv, CollectorNext
    PROVE  CollectInv'
<1>1. CASE AskNextJob
  BY <1>1, AskStep
<1>2. CASE StartJob
  BY <1>2, StartStep
<1>3. CASE PoolIsFull \/ TakeError \/ LeaveScope
  BY <1>3, MainStep
<1>4. CASE TakeResult
  BY <1>4, TakeStep
<1>5. CASE \E j \in Jobs : Submit(j)
  BY <1>5, SubmitStep
<1>6. CASE \E j \in Jobs : AwaitResults(j)
  BY <1>6, AwaitStep
<1>7. CASE \E j \in Jobs : FinishOk(j)
  BY <1>7, FinishOkStep
<1>8. CASE \E j \in Jobs : FinishError(j)
  BY <1>8, FinishErrorStep
<1>9. CASE \E j \in Jobs : Interrupt(j)
  BY <1>9, InterruptStep
<1>10. CASE \E j \in Jobs : Thread(j) \/ Meddle(j)
  BY <1>10, JobStep
<1>. QED
  BY <1>1, <1>2, <1>3, <1>4, <1>5, <1>6, <1>7, <1>8, <1>9, <1>10 DEF CollectorNext, Loop

\* The invariant of the collection holds in every state of the local engine.
LEMMA CollectInvHolds == Spec => []CollectInv
<1>1. Init => CollectInv
  BY CollectInit DEF Init
<1>2. CollectInv /\ [Next]_vars => CollectInv'
  BY CollectStep, CollectStutters DEF Next, vars
<1>. QED
  BY <1>1, <1>2, PTL DEF Spec

----------------------------------------------------------------------------
\* For every number of jobs, Concurrency, Limit and MaxTotalSamples: no more than
\* Concurrency sampling jobs are under way, jobs start in the order of next_job() and only
\* the last one can cross max_total_samples, and a collection that has ended has left no
\* task behind and has given back every place in the limiter.
THEOREM CollectorLimitsAreKept == Spec => []LimitsAreKept
<1>1. CollectInv => LimitsAreKept
  <2>. SUFFICES ASSUME CollectInv PROVE LimitsAreKept
    OBVIOUS
  <2>1. /\ IsFiniteSet(Owed) /\ IsFiniteSet(Active) /\ Active \subseteq Owed /\ Inside \subseteq Active
        /\ Cardinality(Owed) \in Nat
    BY CountFacts
  <2>2. Cardinality(Active) <= Cardinality(Owed) /\ Cardinality(Active) \in Nat
    BY <2>1, FS_Subset, FS_CardinalityType
  <2>3. running = Cardinality(Owed) /\ running <= Concurrency /\ held = Cardinality(Inside)
    BY DEF CollectInv, CountInv
  <2>4. Cardinality(Active) <= Concurrency
    BY <2>1, <2>2, <2>3, CollectorAssumption
  <2>5. \A j \in Started : 1..j \subseteq Started /\ SamplesOf[j - 1] < MaxTotalSamples
    <3>1. Started = 1..Begun /\ Begun \in Nat /\ \A j \in Started : SamplesOf[j - 1] < MaxTotalSamples
      BY DEF CollectInv, StartInv
    <3>2. \A j \in 1..Begun : 1..j \subseteq 1..Begun
      BY <3>1
    <3>. QED
      BY <3>1, <3>2
  <2>6. Ended => Active = {}
    <3>1. main = "returned" => Owed = {}
      <4>1. main = "returned" => Cardinality(Owed) = 0
        BY <2>3 DEF CollectInv, EndInv
      <4>. QED
        BY <2>1, <4>1, FS_EmptySet
    <3>. QED
      BY <2>1, <3>1 DEF Ended, CollectInv, EndInv
  <2>7. Ended => held = 0
    BY <2>1, <2>3, <2>6, FS_EmptySet
  <2>. QED
    BY <2>4, <2>5, <2>6, <2>7 DEF LimitsAreKept
<1>. QED
  BY <1>1, CollectInvHolds, PTL

\* The tasks that ended before the first error are those kept.
LEMMA KeptIsBeforeError ==
    ASSUME CollectInv
    PROVE  Kept \in 0..Len(log) /\ BeforeError = SubSeq(log, 1, Kept)
<1>1. PICK m, q : m = Len(log) /\ q = Kept
  OBVIOUS
<1>2. m \in Nat /\ q \in Nat /\ q <= m
  BY <1>1, LengthFacts DEF CollectInv, KeptInv
<1>3. /\ \A i \in 1..q : worker[log[i]] = "result"
      /\ q < m => worker[log[q + 1]] = "error"
  BY <1>1, <1>2 DEF CollectInv, KeptInv
<1>. DEFINE P(n) == /\ \A i \in 1..n : ~IsFailed(log[i])
                    /\ n < m => IsFailed(log[n + 1])
<1>4. q \in 0..m /\ P(q)
  BY <1>2, <1>3 DEF IsFailed
<1>5. ASSUME NEW n \in 0..m, P(n) PROVE n = q
  <2>1. CASE n < q
    <3>1. n < m /\ n + 1 \in 1..q
      BY <1>2, <2>1
    <3>. QED
      BY <1>3, <1>5, <3>1 DEF IsFailed
  <2>2. CASE q < n
    <3>1. q < m /\ q + 1 \in 1..n
      BY <1>2, <2>2
    <3>. QED
      BY <1>3, <1>5, <3>1 DEF IsFailed
  <2>. QED
    BY <1>2, <2>1, <2>2
<1>6. BeforeError = SubSeq(log, 1, CHOOSE n \in 0..m : P(n))
  BY <1>1 DEF BeforeError
<1>. HIDE DEF P
<1>7. (CHOOSE n \in 0..m : P(n)) = q
  BY <1>4, <1>5
<1>. QED
  BY <1>1, <1>4, <1>6, <1>7

\* Whatever the order in which tasks end and the loop looks at them: on_job_result gets the
\* results of the tasks that ended before the first error, in that order, all of them once
\* collect has ended; and collect returns normally only when no job failed and every job
\* it started was handed over.
THEOREM ResultsComeBeforeTheError == Spec => []DeliveredBeforeError
<1>1. CollectInv => DeliveredBeforeError
  <2>. SUFFICES ASSUME CollectInv PROVE DeliveredBeforeError
    OBVIOUS
  <2>1. PICK m, d, b : m = Len(log) /\ d = Len(delivered) /\ b = Len(buffer)
    OBVIOUS
  <2>2. /\ m \in Nat /\ d \in Nat /\ b \in Nat /\ Kept = d + b /\ d + b <= m
        /\ log \in Seq(Jobs) /\ delivered \in Seq(Jobs)
        /\ \A i \in 1..d : delivered[i] = log[i]
        /\ BeforeError = SubSeq(log, 1, d + b)
    BY <2>1, LengthFacts, KeptIsBeforeError DEF CollectInv, KeptInv
  <2>3. /\ BeforeError \in Seq(Jobs) /\ Len(BeforeError) = d + b
        /\ \A i \in 1..(d + b) : BeforeError[i] = log[i]
    BY <2>1, <2>2
  <2>4. IsPrefix(delivered, BeforeError)
    <3>1. d <= d + b /\ \A i \in 1..d : i \in 1..(d + b)
      BY <2>2
    <3>2. SubSeq(delivered, 1, d) = SubSeq(BeforeError, 1, d)
      <4>1. PICK B : B = BeforeError
        OBVIOUS
      <4>2. B \in Seq(Jobs) /\ Len(B) = d + b /\ \A i \in 1..d : delivered[i] = B[i]
        BY <2>2, <2>3, <3>1, <4>1
      <4>3. SubSeq(delivered, 1, d) = [i \in 1..d |-> delivered[i]]
        BY <2>1, <2>2
      <4>4. SubSeq(B, 1, d) = [i \in 1..d |-> B[i]]
        BY <2>2, <3>1, <4>2
      <4>. QED
        BY <4>1, <4>2, <4>3, <4>4
    <3>. QED
      BY <2>1, <2>3, <3>1, <3>2 DEF IsPrefix
  <2>5. Ended => b = 0 /\ (main = "returned" => error = 0 /\ ToSet(delivered) = Started)
    <3>1. CASE main = "raised"
      BY <2>1, <3>1 DEF CollectInv, EndInv
    <3>2. CASE main = "returned"
      <4>1. Owed = {}
        <5>1. Cardinality(Owed) = 0
          BY <3>2 DEF CollectInv, EndInv, CountInv
        <5>. QED
          BY <5>1, CountFacts, FS_EmptySet
      <4>2. \A i \in 1..m : log[i] \in ToSet(delivered)
        <5>1. \A i \in 1..m : task[log[i]] = "ended" /\ log[i] \in Jobs
          BY <2>1, LengthFacts DEF CollectInv, LogInv
        <5>. QED
          BY <4>1, <5>1 DEF Owed, Started
      <4>3. m = d
        <5>1. CASE d < m
          <6>1. m \in 1..m
            BY <2>2, <5>1
          <6>2. PICK i \in DOMAIN delivered : delivered[i] = log[m]
            BY <4>2, <6>1 DEF ToSet
          <6>3. i \in 1..d /\ i \in 1..m /\ i # m
            BY <2>1, <2>2, <5>1, <6>2, LengthFacts
          <6>4. log[i] = log[m]
            BY <2>2, <6>2, <6>3
          <6>. QED
            BY <2>1, <6>1, <6>3, <6>4, LengthFacts DEF CollectInv, LogInv
        <5>. QED
          BY <2>2, <5>1
      <4>4. b = 0
        BY <2>2, <4>3
      <4>5. error = 0
        BY <2>1, <2>2, <4>3 DEF CollectInv, KeptInv
      <4>6. ToSet(delivered) \subseteq Started
        <5>1. \A i \in 1..d : delivered[i] \in Jobs /\ task[delivered[i]] = "ended"
          BY <2>1, <2>2, <4>3, LengthFacts DEF CollectInv, LogInv
        <5>. QED
          BY <2>1, <5>1, LengthFacts DEF ToSet, Started
      <4>7. ToSet(delivered) = Started
        BY <4>1, <4>6 DEF Owed
      <4>. QED
        BY <4>4, <4>5, <4>7
    <3>. QED
      BY <3>1, <3>2 DEF Ended
  <2>6. Ended => delivered = BeforeError
    <3>1. PICK B : B = BeforeError
      OBVIOUS
    <3>2. Ended => Len(B) = d /\ \A i \in 1..d : B[i] = delivered[i]
      BY <2>2, <2>3, <2>5, <3>1
    <3>. QED
      BY <2>1, <2>2, <2>3, <3>1, <3>2
  <2>. QED
    BY <2>4, <2>5, <2>6 DEF DeliveredBeforeError, Ended
<1>. QED
  BY <1>1, CollectInvHolds, PTL

----------------------------------------------------------------------------
(* The schedule of a local processor *)

\* The loop of _insert_reservation_into has a result for every number of turns.
LEMMA TurnsExist ==
    ASSUME NEW L \in Nat, NEW P
    PROVE  \E g : g = [n \in 0..L |-> IF n = 0 THEN << >> ELSE g[n - 1] \o P[n]]
<1>. DEFINE Turns(g, n) == /\ g = [k \in 0..n |-> g[k]] /\ g[0] = << >>
                           /\ \A k \in 1..n : g[k] = g[k - 1] \o P[k]
            Bad == {n \in 0..L : ~ \E g : Turns(g, n)}
<1>1. Bad = {}
  <2>. SUFFICES ASSUME Bad # {} PROVE FALSE
    OBVIOUS
  <2>1. PICK m \in Bad : \A y \in Bad : m <= y
    <3>. HIDE DEF Turns
    <3>1. Bad \in SUBSET Nat
      OBVIOUS
    <3>. QED
      BY <3>1, LeastElement
  <2>2. m \in 0..L /\ ~ \E g : Turns(g, m)
    BY <2>1
  <2>3. m # 0
    <3>1. Turns([k \in 0..0 |-> << >>], 0)
      OBVIOUS
    <3>. QED
      BY <2>2, <3>1
  <2>4. m - 1 \in 0..L /\ ~(m <= m - 1) /\ m \in Nat /\ m > 0
    BY <2>2, <2>3
  <2>5. PICK h : Turns(h, m - 1)
    <3>. HIDE DEF Turns
    <3>. QED
      BY <2>1, <2>4
  <2>. DEFINE g == [k \in 0..m |-> IF k = m THEN h[m - 1] \o P[m] ELSE h[k]]
  <2>6. g = [k \in 0..m |-> g[k]] /\ g[0] = << >>
    BY <2>4, <2>5
  <2>7. \A k \in 1..m : g[k] = g[k - 1] \o P[k]
    <3>. SUFFICES ASSUME NEW k \in 1..m PROVE g[k] = g[k - 1] \o P[k]
      OBVIOUS
    <3>1. k \in 0..m /\ k - 1 \in 0..m /\ k - 1 # m
      BY <2>4
    <3>2. CASE k = m
      BY <3>1, <3>2
    <3>3. CASE k # m
      <4>1. k \in 1..(m - 1)
        BY <2>4, <3>3
      <4>. QED
        BY <2>5, <3>1, <3>3, <4>1
    <3>. QED
      BY <3>2, <3>3
  <2>. QED
    BY <2>2, <2>6, <2>7
<1>2. PICK g : Turns(g, L)
  <2>1. L \in 0..L
    OBVIOUS
  <2>. HIDE DEF Turns
  <2>. QED
    BY <1>1, <2>1
<1>3. g = [n \in 0..L |-> IF n = 0 THEN << >> ELSE g[n - 1] \o P[n]]
  <2>1. \A n \in 0..L : n = 0 \/ n \in 1..L
    OBVIOUS
  <2>2. \A n \in 0..L : g[n] = IF n = 0 THEN << >> ELSE g[n - 1] \o P[n]
    BY <1>2, <2>1
  <2>. QED
    BY <1>2, <2>2
<1>. QED
  BY <1>3

Seen(sched, r, n) == \E k \in 1..n : Meets(sched[k], r)

\* One turn of the loop adds what becomes of one slot.
LEMMA TurnsRecursion ==
    ASSUME NEW sched, NEW r, Len(sched) \in Nat
    PROVE  /\ NewSchedule(sched, r)[0] = << >>
           /\ \A n \in 1..Len(sched) :
                 NewSchedule(sched, r)[n] =
                    NewSchedule(sched, r)[n - 1] \o Pieces(sched[n], r, Seen(sched, r, n - 1))
<1>1. PICK L, new : L = Len(sched) /\ new = NewSchedule(sched, r)
  OBVIOUS
<1>2. PICK P : P = [n \in 1..L |-> Pieces(sched[n], r, Seen(sched, r, n - 1))]
  OBVIOUS
<1>. DEFINE Def(g) == g = [n \in 0..L |-> IF n = 0 THEN << >>
                            ELSE g[n - 1] \o Pieces(sched[n], r, \E k \in 1..(n - 1) : Meets(sched[k], r))]
<1>3. new = CHOOSE g : Def(g)
  BY <1>1 DEF NewSchedule
<1>4. \E g : Def(g)
  <2>1. PICK g : g = [n \in 0..L |-> IF n = 0 THEN << >> ELSE g[n - 1] \o P[n]]
    <3>1. L \in Nat
      BY <1>1
    <3>. QED
      BY <3>1, TurnsExist
  <2>2. \A n \in 0..L : n = 0 \/ n \in 1..L
    BY <1>1
  <2>3. \A n \in 1..L : P[n] = Pieces(sched[n], r, \E k \in 1..(n - 1) : Meets(sched[k], r))
    BY <1>2 DEF Seen
  <2>4. \A n \in 0..L : g[n] = IF n = 0 THEN << >>
                            ELSE g[n - 1] \o Pieces(sched[n], r, \E k \in 1..(n - 1) : Meets(sched[k], r))
    BY <2>1, <2>2, <2>3
  <2>5. g = [n \in 0..L |-> g[n]]
    BY <2>1
  <2>6. Def(g)
    BY <2>4, <2>5
  <2>. QED
    BY <2>6
<1>5. Def(new)
  <2>. HIDE DEF Def
  <2>. QED
    BY <1>3, <1>4
<1>6. \A n \in 0..L : new[n] = IF n = 0 THEN << >>
                            ELSE new[n - 1] \o Pieces(sched[n], r, \E k \in 1..(n - 1) : Meets(sched[k], r))
  BY <1>5
<1>7. 0 \in 0..L /\ \A n \in 1..L : n \in 0..L /\ n # 0
  BY <1>1
<1>8. new[0] = << >>
  BY <1>6, <1>7
<1>9. \A n \in 1..L : new[n] = new[n - 1] \o Pieces(sched[n], r, Seen(sched, r, n - 1))
  BY <1>6, <1>7 DEF Seen
<1>. QED
  BY <1>1, <1>8, <1>9

\* Two slots of a schedule, the first before the second in the list: they share no time,
\* and those that are free are in the order of time.
Fits(x, y) ==
    /\ x.end <= y.start \/ y.end <= x.start
    /\ x.type = "UNALLOCATED" /\ y.type = "UNALLOCATED" => x.end <= y.start

Orderly(s) == \A i, j \in DOMAIN s : i < j => Fits(s[i], s[j])

\* x is what remains of slot t, or a part of it, when r is put in.
Cut(x, t, r) ==
    x \in Slots /\ x.type = t.type /\ t.start <= x.start /\ x.end <= t.end /\ ~Meets(x, r)

\* A slot that create_reservation puts in.
Bookable(r) ==
    r \in Slots /\ r.type = "RESERVATION" /\ r.start \in 1..MaxTime /\ r.end \in 1..MaxTime /\ r.start <= r.end

\* The range of a slot's borders.
LEMMA SlotTypes ==
    ASSUME NEW t \in Slots
    PROVE  t.start \in Nat /\ t.end \in Nat /\ t.start <= MaxTime /\ t.end <= MaxTime + 1 /\ t.end >= 1 /\ t.type \in Types
BY ScheduleAssumption DEF Slots

\* The slots of two schedules joined.
LEMMA ConcatSet ==
    ASSUME NEW s \in Seq(Slots), NEW t \in Seq(Slots)
    PROVE  s \o t \in Seq(Slots) /\ ToSet(s \o t) = ToSet(s) \cup ToSet(t)
<1>1. s \o t \in Seq(Slots)
  OBVIOUS
<1>2. PICK m, n : m = Len(s) /\ n = Len(t)
  OBVIOUS
<1>3. m \in Nat /\ n \in Nat /\ DOMAIN s = 1..m /\ DOMAIN t = 1..n /\ DOMAIN (s \o t) = 1..(m + n)
  BY <1>2
<1>4. /\ \A i \in 1..m : (s \o t)[i] = s[i]
      /\ \A i \in 1..n : (s \o t)[m + i] = t[i]
  BY <1>2
<1>5. \A i \in 1..(m + n) : i \in 1..m \/ (i - m \in 1..n /\ i = m + (i - m))
  BY <1>3
<1>6. \A i \in 1..m : i \in 1..(m + n)
  BY <1>3
<1>7. \A i \in 1..n : m + i \in 1..(m + n)
  BY <1>3
<1>8. ToSet(s \o t) \subseteq ToSet(s) \cup ToSet(t)
  <2>. SUFFICES ASSUME NEW i \in 1..(m + n)
                PROVE  (s \o t)[i] \in ToSet(s) \cup ToSet(t)
    BY <1>3 DEF ToSet
  <2>1. CASE i \in 1..m
    BY <1>3, <1>4, <2>1 DEF ToSet
  <2>2. CASE i - m \in 1..n /\ i = m + (i - m)
    BY <1>3, <1>4, <2>2 DEF ToSet
  <2>. QED
    BY <1>5, <2>1, <2>2
<1>9. ToSet(s) \subseteq ToSet(s \o t)
  BY <1>3, <1>4, <1>6 DEF ToSet
<1>10. ToSet(t) \subseteq ToSet(s \o t)
  BY <1>3, <1>4, <1>7 DEF ToSet
<1>. QED
  BY <1>1, <1>8, <1>9, <1>10

\* Two orderly schedules, every slot of the first fitting before those of the second, join to one.
LEMMA OrderlyConcat ==
    ASSUME NEW s \in Seq(Slots), NEW t \in Seq(Slots), Orderly(s), Orderly(t),
           \A x \in ToSet(s), y \in ToSet(t) : Fits(x, y)
    PROVE  Orderly(s \o t)
<1>2. PICK m, n : m = Len(s) /\ n = Len(t)
  OBVIOUS
<1>3. m \in Nat /\ n \in Nat /\ DOMAIN s = 1..m /\ DOMAIN t = 1..n /\ DOMAIN (s \o t) = 1..(m + n)
  BY <1>2
<1>4. /\ \A i \in 1..m : (s \o t)[i] = s[i]
      /\ \A i \in 1..n : (s \o t)[m + i] = t[i]
  BY <1>2
<1>5. \A i \in 1..(m + n) : i \in 1..m \/ (i - m \in 1..n /\ i = m + (i - m))
  BY <1>3
<1>. SUFFICES ASSUME NEW i \in 1..(m + n), NEW j \in 1..(m + n), i < j
              PROVE  Fits((s \o t)[i], (s \o t)[j])
  BY <1>3 DEF Orderly
<1>6. CASE i \in 1..m /\ j \in 1..m
  BY <1>3, <1>4, <1>6 DEF Orderly
<1>7. CASE i \in 1..m /\ j - m \in 1..n /\ j = m + (j - m)
  <2>1. s[i] \in ToSet(s) /\ t[j - m] \in ToSet(t)
    BY <1>3, <1>7 DEF ToSet
  <2>2. (s \o t)[i] = s[i] /\ (s \o t)[j] = t[j - m]
    BY <1>4, <1>7
  <2>. QED
    BY <2>1, <2>2
<1>8. CASE i - m \in 1..n /\ i = m + (i - m) /\ j - m \in 1..n /\ j = m + (j - m)
  <2>1. (s \o t)[i] = t[i - m] /\ (s \o t)[j] = t[j - m]
    BY <1>4, <1>8
  <2>2. i - m < j - m
    BY <1>3
  <2>. QED
    BY <1>3, <1>8, <2>1, <2>2 DEF Orderly
<1>9. ~(i \notin 1..m /\ j \in 1..m)
  BY <1>3
<1>. QED
  BY <1>5, <1>6, <1>7, <1>8, <1>9

\* Short sequences, put together.
LEMMA ShortConcat ==
    ASSUME NEW S, NEW x \in S, NEW y \in S, NEW z \in S
    PROVE  <<x>> \o <<y>> = <<x, y>> /\ <<x, y>> \o <<z>> = <<x, y, z>>
<1>1. /\ <<x>> \in Seq(S) /\ <<y>> \in Seq(S) /\ <<z>> \in Seq(S) /\ <<x, y>> \in Seq(S) /\ <<x, y, z>> \in Seq(S)
  OBVIOUS
<1>2. PICK s, t, u, v : s = <<x>> \o <<y>> /\ t = <<x, y>> /\ u = <<x, y>> \o <<z>> /\ v = <<x, y, z>>
  OBVIOUS
<1>3. s \in Seq(S) /\ Len(s) = 2 /\ s[1] = x /\ s[2] = y
  BY <1>1, <1>2
<1>4. t \in Seq(S) /\ Len(t) = 2 /\ t[1] = x /\ t[2] = y
  BY <1>1, <1>2
<1>5. u \in Seq(S) /\ Len(u) = 3 /\ u[1] = x /\ u[2] = y /\ u[3] = z
  BY <1>1, <1>2
<1>6. v \in Seq(S) /\ Len(v) = 3 /\ v[1] = x /\ v[2] = y /\ v[3] = z
  BY <1>1, <1>2
<1>7. s = t
  <2>1. \A i \in 1..2 : s[i] = t[i]
    BY <1>3, <1>4
  <2>. QED
    BY <1>3, <1>4, <2>1, SeqEqual
<1>8. u = v
  <2>1. \A i \in 1..3 : u[i] = v[i]
    BY <1>5, <1>6
  <2>. QED
    BY <1>5, <1>6, <2>1, SeqEqual
<1>. QED
  BY <1>2, <1>7, <1>8

\* What Pieces returns, case by case; a and c are the parts of t before and after r.
LEMMA PiecesForm ==
    ASSUME NEW t \in Slots, NEW r, Bookable(r), NEW ins \in BOOLEAN
    PROVE  \E a, c :
             /\ ~Meets(t, r) => Pieces(t, r, ins) = <<t>>
             /\ Meets(t, r) /\ t.start < r.start =>
                   /\ a \in Slots /\ a.start = t.start /\ a.end = r.start /\ a.type = t.type
             /\ Meets(t, r) /\ r.end < t.end =>
                   /\ c \in Slots /\ c.start = r.end /\ c.end = t.end /\ c.type = t.type
             /\ Meets(t, r) /\ t.start < r.start =>
                   Pieces(t, r, ins) = IF r.end < t.end THEN <<a, r, c>> ELSE <<a, r>>
             /\ Meets(t, r) /\ r.start <= t.start =>
                   Pieces(t, r, ins) = IF r.end < t.end THEN (IF ins THEN <<c>> ELSE <<r, c>>)
                                                        ELSE (IF ins THEN << >> ELSE <<r>>)
<1>1. PICK a, c : a = [t EXCEPT !.end = r.start] /\ c = [t EXCEPT !.start = r.end]
  OBVIOUS
<1>2. /\ t.start \in Nat /\ t.end \in Nat /\ r.start \in Nat /\ r.end \in Nat
      /\ r.start >= 1 /\ r.end <= MaxTime /\ r.start <= MaxTime /\ MaxTime \in Nat
  BY SlotTypes, ScheduleAssumption DEF Bookable
<1>3. a \in Slots /\ a.start = t.start /\ a.end = r.start /\ a.type = t.type
  BY <1>1, <1>2 DEF Slots
<1>4. c \in Slots /\ c.start = r.end /\ c.end = t.end /\ c.type = t.type
  BY <1>1, <1>2 DEF Slots
<1>5. ~Meets(t, r) => Pieces(t, r, ins) = <<t>>
  BY DEF Pieces
<1>6. t.end > r.end <=> r.end < t.end
  BY <1>2
<1>7. r.start <= t.start <=> ~(t.start < r.start)
  BY <1>2
<1>8. Meets(t, r) /\ t.start < r.start =>
         Pieces(t, r, ins) = <<a, r>> \o (IF r.end < t.end THEN <<c>> ELSE << >>)
  BY <1>1, <1>6, <1>7 DEF Pieces
<1>9. Meets(t, r) /\ r.start <= t.start =>
         Pieces(t, r, ins) = (IF ins THEN << >> ELSE <<r>>) \o (IF r.end < t.end THEN <<c>> ELSE << >>)
  BY <1>1, <1>6, <1>7 DEF Pieces
<1>10. /\ <<a, r>> \o <<c>> = <<a, r, c>> /\ <<a, r>> \o << >> = <<a, r>>
       /\ << >> \o <<c>> = <<c>> /\ <<r>> \o <<c>> = <<r, c>> /\ << >> \o << >> = << >> /\ <<r>> \o << >> = <<r>>
  <2>1. r \in Slots
    BY DEF Bookable
  <2>2. <<a, r>> \in Seq(Slots) /\ <<c>> \in Seq(Slots) /\ <<r>> \in Seq(Slots) /\ << >> \in Seq(Slots)
    BY <1>3, <1>4, <2>1
  <2>3. <<a, r>> \o <<c>> = <<a, r, c>> /\ <<r>> \o <<c>> = <<r, c>>
    BY <1>3, <1>4, <2>1, ShortConcat
  <2>5. /\ <<a, r>> \o << >> = <<a, r>> /\ << >> \o <<c>> = <<c>>
        /\ << >> \o << >> = << >> /\ <<r>> \o << >> = <<r>>
    BY <2>2, ConcatEmptySeq
  <2>. QED
    BY <2>3, <2>5
<1>11. Meets(t, r) /\ t.start < r.start =>
         Pieces(t, r, ins) = IF r.end < t.end THEN <<a, r, c>> ELSE <<a, r>>
  BY <1>8, <1>10
<1>12. Meets(t, r) /\ r.start <= t.start =>
         Pieces(t, r, ins) = IF r.end < t.end THEN (IF ins THEN <<c>> ELSE <<r, c>>)
                                              ELSE (IF ins THEN << >> ELSE <<r>>)
  BY <1>9, <1>10
<1>. QED
  BY <1>3, <1>4, <1>5, <1>11, <1>12

\* A slot split around a reservation gives three slots in order.
LEMMA ThreeInOrder ==
    ASSUME NEW x \in Slots, NEW y \in Slots, NEW z \in Slots, Fits(x, y), Fits(x, z), Fits(y, z)
    PROVE  <<x, y, z>> \in Seq(Slots) /\ ToSet(<<x, y, z>>) = {x, y, z} /\ Orderly(<<x, y, z>>)
<1>1. PICK s : s = <<x, y, z>>
  OBVIOUS
<1>2. s \in Seq(Slots) /\ DOMAIN s = 1..3 /\ s[1] = x /\ s[2] = y /\ s[3] = z
  BY <1>1
<1>3. \A i : i \in 1..3 <=> i = 1 \/ i = 2 \/ i = 3
  OBVIOUS
<1>4. ToSet(s) = {x, y, z}
  BY <1>2, <1>3 DEF ToSet
<1>5. \A i, j \in 1..3 : i < j => (i = 1 /\ j = 2) \/ (i = 1 /\ j = 3) \/ (i = 2 /\ j = 3)
  OBVIOUS
<1>6. Orderly(s)
  BY <1>2, <1>5 DEF Orderly
<1>. QED
  BY <1>1, <1>2, <1>4, <1>6

\* Schedules of no, one and two slots in order.
LEMMA ShortOrder ==
    ASSUME NEW x \in Slots, NEW y \in Slots
    PROVE  /\ << >> \in Seq(Slots) /\ ToSet(<< >>) = {} /\ Orderly(<< >>)
           /\ <<x>> \in Seq(Slots) /\ ToSet(<<x>>) = {x} /\ Orderly(<<x>>)
           /\ <<x, y>> \in Seq(Slots) /\ ToSet(<<x, y>>) = {x, y} /\ (Fits(x, y) => Orderly(<<x, y>>))
<1>1. /\ << >> \in Seq(Slots) /\ ToSet(<< >>) = {} /\ Orderly(<< >>)
  BY DEF ToSet, Orderly
<1>2. /\ <<x>> \in Seq(Slots) /\ ToSet(<<x>>) = {x} /\ Orderly(<<x>>)
  BY DEF ToSet, Orderly
<1>3. /\ <<x, y>> \in Seq(Slots) /\ ToSet(<<x, y>>) = {x, y} /\ (Fits(x, y) => Orderly(<<x, y>>))
  <2>1. PICK s : s = <<x, y>>
    OBVIOUS
  <2>2. s \in Seq(Slots) /\ DOMAIN s = 1..2 /\ s[1] = x /\ s[2] = y
    BY <2>1
  <2>3. \A i : i \in 1..2 <=> i = 1 \/ i = 2
    OBVIOUS
  <2>4. ToSet(s) = {x, y}
    BY <2>2, <2>3 DEF ToSet
  <2>5. \A i, j \in 1..2 : i < j => i = 1 /\ j = 2
    OBVIOUS
  <2>6. Fits(x, y) => Orderly(s)
    BY <2>2, <2>5 DEF Orderly
  <2>. QED
    BY <2>1, <2>2, <2>4, <2>6
<1>. QED
  BY <1>1, <1>2, <1>3

\* The pieces of a slot are in order and apart, are parts of the slot or r itself, and lose
\* no time of the slot but that of r.
LEMMA PiecesFacts ==
    ASSUME NEW t \in Slots, NEW r, Bookable(r), NEW ins \in BOOLEAN,
           Meets(t, r) => t.type = "UNALLOCATED"
    PROVE  /\ Pieces(t, r, ins) \in Seq(Slots) /\ Orderly(Pieces(t, r, ins))
           /\ \A x \in ToSet(Pieces(t, r, ins)) :
                 \/ x = r /\ Meets(t, r) /\ (ins => t.start < r.start)
                 \/ Cut(x, t, r)
           /\ ~Meets(t, r) => t \in ToSet(Pieces(t, r, ins))
           /\ Meets(t, r) /\ ~ins => r \in ToSet(Pieces(t, r, ins))
           /\ \A u \in Nat : Covers(t, u) /\ ~Covers(r, u) =>
                 \E x \in ToSet(Pieces(t, r, ins)) : Covers(x, u) /\ Cut(x, t, r)
<1>1. PICK P : P = Pieces(t, r, ins)
  OBVIOUS
<1>2. PICK a, c :
        /\ ~Meets(t, r) => P = <<t>>
        /\ Meets(t, r) /\ t.start < r.start =>
              /\ a \in Slots /\ a.start = t.start /\ a.end = r.start /\ a.type = t.type
        /\ Meets(t, r) /\ r.end < t.end =>
              /\ c \in Slots /\ c.start = r.end /\ c.end = t.end /\ c.type = t.type
        /\ Meets(t, r) /\ t.start < r.start =>
              P = IF r.end < t.end THEN <<a, r, c>> ELSE <<a, r>>
        /\ Meets(t, r) /\ r.start <= t.start =>
              P = IF r.end < t.end THEN (IF ins THEN <<c>> ELSE <<r, c>>)
                                   ELSE (IF ins THEN << >> ELSE <<r>>)
  BY <1>1, PiecesForm
<1>3. /\ t.start \in Nat /\ t.end \in Nat /\ r.start \in Nat /\ r.end \in Nat /\ r.start <= r.end
      /\ r \in Slots /\ r.type = "RESERVATION"
  BY SlotTypes DEF Bookable
<1>. DEFINE Good == /\ P \in Seq(Slots) /\ Orderly(P)
                    /\ \A x \in ToSet(P) :
                          \/ x = r /\ Meets(t, r) /\ (ins => t.start < r.start)
                          \/ Cut(x, t, r)
                    /\ ~Meets(t, r) => t \in ToSet(P)
                    /\ Meets(t, r) /\ ~ins => r \in ToSet(P)
                    /\ \A u \in Nat : Covers(t, u) /\ ~Covers(r, u) =>
                          \E x \in ToSet(P) : Covers(x, u) /\ Cut(x, t, r)
<1>4. CASE ~Meets(t, r)
  <2>1. P = <<t>> /\ Cut(t, t, r)
    BY <1>2, <1>3, <1>4 DEF Cut
  <2>2. P \in Seq(Slots) /\ ToSet(P) = {t} /\ Orderly(P)
    BY <2>1, ShortOrder
  <2>3. Good
    BY <1>4, <2>1, <2>2
  <2>. QED
    BY <1>1, <2>3
<1>5. CASE Meets(t, r)
  <2>1. r.start < t.end /\ t.start < r.end /\ t.type = "UNALLOCATED"
    BY <1>3, <1>5 DEF Meets
  <2>2. t.start < r.start => /\ a \in Slots /\ Cut(a, t, r) /\ Fits(a, r)
                             /\ \A u \in Nat : t.start <= u /\ u < r.start => Covers(a, u)
    BY <1>2, <1>3, <1>5, <2>1 DEF Cut, Fits, Meets, Covers
  <2>3. r.end < t.end => /\ c \in Slots /\ Cut(c, t, r) /\ Fits(r, c)
                         /\ \A u \in Nat : r.end <= u /\ u < t.end => Covers(c, u)
    BY <1>2, <1>3, <1>5, <2>1 DEF Cut, Fits, Meets, Covers
  <2>4. t.start < r.start /\ r.end < t.end => Fits(a, c)
    BY <1>2, <1>3, <1>5, <2>1 DEF Fits
  <2>5. \A u \in Nat : Covers(t, u) /\ ~Covers(r, u) =>
           \/ t.start < r.start /\ t.start <= u /\ u < r.start
           \/ r.end < t.end /\ r.end <= u /\ u < t.end
    BY <1>3, <2>1 DEF Covers
  <2>6. CASE t.start < r.start /\ r.end < t.end
    <3>1. P = <<a, r, c>>
      BY <1>2, <1>5, <2>6
    <3>2. P \in Seq(Slots) /\ ToSet(P) = {a, r, c} /\ Orderly(P)
      <4>1. a \in Slots /\ r \in Slots /\ c \in Slots /\ Fits(a, r) /\ Fits(a, c) /\ Fits(r, c)
        BY <1>3, <2>2, <2>3, <2>4, <2>6
      <4>2. <<a, r, c>> \in Seq(Slots) /\ ToSet(<<a, r, c>>) = {a, r, c} /\ Orderly(<<a, r, c>>)
        BY <4>1, ThreeInOrder
      <4>. QED
        BY <3>1, <4>2
    <3>3. Good
      BY <1>5, <2>2, <2>3, <2>5, <2>6, <3>2
    <3>. QED
      BY <1>1, <3>3
  <2>7. CASE t.start < r.start /\ ~(r.end < t.end)
    <3>1. P = <<a, r>>
      BY <1>2, <1>5, <2>7
    <3>2. P \in Seq(Slots) /\ ToSet(P) = {a, r} /\ Orderly(P)
      BY <1>3, <2>2, <2>7, <3>1, ShortOrder
    <3>3. Good
      BY <1>5, <2>2, <2>5, <2>7, <3>2
    <3>. QED
      BY <1>1, <3>3
  <2>8. CASE ~(t.start < r.start) /\ r.end < t.end
    <3>1. P = IF ins THEN <<c>> ELSE <<r, c>>
      BY <1>2, <1>3, <1>5, <2>8
    <3>2. P \in Seq(Slots) /\ ToSet(P) = (IF ins THEN {c} ELSE {r, c}) /\ Orderly(P)
      BY <1>3, <2>3, <2>8, <3>1, ShortOrder
    <3>3. Good
      BY <1>5, <2>3, <2>5, <2>8, <3>2
    <3>. QED
      BY <1>1, <3>3
  <2>9. CASE ~(t.start < r.start) /\ ~(r.end < t.end)
    <3>1. P = IF ins THEN << >> ELSE <<r>>
      BY <1>2, <1>3, <1>5, <2>9
    <3>2. P \in Seq(Slots) /\ ToSet(P) = (IF ins THEN {} ELSE {r}) /\ Orderly(P)
      BY <1>3, <2>9, <3>1, ShortOrder
    <3>3. Good
      BY <1>5, <2>5, <2>9, <3>2
    <3>. QED
      BY <1>1, <3>3
  <2>. QED
    BY <2>6, <2>7, <2>8, <2>9
<1>. QED
  BY <1>4, <1>5

\* _is_available, by slots that meet r.
Available(sched, r) == \A k \in DOMAIN sched : Meets(sched[k], r) => sched[k].type = "UNALLOCATED"

\* What holds of new_schedule after n turns of the loop.
Turned(out, sched, r, n) ==
    /\ out \in Seq(Slots) /\ Orderly(out)
    /\ \A x \in ToSet(out) : (x = r /\ Seen(sched, r, n)) \/ \E k \in 1..n : Cut(x, sched[k], r)
    /\ Seen(sched, r, n) => r \in ToSet(out)
    /\ \A k \in 1..n : ~Meets(sched[k], r) => sched[k] \in ToSet(out)
    /\ \A k \in 1..n, u \in Nat : Covers(sched[k], u) /\ ~Covers(r, u) =>
          \E x \in ToSet(out) : Covers(x, u) /\ Cut(x, sched[k], r)

\* Parts of two slots that fit do.
LEMMA CutsFit ==
    ASSUME NEW s \in Slots, NEW t \in Slots, NEW r, Bookable(r), Fits(s, t), NEW x, Cut(x, s, r)
    PROVE  /\ \A y : Cut(y, t, r) => Fits(x, y)
           /\ Fits(x, r) /\ Fits(r, x)
<1>1. /\ x \in Slots /\ x.start \in Nat /\ x.end \in Nat /\ s.start \in Nat /\ s.end \in Nat
      /\ t.start \in Nat /\ t.end \in Nat /\ r.start \in Nat /\ r.end \in Nat
  BY SlotTypes DEF Cut, Bookable
<1>2. ASSUME NEW y, Cut(y, t, r) PROVE Fits(x, y)
  <2>1. y.start \in Nat /\ y.end \in Nat
    BY <1>2, SlotTypes DEF Cut
  <2>. QED
    BY <1>1, <1>2, <2>1 DEF Cut, Fits
<1>3. Fits(x, r) /\ Fits(r, x)
  BY <1>1 DEF Cut, Fits, Bookable, Meets
<1>. QED
  BY <1>2, <1>3

\* One turn of the loop of _insert_reservation_into keeps what the new schedule is to be.
LEMMA TurnStep ==
    ASSUME NEW sched \in Seq(Slots), Orderly(sched), NEW r, Bookable(r), Available(sched, r),
           NEW n \in 1..Len(sched), NEW out, Turned(out, sched, r, n - 1)
    PROVE  Turned(out \o Pieces(sched[n], r, Seen(sched, r, n - 1)), sched, r, n)
<1>1. PICK t, ins, P : t = sched[n] /\ ins = Seen(sched, r, n - 1) /\ P = Pieces(t, r, ins)
  OBVIOUS
<1>2. t \in Slots /\ ins \in BOOLEAN /\ n \in Nat /\ n >= 1 /\ n \in DOMAIN sched /\ DOMAIN sched = 1..Len(sched)
      /\ Len(sched) \in Nat
  BY <1>1 DEF Seen
<1>3. /\ P \in Seq(Slots) /\ Orderly(P)
      /\ \A x \in ToSet(P) :
            \/ x = r /\ Meets(t, r) /\ (ins => t.start < r.start)
            \/ Cut(x, t, r)
      /\ ~Meets(t, r) => t \in ToSet(P)
      /\ Meets(t, r) /\ ~ins => r \in ToSet(P)
      /\ \A u \in Nat : Covers(t, u) /\ ~Covers(r, u) =>
            \E x \in ToSet(P) : Covers(x, u) /\ Cut(x, t, r)
  <2>1. Meets(t, r) => t.type = "UNALLOCATED"
    BY <1>1, <1>2 DEF Available
  <2>. QED
    BY <1>1, <1>2, <2>1, PiecesFacts
<1>4. /\ out \in Seq(Slots) /\ Orderly(out)
      /\ \A x \in ToSet(out) : (x = r /\ ins) \/ \E k \in 1..(n - 1) : Cut(x, sched[k], r)
      /\ ins => r \in ToSet(out)
      /\ \A k \in 1..(n - 1) : ~Meets(sched[k], r) => sched[k] \in ToSet(out)
      /\ \A k \in 1..(n - 1), u \in Nat : Covers(sched[k], u) /\ ~Covers(r, u) =>
            \E x \in ToSet(out) : Covers(x, u) /\ Cut(x, sched[k], r)
  BY <1>1 DEF Turned
<1>5. \A k \in 1..n : k \in 1..(n - 1) \/ k = n
  BY <1>2
<1>6. \A k \in 1..(n - 1) : k \in 1..n /\ k \in DOMAIN sched /\ sched[k] \in Slots /\ Fits(sched[k], t)
  <2>1. \A k \in 1..(n - 1) : k \in 1..n /\ k \in DOMAIN sched /\ k < n
    BY <1>2
  <2>. QED
    BY <1>1, <1>2, <2>1 DEF Orderly
<1>7. n \in 1..n
  BY <1>2
<1>8. Seen(sched, r, n) <=> ins \/ Meets(t, r)
  BY <1>1, <1>5, <1>6, <1>7 DEF Seen
<1>9. out \o P \in Seq(Slots) /\ ToSet(out \o P) = ToSet(out) \cup ToSet(P)
  BY <1>3, <1>4, ConcatSet
<1>10. ~(ins /\ Meets(t, r) /\ t.start < r.start)
  <2>. SUFFICES ASSUME ins, Meets(t, r), t.start < r.start PROVE FALSE
    OBVIOUS
  <2>1. PICK k \in 1..(n - 1) : Meets(sched[k], r)
    BY <1>1 DEF Seen
  <2>2. sched[k].type = "UNALLOCATED" /\ t.type = "UNALLOCATED"
    BY <1>1, <1>2, <1>6, <2>1 DEF Available
  <2>3. sched[k].end <= t.start
    BY <1>6, <2>2 DEF Fits
  <2>4. sched[k].end \in Nat /\ t.start \in Nat /\ r.start \in Nat
    BY <1>2, <1>6, SlotTypes DEF Bookable
  <2>. QED
    BY <2>1, <2>3, <2>4 DEF Meets
<1>11. Orderly(out \o P)
  <2>1. ASSUME NEW x \in ToSet(out), NEW y \in ToSet(P) PROVE Fits(x, y)
    <3>1. CASE x = r /\ ins
      <4>1. Cut(y, t, r)
        BY <1>3, <1>10, <3>1
      <4>2. Fits(r, y)
        <5>1. y.start \in Nat /\ y.end \in Nat /\ r.start \in Nat /\ r.end \in Nat
          BY <4>1, SlotTypes DEF Cut, Bookable
        <5>. QED
          BY <4>1, <5>1 DEF Cut, Fits, Meets, Bookable
      <4>. QED
        BY <3>1, <4>2
    <3>2. CASE \E k \in 1..(n - 1) : Cut(x, sched[k], r)
      <4>1. PICK k \in 1..(n - 1) : Cut(x, sched[k], r)
        BY <3>2
      <4>2. (\A z : Cut(z, t, r) => Fits(x, z)) /\ Fits(x, r)
        BY <1>2, <1>6, <4>1, CutsFit
      <4>. QED
        BY <1>3, <4>2
    <3>. QED
      BY <1>4, <3>1, <3>2
  <2>. QED
    BY <1>3, <1>4, <2>1, OrderlyConcat
<1>12. \A x \in ToSet(out \o P) : (x = r /\ Seen(sched, r, n)) \/ \E k \in 1..n : Cut(x, sched[k], r)
  BY <1>1, <1>3, <1>4, <1>6, <1>7, <1>8, <1>9
<1>13. Seen(sched, r, n) => r \in ToSet(out \o P)
  BY <1>3, <1>4, <1>8, <1>9
<1>14. \A k \in 1..n : ~Meets(sched[k], r) => sched[k] \in ToSet(out \o P)
  BY <1>1, <1>3, <1>4, <1>5, <1>9
<1>15. \A k \in 1..n, u \in Nat : Covers(sched[k], u) /\ ~Covers(r, u) =>
          \E x \in ToSet(out \o P) : Covers(x, u) /\ Cut(x, sched[k], r)
  BY <1>1, <1>3, <1>4, <1>5, <1>9
<1>16. Turned(out \o P, sched, r, n)
  BY <1>9, <1>11, <1>12, <1>13, <1>14, <1>15 DEF Turned
<1>. QED
  BY <1>1, <1>16

\* So every turn does: a turn that went wrong would have a first, and TurnStep excludes it.
LEMMA AllTurns ==
    ASSUME NEW sched \in Seq(Slots), Orderly(sched), NEW r, Bookable(r), Available(sched, r)
    PROVE  \A n \in 0..Len(sched) : Turned(NewSchedule(sched, r)[n], sched, r, n)
<1>1. PICK L, new : L = Len(sched) /\ new = NewSchedule(sched, r)
  OBVIOUS
<1>2. L \in Nat
  BY <1>1
<1>3. /\ new[0] = << >>
      /\ \A n \in 1..L : new[n] = new[n - 1] \o Pieces(sched[n], r, Seen(sched, r, n - 1))
  BY <1>1, <1>2, TurnsRecursion
<1>. DEFINE Bad == {n \in 0..L : ~Turned(new[n], sched, r, n)}
<1>4. Bad = {}
  <2>. SUFFICES ASSUME Bad # {} PROVE FALSE
    OBVIOUS
  <2>1. PICK m \in Bad : \A y \in Bad : m <= y
    <3>1. Bad \in SUBSET Nat
      BY <1>2
    <3>. QED
      BY <3>1, LeastElement
  <2>2. m \in 0..L /\ ~Turned(new[m], sched, r, m)
    BY <2>1
  <2>3. m # 0
    <3>1. Turned(<< >>, sched, r, 0)
      BY DEF Turned, Seen, Orderly, ToSet
    <3>. QED
      BY <1>3, <2>2, <3>1
  <2>4. m \in 1..L /\ m - 1 \in 0..L /\ ~(m <= m - 1)
    BY <1>2, <2>2, <2>3
  <2>5. Turned(new[m - 1], sched, r, m - 1)
    BY <2>1, <2>4
  <2>6. Turned(new[m - 1] \o Pieces(sched[m], r, Seen(sched, r, m - 1)), sched, r, m)
    BY <1>1, <2>4, <2>5, TurnStep
  <2>. QED
    BY <1>3, <2>2, <2>4, <2>6
<1>. QED
  BY <1>1, <1>4

\* What _insert_reservation_into does to a schedule.
LEMMA InsertFacts ==
    ASSUME NEW sched \in Seq(Slots), Orderly(sched), NEW r, Bookable(r), Available(sched, r),
           NEW out, out = InsertInto(sched, r)
    PROVE  /\ out \in Seq(Slots) /\ Orderly(out)
           /\ \A x \in ToSet(out) : x = r \/ \E k \in DOMAIN sched : Cut(x, sched[k], r)
           /\ r \in ToSet(out)
           /\ \A k \in DOMAIN sched : ~Meets(sched[k], r) => sched[k] \in ToSet(out)
           /\ \A k \in DOMAIN sched, u \in Nat : Covers(sched[k], u) /\ ~Covers(r, u) =>
                 \E x \in ToSet(out) : Covers(x, u) /\ Cut(x, sched[k], r)
<1>1. PICK L, new : L = Len(sched) /\ new = NewSchedule(sched, r)[L]
  OBVIOUS
<1>2. L \in Nat /\ DOMAIN sched = 1..L /\ L \in 0..L
  BY <1>1
<1>3. Turned(new, sched, r, L)
  BY <1>1, <1>2, AllTurns
<1>4. /\ new \in Seq(Slots) /\ Orderly(new)
      /\ \A x \in ToSet(new) : (x = r /\ Seen(sched, r, L)) \/ \E k \in DOMAIN sched : Cut(x, sched[k], r)
      /\ Seen(sched, r, L) => r \in ToSet(new)
      /\ \A k \in DOMAIN sched : ~Meets(sched[k], r) => sched[k] \in ToSet(new)
      /\ \A k \in DOMAIN sched, u \in Nat : Covers(sched[k], u) /\ ~Covers(r, u) =>
            \E x \in ToSet(new) : Covers(x, u) /\ Cut(x, sched[k], r)
  BY <1>2, <1>3 DEF Turned
<1>5. out = IF Seen(sched, r, L) THEN new ELSE Append(new, r)
  BY <1>1, <1>2 DEF InsertInto, Seen
<1>6. CASE Seen(sched, r, L)
  BY <1>4, <1>5, <1>6
<1>7. CASE ~Seen(sched, r, L)
  <2>1. r \in Slots
    BY DEF Bookable
  <2>2. out = new \o <<r>> /\ <<r>> \in Seq(Slots) /\ ToSet(<<r>>) = {r} /\ Orderly(<<r>>)
    <3>1. out = Append(new, r)
      BY <1>5, <1>7
    <3>2. Append(new, r) = new \o <<r>>
      BY <1>4, <2>1, AppendIsConcat
    <3>. QED
      BY <2>1, <3>1, <3>2, ShortOrder
  <2>3. out \in Seq(Slots) /\ ToSet(out) = ToSet(new) \cup {r}
    BY <1>4, <2>2, ConcatSet
  <2>4. \A x \in ToSet(new) : Fits(x, r)
    <3>. SUFFICES ASSUME NEW x \in ToSet(new) PROVE Fits(x, r)
      OBVIOUS
    <3>1. PICK k \in DOMAIN sched : Cut(x, sched[k], r)
      BY <1>4, <1>7
    <3>2. x.start \in Nat /\ x.end \in Nat /\ r.start \in Nat /\ r.end \in Nat
      BY <3>1, SlotTypes DEF Cut, Bookable
    <3>. QED
      BY <3>1, <3>2 DEF Cut, Fits, Meets, Bookable
  <2>5. Orderly(out)
    BY <1>4, <2>2, <2>4, OrderlyConcat
  <2>. QED
    BY <1>4, <1>7, <2>3, <2>5
<1>. QED
  BY <1>6, <1>7

\* The slots of s follow each other without a gap from time b to time e.
Run(s, b, e) ==
    /\ s \in Seq(Slots)
    /\ s = << >> => b = e
    /\ s # << >> => s[1].start = b /\ s[Len(s)].end = e
    /\ \A i \in DOMAIN s : s[i].start <= s[i].end
    /\ \A i \in 1..(Len(s) - 1) : s[i].end = s[i + 1].start

\* Gap-free schedules that meet join to a gap-free one.
LEMMA RunConcat ==
    ASSUME NEW s, NEW t, NEW b, NEW m, NEW e, Run(s, b, m), Run(t, m, e)
    PROVE  Run(s \o t, b, e)
<1>1. PICK p, q, w : p = Len(s) /\ q = Len(t) /\ w = s \o t
  OBVIOUS
<1>2. s \in Seq(Slots) /\ t \in Seq(Slots)
  BY DEF Run
<1>3. CASE s = << >>
  <2>1. s \o t = t
    BY <1>2, <1>3, ConcatEmptySeq
  <2>. QED
    BY <1>3, <2>1 DEF Run
<1>4. CASE t = << >>
  <2>1. s \o t = s
    BY <1>2, <1>4, ConcatEmptySeq
  <2>. QED
    BY <1>4, <2>1 DEF Run
<1>5. CASE s # << >> /\ t # << >>
  <2>1. /\ p \in Nat /\ q \in Nat /\ p > 0 /\ q > 0 /\ w \in Seq(Slots) /\ Len(w) = p + q
        /\ DOMAIN s = 1..p /\ DOMAIN t = 1..q /\ DOMAIN w = 1..(p + q)
    BY <1>1, <1>2, <1>5
  <2>2. /\ \A i \in 1..p : w[i] = s[i]
        /\ \A i \in 1..q : w[p + i] = t[i]
    BY <1>1, <1>2
  <2>3. /\ s[1].start = b /\ s[p].end = m /\ t[1].start = m /\ t[q].end = e
        /\ \A i \in 1..p : s[i].start <= s[i].end
        /\ \A i \in 1..q : t[i].start <= t[i].end
        /\ \A i \in 1..(p - 1) : s[i].end = s[i + 1].start
        /\ \A i \in 1..(q - 1) : t[i].end = t[i + 1].start
    BY <1>1, <1>5, <2>1 DEF Run
  <2>4. \A i \in 1..(p + q) : i \in 1..p \/ (i - p \in 1..q /\ i = p + (i - p))
    BY <2>1
  <2>5. \A i \in 1..(p + q) : w[i].start <= w[i].end
    <3>. SUFFICES ASSUME NEW i \in 1..(p + q) PROVE w[i].start <= w[i].end
      OBVIOUS
    <3>1. CASE i \in 1..p
      BY <2>2, <2>3, <3>1
    <3>2. CASE i - p \in 1..q /\ i = p + (i - p)
      <4>1. w[i] = t[i - p]
        BY <2>2, <3>2
      <4>. QED
        BY <2>3, <3>2, <4>1
    <3>. QED
      BY <2>4, <3>1, <3>2
  <2>6. \A i \in 1..(p + q - 1) : w[i].end = w[i + 1].start
    <3>. SUFFICES ASSUME NEW i \in 1..(p + q - 1) PROVE w[i].end = w[i + 1].start
      OBVIOUS
    <3>1. CASE i < p
      <4>1. i \in 1..(p - 1) /\ i \in 1..p /\ i + 1 \in 1..p
        BY <2>1, <3>1
      <4>. QED
        BY <2>2, <2>3, <4>1
    <3>2. CASE i = p
      <4>1. p \in 1..p /\ 1 \in 1..q
        BY <2>1
      <4>. QED
        BY <2>2, <2>3, <3>2, <4>1
    <3>3. CASE i > p
      <4>1. PICK k : k = i - p
        OBVIOUS
      <4>2. k \in 1..(q - 1) /\ k \in 1..q /\ k + 1 \in 1..q /\ i = p + k /\ i + 1 = p + (k + 1)
        BY <2>1, <3>3, <4>1
      <4>3. w[i] = t[k] /\ w[i + 1] = t[k + 1]
        BY <2>2, <4>2
      <4>. QED
        BY <2>3, <4>2, <4>3
    <3>. QED
      BY <2>1, <3>1, <3>2, <3>3
  <2>7. w # << >> /\ w[1].start = b /\ w[p + q].end = e
    <3>1. 1 \in 1..p /\ q \in 1..q
      BY <2>1
    <3>2. w[1] = s[1] /\ w[p + q] = t[q]
      BY <2>2, <3>1
    <3>. QED
      BY <2>1, <2>3, <3>2
  <2>8. Run(w, b, e)
    BY <2>1, <2>5, <2>6, <2>7 DEF Run
  <2>. QED
    BY <1>1, <2>8
<1>. QED
  BY <1>3, <1>4, <1>5

\* A slot, and no slot, are gap-free.
LEMMA ShortRun ==
    ASSUME NEW x \in Slots, x.start <= x.end
    PROVE  Run(<<x>>, x.start, x.end) /\ \A b : Run(<< >>, b, b)
<1>1. <<x>> \in Seq(Slots) /\ Len(<<x>>) = 1 /\ <<x>>[1] = x /\ <<x>> # << >> /\ DOMAIN <<x>> = 1..1
  OBVIOUS
<1>2. PICK s : s = <<x>>
  OBVIOUS
<1>3. Run(s, x.start, x.end)
  BY <1>1, <1>2 DEF Run
<1>4. \A b : Run(<< >>, b, b)
  BY DEF Run
<1>. QED
  BY <1>2, <1>3, <1>4

\* Where new_schedule ends once the slots up to time c are done.
Stop(c, r) == IF r.start < c /\ c < r.end THEN r.end ELSE c

\* The pieces a slot leaves around a reservation, and the reservation, are gap-free.
LEMMA PiecesRun ==
    ASSUME NEW t \in Slots, NEW r, Bookable(r), r.start < r.end, t.start <= t.end, NEW ins \in BOOLEAN,
           Meets(t, r) => (ins <=> r.start < t.start)
    PROVE  Run(Pieces(t, r, ins), Stop(t.start, r), Stop(t.end, r))
<1>1. PICK P : P = Pieces(t, r, ins)
  OBVIOUS
<1>2. PICK a, c :
        /\ ~Meets(t, r) => P = <<t>>
        /\ Meets(t, r) /\ t.start < r.start =>
              /\ a \in Slots /\ a.start = t.start /\ a.end = r.start /\ a.type = t.type
        /\ Meets(t, r) /\ r.end < t.end =>
              /\ c \in Slots /\ c.start = r.end /\ c.end = t.end /\ c.type = t.type
        /\ Meets(t, r) /\ t.start < r.start =>
              P = IF r.end < t.end THEN <<a, r, c>> ELSE <<a, r>>
        /\ Meets(t, r) /\ r.start <= t.start =>
              P = IF r.end < t.end THEN (IF ins THEN <<c>> ELSE <<r, c>>)
                                   ELSE (IF ins THEN << >> ELSE <<r>>)
  BY <1>1, PiecesForm
<1>3. /\ t.start \in Nat /\ t.end \in Nat /\ r.start \in Nat /\ r.end \in Nat /\ r \in Slots
  BY SlotTypes DEF Bookable
<1>4. Run(<<r>>, r.start, r.end) /\ Run(<<t>>, t.start, t.end) /\ \A b : Run(<< >>, b, b)
  BY <1>3, ShortRun
<1>5. CASE ~Meets(t, r)
  <2>1. Stop(t.start, r) = t.start /\ Stop(t.end, r) = t.end
    BY <1>3, <1>5 DEF Stop, Meets
  <2>. QED
    BY <1>1, <1>2, <1>4, <1>5, <2>1
<1>6. CASE Meets(t, r)
  <2>1. r.start < t.end /\ t.start < r.end /\ (ins <=> r.start < t.start)
    BY <1>3, <1>6 DEF Meets
  <2>2. t.start < r.start => a \in Slots /\ Run(<<a>>, t.start, r.start)
    <3>1. ASSUME t.start < r.start PROVE a \in Slots /\ Run(<<a>>, t.start, r.start)
      <4>1. a \in Slots /\ a.start = t.start /\ a.end = r.start /\ a.start <= a.end
        BY <1>2, <1>3, <1>6, <3>1
      <4>2. Run(<<a>>, a.start, a.end)
        BY <4>1, ShortRun
      <4>. QED
        BY <4>1, <4>2
    <3>. QED
      BY <3>1
  <2>3. r.end < t.end => c \in Slots /\ Run(<<c>>, r.end, t.end)
    <3>1. ASSUME r.end < t.end PROVE c \in Slots /\ Run(<<c>>, r.end, t.end)
      <4>1. c \in Slots /\ c.start = r.end /\ c.end = t.end /\ c.start <= c.end
        BY <1>2, <1>3, <1>6, <3>1
      <4>2. Run(<<c>>, c.start, c.end)
        BY <4>1, ShortRun
      <4>. QED
        BY <4>1, <4>2
    <3>. QED
      BY <3>1
  <2>4. /\ Stop(t.end, r) = IF r.end < t.end THEN t.end ELSE r.end
        /\ Stop(t.start, r) = IF ins THEN r.end ELSE t.start
    BY <1>3, <2>1 DEF Stop
  <2>5. CASE t.start < r.start
    <3>1. ~ins
      BY <1>3, <2>1, <2>5
    <3>2. Run(<<a>> \o <<r>>, t.start, r.end) /\ <<a>> \o <<r>> = <<a, r>>
      BY <1>3, <1>4, <2>2, <2>5, RunConcat, ShortConcat
    <3>3. r.end < t.end => Run(<<a, r>> \o <<c>>, t.start, t.end) /\ <<a, r>> \o <<c>> = <<a, r, c>>
      <4>1. ASSUME r.end < t.end PROVE Run(<<a, r>> \o <<c>>, t.start, t.end) /\ <<a, r>> \o <<c>> = <<a, r, c>>
        <5>1. a \in Slots /\ c \in Slots /\ Run(<<c>>, r.end, t.end) /\ Run(<<a, r>>, t.start, r.end)
          BY <2>2, <2>3, <2>5, <3>2, <4>1
        <5>2. Run(<<a, r>> \o <<c>>, t.start, t.end)
          BY <5>1, RunConcat
        <5>. QED
          BY <1>3, <5>1, <5>2, ShortConcat
      <4>. QED
        BY <4>1
    <3>. QED
      BY <1>1, <1>2, <1>6, <2>4, <2>5, <3>1, <3>2, <3>3
  <2>6. CASE t.start = r.start
    <3>1. ~ins /\ r.start <= t.start
      BY <1>3, <2>1, <2>6
    <3>2. r.end < t.end => Run(<<r>> \o <<c>>, r.start, t.end) /\ <<r>> \o <<c>> = <<r, c>>
      <4>1. ASSUME r.end < t.end PROVE Run(<<r>> \o <<c>>, r.start, t.end) /\ <<r>> \o <<c>> = <<r, c>>
        <5>1. c \in Slots /\ Run(<<c>>, r.end, t.end)
          BY <2>3, <4>1
        <5>2. Run(<<r>> \o <<c>>, r.start, t.end)
          BY <1>4, <5>1, RunConcat
        <5>. QED
          BY <1>3, <5>1, <5>2, ShortConcat
      <4>. QED
        BY <4>1
    <3>. QED
      BY <1>1, <1>2, <1>4, <1>6, <2>4, <2>6, <3>1, <3>2
  <2>7. CASE r.start < t.start
    <3>1. ins /\ r.start <= t.start
      BY <1>3, <2>1, <2>7
    <3>. QED
      BY <1>1, <1>2, <1>4, <1>6, <2>3, <2>4, <3>1
  <2>. QED
    BY <1>3, <2>5, <2>6, <2>7
<1>. QED
  BY <1>5, <1>6

\* A schedule that covers all time still does when a reservation of some length is put in.
LEMMA InsertRun ==
    ASSUME NEW sched \in Seq(Slots), Orderly(sched), NEW r, Bookable(r), Available(sched, r),
           r.start < r.end, Run(sched, 0, MaxTime + 1)
    PROVE  Run(InsertInto(sched, r), 0, MaxTime + 1)
<1>1. PICK L, new : L = Len(sched) /\ new = NewSchedule(sched, r)
  OBVIOUS
<1>2. L \in Nat /\ DOMAIN sched = 1..L /\ MaxTime \in Nat
  BY <1>1, ScheduleAssumption
<1>3. /\ new[0] = << >>
      /\ \A n \in 1..L : new[n] = new[n - 1] \o Pieces(sched[n], r, Seen(sched, r, n - 1))
  BY <1>1, <1>2, TurnsRecursion
<1>4. /\ L > 0 /\ sched[1].start = 0 /\ sched[L].end = MaxTime + 1
      /\ \A i \in 1..L : sched[i].start <= sched[i].end
      /\ \A i \in 1..(L - 1) : sched[i].end = sched[i + 1].start
  BY <1>1, <1>2 DEF Run
<1>5. r.start \in Nat /\ r.end \in Nat /\ r.start >= 1 /\ r.end <= MaxTime
  BY <1>2 DEF Bookable
<1>. DEFINE c(n) == IF n = 0 THEN 0 ELSE sched[n].end
            Q(n) == Run(new[n], 0, Stop(c(n), r)) /\ (r.start < c(n) => Seen(sched, r, n))
            Bad == {n \in 0..L : ~Q(n)}
<1>6. Bad = {}
  <2>. SUFFICES ASSUME Bad # {} PROVE FALSE
    OBVIOUS
  <2>1. PICK m \in Bad : \A y \in Bad : m <= y
    <3>. HIDE DEF Q
    <3>1. Bad \in SUBSET Nat
      BY <1>2
    <3>. QED
      BY <3>1, LeastElement
  <2>2. m \in 0..L /\ ~Q(m)
    BY <2>1
  <2>3. m # 0
    <3>1. Stop(0, r) = 0 /\ ~(r.start < 0)
      BY <1>5 DEF Stop
    <3>2. Run(<< >>, 0, 0)
      BY DEF Run
    <3>3. Q(0)
      BY <1>3, <3>1, <3>2
    <3>. QED
      BY <2>2, <3>3
  <2>4. m \in 1..L /\ m - 1 \in 0..L /\ ~(m <= m - 1) /\ m \in Nat
    BY <1>2, <2>2, <2>3
  <2>5. Q(m - 1)
    <3>. HIDE DEF Q
    <3>. QED
      BY <2>1, <2>4
  <2>6. PICK t, ins, d : t = sched[m] /\ ins = Seen(sched, r, m - 1) /\ d = c(m - 1)
    OBVIOUS
  <2>7. t \in Slots /\ ins \in BOOLEAN /\ t.start \in Nat /\ t.end \in Nat /\ t.start <= t.end
    BY <1>1, <1>2, <1>4, <2>4, <2>6, SlotTypes DEF Seen
  <2>8. t.start = d
    <3>1. CASE m = 1
      BY <1>4, <2>6, <3>1
    <3>2. CASE m # 1
      <4>1. m - 1 \in 1..(L - 1) /\ (m - 1) + 1 = m /\ m - 1 # 0
        BY <1>2, <2>4, <3>2
      <4>2. sched[m - 1].end = sched[m].start
        BY <1>4, <4>1
      <4>. QED
        BY <2>6, <4>1, <4>2
    <3>. QED
      BY <3>1, <3>2
  <2>9. \A k \in 1..(m - 1) : k \in DOMAIN sched /\ k < m /\ sched[k] \in Slots
    <3>1. \A k \in 1..(m - 1) : k \in 1..L /\ k < m
      BY <1>2, <2>4
    <3>. QED
      BY <1>2, <3>1
  <2>10. Meets(t, r) => (ins <=> r.start < t.start)
    <3>. SUFFICES ASSUME Meets(t, r) PROVE ins <=> r.start < t.start
      OBVIOUS
    <3>1. ASSUME r.start < t.start PROVE ins
      BY <2>5, <2>6, <2>8, <3>1
    <3>2. ASSUME ins PROVE r.start < t.start
      <4>1. PICK k \in 1..(m - 1) : Meets(sched[k], r)
        BY <2>6, <3>2 DEF Seen
      <4>2. sched[k].type = "UNALLOCATED" /\ t.type = "UNALLOCATED"
        BY <1>2, <2>4, <2>6, <2>9, <4>1 DEF Available
      <4>3. sched[k].end <= t.start
        <5>1. Fits(sched[k], t)
          BY <1>2, <2>4, <2>6, <2>9 DEF Orderly
        <5>. QED
          BY <4>2, <5>1 DEF Fits
      <4>4. sched[k].end \in Nat
        BY <2>9, SlotTypes
      <4>. QED
        BY <1>5, <2>7, <4>1, <4>3, <4>4 DEF Meets
    <3>. QED
      BY <2>7, <3>1, <3>2
  <2>11. Run(Pieces(t, r, ins), Stop(d, r), Stop(t.end, r))
    BY <2>7, <2>8, <2>10, PiecesRun
  <2>12. Run(new[m - 1], 0, Stop(d, r))
    BY <2>5, <2>6
  <2>13. Run(new[m], 0, Stop(c(m), r))
    <3>1. new[m] = new[m - 1] \o Pieces(t, r, ins)
      BY <1>3, <2>4, <2>6
    <3>2. Run(new[m], 0, Stop(t.end, r))
      BY <2>11, <2>12, <3>1, RunConcat
    <3>. QED
      BY <2>3, <2>6, <3>2
  <2>14. r.start < t.end => Seen(sched, r, m)
    <3>. SUFFICES ASSUME r.start < t.end PROVE Seen(sched, r, m)
      OBVIOUS
    <3>1. CASE Meets(t, r)
      <4>1. m \in 1..m
        BY <2>4
      <4>. QED
        BY <2>6, <3>1, <4>1 DEF Seen
    <3>2. CASE ~Meets(t, r)
      <4>1. r.start < d
        BY <1>5, <2>7, <2>8, <3>2 DEF Meets
      <4>2. Seen(sched, r, m - 1)
        BY <2>5, <2>6, <4>1
      <4>3. \A k \in 1..(m - 1) : k \in 1..m
        BY <2>4
      <4>. QED
        BY <4>2, <4>3 DEF Seen
    <3>. QED
      BY <3>1, <3>2
  <2>15. Q(m)
    BY <2>3, <2>6, <2>13, <2>14
  <2>. QED
    BY <2>2, <2>15
<1>7. Q(L)
  <2>1. L \in 0..L
    BY <1>2
  <2>. HIDE DEF Q
  <2>. QED
    BY <1>6, <2>1
<1>8. c(L) = MaxTime + 1 /\ Stop(MaxTime + 1, r) = MaxTime + 1 /\ r.start < MaxTime + 1
  <2>1. c(L) = MaxTime + 1
    BY <1>2, <1>4
  <2>2. Stop(MaxTime + 1, r) = MaxTime + 1 /\ r.start < MaxTime + 1
    BY <1>2, <1>5 DEF Stop
  <2>. QED
    BY <2>1, <2>2
<1>9. Run(new[L], 0, MaxTime + 1) /\ Seen(sched, r, L)
  BY <1>7, <1>8
<1>10. InsertInto(sched, r) = new[L]
  BY <1>1, <1>2, <1>9 DEF InsertInto, Seen
<1>. QED
  BY <1>9, <1>10

----------------------------------------------------------------------------
\* The invariant of the schedule: its slots are apart and the free ones in order, and it
\* says for every time what the first schedule and the reservations say.
CalendarInv ==
    /\ ScheduleTypeOK
    /\ reservations \in [DOMAIN reservations -> [start : 1..MaxTime, end : 1..MaxTime]]
    /\ first \in InitialSchedules
    /\ Orderly(schedule)
    /\ \A b \in booked : b.start \in 1..MaxTime /\ b.end \in 1..MaxTime /\ b.start <= b.end
    /\ \A u \in 0..MaxTime : TypeAt(schedule, u) =
          IF \E b \in booked : Covers(b, u) THEN {"RESERVATION"} ELSE TypeAt(first, u)
    /\ \A b \in booked : Slot(b.start, b.end, "RESERVATION") \in ToSet(schedule)
    /\ CoversAllTime(first) /\ (\A b \in booked : b.start < b.end) => Run(schedule, 0, MaxTime + 1)

\* A schedule that __init__ accepts satisfies the invariant.
LEMMA CalendarInit ==
    ASSUME ScheduleInit
    PROVE  CalendarInv
<1>1. /\ first \in InitialSchedules /\ schedule = first /\ reservations = << >>
      /\ counter = 0 /\ booked = {}
  BY DEF ScheduleInit
<1>2. PICK s : s = first
  OBVIOUS
<1>3. s \in Seq(Slots) /\ ValidSchedule(s) /\ MaxTime \in Nat /\ MaxReservations \in Nat
  BY <1>1, <1>2, ScheduleAssumption
<1>4. PICK L : L = Len(s)
  OBVIOUS
<1>5. L \in Nat /\ DOMAIN s = 1..L /\ \A i \in 1..L : s[i] \in Slots /\ s[i].start \in Nat /\ s[i].end \in Nat
  <2>1. L \in Nat /\ DOMAIN s = 1..L /\ \A i \in 1..L : s[i] \in Slots
    BY <1>3, <1>4
  <2>. QED
    BY <2>1, SlotTypes
<1>6. /\ \A i, j \in 1..L : i < j => s[i].start <= s[j].start
      /\ \A i \in 1..(L - 1) : s[i].end <= s[i + 1].start
  BY <1>3, <1>4, <1>5 DEF ValidSchedule
<1>7. Orderly(s)
  <2>. SUFFICES ASSUME NEW i \in 1..L, NEW j \in 1..L, i < j PROVE s[i].end <= s[j].start
    BY <1>5 DEF Orderly, Fits
  <2>1. i \in 1..(L - 1) /\ i + 1 \in 1..L /\ (i + 1 = j \/ i + 1 < j)
    BY <1>5
  <2>2. s[i].end <= s[i + 1].start /\ s[i + 1].start <= s[j].start
    BY <1>5, <1>6, <2>1
  <2>. QED
    BY <1>5, <2>1, <2>2
<1>8. CoversAllTime(s) => Run(s, 0, MaxTime + 1)
  <2>. SUFFICES ASSUME CoversAllTime(s) PROVE Run(s, 0, MaxTime + 1)
    OBVIOUS
  <2>1. /\ L > 0 /\ s[1].start = 0 /\ s[L].end = MaxTime + 1
        /\ \A i \in 1..(L - 1) : s[i].end = s[i + 1].start
    BY <1>4 DEF CoversAllTime
  <2>2. ASSUME NEW i \in 1..L PROVE s[i].start <= s[i].end
    <3>1. CASE i < L
      <4>1. i \in 1..(L - 1) /\ i + 1 \in 1..L /\ i < i + 1
        BY <1>5, <3>1
      <4>. QED
        BY <1>6, <2>1, <4>1
    <3>2. CASE i = L
      <4>1. s[i].start <= MaxTime
        BY <1>5, SlotTypes
      <4>. QED
        BY <1>3, <1>5, <2>1, <3>2, <4>1
    <3>. QED
      BY <1>5, <3>1, <3>2
  <2>. QED
    BY <1>3, <1>4, <1>5, <2>1, <2>2 DEF Run
<1>9. ScheduleTypeOK
  BY <1>1, <1>2, <1>3 DEF ScheduleTypeOK
<1>10. reservations \in [DOMAIN reservations -> [start : 1..MaxTime, end : 1..MaxTime]]
  BY <1>1
<1>. QED
  BY <1>1, <1>2, <1>7, <1>8, <1>9, <1>10 DEF CalendarInv

\* A reservation is put in: the schedule says what it said, but for the time of the
\* reservation.
LEMMA InsertTypes ==
    ASSUME NEW sched \in Seq(Slots), Orderly(sched), NEW r, Bookable(r), Available(sched, r),
           NEW u \in Nat
    PROVE  TypeAt(InsertInto(sched, r), u) = IF Covers(r, u) THEN {"RESERVATION"} ELSE TypeAt(sched, u)
<1>1. PICK out : out = InsertInto(sched, r)
  OBVIOUS
<1>2. /\ out \in Seq(Slots) /\ Orderly(out)
      /\ \A x \in ToSet(out) : x = r \/ \E k \in DOMAIN sched : Cut(x, sched[k], r)
      /\ r \in ToSet(out)
      /\ \A k \in DOMAIN sched : Covers(sched[k], u) /\ ~Covers(r, u) =>
            \E x \in ToSet(out) : Covers(x, u) /\ Cut(x, sched[k], r)
  BY <1>1, InsertFacts
<1>3. r.start \in Nat /\ r.end \in Nat /\ r.type = "RESERVATION"
  BY SlotTypes DEF Bookable
<1>4. ASSUME NEW x, NEW k \in DOMAIN sched, Cut(x, sched[k], r), Covers(x, u)
      PROVE  Covers(sched[k], u) /\ ~Covers(r, u) /\ x.type = sched[k].type
  <2>1. /\ x.start \in Nat /\ x.end \in Nat /\ sched[k].start \in Nat /\ sched[k].end \in Nat
    <3>1. sched[k] \in Slots
      OBVIOUS
    <3>. QED
      BY <1>4, <3>1, SlotTypes DEF Cut
  <2>. QED
    BY <1>3, <1>4, <2>1 DEF Cut, Covers, Meets
<1>5. \A y : y \in TypeAt(out, u) <=> \E x \in ToSet(out) : Covers(x, u) /\ x.type = y
  BY DEF TypeAt, ToSet
<1>6. \A y : y \in TypeAt(sched, u) <=> \E k \in DOMAIN sched : Covers(sched[k], u) /\ sched[k].type = y
  BY DEF TypeAt
<1>7. CASE Covers(r, u)
  <2>1. \A x \in ToSet(out) : Covers(x, u) => x = r
    BY <1>2, <1>4, <1>7
  <2>2. \A y : y \in TypeAt(out, u) <=> y = "RESERVATION"
    BY <1>2, <1>3, <1>5, <1>7, <2>1
  <2>. QED
    BY <1>1, <1>7, <2>2
<1>8. CASE ~Covers(r, u)
  <2>1. ASSUME NEW y, y \in TypeAt(out, u) PROVE y \in TypeAt(sched, u)
    <3>1. PICK x \in ToSet(out) : Covers(x, u) /\ x.type = y
      BY <1>5, <2>1
    <3>2. PICK k \in DOMAIN sched : Cut(x, sched[k], r)
      BY <1>2, <1>8, <3>1
    <3>. QED
      BY <1>4, <1>6, <3>1, <3>2
  <2>2. ASSUME NEW y, y \in TypeAt(sched, u) PROVE y \in TypeAt(out, u)
    <3>1. PICK k \in DOMAIN sched : Covers(sched[k], u) /\ sched[k].type = y
      BY <1>6, <2>2
    <3>2. PICK x \in ToSet(out) : Covers(x, u) /\ Cut(x, sched[k], r)
      BY <1>2, <1>8, <3>1
    <3>3. x.type = y
      BY <3>1, <3>2 DEF Cut
    <3>. QED
      BY <1>5, <3>2, <3>3
  <2>3. TypeAt(out, u) = TypeAt(sched, u)
    BY <2>1, <2>2
  <2>. QED
    BY <1>1, <1>8, <2>3
<1>. QED
  BY <1>7, <1>8

\* create_reservation: the slot is taken if it is free, and the schedule stays a calendar.
LEMMA CreateStep ==
    ASSUME CalendarInv, NEW s \in 1..MaxTime, NEW e \in 1..MaxTime, CreateReservation(s, e)
    PROVE  CalendarInv'
<1>1. PICK r : r = Slot(s, e, "RESERVATION")
  OBVIOUS
<1>2. /\ counter < MaxReservations /\ s <= e /\ counter' = counter + 1 /\ UNCHANGED <<first, updates>>
      /\ IF IsAvailable(r)
         THEN /\ reservations' = [i \in DOMAIN reservations \cup {counter + 1} |->
                                     IF i = counter + 1 THEN [start |-> s, end |-> e]
                                                        ELSE reservations[i]]
              /\ schedule' = InsertInto(schedule, r)
              /\ booked' = booked \cup {[id |-> counter + 1, start |-> s, end |-> e]}
         ELSE UNCHANGED <<reservations, schedule, booked>>
  BY <1>1 DEF CreateReservation
<1>3. /\ schedule \in Seq(Slots) /\ counter \in 0..MaxReservations
      /\ DOMAIN reservations \subseteq 1..counter /\ MaxReservations \in Nat /\ MaxTime \in Nat
      /\ reservations \in [DOMAIN reservations -> [start : 1..MaxTime, end : 1..MaxTime]]
      /\ Orderly(schedule)
  BY ScheduleAssumption DEF CalendarInv, ScheduleTypeOK
<1>4. counter' \in 0..MaxReservations /\ 1..counter \subseteq 1..counter' /\ counter + 1 \in 1..counter'
      /\ counter + 1 \notin 1..counter
  BY <1>2, <1>3
<1>5. CASE ~IsAvailable(r)
  <2>1. UNCHANGED <<reservations, schedule, booked, first>>
    BY <1>2, <1>5
  <2>2. ScheduleTypeOK'
    BY <1>3, <1>4, <2>1 DEF CalendarInv, ScheduleTypeOK
  <2>. QED
    BY <2>1, <2>2 DEF CalendarInv
<1>6. CASE IsAvailable(r)
  <2>1. r \in Slots /\ r.type = "RESERVATION" /\ r.start = s /\ r.end = e /\ Bookable(r)
    BY <1>1, <1>2, <1>3 DEF Slot, Slots, Types, Bookable
  <2>2. Available(schedule, r)
    BY <1>6 DEF IsAvailable, Available, Meets
  <2>3. PICK out, nb : out = InsertInto(schedule, r) /\ nb = [id |-> counter + 1, start |-> s, end |-> e]
    OBVIOUS
  <2>4. schedule' = out /\ booked' = booked \cup {nb} /\ nb.start = s /\ nb.end = e /\ first' = first
    BY <1>2, <1>6, <2>3
  <2>5. /\ out \in Seq(Slots) /\ Orderly(out) /\ r \in ToSet(out)
        /\ \A k \in DOMAIN schedule : ~Meets(schedule[k], r) => schedule[k] \in ToSet(out)
    BY <1>3, <2>1, <2>2, <2>3, InsertFacts
  <2>6. /\ DOMAIN reservations' = DOMAIN reservations \cup {counter + 1}
        /\ reservations' \in [DOMAIN reservations' -> [start : 1..MaxTime, end : 1..MaxTime]]
        /\ \A i \in DOMAIN reservations' :
              reservations'[i].start \in 1..MaxTime /\ reservations'[i].end \in 1..MaxTime
    <3>1. reservations' = [i \in DOMAIN reservations \cup {counter + 1} |->
                              IF i = counter + 1 THEN [start |-> s, end |-> e] ELSE reservations[i]]
      BY <1>2, <1>6
    <3>2. [start |-> s, end |-> e] \in [start : 1..MaxTime, end : 1..MaxTime]
      OBVIOUS
    <3>3. \A i \in DOMAIN reservations : reservations[i] \in [start : 1..MaxTime, end : 1..MaxTime]
      BY <1>3
    <3>4. /\ DOMAIN reservations' = DOMAIN reservations \cup {counter + 1}
          /\ \A i \in DOMAIN reservations' : reservations'[i] \in [start : 1..MaxTime, end : 1..MaxTime]
      BY <3>1, <3>2, <3>3
    <3>5. reservations' \in [DOMAIN reservations' -> [start : 1..MaxTime, end : 1..MaxTime]]
      BY <3>1, <3>4
    <3>. QED
      BY <3>4, <3>5
  <2>7. ScheduleTypeOK'
    <3>1. DOMAIN reservations' \subseteq 1..counter'
      BY <1>3, <1>4, <2>6
    <3>. QED
      BY <1>4, <2>4, <2>5, <2>6, <3>1 DEF ScheduleTypeOK
  <2>8. \A b \in booked' : b.start \in 1..MaxTime /\ b.end \in 1..MaxTime /\ b.start <= b.end
    BY <1>2, <2>4 DEF CalendarInv
  <2>9. \A u \in 0..MaxTime : TypeAt(schedule', u) =
          IF \E b \in booked' : Covers(b, u) THEN {"RESERVATION"} ELSE TypeAt(first', u)
    <3>. SUFFICES ASSUME NEW u \in 0..MaxTime
                  PROVE  TypeAt(out, u) =
                           IF \E b \in booked' : Covers(b, u) THEN {"RESERVATION"} ELSE TypeAt(first, u)
      BY <2>4
    <3>1. u \in Nat
      BY <1>3
    <3>2. TypeAt(out, u) = IF Covers(r, u) THEN {"RESERVATION"} ELSE TypeAt(schedule, u)
      BY <1>3, <2>1, <2>2, <2>3, <3>1, InsertTypes
    <3>3. TypeAt(schedule, u) = IF \E b \in booked : Covers(b, u) THEN {"RESERVATION"} ELSE TypeAt(first, u)
      BY DEF CalendarInv
    <3>4. Covers(nb, u) <=> Covers(r, u)
      BY <2>1, <2>4 DEF Covers
    <3>5. (\E b \in booked' : Covers(b, u)) <=> (\E b \in booked : Covers(b, u)) \/ Covers(r, u)
      BY <2>4, <3>4
    <3>. QED
      BY <3>2, <3>3, <3>5
  <2>10. \A b \in booked' : Slot(b.start, b.end, "RESERVATION") \in ToSet(schedule')
    <3>1. ASSUME NEW b \in booked PROVE Slot(b.start, b.end, "RESERVATION") \in ToSet(out)
      <4>1. Slot(b.start, b.end, "RESERVATION") \in ToSet(schedule)
        BY DEF CalendarInv
      <4>2. PICK k \in DOMAIN schedule : schedule[k] = Slot(b.start, b.end, "RESERVATION")
        BY <4>1 DEF ToSet
      <4>3. schedule[k].type # "UNALLOCATED"
        BY <4>2 DEF Slot
      <4>. QED
        BY <2>2, <2>5, <4>2, <4>3 DEF Available
    <3>2. Slot(nb.start, nb.end, "RESERVATION") = r
      BY <1>1, <2>4
    <3>. QED
      BY <2>4, <2>5, <3>1, <3>2
  <2>11. CoversAllTime(first) /\ (\A b \in booked' : b.start < b.end) => Run(out, 0, MaxTime + 1)
    <3>. SUFFICES ASSUME CoversAllTime(first), \A b \in booked' : b.start < b.end
                  PROVE  Run(out, 0, MaxTime + 1)
      OBVIOUS
    <3>1. Run(schedule, 0, MaxTime + 1) /\ r.start < r.end
      BY <2>1, <2>4 DEF CalendarInv
    <3>. QED
      BY <1>3, <2>1, <2>2, <2>3, <3>1, InsertRun
  <2>12. first' \in InitialSchedules
    BY <2>4 DEF CalendarInv
  <2>. QED
    BY <2>4, <2>5, <2>6, <2>7, <2>8, <2>9, <2>10, <2>11, <2>12 DEF CalendarInv
<1>. QED
  BY <1>5, <1>6

\* Removing or updating a reservation leaves the schedule alone.
LEMMA ReservationStep ==
    ASSUME CalendarInv, UNCHANGED <<schedule, counter, first, booked>>,
           DOMAIN reservations' \subseteq DOMAIN reservations,
           reservations' \in [DOMAIN reservations' -> [start : 1..MaxTime, end : 1..MaxTime]]
    PROVE  CalendarInv'
<1>1. ScheduleTypeOK'
  <2>1. \A i \in DOMAIN reservations' : reservations'[i] \in [start : 1..MaxTime, end : 1..MaxTime]
    OBVIOUS
  <2>2. \A i \in DOMAIN reservations' :
           reservations'[i].start \in 1..MaxTime /\ reservations'[i].end \in 1..MaxTime
    BY <2>1
  <2>. QED
    BY <2>2 DEF CalendarInv, ScheduleTypeOK
<1>. QED
  BY <1>1 DEF CalendarInv

\* Every call on reservations keeps the invariant.
LEMMA CalendarStep ==
    ASSUME CalendarInv, ScheduleNext
    PROVE  CalendarInv'
<1>1. reservations \in [DOMAIN reservations -> [start : 1..MaxTime, end : 1..MaxTime]]
  BY DEF CalendarInv
<1>2. CASE \E s, e \in 1..MaxTime : CreateReservation(s, e)
  BY <1>2, CreateStep
<1>3. ASSUME NEW id \in DOMAIN reservations, RemoveReservation(id)
      PROVE  CalendarInv'
  <2>1. /\ reservations' = [i \in DOMAIN reservations \ {id} |-> reservations[i]]
        /\ UNCHANGED <<schedule, counter, first, booked>>
    BY <1>3 DEF RemoveReservation
  <2>2. /\ DOMAIN reservations' \subseteq DOMAIN reservations
        /\ reservations' \in [DOMAIN reservations' -> [start : 1..MaxTime, end : 1..MaxTime]]
    BY <1>1, <2>1
  <2>. QED
    BY <2>1, <2>2, ReservationStep
<1>4. ASSUME NEW id \in DOMAIN reservations, NEW s \in 1..MaxTime, NEW e \in 1..MaxTime,
             UpdateReservation(id, s, e)
      PROVE  CalendarInv'
  <2>1. /\ reservations' = [reservations EXCEPT ![id] = [start |-> s, end |-> e]]
        /\ UNCHANGED <<schedule, counter, first, booked>>
    BY <1>4 DEF UpdateReservation
  <2>2. [start |-> s, end |-> e] \in [start : 1..MaxTime, end : 1..MaxTime]
    OBVIOUS
  <2>3. /\ DOMAIN reservations' \subseteq DOMAIN reservations
        /\ reservations' \in [DOMAIN reservations' -> [start : 1..MaxTime, end : 1..MaxTime]]
    BY <1>1, <2>1, <2>2
  <2>. QED
    BY <2>1, <2>3, ReservationStep
<1>5. \A id \in DOMAIN reservations : reservations[id].start \in 1..MaxTime /\ reservations[id].end \in 1..MaxTime
  BY <1>1
<1>. QED
  BY <1>2, <1>3, <1>4, <1>5 DEF ScheduleNext

\* The other parts leave the schedule alone.
LEMMA CalendarStutters ==
    ASSUME CalendarInv, UNCHANGED scheduleVars
    PROVE  CalendarInv'
BY DEF CalendarInv, ScheduleTypeOK, scheduleVars

\* The invariant gives the calendar.
LEMMA CalendarHolds ==
    ASSUME CalendarInv
    PROVE  ScheduleIsCalendar
<1>1. schedule \in Seq(Slots) /\ Orderly(schedule) /\ MaxTime \in Nat
  BY ScheduleAssumption DEF CalendarInv, ScheduleTypeOK
<1>2. ASSUME NEW u \in 0..MaxTime, NEW i \in DOMAIN schedule, NEW j \in DOMAIN schedule,
             Covers(schedule[i], u), Covers(schedule[j], u), i < j
      PROVE  FALSE
  <2>1. Fits(schedule[i], schedule[j])
    BY <1>1, <1>2 DEF Orderly
  <2>2. /\ schedule[i].start \in Nat /\ schedule[i].end \in Nat
        /\ schedule[j].start \in Nat /\ schedule[j].end \in Nat /\ u \in Nat
    <3>1. schedule[i] \in Slots /\ schedule[j] \in Slots
      BY <1>1
    <3>. QED
      BY <1>1, <3>1, SlotTypes
  <2>. QED
    BY <1>2, <2>1, <2>2 DEF Fits, Covers
<1>3. \A u \in 0..MaxTime : \A i, j \in DOMAIN schedule :
         Covers(schedule[i], u) /\ Covers(schedule[j], u) => i = j
  <2>1. \A i, j \in DOMAIN schedule : i < j \/ j < i \/ i = j
    BY <1>1
  <2>. QED
    BY <1>2, <2>1
<1>4. CoversAllTime(first) /\ (\A b \in booked : b.start < b.end) => CoversAllTime(schedule)
  <2>1. CoversAllTime(first) /\ (\A b \in booked : b.start < b.end) => Run(schedule, 0, MaxTime + 1)
    BY DEF CalendarInv
  <2>2. Run(schedule, 0, MaxTime + 1) => CoversAllTime(schedule)
    <3>. SUFFICES ASSUME Run(schedule, 0, MaxTime + 1) PROVE CoversAllTime(schedule)
      OBVIOUS
    <3>1. schedule # << >>
      BY <1>1 DEF Run
    <3>2. Len(schedule) > 0
      BY <1>1, <3>1
    <3>. QED
      BY <3>1, <3>2 DEF Run, CoversAllTime
  <2>. QED
    BY <2>1, <2>2
<1>. QED
  BY <1>3, <1>4 DEF CalendarInv, ScheduleIsCalendar

----------------------------------------------------------------------------
(* run_batch *)

Request == [prog : Nat, reps : Nat, sweeps : Seq(Seq(Nat))]

\* The loops that form the batches have a result for every number of requests.
LEMMA BatchesRecursion ==
    ASSUME NEW reqs, NEW cpj, Len(reqs) \in Nat
    PROVE  /\ Batches(reqs, cpj)[0] = << >>
           /\ \A n \in 1..Len(reqs) :
                 Batches(reqs, cpj)[n] = AddRequest(Batches(reqs, cpj)[n - 1], reqs[n], cpj)
<1>1. PICK L : L = Len(reqs)
  OBVIOUS
<1>. DEFINE Turns(g, n) == /\ g = [k \in 0..n |-> g[k]] /\ g[0] = << >>
                           /\ \A k \in 1..n : g[k] = AddRequest(g[k - 1], reqs[k], cpj)
            Bad == {n \in 0..L : ~ \E g : Turns(g, n)}
<1>2. Bad = {}
  <2>. SUFFICES ASSUME Bad # {} PROVE FALSE
    OBVIOUS
  <2>1. PICK m \in Bad : \A y \in Bad : m <= y
    <3>. HIDE DEF Turns
    <3>1. Bad \in SUBSET Nat
      BY <1>1
    <3>. QED
      BY <3>1, LeastElement
  <2>2. m \in 0..L /\ ~ \E g : Turns(g, m)
    BY <2>1
  <2>3. m # 0
    <3>1. Turns([k \in 0..0 |-> << >>], 0)
      OBVIOUS
    <3>. QED
      BY <2>2, <3>1
  <2>4. m - 1 \in 0..L /\ ~(m <= m - 1) /\ m \in Nat /\ m > 0
    BY <1>1, <2>2, <2>3
  <2>5. PICK h : Turns(h, m - 1)
    <3>. HIDE DEF Turns
    <3>. QED
      BY <2>1, <2>4
  <2>. DEFINE g == [k \in 0..m |-> IF k = m THEN AddRequest(h[m - 1], reqs[m], cpj) ELSE h[k]]
  <2>6. g = [k \in 0..m |-> g[k]] /\ g[0] = << >>
    BY <2>4, <2>5
  <2>7. \A k \in 1..m : g[k] = AddRequest(g[k - 1], reqs[k], cpj)
    <3>. SUFFICES ASSUME NEW k \in 1..m PROVE g[k] = AddRequest(g[k - 1], reqs[k], cpj)
      OBVIOUS
    <3>1. k \in 0..m /\ k - 1 \in 0..m /\ k - 1 # m
      BY <2>4
    <3>2. CASE k = m
      BY <3>1, <3>2
    <3>3. CASE k # m
      <4>1. k \in 1..(m - 1)
        BY <2>4, <3>3
      <4>. QED
        BY <2>5, <3>1, <3>3, <4>1
    <3>. QED
      BY <3>2, <3>3
  <2>. QED
    BY <2>2, <2>6, <2>7
<1>3. PICK f : Turns(f, L)
  <2>1. L \in 0..L
    BY <1>1
  <2>. HIDE DEF Turns
  <2>. QED
    BY <1>2, <2>1
<1>. DEFINE Def(g) == g = [n \in 0..L |-> IF n = 0 THEN << >> ELSE AddRequest(g[n - 1], reqs[n], cpj)]
<1>4. Def(f)
  <2>1. \A n \in 0..L : n = 0 \/ n \in 1..L
    BY <1>1
  <2>2. \A n \in 0..L : f[n] = IF n = 0 THEN << >> ELSE AddRequest(f[n - 1], reqs[n], cpj)
    BY <1>3, <2>1
  <2>. QED
    BY <1>3, <2>2
<1>5. PICK b : b = Batches(reqs, cpj)
  OBVIOUS
<1>6. b = CHOOSE g : Def(g)
  BY <1>1, <1>5 DEF Batches
<1>7. Def(b)
  <2>. HIDE DEF Def
  <2>. QED
    BY <1>4, <1>6
<1>8. \A n \in 0..L : b[n] = IF n = 0 THEN << >> ELSE AddRequest(b[n - 1], reqs[n], cpj)
  BY <1>7
<1>9. 0 \in 0..L /\ \A n \in 1..L : n \in 0..L /\ n # 0
  BY <1>1
<1>. QED
  BY <1>1, <1>5, <1>8, <1>9

\* The loop over the results of the jobs, likewise.
LEMMA ResultsRecursion ==
    ASSUME NEW bs, Len(bs) \in Nat
    PROVE  /\ FinalResults(bs)[0] = << >>
           /\ \A n \in 1..Len(bs) :
                 FinalResults(bs)[n] = FinalResults(bs)[n - 1] \o Regroup(bs[n], JobResults(bs[n]))
<1>1. PICK L, final : L = Len(bs) /\ final = FinalResults(bs)
  OBVIOUS
<1>2. PICK P : P = [n \in 1..L |-> Regroup(bs[n], JobResults(bs[n]))]
  OBVIOUS
<1>. DEFINE Def(g) == g = [n \in 0..L |-> IF n = 0 THEN << >>
                            ELSE g[n - 1] \o Regroup(bs[n], JobResults(bs[n]))]
<1>3. final = CHOOSE g : Def(g)
  BY <1>1 DEF FinalResults
<1>4. \E g : Def(g)
  <2>1. PICK g : g = [n \in 0..L |-> IF n = 0 THEN << >> ELSE g[n - 1] \o P[n]]
    <3>1. L \in Nat
      BY <1>1
    <3>. QED
      BY <3>1, TurnsExist
  <2>2. \A n \in 0..L : n = 0 \/ n \in 1..L
    BY <1>1
  <2>3. \A n \in 1..L : P[n] = Regroup(bs[n], JobResults(bs[n]))
    BY <1>2
  <2>4. \A n \in 0..L : g[n] = IF n = 0 THEN << >> ELSE g[n - 1] \o Regroup(bs[n], JobResults(bs[n]))
    BY <2>1, <2>2, <2>3
  <2>5. g = [n \in 0..L |-> g[n]]
    BY <2>1
  <2>6. Def(g)
    BY <2>4, <2>5
  <2>. QED
    BY <2>6
<1>5. Def(final)
  <2>. HIDE DEF Def
  <2>. QED
    BY <1>3, <1>4
<1>6. \A n \in 0..L : final[n] = IF n = 0 THEN << >> ELSE final[n - 1] \o Regroup(bs[n], JobResults(bs[n]))
  BY <1>5
<1>7. 0 \in 0..L /\ \A n \in 1..L : n \in 0..L /\ n # 0
  BY <1>1
<1>. QED
  BY <1>1, <1>6, <1>7

\* Dividing a position by the length of the shares.
LEMMA Shares ==
    ASSUME NEW q \in Nat, NEW n \in Nat, NEW k \in Nat, k < n
    PROVE  (q * n + k) \div n = q /\ (q * n + k) % n = k
<1>1. n > 0
  OBVIOUS
<1>2. (q * n + k) \div n = q
  BY <1>1
<1>3. (q * n + k) % n = k
  BY <1>1
<1>. QED
  BY <1>2, <1>3

Outcome == [prog : Nat, reps : Nat, point : Nat]

\* The results of a program on a sweep.
PointsOf(prog, sweep, reps) ==
    [k \in 1..Len(sweep) |-> [prog |-> prog, reps |-> reps, point |-> sweep[k]]]

LEMMA PointsType ==
    ASSUME NEW prog \in Nat, NEW sweep \in Seq(Nat), NEW reps \in Nat
    PROVE  PointsOf(prog, sweep, reps) \in Seq(Outcome) /\ Len(PointsOf(prog, sweep, reps)) = Len(sweep)
<1>1. PICK L, s : L = Len(sweep) /\ s = PointsOf(prog, sweep, reps)
  OBVIOUS
<1>2. L \in Nat /\ \A k \in 1..L : sweep[k] \in Nat
  BY <1>1
<1>3. s = [k \in 1..L |-> [prog |-> prog, reps |-> reps, point |-> sweep[k]]]
  BY <1>1 DEF PointsOf
<1>4. s \in [1..L -> Outcome]
  BY <1>2, <1>3 DEF Outcome
<1>5. s \in Seq(Outcome) /\ Len(s) = L
  BY <1>2, <1>3, <1>4
<1>. QED
  BY <1>1, <1>5

\* Programs and their sweeps, as many as there are pairs.
Pairs(n, progs, sweeps) ==
    /\ n \in Nat /\ progs \in [1..n -> Nat] /\ sweeps \in [1..n -> Seq(Nat)] /\ Len(progs) = n
\* f[i] are the results of the first i pairs.
Joined(f, n, progs, sweeps, reps) ==
    /\ f[0] = << >> /\ \A i \in 0..n : f[i] \in Seq(Outcome)
    /\ \A i \in 1..n : f[i] = f[i - 1] \o PointsOf(progs[i], sweeps[i], reps)

LEMMA SampledRecursion ==
    ASSUME NEW n, NEW progs, NEW sweeps, Pairs(n, progs, sweeps), NEW reps \in Nat
    PROVE  \E f : Joined(f, n, progs, sweeps, reps) /\ Sampled(progs, sweeps, reps) = f[n]
<1>1. n \in Nat /\ Len(progs) = n /\ \A i \in 1..n : progs[i] \in Nat /\ sweeps[i] \in Seq(Nat)
  BY DEF Pairs
<1>2. PICK p : p = [i \in 1..n |-> PointsOf(progs[i], sweeps[i], reps)]
  OBVIOUS
<1>3. \A i \in 1..n : p[i] = PointsOf(progs[i], sweeps[i], reps) /\ p[i] \in Seq(Outcome)
  BY <1>1, <1>2, PointsType
<1>. DEFINE Def(g) == g = [i \in 0..Len(progs) |->
                             IF i = 0 THEN << >> ELSE g[i - 1] \o PointsOf(progs[i], sweeps[i], reps)]
<1>4. \E g : Def(g)
  <2>1. PICK g : g = [i \in 0..n |-> IF i = 0 THEN << >> ELSE g[i - 1] \o p[i]]
    BY <1>1, TurnsExist
  <2>2. \A i \in 0..n : i = 0 \/ i \in 1..n
    BY <1>1
  <2>3. \A i \in 0..n : g[i] = IF i = 0 THEN << >> ELSE g[i - 1] \o PointsOf(progs[i], sweeps[i], reps)
    BY <1>3, <2>1, <2>2
  <2>4. g = [i \in 0..n |-> g[i]]
    BY <2>1
  <2>5. Def(g)
    BY <1>1, <2>3, <2>4
  <2>. QED
    BY <2>5
<1>5. PICK f : f = CHOOSE g : Def(g)
  OBVIOUS
<1>6. Def(f)
  <2>. HIDE DEF Def
  <2>. QED
    BY <1>4, <1>5
<1>7. Sampled(progs, sweeps, reps) = f[n]
  BY <1>1, <1>5 DEF Sampled, PointsOf
<1>8. f[0] = << >> /\ \A i \in 1..n : f[i] = f[i - 1] \o p[i]
  <2>1. 0 \in 0..n /\ \A i \in 1..n : i \in 0..n /\ i # 0
    BY <1>1
  <2>. QED
    BY <1>1, <1>3, <1>6, <2>1
<1>9. \A i \in 0..n : f[i] \in Seq(Outcome)
  <2>. DEFINE Bad == {i \in 0..n : f[i] \notin Seq(Outcome)}
  <2>. SUFFICES ASSUME Bad # {} PROVE FALSE
    OBVIOUS
  <2>1. PICK m \in Bad : \A y \in Bad : m <= y
    <3>1. Bad \in SUBSET Nat
      BY <1>1
    <3>. QED
      BY <3>1, LeastElement
  <2>2. m \in 0..n /\ f[m] \notin Seq(Outcome)
    BY <2>1
  <2>3. m # 0
    <3>1. << >> \in Seq(Outcome)
      OBVIOUS
    <3>. QED
      BY <1>8, <2>2, <3>1
  <2>4. m \in 1..n /\ m - 1 \in 0..n /\ ~(m <= m - 1)
    BY <1>1, <2>2, <2>3
  <2>5. PICK a, c : a = f[m - 1] /\ c = p[m]
    OBVIOUS
  <2>6. a \in Seq(Outcome) /\ c \in Seq(Outcome) /\ f[m] = a \o c
    BY <1>3, <1>8, <2>1, <2>4, <2>5
  <2>7. a \o c \in Seq(Outcome)
    BY <2>6
  <2>. QED
    BY <2>2, <2>6, <2>7
<1>10. Joined(f, n, progs, sweeps, reps)
  BY <1>3, <1>8, <1>9 DEF Joined
<1>. QED
  BY <1>7, <1>10

\* s are the results of n programs on one sweep, one program after the other.
Shared(s, n, progs, sw, reps) ==
    /\ s \in Seq(Outcome) /\ Len(s) = n * Len(sw)
    /\ \A i \in 1..n : \A k \in 1..Len(sw) : s[(i - 1) * Len(sw) + k] = PointsOf(progs[i], sw, reps)[k]

\* Every program on the same sweep: their results follow each other.
LEMMA SampledShares ==
    ASSUME NEW n, NEW progs, NEW sweeps, Pairs(n, progs, sweeps), NEW reps \in Nat,
           NEW sw \in Seq(Nat), \A i \in 1..n : sweeps[i] = sw
    PROVE  Shared(Sampled(progs, sweeps, reps), n, progs, sw, reps)
<1>1. PICK f : Joined(f, n, progs, sweeps, reps) /\ Sampled(progs, sweeps, reps) = f[n]
  BY SampledRecursion
<1>2. PICK w : w = Len(sw)
  OBVIOUS
<1>3. n \in Nat /\ w \in Nat /\ \A i \in 1..n : progs[i] \in Nat
  BY <1>2 DEF Pairs
<1>4. ASSUME NEW i \in 1..n
      PROVE  /\ f[i] = f[i - 1] \o PointsOf(progs[i], sw, reps)
             /\ PointsOf(progs[i], sw, reps) \in Seq(Outcome) /\ Len(PointsOf(progs[i], sw, reps)) = w
  BY <1>1, <1>2, <1>3, PointsType DEF Joined
<1>. DEFINE Q(m) == /\ Len(f[m]) = m * w
                    /\ \A i \in 1..m : \A k \in 1..w : f[m][(i - 1) * w + k] = PointsOf(progs[i], sw, reps)[k]
            Bad == {m \in 0..n : ~Q(m)}
<1>5. Bad = {}
  <2>. SUFFICES ASSUME Bad # {} PROVE FALSE
    OBVIOUS
  <2>1. PICK m \in Bad : \A y \in Bad : m <= y
    <3>. HIDE DEF Q
    <3>1. Bad \in SUBSET Nat
      BY <1>3
    <3>. QED
      BY <3>1, LeastElement
  <2>2. m \in 0..n /\ ~Q(m)
    BY <2>1
  <2>3. m # 0
    <3>1. PICK e : e = << >>
      OBVIOUS
    <3>2. Len(e) = 0 /\ f[0] = e /\ 0 * w = 0
      BY <1>1, <1>3, <3>1 DEF Joined
    <3>3. Q(0)
      BY <3>2
    <3>. QED
      BY <2>2, <3>3
  <2>4. m \in 1..n /\ m - 1 \in 0..n /\ ~(m <= m - 1) /\ m \in Nat
    BY <1>3, <2>2, <2>3
  <2>5. Q(m - 1)
    <3>. HIDE DEF Q
    <3>. QED
      BY <2>1, <2>4
  <2>6. PICK a, c, o, u : a = f[m - 1] /\ c = PointsOf(progs[m], sw, reps) /\ o = (m - 1) * w /\ u = f[m]
    OBVIOUS
  <2>7. a \in Seq(Outcome) /\ c \in Seq(Outcome) /\ Len(c) = w /\ Len(a) = o /\ u = a \o c
    BY <1>1, <1>4, <2>4, <2>5, <2>6 DEF Joined
  <2>8. o \in Nat /\ m * w = o + w
    BY <1>3, <2>4, <2>6
  <2>9. /\ Len(u) = o + w
        /\ \A i \in 1..(o + w) : u[i] = IF i <= o THEN a[i] ELSE c[i - o]
    BY <2>7, <2>8, ConcatProperties
  <2>10. ASSUME NEW i \in 1..m, NEW k \in 1..w PROVE u[(i - 1) * w + k] = PointsOf(progs[i], sw, reps)[k]
    <3>1. CASE i = m
      <4>1. o \in Nat /\ w \in Nat /\ k \in Nat /\ k >= 1 /\ k <= w
        BY <1>3, <2>8
      <4>3. o + k \in 1..(o + w) /\ ~(o + k <= o) /\ (o + k) - o = k
        BY <4>1
      <4>2. u[o + k] = c[k]
        BY <2>9, <4>3
      <4>. QED
        BY <2>6, <3>1, <4>2
    <3>2. CASE i # m
      <4>1. PICK x : x = (i - 1) * w
        OBVIOUS
      <4>2. i \in 1..(m - 1) /\ i - 1 \in Nat /\ i \in Nat /\ i <= m - 1
        BY <2>4, <3>2
      <4>3. x \in Nat /\ x + w <= o
        <5>1. x \in Nat /\ i * w = x + w
          BY <1>3, <4>1, <4>2
        <5>2. i * w <= (m - 1) * w
          BY <1>3, <2>4, <4>2
        <5>. QED
          BY <2>6, <5>1, <5>2
      <4>4. x + k \in 1..(o + w) /\ x + k <= o
        BY <1>3, <2>8, <4>3
      <4>5. u[x + k] = a[x + k]
        BY <2>9, <4>4
      <4>6. a[x + k] = PointsOf(progs[i], sw, reps)[k]
        BY <2>5, <2>6, <4>1, <4>2
      <4>. QED
        BY <4>1, <4>5, <4>6
    <3>. QED
      BY <3>1, <3>2
  <2>11. Q(m)
    BY <2>6, <2>8, <2>9, <2>10
  <2>. QED
    BY <2>2, <2>11
<1>6. n \in 0..n
  BY <1>3
<1>7. Q(n)
  <2>. HIDE DEF Q
  <2>. QED
    BY <1>5, <1>6
<1>8. f[n] \in Seq(Outcome)
  BY <1>1, <1>6 DEF Joined
<1>. QED
  BY <1>1, <1>2, <1>7, <1>8 DEF Shared

\* What a program gets alone.
LEMMA AloneFacts ==
    ASSUME NEW r \in Request
    PROVE  /\ Alone(r) \in Seq(Outcome)
           /\ Len(r.sweeps) = 1 => Alone(r) = PointsOf(r.prog, r.sweeps[1], r.reps)
<1>1. PICK n, ss, ps : n = Len(r.sweeps) /\ ss = r.sweeps /\ ps = [i \in 1..n |-> r.prog]
  OBVIOUS
<1>2. n \in Nat /\ ss \in Seq(Seq(Nat)) /\ r.prog \in Nat /\ r.reps \in Nat
  BY <1>1 DEF Request
<1>3. ps \in [1..n -> Nat] /\ Len(ps) = n
  <2>1. ps \in [1..n -> Nat]
    BY <1>1, <1>2
  <2>2. ps \in Seq(Nat) /\ DOMAIN ps = 1..n
    BY <1>1, <1>2, <2>1
  <2>. QED
    BY <1>1, <1>2, <2>1, <2>2
<1>4. ss \in [1..n -> Seq(Nat)]
  <2>1. PICK S : S = Seq(Nat)
    OBVIOUS
  <2>2. ss \in Seq(S) /\ Len(ss) = n
    BY <1>1, <1>2, <2>1
  <2>3. ss \in [1..n -> S]
    BY <2>2
  <2>. QED
    BY <2>1, <2>3
<1>5. Pairs(n, ps, ss)
  BY <1>2, <1>3, <1>4 DEF Pairs
<1>6. Alone(r) = Sampled(ps, ss, r.reps)
  BY <1>1 DEF Alone
<1>7. Alone(r) \in Seq(Outcome)
  <2>1. PICK f : Joined(f, n, ps, ss, r.reps) /\ Sampled(ps, ss, r.reps) = f[n]
    BY <1>2, <1>5, SampledRecursion
  <2>2. n \in 0..n
    BY <1>2
  <2>. QED
    BY <1>6, <2>1, <2>2 DEF Joined
<1>8. ASSUME n = 1 PROVE Alone(r) = PointsOf(r.prog, ss[1], r.reps)
  <2>1. PICK sw, w, a, c : sw = ss[1] /\ w = Len(sw) /\ a = Alone(r) /\ c = PointsOf(r.prog, sw, r.reps)
    OBVIOUS
  <2>2. sw \in Seq(Nat) /\ w \in Nat /\ \A i \in 1..n : ss[i] = sw
    <3>1. 1 \in 1..n /\ \A i \in 1..n : i = 1
      BY <1>8
    <3>2. sw \in Seq(Nat)
      BY <1>4, <2>1, <3>1
    <3>. QED
      BY <2>1, <3>1, <3>2
  <2>3. /\ Len(a) = n * w
        /\ \A i \in 1..n : \A k \in 1..w : a[(i - 1) * w + k] = PointsOf(ps[i], sw, r.reps)[k]
    <3>1. r.reps \in Nat /\ sw \in Seq(Nat) /\ \A i \in 1..n : ss[i] = sw
      BY <1>2, <2>2
    <3>2. Shared(Sampled(ps, ss, r.reps), n, ps, sw, r.reps)
      BY <1>5, <3>1, SampledShares
    <3>3. Shared(a, n, ps, sw, r.reps)
      BY <1>6, <2>1, <3>2
    <3>. QED
      BY <2>1, <3>3 DEF Shared
  <2>4. 1 \in 1..n /\ n * w = w /\ ps[1] = r.prog /\ \A k \in 1..w : (1 - 1) * w + k = k
    <3>1. 1 \in 1..n /\ ps[1] = r.prog
      BY <1>1, <1>8
    <3>2. w \in Nat
      BY <2>2
    <3>3. n * w = w
      BY <1>8, <3>2
    <3>4. (1 - 1) * w = 0
      BY <3>2
    <3>5. \A k \in 1..w : 0 + k = k
      BY <3>2
    <3>. QED
      BY <3>1, <3>3, <3>4, <3>5
  <2>5. Len(a) = w /\ \A k \in 1..w : a[k] = c[k]
    <3>1. \A k \in 1..w : a[(1 - 1) * w + k] = PointsOf(ps[1], sw, r.reps)[k]
      BY <2>3, <2>4
    <3>2. Len(a) = w
      BY <2>3, <2>4
    <3>3. PointsOf(ps[1], sw, r.reps) = c
      BY <2>1, <2>4
    <3>. QED
      BY <2>4, <3>1, <3>2, <3>3
  <2>6. a \in Seq(Outcome) /\ c \in Seq(Outcome) /\ Len(c) = w
    BY <1>2, <1>7, <2>1, <2>2, PointsType
  <2>7. a = c
    BY <2>2, <2>5, <2>6, SeqEqual
  <2>. QED
    BY <2>1, <2>7
<1>. QED
  BY <1>1, <1>7, <1>8

\* One sweep goes to all programs of a job.
LEMMA OneSweepForAll ==
    ASSUME NEW b \in Seq(Request), Len(b) > 0, \A i \in 1..Len(b) : SameBatch(b[1], b[i]), Len(b[1].sweeps) = 1
    PROVE  /\ ~Refused(b)
           /\ \A j \in 1..Len(b) : Regroup(b, JobResults(b))[j] = Alone(b[j])
<1>1. PICK L, sw, n, res, reps : L = Len(b) /\ sw = b[1].sweeps[1] /\ n = Len(sw) /\ res = JobResults(b) /\ reps = b[1].reps
  OBVIOUS
<1>2. L \in Nat /\ L > 0 /\ \A i \in 1..L : b[i] \in Request
  BY <1>1
<1>3. 1 \in 1..L /\ b[1] \in Request
  BY <1>2
<1>4. sw \in Seq(Nat) /\ n \in Nat /\ reps \in Nat /\ b[1].sweeps \in Seq(Seq(Nat))
  <2>1. PICK S, s : S = Seq(Nat) /\ s = b[1].sweeps
    OBVIOUS
  <2>2. s \in Seq(S) /\ reps \in Nat
    BY <1>1, <1>3, <2>1 DEF Request
  <2>3. s[1] \in S
    BY <2>1, <2>2
  <2>4. sw \in Seq(Nat)
    BY <1>1, <2>1, <2>3
  <2>. QED
    BY <1>1, <2>1, <2>2, <2>4
<1>5. PICK ps, ss : ps = JobPrograms(b) /\ ss = JobSweeps(b)
  OBVIOUS
<1>6. ps = [i \in 1..L |-> b[i].prog]
  BY <1>1, <1>5 DEF JobPrograms
<1>7. ps \in [1..L -> Nat] /\ Len(ps) = L
  <2>1. ps \in [1..L -> Nat]
    BY <1>2, <1>6 DEF Request
  <2>2. ps \in Seq(Nat)
    BY <1>2, <2>1
  <2>. QED
    BY <1>2, <1>6, <2>1, <2>2
<1>8. ss \in [1..L -> Seq(Nat)] /\ Len(ss) = L /\ \A i \in 1..L : ss[i] = sw
  <2>1. PICK S : S = Seq(Nat)
    OBVIOUS
  <2>2. CASE L > 1
    <3>1. ss = [i \in 1..L |-> sw]
      BY <1>1, <1>5, <2>2 DEF JobSweeps
    <3>2. ss \in [1..L -> S] /\ ss \in Seq(S)
      BY <1>2, <1>4, <2>1, <3>1
    <3>3. Len(ss) = L
      BY <1>2, <3>1, <3>2
    <3>. QED
      BY <2>1, <3>1, <3>2, <3>3
  <2>3. CASE ~(L > 1)
    <3>1. L = 1 /\ ss = b[1].sweeps /\ \A i \in 1..L : i = 1
      BY <1>1, <1>2, <1>5, <2>3 DEF JobSweeps
    <3>2. ss \in Seq(S) /\ Len(ss) = L
      BY <1>4, <2>1, <3>1
    <3>3. ss \in [1..L -> S]
      BY <3>2
    <3>. QED
      BY <1>1, <2>1, <3>1, <3>2, <3>3
  <2>. QED
    BY <2>2, <2>3
<1>9. Pairs(L, ps, ss)
  BY <1>2, <1>7, <1>8 DEF Pairs
<1>10. res = Sampled(ps, ss, reps)
  BY <1>1, <1>5 DEF JobResults
<1>11. /\ res \in Seq(Outcome) /\ Len(res) = L * n
       /\ \A i \in 1..L : \A k \in 1..n : res[(i - 1) * n + k] = PointsOf(ps[i], sw, reps)[k]
  <2>1. reps \in Nat /\ sw \in Seq(Nat) /\ \A i \in 1..L : ss[i] = sw
    BY <1>4, <1>8
  <2>2. Shared(Sampled(ps, ss, reps), L, ps, sw, reps)
    BY <1>9, <2>1, SampledShares
  <2>3. Shared(res, L, ps, sw, reps)
    BY <1>10, <2>2
  <2>. QED
    BY <1>1, <2>3 DEF Shared
<1>12. (L * n) \div L = n /\ (L * n) % L = 0
  <2>1. n * L + 0 = L * n /\ 0 < L
    BY <1>2, <1>4
  <2>2. (n * L + 0) \div L = n /\ (n * L + 0) % L = 0
    BY <1>2, <1>4, <2>1, Shares
  <2>. QED
    BY <2>1, <2>2
<1>13. ~Refused(b)
  BY <1>1, <1>5, <1>7, <1>8, <1>11, <1>12 DEF Refused
<1>14. PICK R : R = Regroup(b, res)
  OBVIOUS
<1>15. R = [j \in 1..L |-> SubSeq(res, (j - 1) * n + 1, j * n)]
  BY <1>1, <1>11, <1>12, <1>14 DEF Regroup
<1>16. ASSUME NEW j \in 1..L PROVE R[j] = Alone(b[j])
  <2>1. PICK c, o : c = PointsOf(ps[j], sw, reps) /\ o = (j - 1) * n
    OBVIOUS
  <2>2. c \in Seq(Outcome) /\ Len(c) = n
    BY <1>1, <1>4, <1>7, <2>1, PointsType
  <2>3. j - 1 \in Nat /\ o \in Nat /\ j * n = o + n /\ o + n <= L * n
    <3>1. j - 1 \in Nat /\ j \in Nat /\ j <= L
      BY <1>2
    <3>2. o \in Nat
      BY <1>4, <2>1, <3>1
    <3>3. j * n = (j - 1) * n + n
      BY <1>4, <3>1
    <3>4. j * n <= L * n
      BY <1>2, <1>4, <3>1
    <3>. QED
      BY <2>1, <3>1, <3>2, <3>3, <3>4
  <2>4. PICK w : w = SubSeq(res, o + 1, o + n)
    OBVIOUS
  <2>5. w \in Seq(Outcome) /\ Len(w) = n /\ \A i \in 1..n : w[i] = res[o + i]
    <3>1. o + 1 \in Int /\ o + n \in Int /\ \A i \in (o + 1)..(o + n) : i \in 1..Len(res)
      BY <1>4, <1>11, <2>3
    <3>2. \A i \in (o + 1)..(o + n) : res[i] \in Outcome
      BY <1>11, <3>1
    <3>3. /\ w \in Seq(Outcome)
          /\ Len(w) = IF o + 1 <= o + n THEN (o + n) - (o + 1) + 1 ELSE 0
          /\ \A i \in 1..((o + n) - (o + 1) + 1) : w[i] = res[(o + 1) + i - 1]
      BY <2>4, <3>1, <3>2, SubSeqProperties
    <3>4. (o + n) - (o + 1) + 1 = n /\ (~(o + 1 <= o + n) => n = 0)
      BY <1>4, <2>3
    <3>5. \A i \in 1..n : (o + 1) + i - 1 = o + i
      BY <1>4, <2>3
    <3>. QED
      BY <3>3, <3>4, <3>5
  <2>6. \A i \in 1..n : w[i] = c[i]
    BY <1>11, <2>1, <2>5
  <2>7. w = c
    BY <2>2, <2>5, <2>6, SeqEqual
  <2>8. R[j] = w
    BY <1>15, <2>1, <2>3, <2>4
  <2>9. b[j].sweeps = b[1].sweeps /\ b[j].reps = reps /\ ps[j] = b[j].prog /\ b[j] \in Request
    BY <1>1, <1>2, <1>6 DEF SameBatch
  <2>10. Alone(b[j]) = c
    BY <1>1, <2>1, <2>9, AloneFacts
  <2>. QED
    BY <2>7, <2>8, <2>10
<1>. QED
  BY <1>1, <1>13, <1>14, <1>16

\* A program that is alone in a job takes all its sweeps, if it has any.
LEMMA OneProgram ==
    ASSUME NEW b \in Seq(Request), Len(b) = 1
    PROVE  /\ Refused(b) <=> b[1].sweeps = << >>
           /\ b[1].sweeps # << >> => Regroup(b, JobResults(b))[1] = Alone(b[1])
<1>1. PICK r, n, ss : r = b[1] /\ ss = r.sweeps /\ n = Len(ss)
  OBVIOUS
<1>2. r \in Request /\ ss \in Seq(Seq(Nat)) /\ n \in Nat /\ (n = 0 <=> ss = << >>)
  <2>1. r \in Request
    <3>1. 1 \in 1..Len(b)
      OBVIOUS
    <3>2. b[1] \in Request
      BY <3>1
    <3>. QED
      BY <1>1, <3>2
  <2>2. ss \in Seq(Seq(Nat))
    BY <1>1, <2>1 DEF Request
  <2>3. PICK S : S = Seq(Nat)
    OBVIOUS
  <2>4. ss \in Seq(S)
    BY <2>2, <2>3
  <2>5. n \in Nat /\ (n = 0 <=> ss = << >>)
    BY <1>1, <2>4, EmptySeq
  <2>. QED
    BY <2>1, <2>2, <2>5
<1>3. JobSweeps(b) = ss
  BY <1>1 DEF JobSweeps
<1>4. CASE n = 0
  <2>1. PICK ps : ps = JobPrograms(b)
    OBVIOUS
  <2>2. ps = [i \in 1..1 |-> b[i].prog]
    <3>1. ~(n > 1) /\ Len(b) = 1
      BY <1>4
    <3>. QED
      BY <1>1, <2>1, <3>1 DEF JobPrograms
  <2>3. ps \in Seq({r.prog}) /\ DOMAIN ps = 1..1
    <3>1. ps \in [1..1 -> {r.prog}]
      BY <1>1, <2>2
    <3>. QED
      BY <2>2, <3>1
  <2>4. Len(ps) = 1
    BY <2>3
  <2>5. Refused(b)
    BY <1>1, <1>3, <1>4, <2>1, <2>4 DEF Refused
  <2>. QED
    BY <1>1, <1>2, <1>4, <2>5
<1>5. CASE n > 0
  <2>1. JobPrograms(b) = [i \in 1..n |-> r.prog]
    <3>1. CASE n > 1
      BY <1>1, <3>1 DEF JobPrograms
    <3>2. CASE n = 1
      <4>1. \A i \in 1..1 : b[i].prog = r.prog
        BY <1>1
      <4>2. JobPrograms(b) = [i \in 1..1 |-> b[i].prog]
        BY <1>1, <3>2 DEF JobPrograms
      <4>. QED
        BY <3>2, <4>1, <4>2
    <3>. QED
      BY <1>2, <1>5, <3>1, <3>2
  <2>2. PICK res : res = JobResults(b)
    OBVIOUS
  <2>3. res = Alone(r)
    BY <1>1, <1>3, <2>1, <2>2 DEF JobResults, Alone
  <2>4. res \in Seq(Outcome) /\ Len(res) \in Nat
    BY <1>2, <2>3, AloneFacts
  <2>5. Len(JobPrograms(b)) = n
    <3>1. PICK ps : ps = JobPrograms(b)
      OBVIOUS
    <3>2. ps \in [1..n -> {r.prog}] /\ DOMAIN ps = 1..n
      BY <2>1, <3>1
    <3>3. ps \in Seq({r.prog})
      BY <1>2, <3>2
    <3>4. Len(ps) = n
      BY <1>2, <3>2, <3>3
    <3>. QED
      BY <3>1, <3>4
  <2>6. PICK l : l = Len(res)
    OBVIOUS
  <2>7. l \in Nat /\ l % 1 = 0 /\ l \div 1 = l
    BY <2>4, <2>6
  <2>8. ~Refused(b)
    BY <1>1, <1>3, <2>2, <2>5, <2>6, <2>7 DEF Refused
  <2>9. Regroup(b, res) = [j \in 1..1 |-> SubSeq(res, (j - 1) * l + 1, j * l)]
    BY <2>6, <2>7 DEF Regroup
  <2>10. (1 - 1) * l + 1 = 1 /\ 1 * l = l
    BY <2>7
  <2>11. Regroup(b, res)[1] = SubSeq(res, 1, l)
    <3>1. 1 \in 1..1
      OBVIOUS
    <3>2. Regroup(b, res)[1] = SubSeq(res, (1 - 1) * l + 1, 1 * l)
      BY <2>9, <3>1, Zenon
    <3>. QED
      BY <2>10, <3>2, Zenon
  <2>12. SubSeq(res, 1, l) = res
    <3>1. PICK w : w = SubSeq(res, 1, l)
      OBVIOUS
    <3>2. w \in Seq(Outcome) /\ Len(w) = l /\ \A i \in 1..l : w[i] = res[i]
      <4>1. \A i \in 1..l : res[i] \in Outcome
        BY <2>4, <2>6
      <4>2. /\ w \in Seq(Outcome)
            /\ Len(w) = IF 1 <= l THEN l - 1 + 1 ELSE 0
            /\ \A i \in 1..(l - 1 + 1) : w[i] = res[1 + i - 1]
        BY <2>7, <3>1, <4>1, SubSeqProperties
      <4>3. l - 1 + 1 = l /\ (~(1 <= l) => l = 0) /\ \A i \in 1..l : 1 + i - 1 = i
        BY <2>7
      <4>. QED
        BY <4>2, <4>3
    <3>3. w = res
      BY <2>4, <2>6, <3>2, SeqEqual
    <3>. QED
      BY <3>1, <3>3
  <2>. QED
    BY <1>1, <1>2, <1>5, <2>2, <2>3, <2>8, <2>11, <2>12
<1>. QED
  BY <1>2, <1>4, <1>5

\* bs are the first n requests, in batches of requests that are alike; off[k] requests
\* are in the first k batches.
Packed(bs, off, reqs, n) ==
    /\ bs \in Seq(Seq(Request))
    /\ off \in [0..Len(bs) -> Nat] /\ off[0] = 0 /\ off[Len(bs)] = n
    /\ \A k \in 1..Len(bs) :
          /\ Len(bs[k]) > 0 /\ off[k] = off[k - 1] + Len(bs[k])
          /\ \A i \in 1..Len(bs[k]) : bs[k][i] = reqs[off[k - 1] + i] /\ SameBatch(bs[k][1], bs[k][i])

\* A program joins the last batch or begins a new one, and the batches stay packed.
LEMMA AddRequestFacts ==
    ASSUME NEW reqs \in Seq(Request), NEW cpj, NEW n \in 1..Len(reqs), NEW bs, NEW off,
           Packed(bs, off, reqs, n - 1)
    PROVE  \E f : Packed(AddRequest(bs, reqs[n], cpj), f, reqs, n)
<1>1. PICK r, B, out : r = reqs[n] /\ B = Len(bs) /\ out = AddRequest(bs, r, cpj)
  OBVIOUS
<1>2. /\ bs \in Seq(Seq(Request)) /\ B \in Nat /\ DOMAIN bs = 1..B /\ n \in Nat /\ n >= 1 /\ r \in Request
      /\ off \in [0..B -> Nat] /\ off[0] = 0 /\ off[B] = n - 1
      /\ \A k \in 1..B : bs[k] \in Seq(Request) /\ Len(bs[k]) \in Nat
  BY <1>1 DEF Packed
<1>3. \A k \in 1..B :
          /\ Len(bs[k]) > 0 /\ off[k] = off[k - 1] + Len(bs[k])
          /\ \A i \in 1..Len(bs[k]) : bs[k][i] = reqs[off[k - 1] + i] /\ SameBatch(bs[k][1], bs[k][i])
  BY <1>1 DEF Packed
<1>. DEFINE Joins == /\ bs # << >>
                     /\ Len(Last(bs)) < cpj
                     /\ SameBatch(Last(bs)[1], r)
<1>4. CASE Joins
  <2>1. B \in 1..B /\ Last(bs) = bs[B] /\ B > 0 /\ B - 1 \in 0..B
    <3>1. B > 0
      BY <1>1, <1>2, <1>4
    <3>. QED
      BY <1>1, <1>2, <3>1 DEF Last
  <2>2. PICK l, m : l = bs[B] /\ m = Len(l)
    OBVIOUS
  <2>3. /\ l \in Seq(Request) /\ m \in Nat /\ m > 0 /\ off[B] = off[B - 1] + m
        /\ \A i \in 1..m : l[i] = reqs[off[B - 1] + i] /\ SameBatch(l[1], l[i])
        /\ SameBatch(l[1], r)
    BY <1>2, <1>3, <1>4, <2>1, <2>2
  <2>4. PICK a : a = Append(l, r)
    OBVIOUS
  <2>5. /\ a \in Seq(Request) /\ Len(a) = m + 1 /\ a[m + 1] = r /\ \A i \in 1..m : a[i] = l[i]
    BY <1>2, <2>2, <2>3, <2>4
  <2>6. /\ out = [bs EXCEPT ![B] = a]
    BY <1>1, <1>4, <2>2, <2>4 DEF AddRequest
  <2>7. /\ out \in Seq(Seq(Request)) /\ Len(out) = B /\ out[B] = a
        /\ \A k \in 1..B : k # B => out[k] = bs[k]
    BY <1>1, <1>2, <2>1, <2>5, <2>6
  <2>8. PICK f : f = [off EXCEPT ![B] = n]
    OBVIOUS
  <2>9. f \in [0..B -> Nat] /\ f[0] = 0 /\ f[B] = n /\ \A k \in 0..B : k # B => f[k] = off[k]
    <3>1. B \in 0..B /\ 0 \in 0..B /\ B # 0
      BY <1>2, <2>1
    <3>. QED
      BY <1>2, <2>8, <3>1
  <2>10. ASSUME NEW k \in 1..B
         PROVE  /\ Len(out[k]) > 0 /\ f[k] = f[k - 1] + Len(out[k])
                /\ \A i \in 1..Len(out[k]) : out[k][i] = reqs[f[k - 1] + i] /\ SameBatch(out[k][1], out[k][i])
    <3>1. k \in 0..B /\ k - 1 \in 0..B /\ k - 1 # B
      BY <1>2
    <3>2. CASE k # B
      <4>1. out[k] = bs[k] /\ f[k] = off[k] /\ f[k - 1] = off[k - 1]
        BY <2>7, <2>9, <3>1, <3>2
      <4>. QED
        BY <1>3, <4>1
    <3>3. CASE k = B
      <4>1. out[k] = a /\ f[k] = n /\ f[k - 1] = off[B - 1] /\ off[B - 1] \in Nat /\ n = off[B - 1] + (m + 1)
        <5>1. out[k] = a /\ f[k] = n /\ f[k - 1] = off[B - 1] /\ off[B - 1] \in Nat
          BY <1>2, <2>7, <2>9, <3>1, <3>3
        <5>2. n - 1 = off[B - 1] + m
          BY <1>2, <2>3
        <5>3. PICK o : o = off[B - 1]
          OBVIOUS
        <5>4. o \in Nat /\ n - 1 = o + m
          BY <5>1, <5>2, <5>3
        <5>5. n = o + (m + 1)
          BY <1>2, <2>3, <5>4
        <5>. QED
          BY <5>1, <5>3, <5>5
      <4>2. \A i \in 1..(m + 1) : i \in 1..m \/ i = m + 1
        BY <2>3
      <4>3. a[m + 1] = reqs[off[B - 1] + (m + 1)] /\ a[1] = l[1]
        BY <1>1, <2>3, <2>5, <4>1
      <4>4. \A i \in 1..(m + 1) : a[i] = reqs[off[B - 1] + i] /\ SameBatch(a[1], a[i])
        BY <2>3, <2>5, <4>2, <4>3
      <4>5. Len(a) > 0
        BY <2>3, <2>5
      <4>. QED
        BY <2>5, <4>1, <4>4, <4>5
    <3>. QED
      BY <3>2, <3>3
  <2>11. Packed(out, f, reqs, n)
    BY <2>7, <2>9, <2>10 DEF Packed
  <2>. QED
    BY <1>1, <2>11
<1>5. CASE ~Joins
  <2>1. out = Append(bs, <<r>>)
    BY <1>1, <1>5 DEF AddRequest
  <2>2. PICK a : a = <<r>>
    OBVIOUS
  <2>3. a \in Seq(Request) /\ Len(a) = 1 /\ a[1] = r
    BY <1>2, <2>2
  <2>4. /\ out \in Seq(Seq(Request)) /\ Len(out) = B + 1 /\ out[B + 1] = a
        /\ \A k \in 1..B : out[k] = bs[k]
    BY <1>1, <1>2, <2>1, <2>2, <2>3
  <2>5. PICK f : f = [k \in 0..(B + 1) |-> IF k = B + 1 THEN n ELSE off[k]]
    OBVIOUS
  <2>6. f \in [0..(B + 1) -> Nat] /\ f[0] = 0 /\ f[B + 1] = n /\ \A k \in 0..B : f[k] = off[k]
    <3>1. 0 \in 0..B /\ \A k \in 0..(B + 1) : k = B + 1 \/ k \in 0..B
      BY <1>2
    <3>2. \A k \in 0..B : k # B + 1 /\ k \in 0..(B + 1)
      BY <1>2
    <3>3. B + 1 \in 0..(B + 1)
      BY <1>2
    <3>. QED
      BY <1>2, <2>5, <3>1, <3>2, <3>3
  <2>7. ASSUME NEW k \in 1..(B + 1)
        PROVE  /\ Len(out[k]) > 0 /\ f[k] = f[k - 1] + Len(out[k])
               /\ \A i \in 1..Len(out[k]) : out[k][i] = reqs[f[k - 1] + i] /\ SameBatch(out[k][1], out[k][i])
    <3>1. CASE k \in 1..B
      <4>1. k \in 0..B /\ k - 1 \in 0..B
        BY <1>2, <3>1
      <4>2. out[k] = bs[k] /\ f[k] = off[k] /\ f[k - 1] = off[k - 1]
        BY <2>4, <2>6, <3>1, <4>1
      <4>. QED
        BY <1>3, <3>1, <4>2
    <3>2. CASE k = B + 1
      <4>1. k - 1 = B /\ B \in 0..B
        BY <1>2, <3>2
      <4>2. out[k] = a /\ f[k] = n /\ f[k - 1] = n - 1 /\ (n - 1) + 1 = n
        BY <1>2, <2>4, <2>6, <3>2, <4>1
      <4>3. \A i \in 1..1 : i = 1
        OBVIOUS
      <4>4. SameBatch(r, r)
        BY DEF SameBatch
      <4>5. f[k - 1] + 1 = n /\ Len(out[k]) = 1 /\ out[k][1] = r
        BY <2>3, <4>2
      <4>6. /\ Len(out[k]) > 0 /\ f[k] = f[k - 1] + Len(out[k])
            /\ out[k][1] = reqs[f[k - 1] + 1]
        BY <1>1, <4>2, <4>5
      <4>. QED
        BY <4>3, <4>4, <4>5, <4>6
    <3>. QED
      BY <1>2, <3>1, <3>2
  <2>8. Packed(out, f, reqs, n)
    BY <2>4, <2>6, <2>7 DEF Packed
  <2>. QED
    BY <1>1, <2>8
<1>. QED
  BY <1>4, <1>5

\* The batches of all programs are packed: the loop's first wrong turn would contradict AddRequestFacts.
LEMMA BatchesPacked ==
    ASSUME NEW reqs \in Seq(Request), NEW cpj
    PROVE  \E off : Packed(Batches(reqs, cpj)[Len(reqs)], off, reqs, Len(reqs))
<1>1. PICK L, b : L = Len(reqs) /\ b = Batches(reqs, cpj)
  OBVIOUS
<1>2. L \in Nat
  BY <1>1
<1>3. b[0] = << >> /\ \A n \in 1..L : b[n] = AddRequest(b[n - 1], reqs[n], cpj)
  BY <1>1, <1>2, BatchesRecursion
<1>. DEFINE Bad == {n \in 0..L : ~ \E off : Packed(b[n], off, reqs, n)}
<1>4. Bad = {}
  <2>. SUFFICES ASSUME Bad # {} PROVE FALSE
    OBVIOUS
  <2>1. PICK m \in Bad : \A y \in Bad : m <= y
    <3>1. Bad \in SUBSET Nat
      BY <1>2
    <3>. QED
      BY <3>1, LeastElement
  <2>2. m \in 0..L /\ ~ \E off : Packed(b[m], off, reqs, m)
    BY <2>1
  <2>3. m # 0
    <3>1. Len(<< >>) = 0 /\ << >> \in Seq(Seq(Request))
      OBVIOUS
    <3>2. PICK f : f = [k \in 0..0 |-> 0]
      OBVIOUS
    <3>3. f \in [0..0 -> Nat] /\ f[0] = 0
      BY <3>2
    <3>4. PICK e : e = << >>
      OBVIOUS
    <3>5. e \in Seq(Seq(Request)) /\ Len(e) = 0
      BY <3>1, <3>4
    <3>6. Packed(e, f, reqs, 0)
      BY <3>3, <3>5 DEF Packed
    <3>. QED
      BY <1>3, <2>2, <3>4, <3>6
  <2>4. m \in 1..L /\ m - 1 \in 0..L /\ ~(m <= m - 1)
    BY <1>2, <2>2, <2>3
  <2>5. PICK off : Packed(b[m - 1], off, reqs, m - 1)
    BY <2>1, <2>4
  <2>6. \E f : Packed(AddRequest(b[m - 1], reqs[m], cpj), f, reqs, m)
    BY <1>1, <2>4, <2>5, AddRequestFacts
  <2>. QED
    BY <1>3, <2>2, <2>4, <2>6
<1>5. L \in 0..L
  BY <1>2
<1>. QED
  BY <1>1, <1>4, <1>5

\* However the requests are packed into batches, run_batch raises only if a request with a
\* list of sweeps is next to one that is like it or has no sweep; and a request with one
\* sweep, and one that is packed with no other, gets the results it would get alone.
LEMMA BatchFacts ==
    ASSUME NEW reqs \in Seq(Request), NEW cpj, NEW ans, ans = RunBatch(reqs, cpj)
    PROVE  /\ ans.raised => \E i \in 1..Len(reqs) :
                               Len(reqs[i].sweeps) # 1 /\ (~Lone(reqs, i) \/ reqs[i].sweeps = << >>)
           /\ ans.results # << >> =>
                 /\ Len(ans.results) = Len(reqs)
                 /\ \A i \in 1..Len(reqs) :
                       Len(reqs[i].sweeps) = 1 \/ Lone(reqs, i) => ans.results[i] = Alone(reqs[i])
<1>1. PICK L, bs : L = Len(reqs) /\ bs = Batches(reqs, cpj)[L]
  OBVIOUS
<1>2. PICK off : Packed(bs, off, reqs, L)
  BY <1>1, BatchesPacked
<1>3. PICK B, final : B = Len(bs) /\ final = FinalResults(bs)
  OBVIOUS
<1>4. /\ L \in Nat /\ B \in Nat /\ off \in [0..B -> Nat] /\ off[0] = 0 /\ off[B] = L
      /\ \A k \in 1..B :
          /\ bs[k] \in Seq(Request) /\ Len(bs[k]) > 0 /\ off[k] = off[k - 1] + Len(bs[k])
          /\ \A i \in 1..Len(bs[k]) : bs[k][i] = reqs[off[k - 1] + i] /\ SameBatch(bs[k][1], bs[k][i])
  BY <1>1, <1>2, <1>3 DEF Packed
<1>5. PICK R : R = [n \in 1..B |-> Regroup(bs[n], JobResults(bs[n]))]
  OBVIOUS
<1>6. /\ final[0] = << >>
      /\ \A n \in 1..B : final[n] = final[n - 1] \o R[n]
  BY <1>3, <1>4, <1>5, ResultsRecursion
<1>7. \A n \in 1..B : R[n] = [j \in 1..Len(bs[n]) |-> R[n][j]]
  <2>. SUFFICES ASSUME NEW n \in 1..B PROVE R[n] = [j \in 1..Len(bs[n]) |-> R[n][j]]
    OBVIOUS
  <2>1. PICK v : v = R[n]
    OBVIOUS
  <2>2. v = Regroup(bs[n], JobResults(bs[n]))
    BY <1>5, <2>1
  <2>3. v = [j \in 1..Len(bs[n]) |-> v[j]]
    BY <2>2 DEF Regroup
  <2>. QED
    BY <2>1, <2>3
<1>8. PICK S : S = UNION {{R[n][j] : j \in 1..Len(bs[n])} : n \in 1..B}
  OBVIOUS
\* Batches do not reach past the last request.
<1>9. \A n \in 0..B : off[n] <= L
  <2>. DEFINE Bad == {n \in 0..B : ~(off[B - n] <= L)}
  <2>1. Bad = {}
    <3>. SUFFICES ASSUME Bad # {} PROVE FALSE
      OBVIOUS
    <3>1. PICK m \in Bad : \A y \in Bad : m <= y
      <4>1. Bad \in SUBSET Nat
        BY <1>4
      <4>. QED
        BY <4>1, LeastElement
    <3>2. m \in 0..B /\ ~(off[B - m] <= L)
      BY <3>1
    <3>3. m # 0
      BY <1>4, <3>2
    <3>4. PICK p : p = B - (m - 1)
      OBVIOUS
    <3>5. m - 1 \in 0..B /\ ~(m <= m - 1) /\ p \in 1..B /\ p - 1 = B - m /\ p \in 0..B /\ p - 1 \in 0..B
      BY <1>4, <3>2, <3>3, <3>4
    <3>6. off[p] <= L
      BY <3>1, <3>4, <3>5
    <3>7. off[p] = off[p - 1] + Len(bs[p]) /\ Len(bs[p]) \in Nat /\ off[p - 1] \in Nat /\ off[p] \in Nat
      BY <1>4, <3>5
    <3>8. off[p - 1] <= L
      BY <1>4, <3>6, <3>7
    <3>. QED
      BY <3>2, <3>5, <3>8
  <2>2. ASSUME NEW n \in 0..B PROVE off[n] <= L
    <3>1. B - n \in 0..B /\ B - (B - n) = n
      BY <1>4
    <3>. QED
      BY <2>1, <3>1
  <2>. QED
    BY <2>2
\* Requests of one batch are like their neighbours.
<1>10. ASSUME NEW n \in 1..B, Len(bs[n]) > 1, NEW j \in 1..Len(bs[n])
       PROVE  ~Lone(reqs, off[n - 1] + j)
  <2>1. PICK b, l, o : b = bs[n] /\ l = Len(b) /\ o = off[n - 1]
    OBVIOUS
  <2>2. /\ l \in Nat /\ l > 1 /\ o \in Nat /\ o + l <= L /\ j \in 1..l
        /\ \A i \in 1..l : b[i] = reqs[o + i] /\ SameBatch(b[1], b[i])
    <3>1. n - 1 \in 0..B /\ n \in 0..B
      BY <1>4
    <3>2. o \in Nat /\ off[n] <= L /\ off[n] = o + l /\ l \in Nat
      BY <1>4, <1>9, <2>1, <3>1
    <3>. QED
      BY <1>4, <1>10, <2>1, <3>2
  <2>3. PICK i : i \in 1..l /\ i \in {j - 1, j + 1}
    <3>1. CASE j = l
      <4>1. j - 1 \in 1..l
        BY <2>2, <3>1
      <4>. QED
        BY <4>1
    <3>2. CASE j # l
      <4>1. j + 1 \in 1..l
        BY <2>2, <3>2
      <4>. QED
        BY <4>1
    <3>. QED
      BY <3>1, <3>2
  <2>4. SameBatch(reqs[o + j], reqs[o + i])
    <3>1. SameBatch(b[1], b[j]) /\ SameBatch(b[1], b[i])
      BY <2>2, <2>3
    <3>2. SameBatch(b[j], b[i])
      BY <3>1 DEF SameBatch
    <3>. QED
      BY <2>2, <2>3, <3>2
  <2>5. o + i \in {(o + j) - 1, (o + j) + 1} \cap 1..L
    BY <1>4, <2>2, <2>3
  <2>. QED
    BY <1>1, <2>1, <2>4, <2>5 DEF Lone
\* A batch is refused only for a list of sweeps.
<1>11. ASSUME NEW n \in 1..B, Refused(bs[n])
       PROVE  \E i \in 1..L : Len(reqs[i].sweeps) # 1 /\ (~Lone(reqs, i) \/ reqs[i].sweeps = << >>)
  <2>1. PICK b, o : b = bs[n] /\ o = off[n - 1]
    OBVIOUS
  <2>2. /\ b \in Seq(Request) /\ Len(b) > 0 /\ Len(b) \in Nat
        /\ \A i \in 1..Len(b) : b[i] = reqs[o + i] /\ SameBatch(b[1], b[i])
    <3>1. /\ b \in Seq(Request) /\ Len(b) > 0
          /\ \A i \in 1..Len(b) : b[i] = reqs[o + i] /\ SameBatch(b[1], b[i])
      BY <1>4, <2>1
    <3>2. Len(b) \in Nat
      BY <3>1
    <3>. QED
      BY <3>1, <3>2
  <2>3. 1 \in 1..Len(b) /\ b[1] = reqs[o + 1]
    BY <2>2
  <2>4. o + 1 \in 1..L
    <3>1. n - 1 \in 0..B /\ n \in 0..B
      BY <1>4
    <3>2. o \in Nat /\ off[n] <= L /\ off[n] = o + Len(b)
      BY <1>4, <1>9, <2>1, <3>1
    <3>. QED
      BY <1>4, <2>2, <3>2
  <2>5. Len(b[1].sweeps) # 1
    BY <1>11, <2>1, <2>2, OneSweepForAll
  <2>6. CASE Len(b) > 1
    BY <1>10, <2>1, <2>3, <2>4, <2>5, <2>6
  <2>7. CASE Len(b) = 1
    <3>1. b[1].sweeps = << >>
      BY <1>11, <2>1, <2>2, <2>7, OneProgram
    <3>. QED
      BY <2>3, <2>4, <2>5, <3>1
  <2>8. Len(b) > 1 \/ Len(b) = 1
    <3>1. PICK l : l = Len(b)
      OBVIOUS
    <3>2. l \in Nat /\ l > 0
      BY <2>2, <3>1
    <3>3. l > 1 \/ l = 1
      BY <3>2
    <3>. QED
      BY <3>1, <3>3
  <2>. QED
    BY <2>6, <2>7, <2>8
\* A batch that is not refused answers the requests with one sweep, and one alone.
<1>12. ASSUME NEW n \in 1..B, ~Refused(bs[n]), NEW j \in 1..Len(bs[n]),
              Len(reqs[off[n - 1] + j].sweeps) = 1 \/ Lone(reqs, off[n - 1] + j)
       PROVE  R[n][j] = Alone(reqs[off[n - 1] + j])
  <2>1. PICK b, r : b = bs[n] /\ r = reqs[off[n - 1] + j]
    OBVIOUS
  <2>2. /\ b \in Seq(Request) /\ Len(b) > 0 /\ Len(b) \in Nat /\ j \in 1..Len(b)
        /\ b[j] = r /\ \A i \in 1..Len(b) : SameBatch(b[1], b[i])
    <3>1. /\ b \in Seq(Request) /\ Len(b) > 0
          /\ b[j] = r /\ \A i \in 1..Len(b) : SameBatch(b[1], b[i])
      BY <1>4, <2>1
    <3>2. Len(b) \in Nat
      BY <3>1
    <3>. QED
      BY <2>1, <3>1, <3>2
  <2>3. R[n] = Regroup(b, JobResults(b)) /\ ~Refused(b)
    BY <1>5, <1>12, <2>1
  <2>4. CASE Len(r.sweeps) = 1
    <3>1. Len(b[1].sweeps) = 1
      BY <2>2, <2>4 DEF SameBatch
    <3>. QED
      BY <2>1, <2>2, <2>3, <3>1, OneSweepForAll
  <2>5. CASE Lone(reqs, off[n - 1] + j)
    <3>1. Len(b) = 1 /\ j = 1
      <4>1. j \in 1..Len(bs[n])
        BY <1>12
      <4>2. Len(bs[n]) > 1 => ~Lone(reqs, off[n - 1] + j)
        BY <1>10, <4>1
      <4>3. ~(Len(bs[n]) > 1)
        BY <2>5, <4>2
      <4>4. PICK l : l = Len(b)
        OBVIOUS
      <4>5. l \in Nat /\ l > 0 /\ ~(l > 1) /\ j \in 1..l
        BY <2>1, <2>2, <4>3, <4>4
      <4>6. l = 1 /\ j = 1
        BY <4>5
      <4>. QED
        BY <4>4, <4>6
    <3>. QED
      BY <2>1, <2>2, <2>3, <3>1, OneProgram
  <2>. QED
    BY <1>12, <2>1, <2>4, <2>5
<1>13. CASE \E n \in 1..B : Refused(bs[n])
  <2>1. ans = [raised |-> TRUE, results |-> << >>]
    BY <1>1, <1>3, <1>13 DEF RunBatch
  <2>2. ans.results = << >>
    BY <2>1
  <2>. QED
    BY <1>1, <1>11, <1>13, <2>2
<1>14. CASE \A n \in 1..B : ~Refused(bs[n])
  <2>. DEFINE Right(n) == \A i \in 1..off[n] :
                             Len(reqs[i].sweeps) = 1 \/ Lone(reqs, i) => final[n][i] = Alone(reqs[i])
              Q(n) == final[n] \in Seq(S) /\ Len(final[n]) = off[n] /\ Right(n)
              Wrong == {n \in 0..B : ~Q(n)}
  <2>1. Wrong = {}
    <3>. SUFFICES ASSUME Wrong # {} PROVE FALSE
      OBVIOUS
    <3>1. PICK m \in Wrong : \A y \in Wrong : m <= y
      <4>. HIDE DEF Q
      <4>1. Wrong \in SUBSET Nat
        BY <1>4
      <4>. QED
        BY <4>1, LeastElement
    <3>2. m \in 0..B /\ ~Q(m)
      BY <3>1
    <3>3. m # 0
      <4>1. PICK e : e = << >>
        OBVIOUS
      <4>2. e \in Seq(S) /\ Len(e) = 0
        BY <4>1
      <4>3. Q(0)
        BY <1>4, <1>6, <4>1, <4>2
      <4>. QED
        BY <3>2, <4>3
    <3>4. m \in 1..B /\ m - 1 \in 0..B /\ ~(m <= m - 1)
      BY <1>4, <3>2, <3>3
    <3>5. Q(m - 1)
      <4>. HIDE DEF Q
      <4>. QED
        BY <3>1, <3>4
    <3>6. PICK w, b, l, o, r : w = final[m - 1] /\ b = bs[m] /\ l = Len(b) /\ o = off[m - 1] /\ r = R[m]
      OBVIOUS
    <3>7. w \in Seq(S) /\ Len(w) = o
      BY <3>5, <3>6
    <3>8. b \in Seq(Request) /\ l \in Nat /\ l > 0 /\ o \in Nat /\ off[m] = o + l
      <4>1. b \in Seq(Request) /\ l > 0 /\ off[m] = o + l
        BY <1>4, <3>4, <3>6
      <4>2. l \in Nat /\ o \in Nat
        BY <1>4, <3>4, <3>6, <4>1
      <4>. QED
        BY <4>1, <4>2
    <3>9. r \in Seq(S) /\ Len(r) = l
      <4>1. r = [j \in 1..l |-> r[j]] /\ \A j \in 1..l : r[j] \in S
        BY <1>7, <1>8, <3>4, <3>6
      <4>2. r \in [1..l -> S]
        BY <4>1
      <4>3. r \in Seq(S) /\ DOMAIN r = 1..l
        BY <3>8, <4>2
      <4>. QED
        BY <3>8, <4>3
    <3>10. PICK v : v = w \o r
      OBVIOUS
    <3>11. /\ v \in Seq(S) /\ Len(v) = o + l
           /\ \A i \in 1..o : v[i] = w[i]
           /\ \A i \in 1..l : v[o + i] = r[i]
      BY <3>7, <3>9, <3>10
    <3>12. final[m] = v
      BY <1>6, <3>4, <3>6, <3>10
    <3>13. ASSUME NEW i \in 1..(o + l), Len(reqs[i].sweeps) = 1 \/ Lone(reqs, i)
           PROVE  v[i] = Alone(reqs[i])
      <4>1. CASE i \in 1..o
        <5>1. final[m - 1][i] = Alone(reqs[i])
          BY <3>5, <3>6, <3>13, <4>1
        <5>. QED
          BY <3>6, <3>11, <4>1, <5>1
      <4>2. CASE i \notin 1..o
        <5>1. PICK j : j = i - o
          OBVIOUS
        <5>2. j \in 1..l /\ i = o + j
          BY <3>8, <4>2, <5>1
        <5>3. r[j] = Alone(reqs[i])
          BY <1>12, <1>14, <3>4, <3>6, <3>13, <5>2
        <5>. QED
          BY <3>11, <5>2, <5>3
      <4>. QED
        BY <4>1, <4>2
    <3>14. Right(m)
      BY <3>8, <3>12, <3>13
    <3>15. Q(m)
      BY <3>8, <3>11, <3>12, <3>14
    <3>. QED
      BY <3>2, <3>15
  <2>2. Q(B)
    <3>1. B \in 0..B
      BY <1>4
    <3>. HIDE DEF Q
    <3>. QED
      BY <2>1, <3>1
  <2>3. ans = [raised |-> FALSE, results |-> final[B]]
    BY <1>1, <1>3, <1>14 DEF RunBatch
  <2>4. ~ans.raised /\ ans.results = final[B]
    BY <2>3
  <2>. QED
    BY <1>1, <1>4, <2>2, <2>4
<1>. QED
  BY <1>13, <1>14

----------------------------------------------------------------------------
(* The three parts in LocalEngine *)

\* The invariant of the schedule holds in every state of the local engine.
LEMMA CalendarInvHolds == Spec => []CalendarInv
<1>1. Init => CalendarInv
  BY CalendarInit DEF Init
<1>2. CalendarInv /\ [Next]_vars => CalendarInv'
  BY CalendarStep, CalendarStutters DEF Next, vars
<1>. QED
  BY <1>1, <1>2, PTL DEF Spec

\* Whatever reservations are made, removed and updated, on whatever schedule __init__
\* accepts: the slots say for every time what the first schedule and the reservations
\* made since say, no time is covered twice, and a schedule that covers all time stays
\* in order.
THEOREM ScheduleStaysCalendar == Spec => []ScheduleIsCalendar
<1>1. CalendarInv => ScheduleIsCalendar
  BY CalendarHolds
<1>. QED
  BY <1>1, CalendarInvHolds, PTL

\* The state of collect_async, of the jobs, of the schedule and of the reservations
\* stays well formed.
THEOREM LocalTypeCorrect == Spec => []TypeOK
<1>1. CollectInv /\ CalendarInv => TypeOK
  BY DEF CollectInv, CalendarInv, TypeOK
<1>. QED
  BY <1>1, CollectInvHolds, CalendarInvHolds, PTL

\* The requests of a call are those given, and its answer is right.
BatchInv == (requests # << >> => requests \in Requests) /\ BatchIsPerProgram

\* For every sequence of requests and every circuits_per_job, run_batch on a simulated local
\* processor returns one result for every program, in order, and those of a program whose
\* params are one sweep, or that is packed with no other, are its own on all points of its
\* sweeps; it raises only for a program with a list of sweeps next to one like it, or with
\* no sweep.
THEOREM BatchAnswersPerProgram == Spec => []BatchIsPerProgram
<1>1. Init => BatchInv
  BY DEF Init, BatchInv, BatchIsPerProgram, NotCalled
<1>2. BatchInv /\ [Next]_vars => BatchInv'
  <2>. SUFFICES ASSUME BatchInv, [Next]_vars PROVE BatchInv'
    OBVIOUS
  <2>1. CASE CallRunBatch
    <3>1. requests # << >> /\ answer' = RunBatch(requests, perJob) /\ requests' = requests
      BY <2>1 DEF CallRunBatch
    <3>2. requests \in Requests
      BY <3>1 DEF BatchInv
    <3>3. requests \in Seq(Request)
      BY <3>2, RequestAssumption DEF Request
    <3>4. DOMAIN requests = 1..Len(requests)
      BY <3>3
    <3>5. /\ answer'.raised => \E i \in DOMAIN requests :
                Len(requests[i].sweeps) # 1 /\ (~Lone(requests, i) \/ requests[i].sweeps = << >>)
          /\ answer'.results # << >> =>
                /\ Len(answer'.results) = Len(requests)
                /\ \A i \in DOMAIN requests :
                      Len(requests[i].sweeps) = 1 \/ Lone(requests, i) => answer'.results[i] = Alone(requests[i])
      BY <3>1, <3>3, <3>4, BatchFacts
    <3>6. BatchIsPerProgram'
      BY <3>1, <3>5 DEF BatchIsPerProgram
    <3>. QED
      BY <3>1, <3>2, <3>6 DEF BatchInv
  <2>2. CASE UNCHANGED batchVars
    BY <2>2 DEF BatchInv, BatchIsPerProgram, batchVars
  <2>. QED
    BY <2>1, <2>2 DEF Next, vars
<1>3. BatchInv => BatchIsPerProgram
  BY DEF BatchInv
<1>. QED
  BY <1>1, <1>2, <1>3, PTL DEF Spec
=============================================================================
