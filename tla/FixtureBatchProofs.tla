-------------------------- MODULE FixtureBatchProofs --------------------------
(***************************************************************************)
(* Proofs about FixtureBatch for every set of captures, records, files and *)
(* replaying processes, and any bounds: what a receipt reports as succeeded *)
(* is backed by the database and the exports, and a batch that has ended   *)
(* by itself covers its directory.                                         *)
(***************************************************************************)
EXTENDS FixtureBatch, SequenceTheorems, TLAPS

(***************************************************************************)
(* The inductive invariant.                                                *)
(***************************************************************************)

(* The steps with a capture in hand, in the order of _persist. *)
Exporting == {"export", "exporting"}
Finishing == {"finish", "close"} \cup Exporting
Saving == {"save", "mark", "fail"} \cup Finishing
Persisting == {"job", "start", "task"} \cup Saving
Working == {"parse", "metadata"} \cup Persisting
Batching == {"file", "read", "progress", "write", "final"}
Steps == {"idle"} \cup Working \cup Batching

Receipts == [state : {"running", "completed"}, groups : Seq(Results), edited : BOOLEAN]

(* Every variable has its type, the memory of the processes included. *)
Typed ==
  /\ folder \in [Names -> Captures] /\ stored \subseteq Captures
  /\ metadata \subseteq stored /\ failures \subseteq metadata
  /\ saved \in [Entities -> [time : Nat, by : Captures] \cup {NoRow}]
  /\ job \in [Captures -> JobStates]
  /\ task \in [Captures -> {"none", "running", "succeeded", "failed"}]
  /\ exported \in [Captures -> {"none", "torn", "whole"}]
  /\ receipt \in Receipts \cup {None, Torn}
  /\ pc \in [Procs -> Steps] /\ doing \in [Procs -> Captures \cup {None}]
  /\ next \in [Procs -> Nat \ {0}] /\ broken \in [Procs -> BOOLEAN]
  /\ groups \in Seq(Results) /\ previous \in Seq(Results)
  /\ began \in [Names -> Captures] /\ edited \in BOOLEAN /\ finished \in BOOLEAN
  /\ count \in [runs : 0..MaxRuns, replays : Nat, edits : Nat, deaths : Nat]

(* What a reported success stands on. *)
Backed(f) == Holds(f) /\ exported[f] # "none" /\ job[f] \in {"succeeded", "failed"}
(* Results of at most so many runs, one for each of the first files. *)
Sound(results, runs) ==
  /\ Len(results) <= Files
  /\ \A n \in DOMAIN results :
       /\ results[n].name = n /\ results[n].attempts <= runs
       /\ results[n].state = "succeeded" =>
            results[n].run \in Captures /\ Backed(results[n].run)

(* How far a process has come with its capture. *)
Hand(p) ==
  /\ pc[p] \in Working => doing[p] \in stored
  /\ pc[p] \in Persisting \cup {"metadata"} => Content[doing[p]] # <<>>
  /\ pc[p] \in Persisting => doing[p] \in metadata
  /\ pc[p] = "start" => job[doing[p]] # "none"
  /\ pc[p] \in Saving \cup {"task"} => job[doing[p]] \in {"running", "succeeded", "failed"}
  /\ pc[p] = "save" =>
       \A k \in DOMAIN Content[doing[p]] :
         k < next[p] => saved[Content[doing[p]][k].entity].time >= Content[doing[p]][k].time
  /\ pc[p] \in Finishing => Holds(doing[p])
  /\ pc[p] \in Exporting => job[doing[p]] \in {"succeeded", "failed"}
  /\ pc[p] = "exporting" => exported[doing[p]] # "none"
  /\ pc[p] = "fail" => doing[p] \in failures
  /\ pc[p] \notin Saving => next[p] = 1
  /\ p # Batcher => pc[p] \notin Batching

(* A job that has ended has its records or its failure. *)
Closed(f) ==
  /\ job[f] = "succeeded" => Holds(f)
  /\ job[f] = "failed" => f \in failures

(* What the batch knows, has known and has written. *)
Collected ==
  /\ Sound(groups, count.runs) /\ Sound(previous, count.runs - 1)
  /\ receipt \notin {None, Torn} => Sound(receipt.groups, count.runs)
  /\ ~Running => groups = <<>> /\ previous = <<>>
  /\ Running => count.runs >= 1
  /\ pc[Batcher] \in Working \cup {"read"} => Len(groups) < Files /\ digest \in Captures
  /\ pc[Batcher] = "final" => Len(groups) = Files

(* A result is about the bytes it names. *)
Exact(results) ==
  \A n \in DOMAIN results : results[n].state = "succeeded" => results[n].run = results[n].digest
(* As long as no file changes, the batch sees the directory it began with. *)
Steady ==
  /\ began = folder /\ Exact(previous) /\ Exact(groups)
  /\ \A n \in DOMAIN groups : groups[n].digest = began[n]
  /\ pc[Batcher] \in Working \cup {"read"} => digest = folder[File]
  /\ pc[Batcher] \in Working => doing[Batcher] = digest
Covering ==
  /\ receipt \notin {None, Torn} /\ ~receipt.edited => Exact(receipt.groups)
  /\ Running => ~finished
  /\ Running /\ ~edited => Steady
  /\ FinishedCovers

Inv ==
  /\ Typed
  /\ \A p \in Procs : Hand(p)
  /\ \A f \in Captures : Closed(f)
  /\ Collected /\ Covering

(***************************************************************************)
(* What only grows: rows, exports and jobs that have ended.                *)
(***************************************************************************)

Grows ==
  /\ stored \subseteq stored' /\ metadata \subseteq metadata' /\ failures \subseteq failures'
  /\ \A e \in Entities : saved'[e].time >= saved[e].time
  /\ \A f \in Captures :
       /\ exported[f] # "none" => exported'[f] # "none"
       /\ job[f] # "none" => job'[f] # "none"
       /\ job[f] = "running" => job'[f] \in {"running", "succeeded", "failed"}
       /\ job[f] \in {"succeeded", "failed"} => job'[f] = job[f]

(* The time of a row is a number, also where there is no row. *)
LEMMA SavedTimes ==
  ASSUME Typed, NEW e \in Entities
  PROVE  saved[e].time \in Int
<1>1. saved[e] \in [time : Nat, by : Captures] \cup {NoRow}
  BY DEF Typed
<1>2. CASE saved[e] \in [time : Nat, by : Captures]
  BY <1>2
<1>3. CASE saved[e] = NoRow
  BY <1>3 DEF NoRow
<1> QED
  BY <1>1, <1>2, <1>3

(* So it is after a step. *)
LEMMA SavedTimesNext ==
  ASSUME Typed', NEW e \in Entities
  PROVE  saved'[e].time \in Int
<1>1. saved'[e] \in [time : Nat, by : Captures] \cup {NoRow}
  BY DEF Typed
<1>2. CASE saved'[e] \in [time : Nat, by : Captures]
  BY <1>2
<1>3. CASE saved'[e] = NoRow
  BY <1>3 DEF NoRow
<1> QED
  BY <1>1, <1>2, <1>3

(* The records of a capture have entities and times. *)
LEMMA ContentFacts ==
  ASSUME NEW f \in Captures, NEW k \in DOMAIN Content[f]
  PROVE  /\ Content[f][k].entity \in Entities /\ Content[f][k].time \in Nat
         /\ Content[f] \in Seq([entity : Entities, time : Nat])
<1>1. Content[f] \in Seq([entity : Entities, time : Nat])
  BY FixtureAssumption
<1>2. k \in 1..Len(Content[f])
  BY <1>1
<1>3. Content[f][k] \in [entity : Entities, time : Nat]
  BY <1>1, <1>2, ElementOfSeq
<1> QED
  BY <1>1, <1>3

(* A step that changes no rows, or only some of them, loses nothing. *)
LEMMA Untouched ==
  ASSUME Typed, UNCHANGED <<stored, metadata, failures, saved, job, exported>>
  PROVE  Grows
BY SavedTimes DEF Grows

(* A capture stays held, and a success backed. *)
LEMMA HoldsStays ==
  ASSUME Typed, Typed', Grows, NEW f \in Captures, Holds(f)
  PROVE  Holds(f)'
<1>1. f \in metadata' /\ Content[f] # <<>>
  BY DEF Grows, Holds
<1>2. ASSUME NEW k \in DOMAIN Content[f]
      PROVE  saved'[Content[f][k].entity].time >= Content[f][k].time
  <2>1. /\ Content[f][k].entity \in Entities /\ Content[f][k].time \in Nat
    BY ContentFacts
  <2>2. saved[Content[f][k].entity].time \in Int
    BY <2>1, SavedTimes
  <2>3. saved'[Content[f][k].entity].time \in Int
    BY <2>1, SavedTimesNext
  <2> QED
    BY <2>1, <2>2, <2>3 DEF Holds, Grows
<1> QED
  BY <1>1, <1>2 DEF Holds

(* So does what a receipt may report. *)
LEMMA BackedStays ==
  ASSUME Typed, Typed', Grows, NEW f \in Captures, Backed(f)
  PROVE  Backed(f)'
BY HoldsStays DEF Backed, Grows

(* A process that is not moved keeps what it knows. *)
LEMMA HandStays ==
  ASSUME Typed, Typed', Grows, NEW q \in Procs, Hand(q),
         pc'[q] = pc[q], doing'[q] = doing[q], next'[q] = next[q]
  PROVE  Hand(q)'
<1>0. doing[q] \in Captures \cup {None} /\ stored \subseteq Captures
  BY DEF Typed
<1>1. CASE pc[q] \notin Working
  BY <1>1 DEF Hand, Working, Persisting, Saving, Finishing, Exporting
<1>2. CASE pc[q] \in Working
  <2>1. doing[q] \in stored /\ doing[q] \in Captures
    BY <1>0, <1>2 DEF Hand
  <2>2. Holds(doing[q]) => Holds(doing[q])'
    <3> DEFINE d == doing[q]
    <3> SUFFICES ASSUME Holds(d) PROVE Holds(doing[q])'
      OBVIOUS
    <3> QED
      BY <2>1, HoldsStays DEF Holds
  <2>3. pc[q] = "save" => \A k \in DOMAIN Content[doing[q]] :
          k < next[q] =>
            saved'[Content[doing[q]][k].entity].time >= Content[doing[q]][k].time
    <3> SUFFICES ASSUME pc[q] = "save", NEW k \in DOMAIN Content[doing[q]], k < next[q]
                 PROVE  saved'[Content[doing[q]][k].entity].time >= Content[doing[q]][k].time
      OBVIOUS
    <3>1. saved[Content[doing[q]][k].entity].time >= Content[doing[q]][k].time
      BY DEF Hand
    <3>2. Content[doing[q]][k].entity \in Entities /\ Content[doing[q]][k].time \in Nat
      BY <2>1, ContentFacts
    <3> QED
      BY <3>1, <3>2, SavedTimes, SavedTimesNext DEF Grows
  <2>4. /\ pc[q] \in Persisting => doing[q] \in metadata'
        /\ pc[q] = "start" => job'[doing[q]] # "none"
        /\ pc[q] \in Saving \cup {"task"} =>
             job'[doing[q]] \in {"running", "succeeded", "failed"}
        /\ pc[q] \in Exporting => job'[doing[q]] \in {"succeeded", "failed"}
        /\ pc[q] = "exporting" => exported'[doing[q]] # "none"
        /\ pc[q] = "fail" => doing[q] \in failures'
        /\ doing[q] \in stored'
    BY <2>1 DEF Grows, Hand
  <2> QED
    BY <2>2, <2>3, <2>4 DEF Hand
<1> QED
  BY <1>1, <1>2

(***************************************************************************)
(* What the batch knows, through the steps of every kind.                  *)
(***************************************************************************)

(* The batch is where it was, or goes on with its capture. *)
Within ==
  /\ UNCHANGED <<folder, receipt, batch, edited>> /\ count'.runs = count.runs
  /\ doing'[Batcher] = doing[Batcher]
  /\ pc'[Batcher] = pc[Batcher] \/ (pc[Batcher] \in Working /\ pc'[Batcher] \in Working)

(* Its results stay backed, and it goes on seeing the same directory. *)
LEMMA WithinKeeps ==
  ASSUME Inv, Typed', Grows, Within
  PROVE  Collected' /\ Covering'
<1>0. /\ UNCHANGED <<folder, receipt, previous, groups, digest, began, finished, edited>>
      /\ Running' = Running /\ count'.runs = count.runs
      /\ \A step \in {"idle"} \cup Batching : pc'[Batcher] = step <=> pc[Batcher] = step
      /\ pc'[Batcher] \in Working <=> pc[Batcher] \in Working
      /\ doing'[Batcher] = doing[Batcher]
  BY DEF Within, batch, Running, Working, Persisting, Saving, Finishing, Exporting, Batching
<1>1. Collected'
  <2>1. \A f \in Captures : Backed(f) => Backed(f)'
    BY BackedStays DEF Inv
  <2> QED
    BY <1>0, <2>1 DEF Inv, Collected, Sound, Backed, Batching
<1>2. Covering'
  BY <1>0 DEF Inv, Covering, Steady, Exact, FinishedCovers, File, Batching
<1> QED
  BY <1>1, <1>2

(* A batch that is gone leaves its receipt. *)
LEMMA LeavesKeeps ==
  ASSUME Inv, Typed', Grows, Leaves(Batcher), UNCHANGED <<folder, receipt, began, edited>>,
         count'.runs = count.runs, finished' = finished
  PROVE  Collected' /\ Covering'
<1>0. pc'[Batcher] = "idle" /\ groups' = <<>> /\ previous' = <<>>
  BY DEF Inv, Typed, Leaves, Drops, Goto, Procs
<1>1. Collected'
  <2>1. \A f \in Captures : Backed(f) => Backed(f)'
    BY BackedStays DEF Inv
  <2>2. receipt' \notin {None, Torn} => Sound(receipt.groups, count.runs)'
    BY <2>1 DEF Inv, Collected, Sound, Backed
  <2> QED
    BY <1>0, <2>2, FixtureAssumption DEF Collected, Sound, Running, Working, Persisting,
       Saving, Finishing, Exporting
<1>2. Covering'
  BY <1>0 DEF Inv, Covering, Exact, FinishedCovers, Running
<1> QED
  BY <1>1, <1>2

(* The bounds of the counters and lists. *)
LEMMA NumberFacts ==
  ASSUME Inv
  PROVE  /\ Len(groups) \in Nat /\ Len(groups) <= Files /\ Files \in Nat
         /\ count.runs \in 0..MaxRuns /\ MaxRuns \in Nat /\ File = Len(groups) + 1
<1>1. groups \in Seq(Results) /\ count.runs \in 0..MaxRuns
  BY DEF Inv, Typed
<1>2. Len(groups) <= Files
  BY DEF Inv, Collected, Sound
<1> QED
  BY <1>1, <1>2, FixtureAssumption DEF File

(* The result of the file in hand. *)
Result(state) == Entry(state, IF state = "succeeded" THEN doing[Batcher] ELSE None)

(* A file is attempted once more than the receipt says. *)
LEMMA EntryFacts ==
  ASSUME Inv, pc[Batcher] \in Working, NEW state \in {"succeeded", "failed"}
  PROVE  /\ File \in Names /\ File = Len(groups) + 1 /\ Len(groups) \in Nat
         /\ Result(state) \in Results /\ Result(state).name = File
         /\ Result(state).digest = digest /\ Result(state).state = state
         /\ Result(state).attempts <= count.runs
         /\ state = "succeeded" => Result(state).run = doing[Batcher]
<1>1. /\ File \in Names /\ File = Len(groups) + 1 /\ Len(groups) \in Nat /\ digest \in Captures
      /\ count.runs \in 1..MaxRuns /\ MaxRuns \in Nat
  <2>1. Running
    BY DEF Running, Working, Persisting, Saving, Finishing, Exporting
  <2>2. Len(groups) < Files /\ digest \in Captures /\ count.runs >= 1
    BY <2>1 DEF Inv, Collected
  <2> QED
    BY <2>2, NumberFacts DEF Names
<1>2. Attempts \in 1..MaxRuns /\ Attempts <= count.runs
  <2>1. CASE Existing = {}
    BY <1>1, <2>1 DEF Attempts
  <2>2. CASE Existing # {}
    <3> DEFINE k == CHOOSE j \in Existing : TRUE
    <3>1. k \in DOMAIN previous
      BY <2>2 DEF Existing
    <3>2. previous[k] \in Results /\ previous[k].attempts <= count.runs - 1
      <4>1. k \in 1..Len(previous)
        BY <3>1 DEF Inv, Typed
      <4>2. previous[k] \in Results
        BY <4>1, ElementOfSeq DEF Inv, Typed
      <4> QED
        BY <3>1, <4>2 DEF Inv, Collected, Sound
    <3>3. previous[k].attempts \in 1..MaxRuns
      BY <3>2 DEF Results
    <3>4. Attempts = 1 + previous[k].attempts
      BY <2>2 DEF Attempts
    <3> HIDE DEF k
    <3> QED
      BY <1>1, <3>2, <3>3, <3>4
  <2> QED
    BY <2>1, <2>2
<1>3. doing[Batcher] \in Captures
  BY DEF Inv, Typed, Hand, Procs
<1> QED
  BY <1>1, <1>2, <1>3 DEF Result, Entry, Results

(* A result more: the earlier ones stay in their places. *)
LEMMA AppendFacts ==
  ASSUME Typed, NEW result \in Results, groups' = Append(groups, result)
  PROVE  /\ groups' \in Seq(Results) /\ Len(groups') = Len(groups) + 1
         /\ \A n \in DOMAIN groups' :
              \/ n \in DOMAIN groups /\ groups'[n] = groups[n]
              \/ n = Len(groups) + 1 /\ groups'[n] = result
<1>1. groups \in Seq(Results)
  BY DEF Typed
<1>2. /\ groups' \in Seq(Results) /\ Len(groups') = Len(groups) + 1
      /\ \A n \in 1..Len(groups) : groups'[n] = groups[n]
      /\ groups'[Len(groups) + 1] = result
  BY <1>1, AppendProperties
<1>3. DOMAIN groups' = 1..Len(groups) + 1 /\ DOMAIN groups = 1..Len(groups) /\ Len(groups) \in Nat
  BY <1>1, <1>2
<1> QED
  BY <1>2, <1>3

(* A batch that gets a result has one more, of the file it worked on. *)
LEMMA ReturnsKeeps ==
  ASSUME Inv, Typed', Grows, pc[Batcher] \in Working, NEW state \in {"succeeded", "failed"},
         groups' = Append(groups, Result(state)),
         pc'[Batcher] = "progress",
         UNCHANGED <<folder, receipt, previous, began, finished, edited>>,
         count'.runs = count.runs,
         state = "succeeded" => \A f \in Captures : f = doing[Batcher] => Backed(f)'
  PROVE  Collected' /\ Covering'
<1>1. /\ File = Len(groups) + 1 /\ Result(state).name = File /\ Len(groups) < Files
      /\ Len(groups) \in Nat
      /\ Result(state).digest = digest /\ Result(state).state = state
      /\ Result(state).attempts <= count.runs
      /\ state = "succeeded" => Result(state).run = doing[Batcher]
  BY EntryFacts DEF Inv, Collected
<1>2. /\ Len(groups') = Len(groups) + 1
      /\ \A n \in DOMAIN groups' :
           \/ n \in DOMAIN groups /\ groups'[n] = groups[n]
           \/ n = Len(groups) + 1 /\ groups'[n] = Result(state)
  BY EntryFacts, AppendFacts DEF Inv
<1>3. \A f \in Captures : Backed(f) => Backed(f)'
  BY BackedStays DEF Inv
<1>4. Running /\ Running' /\ doing[Batcher] \in Captures
  BY DEF Inv, Typed, Hand, Procs, Running, Working, Persisting, Saving, Finishing, Exporting
<1>5. Collected'
  <2>1. Sound(groups, count.runs)'
    <3>1. Len(groups') <= Files
      BY <1>1, <1>2, FixtureAssumption
    <3>2. ASSUME NEW n \in DOMAIN groups', groups'[n] = Result(state), n = Len(groups) + 1
          PROVE  /\ groups'[n].name = n /\ groups'[n].attempts <= count.runs
                 /\ groups'[n].state = "succeeded" =>
                      groups'[n].run \in Captures /\ Backed(groups[n].run)'
      BY <1>1, <1>4, <3>2 DEF Backed
    <3>3. ASSUME NEW n \in DOMAIN groups, groups'[n] = groups[n]
          PROVE  /\ groups'[n].name = n /\ groups'[n].attempts <= count.runs
                 /\ groups'[n].state = "succeeded" =>
                      groups'[n].run \in Captures /\ Backed(groups[n].run)'
      BY <1>3, <3>3 DEF Inv, Collected, Sound, Backed
    <3> QED
      BY <1>2, <3>1, <3>2, <3>3 DEF Sound
  <2>2. Sound(previous, count.runs - 1)'
    BY <1>3 DEF Inv, Collected, Sound, Backed
  <2>3. receipt' \notin {None, Torn} => Sound(receipt.groups, count.runs)'
    BY <1>3 DEF Inv, Collected, Sound, Backed
  <2> QED
    BY <1>4, <2>1, <2>2, <2>3 DEF Inv, Collected, Working, Persisting, Saving, Finishing,
       Exporting
<1>6. Covering'
  <2>1. ASSUME ~edited PROVE Steady'
    <3>1. Steady
      BY <1>4, <2>1 DEF Inv, Covering
    <3>2. digest = folder[File] /\ doing[Batcher] = digest
      BY <3>1 DEF Steady
    <3> QED
      BY <1>1, <1>2, <3>1, <3>2 DEF Steady, Exact, Working, Persisting, Saving, Finishing,
         Exporting
  <2> QED
    BY <1>4, <2>1 DEF Inv, Covering, Exact, FinishedCovers
<1> QED
  BY <1>5, <1>6

(***************************************************************************)
(* The ends of steps: a process goes on, has a result, or is gone.         *)
(***************************************************************************)

Others(p) ==
  \A q \in Procs : q # p => pc'[q] = pc[q] /\ doing'[q] = doing[q] /\ next'[q] = next[q]
(* The jobs that a step changes are closed rightly. *)
Closes == \A f \in Captures : job'[f] = job[f] \/ Closed(f)'

(* It is enough to look at the process that moves and at the batch. *)
LEMMA StepKeeps ==
  ASSUME Inv, Typed', Grows, NEW p \in Procs, Others(p), Hand(p)', Closes, Collected', Covering'
  PROVE  Inv'
<1>1. ASSUME NEW q \in Procs PROVE Hand(q)'
  BY HandStays DEF Inv, Others
<1>2. ASSUME NEW f \in Captures PROVE Closed(f)'
  <2>1. Holds(f) => Holds(f)'
    BY HoldsStays DEF Inv
  <2> QED
    BY <2>1 DEF Inv, Closes, Closed, Grows
<1> QED
  BY <1>1, <1>2 DEF Inv

(* A process goes on with its capture. *)
LEMMA GoesOn ==
  ASSUME Inv, Typed', Grows, NEW p \in Procs, Others(p), Hand(p)', Closes,
         pc[p] \in Working, pc'[p] \in Working, doing'[p] = doing[p],
         UNCHANGED <<folder, receipt, batch, edited>>, count'.runs = count.runs
  PROVE  Inv'
<1>1. Within
  BY DEF Within, Others, Procs
<1> QED
  BY <1>1, WithinKeeps, StepKeeps

(* A process that has dropped its capture has nothing to know. *)
LEMMA DropFacts ==
  ASSUME Inv, NEW p \in Procs, NEW step \in Steps \ Working, Drops(p, step),
         p # Batcher => step \notin Batching
  PROVE  /\ pc' \in [Procs -> Steps] /\ doing' \in [Procs -> Captures \cup {None}]
         /\ next' \in [Procs -> Nat \ {0}] /\ broken' \in [Procs -> BOOLEAN]
         /\ Others(p) /\ pc'[p] = step /\ Hand(p)'
<1>1. /\ pc' = [pc EXCEPT ![p] = step] /\ doing' = [doing EXCEPT ![p] = None]
      /\ next' = [next EXCEPT ![p] = 1] /\ broken' = [broken EXCEPT ![p] = FALSE]
  BY DEF Drops, Goto
<1>2. pc'[p] = step /\ next'[p] = 1
  BY <1>1 DEF Inv, Typed
<1>3. Hand(p)'
  BY <1>2 DEF Hand, Working, Persisting, Saving, Finishing, Exporting
<1> QED
  BY <1>1, <1>2, <1>3 DEF Inv, Typed, Others

(* A result is added to the batch, and to nothing for a replay. *)
LEMMA ReturnFacts ==
  ASSUME Inv, NEW p \in Procs, pc[p] \in Working, NEW state \in {"succeeded", "failed"},
         Returns(p, state)
  PROVE  /\ pc' \in [Procs -> Steps] /\ doing' \in [Procs -> Captures \cup {None}]
         /\ next' \in [Procs -> Nat \ {0}] /\ broken' \in [Procs -> BOOLEAN]
         /\ groups' \in Seq(Results) /\ UNCHANGED <<previous, began, finished>>
         /\ Others(p) /\ Hand(p)'
         /\ p = Batcher => groups' = Append(groups, Result(state)) /\ pc'[p] = "progress"
         /\ p # Batcher => UNCHANGED batch
<1>1. CASE p = Batcher
  <2>1. /\ groups' = Append(groups, Result(state)) /\ Drops(p, "progress")
        /\ UNCHANGED <<previous, began, finished>>
    BY <1>1 DEF Returns, Result
  <2>2. groups' \in Seq(Results)
    BY <1>1, <2>1, EntryFacts, AppendFacts DEF Inv
  <2>3. "progress" \in Steps \ Working
    BY DEF Steps, Batching, Working, Persisting, Saving, Finishing, Exporting
  <2> QED
    BY <1>1, <2>1, <2>2, <2>3, DropFacts
<1>2. CASE p # Batcher
  <2>1. Drops(p, "idle") /\ UNCHANGED batch
    BY <1>2 DEF Returns
  <2>2. "idle" \in Steps \ Working /\ "idle" \notin Batching
    BY DEF Steps, Batching, Working, Persisting, Saving, Finishing, Exporting
  <2> QED
    BY <1>2, <2>1, <2>2, DropFacts DEF batch, Inv, Typed
<1> QED
  BY <1>1, <1>2

(* So it keeps what is known, if a success is backed. *)
LEMMA ReturnsInv ==
  ASSUME Inv, Typed', Grows, NEW p \in Procs, pc[p] \in Working,
         NEW state \in {"succeeded", "failed"}, Returns(p, state), Closes,
         UNCHANGED <<folder, receipt, edited>>, count'.runs = count.runs,
         state = "succeeded" => \A f \in Captures : f = doing[p] => Backed(f)'
  PROVE  Inv'
<1>1. CASE p = Batcher
  BY <1>1, ReturnFacts, ReturnsKeeps, StepKeeps
<1>2. CASE p # Batcher
  <2>1. Within
    BY <1>2, ReturnFacts DEF Within, Others, Procs
  <2> QED
    BY <2>1, ReturnFacts, WithinKeeps, StepKeeps
<1> QED
  BY <1>1, <1>2

(* A process that is gone leaves the batch alone, or ends it. *)
LEMMA LeaveFacts ==
  ASSUME Inv, NEW p \in Procs, Leaves(p)
  PROVE  /\ pc' \in [Procs -> Steps] /\ doing' \in [Procs -> Captures \cup {None}]
         /\ next' \in [Procs -> Nat \ {0}] /\ broken' \in [Procs -> BOOLEAN]
         /\ groups' \in Seq(Results) /\ previous' \in Seq(Results)
         /\ Others(p) /\ Hand(p)' /\ pc'[p] = "idle"
<1>1. "idle" \in Steps \ Working /\ "idle" \notin Batching
  BY DEF Steps, Batching, Working, Persisting, Saving, Finishing, Exporting
<1>2. /\ pc' \in [Procs -> Steps] /\ doing' \in [Procs -> Captures \cup {None}]
      /\ next' \in [Procs -> Nat \ {0}] /\ broken' \in [Procs -> BOOLEAN]
      /\ Others(p) /\ Hand(p)' /\ pc'[p] = "idle"
  BY <1>1, DropFacts DEF Leaves
<1>3. groups' \in Seq(Results) /\ previous' \in Seq(Results)
  <2>1. CASE p = Batcher
    BY <2>1 DEF Leaves
  <2>2. CASE p # Batcher
    BY <2>2 DEF Leaves, Inv, Typed
  <2> QED
    BY <2>1, <2>2
<1> QED
  BY <1>2, <1>3

(* So it keeps what is known. *)
LEMMA LeavesInv ==
  ASSUME Inv, Typed', Grows, NEW p \in Procs, pc[p] # "idle", Leaves(p), Closes,
         UNCHANGED <<folder, receipt, began, finished, edited>>, count'.runs = count.runs
  PROVE  Inv'
<1>1. CASE p = Batcher
  BY <1>1, LeaveFacts, LeavesKeeps, StepKeeps
<1>2. CASE p # Batcher
  <2>1. Within
    BY <1>2, LeaveFacts DEF Within, Others, Procs, Leaves, batch
  <2> QED
    BY <2>1, LeaveFacts, WithinKeeps, StepKeeps
<1> QED
  BY <1>1, <1>2

(***************************************************************************)
(* The steps of a run or a replay.                                         *)
(***************************************************************************)

(* Parse: a capture with records is parsed. *)
LEMMA ParseKeeps ==
  ASSUME Inv, NEW p \in Procs, Parse(p)
  PROVE  Inv'
<1>0. /\ pc[p] = "parse" /\ pc' = [pc EXCEPT ![p] = "metadata"] /\ Content[doing[p]] # <<>>
      /\ UNCHANGED <<folder, stored, metadata, saved, job, task, failures, exported, receipt,
                     doing, next, broken, previous, groups, digest, began, finished, edited, count>>
  BY DEF Parse, Goto, rows, artifacts, batch
<1>1. /\ doing[p] \in stored /\ doing[p] \in Captures /\ doing[p] \in Captures \cup {None}
      /\ pc'[p] = "metadata"
  BY <1>0 DEF Inv, Typed, Hand, Working, Persisting, Saving, Finishing, Exporting
<1>2. Typed'
  BY <1>0, <1>1 DEF Inv, Typed, Steps, Batching, Working, Persisting, Saving, Finishing,
     Exporting
<1>3. Grows
  BY <1>0, <1>1, SavedTimes DEF Grows, Inv, Typed
<1>4. Hand(p)'
  BY <1>0, <1>1 DEF Inv, Typed, Hand, Holds, Batching, Working, Persisting, Saving, Finishing,
     Exporting
<1>5. Closes /\ Others(p)
  BY <1>0, <1>1 DEF Closes, Others, Inv, Typed
<1> QED
  BY <1>0, <1>1, <1>2, <1>3, <1>4, <1>5, GoesOn DEF batch, Working, Persisting, Saving,
     Finishing, Exporting

(* AddMetadata: a stored capture gets its row. *)
LEMMA AddMetadataKeeps ==
  ASSUME Inv, NEW p \in Procs, AddMetadata(p)
  PROVE  Inv'
<1>0. /\ pc[p] = "metadata" /\ pc' = [pc EXCEPT ![p] = "job"]
      /\ metadata' = metadata \cup {doing[p]}
      /\ UNCHANGED <<folder, stored, saved, job, task, failures, exported, receipt, doing,
                     next, broken, previous, groups, digest, began, finished, edited, count>>
  BY DEF AddMetadata, Goto, rows, artifacts, batch
<1>1. /\ doing[p] \in stored /\ doing[p] \in Captures /\ doing[p] \in Captures \cup {None}
      /\ pc'[p] = "job"
  BY <1>0 DEF Inv, Typed, Hand, Working, Persisting, Saving, Finishing, Exporting
<1>2. Typed'
  BY <1>0, <1>1 DEF Inv, Typed, Steps, Batching, Working, Persisting, Saving, Finishing,
     Exporting
<1>3. Grows
  BY <1>0, <1>1, SavedTimes DEF Grows, Inv, Typed
<1>4. Hand(p)'
  BY <1>0, <1>1 DEF Inv, Typed, Hand, Holds, Batching, Working, Persisting, Saving, Finishing,
     Exporting
<1>5. Closes /\ Others(p)
  BY <1>0, <1>1 DEF Closes, Others, Inv, Typed
<1> QED
  BY <1>0, <1>1, <1>2, <1>3, <1>4, <1>5, GoesOn DEF batch, Working, Persisting, Saving,
     Finishing, Exporting

(* InsertTask: a task is inserted unless there is one. *)
LEMMA InsertTaskKeeps ==
  ASSUME Inv, NEW p \in Procs, InsertTask(p)
  PROVE  Inv'
<1>0. /\ pc[p] = "task" /\ pc' = [pc EXCEPT ![p] = "save"]
      /\ task' = [task EXCEPT ![doing[p]] = IF @ = "none" THEN "running" ELSE @]
      /\ UNCHANGED <<folder, stored, metadata, saved, job, failures, exported, receipt, doing,
                     next, broken, previous, groups, digest, began, finished, edited, count>>
  BY DEF InsertTask, Goto, rows, artifacts, batch
<1>1. /\ doing[p] \in stored /\ doing[p] \in Captures /\ doing[p] \in Captures \cup {None}
      /\ pc'[p] = "save"
  BY <1>0 DEF Inv, Typed, Hand, Working, Persisting, Saving, Finishing, Exporting
<1>2. Typed'
  BY <1>0, <1>1 DEF Inv, Typed, Steps, Batching, Working, Persisting, Saving, Finishing,
     Exporting
<1>3. Grows
  BY <1>0, <1>1, SavedTimes DEF Grows, Inv, Typed
<1>4. Hand(p)'
  <2>1. next'[p] = 1 /\ \A k \in DOMAIN Content[doing[p]] : ~(k < 1)
    <3>1. Content[doing[p]] \in Seq([entity : Entities, time : Nat])
      BY <1>1, FixtureAssumption
    <3>2. \A k \in DOMAIN Content[doing[p]] : ~(k < 1)
      BY <3>1
    <3> QED
      BY <1>0, <3>2 DEF Inv, Hand, Saving, Finishing, Exporting
  <2> QED
    BY <1>0, <1>1, <2>1 DEF Inv, Typed, Hand, Holds, Batching, Working, Persisting, Saving,
       Finishing, Exporting
<1>5. Closes /\ Others(p)
  BY <1>0, <1>1 DEF Closes, Others, Inv, Typed
<1> QED
  BY <1>0, <1>1, <1>2, <1>3, <1>4, <1>5, GoesOn DEF batch, Working, Persisting, Saving,
     Finishing, Exporting

(* MarkFailed: the task, its attempt and its failure are written. *)
LEMMA MarkFailedKeeps ==
  ASSUME Inv, NEW p \in Procs, MarkFailed(p)
  PROVE  Inv'
<1>0. /\ pc[p] = "mark" /\ pc' = [pc EXCEPT ![p] = "fail"]
      /\ task' = [task EXCEPT ![doing[p]] = "failed"] /\ failures' = failures \cup {doing[p]}
      /\ UNCHANGED <<folder, stored, metadata, saved, job, exported, receipt, doing, next,
                     broken, previous, groups, digest, began, finished, edited, count>>
  BY DEF MarkFailed, Goto, rows, artifacts, batch
<1>1. /\ doing[p] \in stored /\ doing[p] \in Captures /\ doing[p] \in Captures \cup {None}
      /\ pc'[p] = "fail"
  BY <1>0 DEF Inv, Typed, Hand, Working, Persisting, Saving, Finishing, Exporting
<1>2. Typed'
  BY <1>0, <1>1 DEF Inv, Typed, Steps, Batching, Working, Persisting, Saving, Finishing,
     Exporting, Hand
<1>3. Grows
  BY <1>0, <1>1, SavedTimes DEF Grows, Inv, Typed
<1>4. Hand(p)'
  BY <1>0, <1>1 DEF Inv, Typed, Hand, Holds, Batching, Working, Persisting, Saving, Finishing,
     Exporting
<1>5. Closes /\ Others(p)
  BY <1>0, <1>1 DEF Closes, Others, Inv, Typed
<1> QED
  BY <1>0, <1>1, <1>2, <1>3, <1>4, <1>5, GoesOn DEF batch, Working, Persisting, Saving,
     Finishing, Exporting

(* CheckJob: a job that has ended stays as it is. *)
LEMMA CheckJobKeeps ==
  ASSUME Inv, NEW p \in Procs, CheckJob(p)
  PROVE  Inv'
<1>0. /\ pc[p] = "finish" /\ pc' = [pc EXCEPT ![p] = (IF job[doing[p]] = "running" THEN "close" ELSE "export")]
      /\ UNCHANGED <<folder, stored, metadata, saved, job, task, failures, exported, receipt,
                     doing, next, broken, previous, groups, digest, began, finished, edited, count>>
  BY DEF CheckJob, Goto, rows, artifacts, batch
<1>1. /\ doing[p] \in stored /\ doing[p] \in Captures /\ doing[p] \in Captures \cup {None}
      /\ pc'[p] = (IF job[doing[p]] = "running" THEN "close" ELSE "export")
  BY <1>0 DEF Inv, Typed, Hand, Working, Persisting, Saving, Finishing, Exporting
<1>2. Typed'
  BY <1>0, <1>1 DEF Inv, Typed, Steps, Batching, Working, Persisting, Saving, Finishing,
     Exporting
<1>3. Grows
  BY <1>0, <1>1, SavedTimes DEF Grows, Inv, Typed
<1>4. Hand(p)'
  BY <1>0, <1>1 DEF Inv, Typed, Hand, Holds, Batching, Working, Persisting, Saving, Finishing,
     Exporting
<1>5. Closes /\ Others(p)
  BY <1>0, <1>1 DEF Closes, Others, Inv, Typed
<1> QED
  BY <1>0, <1>1, <1>2, <1>3, <1>4, <1>5, GoesOn DEF batch, Working, Persisting, Saving,
     Finishing, Exporting

(* BeginExport: an export begins. *)
LEMMA BeginExportKeeps ==
  ASSUME Inv, NEW p \in Procs, BeginExport(p)
  PROVE  Inv'
<1>0. /\ pc[p] = "export" /\ pc' = [pc EXCEPT ![p] = "exporting"]
      /\ exported' = [exported EXCEPT ![doing[p]] = "torn"]
      /\ UNCHANGED <<folder, stored, metadata, saved, job, task, failures, receipt, doing,
                     next, broken, previous, groups, digest, began, finished, edited, count>>
  BY DEF BeginExport, Goto, rows, artifacts, batch
<1>1. /\ doing[p] \in stored /\ doing[p] \in Captures /\ doing[p] \in Captures \cup {None}
      /\ pc'[p] = "exporting"
  BY <1>0 DEF Inv, Typed, Hand, Working, Persisting, Saving, Finishing, Exporting
<1>2. Typed'
  BY <1>0, <1>1 DEF Inv, Typed, Steps, Batching, Working, Persisting, Saving, Finishing,
     Exporting
<1>3. Grows
  BY <1>0, <1>1, SavedTimes DEF Grows, Inv, Typed
<1>4. Hand(p)'
  BY <1>0, <1>1 DEF Inv, Typed, Hand, Holds, Batching, Working, Persisting, Saving, Finishing,
     Exporting
<1>5. Closes /\ Others(p)
  BY <1>0, <1>1 DEF Closes, Others, Inv, Typed
<1> QED
  BY <1>0, <1>1, <1>2, <1>3, <1>4, <1>5, GoesOn DEF batch, Working, Persisting, Saving,
     Finishing, Exporting

(* FinishTask: the last record has been saved. *)
LEMMA FinishTaskKeeps ==
  ASSUME Inv, NEW p \in Procs, FinishTask(p)
  PROVE  Inv'
<1>0. /\ pc[p] = "save" /\ pc' = [pc EXCEPT ![p] = "finish"] /\ next[p] > Len(Content[doing[p]])
      /\ task' = [task EXCEPT ![doing[p]] = "succeeded"]
      /\ UNCHANGED <<folder, stored, metadata, saved, job, failures, exported, receipt, doing,
                     next, broken, previous, groups, digest, began, finished, edited, count>>
  BY DEF FinishTask, Goto, rows, artifacts, batch, Saved, Records
<1>1. /\ doing[p] \in stored /\ doing[p] \in Captures /\ doing[p] \in Captures \cup {None}
      /\ pc'[p] = "finish"
  BY <1>0 DEF Inv, Typed, Hand, Working, Persisting, Saving, Finishing, Exporting
<1>2. Typed'
  BY <1>0, <1>1 DEF Inv, Typed, Steps, Batching, Working, Persisting, Saving, Finishing,
     Exporting
<1>3. Grows
  BY <1>0, <1>1, SavedTimes DEF Grows, Inv, Typed
<1>4. Hand(p)'
  <2>1. Holds(doing[p])
    <3>1. Content[doing[p]] \in Seq([entity : Entities, time : Nat])
      BY <1>1, FixtureAssumption
    <3>2. \A k \in DOMAIN Content[doing[p]] : k < next[p]
      BY <1>0, <3>1 DEF Inv, Typed
    <3> QED
      BY <1>0, <3>2 DEF Inv, Hand, Holds, Working, Persisting, Saving, Finishing, Exporting
  <2> QED
    BY <1>0, <1>1, <2>1 DEF Inv, Typed, Hand, Holds, Batching, Working, Persisting, Saving,
       Finishing, Exporting
<1>5. Closes /\ Others(p)
  BY <1>0, <1>1 DEF Closes, Others, Inv, Typed
<1> QED
  BY <1>0, <1>1, <1>2, <1>3, <1>4, <1>5, GoesOn DEF batch, Working, Persisting, Saving,
     Finishing, Exporting

(* CreateJob: a missing job is created. *)
LEMMA CreateJobKeeps ==
  ASSUME Inv, NEW p \in Procs, CreateJob(p)
  PROVE  Inv'
<1>0. /\ pc[p] = "job" /\ pc' = [pc EXCEPT ![p] = (IF job'[doing[p]] = "planned" THEN "start" ELSE "task")]
      /\ job' = [job EXCEPT ![doing[p]] = IF @ = "none" THEN "planned" ELSE @]
      /\ UNCHANGED <<folder, stored, metadata, saved, task, failures, exported, receipt, doing,
                     next, broken, previous, groups, digest, began, finished, edited, count>>
  BY DEF CreateJob, Goto, rows, artifacts, batch
<1>1. /\ doing[p] \in stored /\ doing[p] \in Captures /\ doing[p] \in Captures \cup {None}
      /\ pc'[p] = (IF job'[doing[p]] = "planned" THEN "start" ELSE "task")
  BY <1>0 DEF Inv, Typed, Hand, Working, Persisting, Saving, Finishing, Exporting
<1>2. Typed'
  BY <1>0, <1>1 DEF Inv, Typed, Steps, Batching, Working, Persisting, Saving, Finishing,
     Exporting, JobStates
<1>3. Grows
  BY <1>0, <1>1, SavedTimes DEF Grows, Inv, Typed
<1>4. Hand(p)'
  <2>1. /\ job'[doing[p]] = "planned" => pc'[p] = "start"
        /\ job'[doing[p]] # "planned" => pc'[p] = "task"
        /\ job'[doing[p]] \in {"planned", "running", "succeeded", "failed"}
    BY <1>0, <1>1 DEF Inv, Typed, JobStates
  <2> QED
    BY <1>0, <1>1, <2>1 DEF Inv, Hand, Batching, Working, Persisting, Saving, Finishing,
       Exporting
<1>5. Closes /\ Others(p)
  BY <1>0, <1>1 DEF Closes, Closed, Others, Inv, Typed
<1> QED
  BY <1>0, <1>1, <1>2, <1>3, <1>4, <1>5, GoesOn DEF batch, Working, Persisting, Saving,
     Finishing, Exporting

(* Counting keeps the counters, and the runs but for a run. *)
LEMMA CountFacts ==
  ASSUME Typed, NEW what \in {"runs", "replays", "edits", "deaths"}, Count(what),
         what = "runs" => count.runs < MaxRuns
  PROVE  /\ count' \in [runs : 0..MaxRuns, replays : Nat, edits : Nat, deaths : Nat]
         /\ count'.runs = IF what = "runs" THEN count.runs + 1 ELSE count.runs
<1>1. /\ count \in [runs : 0..MaxRuns, replays : Nat, edits : Nat, deaths : Nat]
      /\ count' = [count EXCEPT ![what] = @ + 1] /\ MaxRuns \in Nat
  BY FixtureAssumption DEF Typed, Count
<1>2. CASE what = "runs"
  BY <1>1, <1>2
<1>3. CASE what = "replays"
  BY <1>1, <1>3
<1>4. CASE what = "edits"
  BY <1>1, <1>4
<1>5. CASE what = "deaths"
  BY <1>1, <1>5
<1> QED
  BY <1>2, <1>3, <1>4, <1>5

(* Save: the record replaces an older one of its entity. *)
LEMMA SaveKeeps ==
  ASSUME Inv, NEW p \in Procs, Save(p)
  PROVE  Inv'
<1> DEFINE records == Content[doing[p]]
           record == records[next[p]]
<1>0. /\ pc[p] = "save" /\ next[p] <= Len(records)
      /\ record.time > saved[record.entity].time
           \/ (record.time = saved[record.entity].time /\ saved[record.entity].by = doing[p])
      /\ saved' = [saved EXCEPT ![record.entity] = [time |-> record.time, by |-> doing[p]]]
      /\ next' = [next EXCEPT ![p] = @ + 1]
      /\ UNCHANGED <<folder, stored, metadata, job, task, failures, exported, receipt,
                     pc, doing, broken, previous, groups, digest, began, finished, edited, count>>
  BY DEF Save, Record, Records, Acceptable, artifacts, batch
<1>1. /\ doing[p] \in stored /\ doing[p] \in Captures /\ next[p] \in DOMAIN records
      /\ next[p] \in Nat \ {0} /\ next'[p] = next[p] + 1
  <2>1. doing[p] \in Captures /\ doing[p] \in stored /\ next[p] \in Nat \ {0}
    BY <1>0 DEF Inv, Typed, Hand, Working, Persisting, Saving, Finishing, Exporting
  <2>2. records \in Seq([entity : Entities, time : Nat])
    BY <2>1, FixtureAssumption
  <2>3. next \in [Procs -> Nat \ {0}] /\ next' = [next EXCEPT ![p] = @ + 1]
    BY <1>0 DEF Inv, Typed
  <2>4. next'[p] = next[p] + 1
    BY <2>3
  <2>5. next[p] <= Len(records)
    BY <1>0
  <2>6. next[p] \in DOMAIN records
    <3> HIDE DEF records
    <3> QED
      BY <2>1, <2>2, <2>5
  <2> QED
    BY <2>1, <2>4, <2>6
<1>2. record.entity \in Entities /\ record.time \in Nat
  BY <1>1, ContentFacts
<1>3. saved'[record.entity].time = record.time
  BY <1>0, <1>2 DEF Inv, Typed
<1>4. Typed'
  <2>1. saved' \in [Entities -> [time : Nat, by : Captures] \cup {NoRow}]
    <3>1. [time |-> record.time, by |-> doing[p]] \in [time : Nat, by : Captures]
      BY <1>1, <1>2
    <3> HIDE DEF record
    <3> QED
      BY <1>0, <1>2, <3>1 DEF Inv, Typed
  <2>2. next' \in [Procs -> Nat \ {0}]
    <3>1. next \in [Procs -> Nat \ {0}] /\ next' = [next EXCEPT ![p] = @ + 1]
      BY <1>0 DEF Inv, Typed
    <3> QED
      BY <1>1, <3>1
  <2> QED
    BY <1>0, <2>1, <2>2 DEF Inv, Typed
<1>5. \A e \in Entities : saved'[e].time >= saved[e].time
  <2> SUFFICES ASSUME NEW e \in Entities PROVE saved'[e].time >= saved[e].time
    OBVIOUS
  <2>1. saved[e].time \in Int
    BY SavedTimes DEF Inv
  <2>2. CASE e = record.entity
    <3> HIDE DEF record
    <3>1. record.time >= saved[e].time
      BY <1>0, <1>2, <2>1, <2>2
    <3> QED
      BY <1>3, <2>2, <3>1
  <2>3. CASE e # record.entity
    <3>1. saved \in [Entities -> [time : Nat, by : Captures] \cup {NoRow}]
      BY DEF Inv, Typed
    <3> HIDE DEF record
    <3>2. saved'[e] = saved[e]
      BY <1>0, <2>3, <3>1
    <3> QED
      BY <2>1, <3>2
  <2> QED
    BY <2>2, <2>3
<1>6. Grows
  BY <1>0, <1>5 DEF Grows
<1>7. ASSUME NEW k \in DOMAIN records, k < next'[p]
      PROVE  saved'[records[k].entity].time >= records[k].time
  <2>1. records[k].entity \in Entities /\ records[k].time \in Nat
    BY <1>1, ContentFacts
  <2>2. CASE k = next[p]
    BY <1>2, <1>3, <2>2
  <2>3. CASE k < next[p]
    <3>1. saved[records[k].entity].time >= records[k].time
      BY <1>0, <2>3 DEF Inv, Hand
    <3>2. /\ saved[records[k].entity].time \in Int /\ saved'[records[k].entity].time \in Int
          /\ saved'[records[k].entity].time >= saved[records[k].entity].time
      BY <1>4, <1>5, <2>1, SavedTimes, SavedTimesNext DEF Inv
    <3> QED
      BY <2>1, <3>1, <3>2
  <2>4. k \in Int
    <3>1. records \in Seq([entity : Entities, time : Nat])
      BY <1>1, FixtureAssumption
    <3> QED
      BY <3>1
  <2> QED
    BY <1>1, <1>7, <2>2, <2>3, <2>4
<1>8. Hand(p)'
  BY <1>0, <1>1, <1>7 DEF Inv, Hand, Working, Persisting, Saving, Finishing, Exporting, Batching
<1>9. Closes /\ Others(p)
  BY <1>0, <1>1 DEF Closes, Others, Inv, Typed
<1> QED
  BY <1>0, <1>1, <1>4, <1>6, <1>8, <1>9, GoesOn
     DEF batch, Working, Persisting, Saving, Finishing, Exporting

(* SaveFails: a refused record, or a database error, is to be marked. *)
LEMMA SaveFailsKeeps ==
  ASSUME Inv, NEW p \in Procs, SaveFails(p)
  PROVE  Inv'
<1>0. /\ pc[p] = "save" /\ pc' = [pc EXCEPT ![p] = "mark"]
      /\ broken' \in {broken, [broken EXCEPT ![p] = TRUE]}
      /\ UNCHANGED <<folder, stored, metadata, saved, job, task, failures, exported, receipt,
                     doing, next, previous, groups, digest, began, finished, edited>>
  BY DEF SaveFails, Goto, rows, artifacts, batch
<1>1. count' \in [runs : 0..MaxRuns, replays : Nat, edits : Nat, deaths : Nat]
      /\ count'.runs = count.runs
  BY CountFacts DEF SaveFails, Inv, Typed
<1>2. Typed'
  BY <1>0, <1>1 DEF Inv, Typed, Steps, Working, Persisting, Saving
<1>3. Grows
  BY <1>0, Untouched DEF Inv
<1>4. pc'[p] = "mark"
  BY <1>0 DEF Inv, Typed
<1>5. Hand(p)'
  BY <1>0, <1>4 DEF Inv, Hand, Working, Persisting, Saving, Finishing, Exporting, Batching
<1>6. Closes /\ Others(p)
  BY <1>0 DEF Closes, Others, Inv, Typed
<1> QED
  BY <1>0, <1>1, <1>2, <1>3, <1>4, <1>5, <1>6, GoesOn
     DEF batch, Working, Persisting, Saving, Finishing, Exporting

(* A transition that was due: the job has its next state. *)
LEMMA TransitionFacts ==
  ASSUME Inv, NEW p \in Procs, NEW step, NEW from, NEW to, NEW then \in Steps,
         Transition(p, step, from, to, then), job[doing[p]] = from
  PROVE  /\ pc[p] = step /\ pc' = [pc EXCEPT ![p] = then]
         /\ job' = [job EXCEPT ![doing[p]] = to]
         /\ UNCHANGED <<folder, stored, metadata, saved, task, failures, exported, receipt,
                        doing,
                        next, broken, previous, groups, digest, began, finished, edited, count>>
BY DEF Transition, Goto, artifacts, batch

(* Another process made it first: the run has failed, the job is as it was. *)
LEMMA TransitionRefused ==
  ASSUME Inv, NEW p \in Procs, NEW step, NEW from, NEW to, NEW then, pc[p] \in Working,
         Transition(p, step, from, to, then), job[doing[p]] # from
  PROVE  Inv'
<1>1. /\ Returns(p, "failed")
      /\ UNCHANGED <<folder, stored, metadata, saved, job, task, failures, exported, receipt,
                     edited, count>>
  BY DEF Transition, artifacts
<1>2. Typed'
  BY <1>1, ReturnFacts DEF Inv, Typed
<1>3. Grows /\ Closes
  BY <1>1, Untouched DEF Inv, Closes
<1> QED
  BY <1>1, <1>2, <1>3, ReturnsInv

(* StartJob: a planned job runs. *)
LEMMA StartJobKeeps ==
  ASSUME Inv, NEW p \in Procs, StartJob(p)
  PROVE  Inv'
<1>0. pc[p] = "start" /\ pc[p] \in Working
  BY DEF StartJob, Transition, Working, Persisting
<1>1. CASE job[doing[p]] = "planned"
  <2>0. /\ pc' = [pc EXCEPT ![p] = "task"] /\ job' = [job EXCEPT ![doing[p]] = "running"]
        /\ UNCHANGED <<folder, stored, metadata, saved, task, failures, exported, receipt,
                       doing,
                       next, broken, previous, groups, digest, began, finished, edited, count>>
    BY <1>1, TransitionFacts DEF StartJob, Steps, Working, Persisting
  <2>1. doing[p] \in Captures /\ doing[p] \in stored
    BY <1>0 DEF Inv, Typed, Hand
  <2>2. Typed'
    BY <2>0, <2>1 DEF Inv, Typed, JobStates, Steps, Working, Persisting
  <2>3. Grows
    BY <1>1, <2>0, <2>1, SavedTimes DEF Inv, Typed, Grows
  <2>4. pc'[p] = "task" /\ job'[doing[p]] = "running"
    BY <2>0, <2>1 DEF Inv, Typed
  <2>5. Hand(p)'
    BY <1>0, <2>0, <2>4 DEF Inv, Hand, Working, Persisting, Saving, Finishing, Exporting,
       Batching
  <2>6. Closes /\ Others(p)
    BY <2>0, <2>1 DEF Closes, Closed, Others, Inv, Typed
  <2> QED
    BY <1>0, <2>0, <2>2, <2>3, <2>4, <2>5, <2>6, GoesOn DEF batch, Working, Persisting
<1>2. CASE job[doing[p]] # "planned"
  BY <1>0, <1>2, TransitionRefused DEF StartJob
<1> QED
  BY <1>1, <1>2

(* CloseJob: a job that runs has succeeded, with its records. *)
LEMMA CloseJobKeeps ==
  ASSUME Inv, NEW p \in Procs, CloseJob(p)
  PROVE  Inv'
<1>0. pc[p] = "close" /\ pc[p] \in Working
  BY DEF CloseJob, Transition, Working, Persisting, Saving, Finishing
<1>1. CASE job[doing[p]] = "running"
  <2>0. /\ pc' = [pc EXCEPT ![p] = "export"] /\ job' = [job EXCEPT ![doing[p]] = "succeeded"]
        /\ UNCHANGED <<folder, stored, metadata, saved, task, failures, exported, receipt,
                       doing,
                       next, broken, previous, groups, digest, began, finished, edited, count>>
    BY <1>1, TransitionFacts
       DEF CloseJob, Steps, Working, Persisting, Saving, Finishing, Exporting
  <2>1. /\ doing[p] \in Captures /\ doing[p] \in stored /\ Holds(doing[p])
    BY <1>0 DEF Inv, Typed, Hand, Finishing
  <2>2. Typed'
    BY <2>0, <2>1 DEF Inv, Typed, JobStates, Steps, Working, Persisting, Saving, Finishing,
                      Exporting
  <2>3. Grows
    BY <1>1, <2>0, <2>1, SavedTimes DEF Inv, Typed, Grows
  <2>4. pc'[p] = "export" /\ job'[doing[p]] = "succeeded"
    BY <2>0, <2>1 DEF Inv, Typed
  <2>5. Hand(p)'
    BY <1>0, <2>0, <2>1, <2>4
       DEF Inv, Hand, Holds, Working, Persisting, Saving, Finishing, Exporting, Batching
  <2>6. Closes /\ Others(p)
    BY <2>0, <2>1 DEF Closes, Closed, Holds, Others, Inv, Typed
  <2> QED
    BY <1>0, <2>0, <2>2, <2>3, <2>4, <2>5, <2>6, GoesOn
       DEF batch, Working, Persisting, Saving, Finishing, Exporting
<1>2. CASE job[doing[p]] # "running"
  BY <1>0, <1>2, TransitionRefused DEF CloseJob
<1> QED
  BY <1>1, <1>2

(* FailJob: a job that runs has failed, with its failure. *)
LEMMA FailJobKeeps ==
  ASSUME Inv, NEW p \in Procs, FailJob(p)
  PROVE  Inv'
<1>0. /\ pc[p] = "fail" /\ pc[p] \in Working
      /\ job' = [job EXCEPT ![doing[p]] = IF @ = "running" THEN "failed" ELSE @]
      /\ UNCHANGED <<folder, stored, metadata, saved, task, failures, exported, receipt,
                     edited, count>>
  BY DEF FailJob, artifacts, Working, Persisting, Saving
<1>1. doing[p] \in Captures /\ doing[p] \in failures
  BY <1>0 DEF Inv, Typed, Hand
<1>2. job' \in [Captures -> JobStates]
  BY <1>0, <1>1 DEF Inv, Typed, JobStates
<1>3. Grows
  BY <1>0, <1>1, SavedTimes DEF Inv, Typed, Grows
<1>4. Closes
  BY <1>0, <1>1 DEF Closes, Closed, Inv, Typed
<1>5. CASE broken[p]
  <2>1. Leaves(p) /\ UNCHANGED <<began, finished>>
    BY <1>5 DEF FailJob
  <2>2. Typed'
    BY <1>0, <1>2, <2>1, LeaveFacts DEF Inv, Typed
  <2> QED
    BY <1>0, <1>3, <1>4, <2>1, <2>2, LeavesInv
<1>6. CASE ~broken[p]
  <2>1. Returns(p, "failed")
    BY <1>6 DEF FailJob
  <2>2. Typed'
    BY <1>0, <1>2, <2>1, ReturnFacts DEF Inv, Typed
  <2> QED
    BY <1>0, <1>3, <1>4, <2>1, <2>2, ReturnsInv
<1> QED
  BY <1>5, <1>6

(* ParseFails: a file without records fails before any row. *)
LEMMA ParseFailsKeeps ==
  ASSUME Inv, NEW p \in Procs, ParseFails(p)
  PROVE  Inv'
<1>1. /\ Returns(p, "failed") /\ pc[p] \in Working
      /\ UNCHANGED <<folder, stored, metadata, saved, job, task, failures, exported, receipt,
                     edited, count>>
  BY DEF ParseFails, rows, artifacts, Working
<1>2. Typed'
  BY <1>1, ReturnFacts DEF Inv, Typed
<1>3. Grows /\ Closes
  BY <1>1, Untouched DEF Inv, Closes
<1> QED
  BY <1>1, <1>2, <1>3, ReturnsInv

(* EndExport: the run has succeeded, and everything is there. *)
LEMMA EndExportKeeps ==
  ASSUME Inv, NEW p \in Procs, EndExport(p)
  PROVE  Inv'
<1>0. /\ Returns(p, "succeeded") /\ pc[p] = "exporting" /\ pc[p] \in Working
      /\ UNCHANGED <<folder, stored, metadata, saved, job, task, failures, receipt,
                     edited, count>>
  BY DEF EndExport, rows, Working, Persisting, Saving, Finishing, Exporting
<1>1. /\ doing[p] \in Captures /\ Holds(doing[p]) /\ job[doing[p]] \in {"succeeded", "failed"}
  BY <1>0 DEF Inv, Typed, Hand, Finishing, Exporting
<1>2. PICK left \in {"torn", "whole"} : exported' = [exported EXCEPT ![doing[p]] = left]
  BY DEF EndExport
<1>3. Typed'
  <2>1. exported' \in [Captures -> {"none", "torn", "whole"}]
    BY <1>1, <1>2 DEF Inv, Typed
  <2> QED
    BY <1>0, <2>1, ReturnFacts DEF Inv, Typed
<1>4. Grows /\ Closes
  BY <1>0, <1>1, <1>2, SavedTimes DEF Inv, Typed, Grows, Closes
<1>5. \A f \in Captures : f = doing[p] => Backed(f)'
  BY <1>0, <1>1, <1>2 DEF Backed, Holds, Inv, Typed
<1> QED
  BY <1>0, <1>3, <1>4, <1>5, ReturnsInv

(* ExportFails: the run has failed, and what it wrote is left. *)
LEMMA ExportFailsKeeps ==
  ASSUME Inv, NEW p \in Procs, ExportFails(p)
  PROVE  Inv'
<1>1. /\ Returns(p, "failed") /\ pc[p] \in Working
      /\ UNCHANGED <<folder, stored, metadata, saved, job, task, failures, exported, receipt,
                     edited>>
  BY DEF ExportFails, rows, Working, Persisting, Saving, Finishing, Exporting
<1>2. count' \in [runs : 0..MaxRuns, replays : Nat, edits : Nat, deaths : Nat]
      /\ count'.runs = count.runs
  BY CountFacts DEF ExportFails, Inv
<1>3. Typed'
  BY <1>1, <1>2, ReturnFacts DEF Inv, Typed
<1>4. Grows /\ Closes
  BY <1>1, Untouched DEF Inv, Closes
<1> QED
  BY <1>1, <1>2, <1>3, <1>4, ReturnsInv

(* Die: the process is gone. *)
LEMMA DieKeeps ==
  ASSUME Inv, NEW p \in Procs, Die(p)
  PROVE  Inv'
<1>1. /\ Leaves(p) /\ pc[p] # "idle"
      /\ UNCHANGED <<folder, stored, metadata, saved, job, task, failures, exported, receipt,
                     began, finished, edited>>
  BY DEF Die, rows
<1>2. count' \in [runs : 0..MaxRuns, replays : Nat, edits : Nat, deaths : Nat]
      /\ count'.runs = count.runs
  BY CountFacts DEF Die, Inv
<1>3. Typed'
  BY <1>1, <1>2, LeaveFacts DEF Inv, Typed
<1>4. Grows /\ Closes
  BY <1>1, Untouched DEF Inv, Closes
<1> QED
  BY <1>1, <1>2, <1>3, <1>4, LeavesInv

(***************************************************************************)
(* The steps of the batch, of a replay that begins, and of the operator.   *)
(***************************************************************************)

(* StartReplay: a replay takes a stored capture in hand. *)
LEMMA StartReplayKeeps ==
  ASSUME Inv, NEW p \in Replayers, NEW f \in Captures, StartReplay(p, f)
  PROVE  Inv'
<1>0. /\ p \in Procs /\ p # Batcher /\ pc[p] = "idle" /\ f \in metadata \cap stored
      /\ doing' = [doing EXCEPT ![p] = f] /\ pc' = [pc EXCEPT ![p] = "parse"]
      /\ UNCHANGED <<folder, stored, metadata, saved, job, task, failures, exported, receipt,
                     next, broken, previous, groups, digest, began, finished, edited>>
  BY FixtureAssumption DEF StartReplay, Goto, rows, artifacts, batch, Procs
<1>1. count' \in [runs : 0..MaxRuns, replays : Nat, edits : Nat, deaths : Nat]
      /\ count'.runs = count.runs
  BY CountFacts DEF StartReplay, Inv
<1>2. Typed'
  BY <1>0, <1>1 DEF Inv, Typed, Steps, Working
<1>3. Grows /\ Closes
  BY <1>0, Untouched DEF Inv, Closes
<1>4. pc'[p] = "parse" /\ doing'[p] = f /\ Others(p)
  BY <1>0 DEF Others, Inv, Typed
<1>5. Hand(p)'
  BY <1>0, <1>4 DEF Inv, Hand, Working, Persisting, Saving, Finishing, Exporting, Batching
<1>6. Within
  BY <1>0, <1>1, <1>4 DEF Within, Others, Procs, batch
<1> QED
  BY <1>0, <1>2, <1>3, <1>4, <1>5, <1>6, WithinKeeps, StepKeeps

(* ReadFixture: the bytes are stored, and are those of the digest if no file changed. *)
LEMMA ReadFixtureKeeps ==
  ASSUME Inv, ReadFixture
  PROVE  Inv'
<1>0. /\ Batcher \in Procs /\ pc[Batcher] = "read" /\ pc' = [pc EXCEPT ![Batcher] = "parse"]
      /\ doing' = [doing EXCEPT ![Batcher] = folder[File]]
      /\ stored' = stored \cup {folder[File]}
      /\ UNCHANGED <<folder, metadata, saved, job, task, failures, exported, receipt, next,
                     broken, previous, groups, digest, began, finished, edited, count>>
  BY DEF ReadFixture, Goto, rows, batch, Procs
<1>1. File \in Names /\ folder[File] \in Captures
  <2>1. Len(groups) \in Nat /\ Len(groups) < Files /\ Files \in Nat
    BY <1>0, FixtureAssumption DEF Inv, Typed, Collected
  <2>2. File \in Names
    BY <2>1 DEF File, Names
  <2> QED
    BY <2>2 DEF Inv, Typed
<1>2. Typed'
  BY <1>0, <1>1 DEF Inv, Typed, Steps, Working
<1>3. Grows /\ Closes
  BY <1>0, SavedTimes DEF Inv, Typed, Grows, Closes
<1>4. pc'[Batcher] = "parse" /\ doing'[Batcher] = folder[File] /\ Others(Batcher)
  BY <1>0 DEF Others, Inv, Typed
<1>5. Hand(Batcher)'
  BY <1>0, <1>4 DEF Inv, Hand, Working, Persisting, Saving, Finishing, Exporting, Batching
<1>6. Running /\ Running'
  BY <1>0, <1>4 DEF Running
<1>7. Collected'
  <2>1. \A f \in Captures : Backed(f) => Backed(f)'
    BY <1>2, <1>3, BackedStays DEF Inv
  <2> QED
    BY <1>0, <1>4, <1>6, <2>1 DEF Inv, Collected, Sound, Backed
<1>8. Covering'
  BY <1>0, <1>4, <1>6 DEF Inv, Covering, Steady, Exact, FinishedCovers, File
<1> QED
  BY <1>0, <1>2, <1>3, <1>4, <1>5, <1>7, <1>8, StepKeeps

(* A step of the batch alone leaves the rows, the exports and the capture in hand. *)
BatchOnly(step) ==
  /\ pc' = [pc EXCEPT ![Batcher] = step]
  /\ UNCHANGED <<folder, stored, metadata, saved, job, task, failures, exported, doing, next,
                 broken>>

(* Such a step is about what the batch knows. *)
LEMMA BatchKeeps ==
  ASSUME Inv, Typed', pc[Batcher] \notin Working,
         NEW step \in Batching, BatchOnly(step),
         (\A f \in Captures : Backed(f) => Backed(f)') => Collected' /\ Covering'
  PROVE  Inv'
<1>1. Batcher \in Procs /\ pc'[Batcher] = step /\ Others(Batcher)
  BY DEF Procs, BatchOnly, Others, Inv, Typed
<1>2. Grows /\ Closes
  BY Untouched DEF BatchOnly, Inv, Closes
<1>3. Hand(Batcher)'
  BY <1>1 DEF Inv, Hand, BatchOnly, Working, Persisting, Saving, Finishing, Exporting, Batching
<1>4. \A f \in Captures : Backed(f) => Backed(f)'
  BY <1>2, BackedStays DEF Inv
<1> QED
  BY <1>1, <1>2, <1>3, <1>4, StepKeeps

(* StartBatch: a batch begins with the results of a receipt, or with none. *)
LEMMA StartBatchKeeps ==
  ASSUME Inv, NEW resume \in BOOLEAN, StartBatch(resume)
  PROVE  Inv'
<1>0. /\ pc[Batcher] = "idle" /\ count.runs < MaxRuns /\ (resume => receipt # Torn)
      /\ previous' = (IF resume /\ receipt # None THEN receipt.groups ELSE <<>>)
      /\ began' = folder /\ finished' = FALSE
      /\ edited' = (resume /\ receipt # None /\ receipt.edited)
      /\ BatchOnly("file")
      /\ UNCHANGED <<receipt, groups, digest>>
  BY DEF StartBatch, Running, Goto, rows, artifacts, BatchOnly
<1>1. count' \in [runs : 0..MaxRuns, replays : Nat, edits : Nat, deaths : Nat]
      /\ count'.runs = count.runs + 1 /\ count.runs \in Nat
  BY CountFacts DEF StartBatch, Inv, Typed
<1>2. groups = <<>>
  BY <1>0 DEF Inv, Collected, Running
<1>3. resume /\ receipt # None => receipt \in Receipts
  BY <1>0 DEF Inv, Typed
<1>4. previous' \in Seq(Results) /\ edited' \in BOOLEAN
  BY <1>0, <1>3 DEF Receipts
<1>5. Typed'
  BY <1>0, <1>1, <1>4 DEF Inv, Typed, BatchOnly, Steps, Batching
<1>6. pc'[Batcher] = "file" /\ Running'
  BY <1>0 DEF Inv, Typed, BatchOnly, Running, Procs
<1>7. ASSUME \A f \in Captures : Backed(f) => Backed(f)' PROVE Collected'
  <2>1. receipt' \notin {None, Torn} => Sound(receipt.groups, count.runs)'
    <3>1. ASSUME receipt \notin {None, Torn}
          PROVE  /\ Len(receipt.groups) <= Files
                 /\ \A n \in DOMAIN receipt.groups : receipt.groups[n].attempts \in Int
      <4>1. receipt.groups \in Seq(Results)
        BY <3>1 DEF Inv, Typed, Receipts
      <4>2. \A n \in DOMAIN receipt.groups : receipt.groups[n] \in Results
        BY <4>1
      <4> QED
        BY <3>1, <4>2 DEF Results, Inv, Collected, Sound
    <3> QED
      BY <1>0, <1>1, <1>7, <3>1 DEF Inv, Collected, Sound, Backed
  <2>2. Sound(previous, count.runs - 1)'
    <3>1. CASE resume /\ receipt # None
      <4>1. receipt \notin {None, Torn}
        BY <1>0, <3>1
      <4>2. Sound(receipt.groups, count.runs) /\ count'.runs - 1 = count.runs
        BY <1>1, <4>1 DEF Inv, Collected
      <4> QED
        BY <1>0, <1>7, <3>1, <4>2 DEF Sound, Backed
    <3>2. CASE ~(resume /\ receipt # None)
      BY <1>0, <3>2, FixtureAssumption DEF Sound
    <3> QED
      BY <3>1, <3>2
  <2>3. Sound(groups, count.runs)'
    BY <1>0, <1>2, FixtureAssumption DEF Sound
  <2> QED
    BY <1>1, <1>6, <2>1, <2>2, <2>3 DEF Collected, Working, Persisting, Saving, Finishing,
       Exporting
<1>8. Covering'
  <2>1. ASSUME ~edited' PROVE Exact(previous)'
    BY <1>0, <2>1 DEF Inv, Covering, Exact
  <2>2. ~edited' => Steady'
    BY <1>0, <1>2, <1>6, <2>1
       DEF Steady, Exact, BatchOnly, Working, Persisting, Saving, Finishing, Exporting
  <2> QED
    BY <1>0, <1>6, <2>2 DEF Inv, Covering, Exact, FinishedCovers
<1> QED
  BY <1>0, <1>5, <1>7, <1>8, BatchKeeps
     DEF Batching, Working, Persisting, Saving, Finishing, Exporting

(* Keep: a success of the same bytes is taken over. *)
LEMMA KeepKeeps ==
  ASSUME Inv, Keep
  PROVE  Inv'
<1>0. /\ pc[Batcher] = "file" /\ File <= Files
      /\ UNCHANGED <<folder, stored, metadata, saved, job, task, failures, exported, receipt,
                     pc,
                     doing, next, broken, previous, digest, began, finished, edited, count>>
  BY DEF Keep, rows, artifacts
<1>1. PICK k \in Kept : groups' = Append(groups, previous[k])
  BY DEF Keep
<1>2. /\ k \in DOMAIN previous /\ previous[k].name = File /\ previous[k].state = "succeeded"
      /\ previous[k].digest = folder[File]
  BY DEF Kept, Existing
<1>3. previous[k] \in Results
  BY <1>2, ElementOfSeq DEF Inv, Typed
<1>4. /\ groups' \in Seq(Results) /\ Len(groups') = Len(groups) + 1
      /\ \A n \in DOMAIN groups' :
           \/ n \in DOMAIN groups /\ groups'[n] = groups[n]
           \/ n = Len(groups) + 1 /\ groups'[n] = previous[k]
  BY <1>1, <1>3, AppendFacts DEF Inv
<1>5. Typed'
  BY <1>0, <1>4 DEF Inv, Typed
<1>6. BatchOnly("file") /\ Running /\ Running'
  BY <1>0 DEF BatchOnly, Inv, Typed, Running
<1>7. ASSUME \A f \in Captures : Backed(f) => Backed(f)' PROVE Collected'
  <2>1. Sound(groups, count.runs)'
    <3>1. Len(groups') <= Files
      BY <1>0, <1>4, FixtureAssumption DEF File
    <3>2. /\ previous[k].attempts <= count.runs - 1 /\ count.runs \in Nat
          /\ previous[k].attempts \in Int
          /\ previous[k].run \in Captures /\ Backed(previous[k].run)
      <4>1. /\ previous[k].attempts <= count.runs - 1
            /\ previous[k].run \in Captures /\ Backed(previous[k].run)
        BY <1>2 DEF Inv, Collected, Sound
      <4>2. previous[k].attempts \in Int
        BY <1>3 DEF Results
      <4> QED
        BY <4>1, <4>2, NumberFacts
    <3>3. ASSUME NEW n \in DOMAIN groups', groups'[n] = previous[k], n = Len(groups) + 1
          PROVE  /\ groups'[n].name = n /\ groups'[n].attempts <= count'.runs
                 /\ groups'[n].run \in Captures /\ Backed(groups[n].run)'
      BY <1>0, <1>2, <1>7, <3>2, <3>3 DEF Backed, File
    <3>4. ASSUME NEW n \in DOMAIN groups, groups'[n] = groups[n]
          PROVE  /\ groups'[n].name = n /\ groups'[n].attempts <= count'.runs
                 /\ groups'[n].state = "succeeded" =>
                      groups'[n].run \in Captures /\ Backed(groups[n].run)'
      BY <1>0, <1>7, <3>4 DEF Inv, Collected, Sound, Backed
    <3> QED
      BY <1>4, <3>1, <3>3, <3>4 DEF Sound
  <2>2. Sound(previous, count.runs - 1)'
    BY <1>0, <1>7 DEF Inv, Collected, Sound, Backed
  <2>3. receipt' \notin {None, Torn} => Sound(receipt.groups, count.runs)'
    BY <1>0, <1>7 DEF Inv, Collected, Sound, Backed
  <2> QED
    BY <1>0, <1>6, <2>1, <2>2, <2>3
       DEF Inv, Collected, Working, Persisting, Saving, Finishing, Exporting
<1>8. Covering'
  <2>1. ASSUME ~edited PROVE Steady'
    <3>1. Steady
      BY <1>6, <2>1 DEF Inv, Covering
    <3>2. previous[k].run = folder[File]
      BY <1>2, <3>1 DEF Steady, Exact
    <3> QED
      BY <1>0, <1>2, <1>4, <3>1, <3>2
         DEF Steady, Exact, File, Working, Persisting, Saving, Finishing, Exporting
  <2> QED
    BY <1>0, <1>6, <2>1 DEF Inv, Covering, Exact, FinishedCovers
<1> QED
  BY <1>0, <1>5, <1>6, <1>7, <1>8, BatchKeeps
     DEF Batching, Working, Persisting, Saving, Finishing, Exporting

(* Take: the digest of the file is taken. *)
LEMMA TakeKeeps ==
  ASSUME Inv, Take
  PROVE  Inv'
<1>0. /\ pc[Batcher] = "file" /\ File <= Files /\ digest' = folder[File]
      /\ BatchOnly("read")
      /\ UNCHANGED <<receipt, previous, groups, began, finished, edited, count>>
  BY DEF Take, Goto, rows, artifacts, BatchOnly
<1>1. /\ Len(groups) < Files /\ folder[File] \in Captures
  <2>2. File \in Names /\ Len(groups) < Files
    BY <1>0, NumberFacts DEF Names
  <2> QED
    BY <2>2 DEF Inv, Typed
<1>2. Typed'
  BY <1>0, <1>1 DEF Inv, Typed, BatchOnly, Steps, Batching
<1>3. pc'[Batcher] = "read" /\ Running /\ Running'
  BY <1>0 DEF Inv, Typed, BatchOnly, Running, Procs
<1>4. ASSUME \A f \in Captures : Backed(f) => Backed(f)' PROVE Collected'
  BY <1>0, <1>1, <1>3, <1>4 DEF Inv, Collected, Sound, Backed
<1>5. Covering'
  BY <1>0, <1>3 DEF Inv, Covering, Steady, Exact, FinishedCovers, File, BatchOnly, Working,
                    Persisting, Saving, Finishing, Exporting
<1> QED
  BY <1>0, <1>2, <1>4, <1>5, BatchKeeps
     DEF Batching, Working, Persisting, Saving, Finishing, Exporting

(* Truncate: the receipt is opened for writing; it reports nothing. *)
LEMMA TruncateKeeps ==
  ASSUME Inv, Truncate
  PROVE  Inv'
<1>0. PICK step \in {"write", "final"} :
        /\ \/ pc[Batcher] = "progress" /\ step = "write"
           \/ pc[Batcher] = "file" /\ File > Files /\ step = "final"
        /\ receipt' = Torn /\ BatchOnly(step)
        /\ UNCHANGED <<previous, groups, digest, began, finished, edited, count>>
  BY DEF Truncate, Goto, rows, batch, BatchOnly
<1>1. Typed'
  BY <1>0 DEF Inv, Typed, BatchOnly, Steps, Batching
<1>2. pc'[Batcher] = step /\ Running /\ Running'
  BY <1>0 DEF Inv, Typed, BatchOnly, Running, Procs
<1>3. step = "final" => Len(groups) = Files
  BY <1>0, NumberFacts
<1>4. ASSUME \A f \in Captures : Backed(f) => Backed(f)' PROVE Collected'
  BY <1>0, <1>2, <1>3, <1>4
     DEF Inv, Collected, Sound, Backed, Working, Persisting, Saving, Finishing, Exporting
<1>5. Covering'
  BY <1>0, <1>2 DEF Inv, Covering, Steady, Exact, FinishedCovers, BatchOnly, Working,
                    Persisting, Saving, Finishing, Exporting
<1> QED
  BY <1>0, <1>1, <1>4, <1>5, BatchKeeps
     DEF Batching, Working, Persisting, Saving, Finishing, Exporting

(* What is written is what the batch knows. *)
LEMMA WriteFacts ==
  ASSUME Inv, Running, NEW state \in {"running", "completed"},
         receipt' = [state |-> state, groups |-> groups, edited |-> edited]
  PROVE  /\ receipt' \in Receipts /\ receipt'.groups = groups /\ receipt'.edited = edited
         /\ receipt'.state = state
         /\ ~receipt'.edited => Exact(receipt'.groups) /\ Steady
BY DEF Inv, Typed, Receipts, Covering, Steady

(* WriteProgress: the receipt has the results so far. *)
LEMMA WriteProgressKeeps ==
  ASSUME Inv, WriteProgress
  PROVE  Inv'
<1>0. /\ pc[Batcher] = "write" /\ BatchOnly("file")
      /\ receipt' = [state |-> "running", groups |-> groups, edited |-> edited]
      /\ UNCHANGED <<previous, groups, digest, began, finished, edited, count>>
  BY DEF WriteProgress, Goto, rows, batch, BatchOnly
<1>1. pc'[Batcher] = "file" /\ Running /\ Running'
  BY <1>0 DEF Inv, Typed, BatchOnly, Running, Procs
<1>2. /\ receipt' \in Receipts /\ receipt'.groups = groups /\ receipt'.edited = edited
      /\ ~receipt'.edited => Exact(receipt'.groups) /\ Steady
  BY <1>0, <1>1, WriteFacts
<1>3. Typed'
  BY <1>0, <1>2 DEF Inv, Typed, BatchOnly, Steps, Batching
<1>4. ASSUME \A f \in Captures : Backed(f) => Backed(f)' PROVE Collected'
  <2>1. Sound(groups, count.runs)' /\ Sound(receipt.groups, count.runs)'
    BY <1>0, <1>2, <1>4 DEF Inv, Collected, Sound, Backed
  <2>2. Sound(previous, count.runs - 1)'
    BY <1>0, <1>4 DEF Inv, Collected, Sound, Backed
  <2> QED
    BY <1>0, <1>1, <2>1, <2>2
       DEF Inv, Collected, Working, Persisting, Saving, Finishing, Exporting
<1>5. Covering'
  BY <1>0, <1>1, <1>2 DEF Inv, Covering, Steady, Exact, FinishedCovers, BatchOnly, Working,
                          Persisting, Saving, Finishing, Exporting
<1> QED
  BY <1>0, <1>3, <1>4, <1>5, BatchKeeps
     DEF Batching, Working, Persisting, Saving, Finishing, Exporting

(* WriteResult: the batch ends, with a result for every file of its directory. *)
LEMMA WriteResultKeeps ==
  ASSUME Inv, WriteResult
  PROVE  Inv'
<1>0. /\ Batcher \in Procs /\ pc[Batcher] = "final" /\ Leaves(Batcher) /\ finished' = ~edited
      /\ receipt' = [state |-> "completed", groups |-> groups, edited |-> edited]
      /\ UNCHANGED <<folder, stored, metadata, saved, job, task, failures, exported, began,
                     edited, count>>
  BY DEF WriteResult, rows, Procs
<1>1. Running /\ ~Running' /\ previous' = <<>> /\ groups' = <<>> /\ pc'[Batcher] = "idle"
  BY <1>0, LeaveFacts DEF Running, Leaves
<1>2. /\ receipt' \in Receipts /\ receipt'.groups = groups /\ receipt'.edited = edited
      /\ receipt'.state = "completed"
      /\ ~receipt'.edited => Exact(receipt'.groups) /\ Steady
  BY <1>0, <1>1, WriteFacts
<1>3. Typed'
  BY <1>0, <1>2, LeaveFacts DEF Inv, Typed
<1>4. Grows /\ Closes
  BY <1>0, Untouched DEF Inv, Closes
<1>5. Collected'
  <2>1. \A f \in Captures : Backed(f) => Backed(f)'
    BY <1>3, <1>4, BackedStays DEF Inv
  <2>2. Sound(receipt.groups, count.runs)'
    BY <1>0, <1>2, <2>1 DEF Inv, Collected, Sound, Backed
  <2>3. Sound(groups, count.runs)' /\ Sound(previous, count.runs - 1)'
    BY <1>1, FixtureAssumption DEF Sound
  <2> QED
    BY <1>0, <1>1, <2>2, <2>3 DEF Collected, Working, Persisting, Saving, Finishing, Exporting
<1>6. Covering'
  <2>1. ASSUME ~edited PROVE FinishedCovers'
    <3>1. Steady /\ Len(groups) = Files
      BY <1>0, <1>1, <2>1 DEF Inv, Covering, Collected
    <3>2. DOMAIN groups = Names
      BY <3>1 DEF Inv, Typed, Names
    <3>3. ASSUME NEW n \in Names
          PROVE  /\ groups[n].name = n /\ groups[n].digest = began[n]
                 /\ groups[n].state = "succeeded" => groups[n].run = began[n]
      BY <3>1, <3>2 DEF Inv, Collected, Sound, Steady, Exact
    <3> QED
      BY <1>0, <1>2, <3>1, <3>3 DEF FinishedCovers, Names
  <2>2. finished' => ~edited
    BY <1>0
  <2>3. FinishedCovers'
    BY <2>1, <2>2 DEF FinishedCovers
  <2> QED
    BY <1>0, <1>1, <1>2, <2>3 DEF Covering, Exact
<1> QED
  BY <1>0, <1>3, <1>4, <1>5, <1>6, LeaveFacts, StepKeeps

(* Edit: the operator changes a file, and a batch that runs is edited. *)
LEMMA EditKeeps ==
  ASSUME Inv, NEW n \in Names, NEW f \in Captures, Edit(n, f)
  PROVE  Inv'
<1>0. /\ Batcher \in Procs /\ folder' = [folder EXCEPT ![n] = f]
      /\ edited' = (edited \/ Running)
      /\ UNCHANGED <<stored, metadata, saved, job, task, failures, exported, receipt, pc, doing,
                     next, broken, previous, groups, digest, began, finished>>
  BY DEF Edit, rows, artifacts, batch, Procs
<1>1. count' \in [runs : 0..MaxRuns, replays : Nat, edits : Nat, deaths : Nat]
      /\ count'.runs = count.runs
  BY CountFacts DEF Edit, Inv
<1>2. Typed'
  BY <1>0, <1>1 DEF Inv, Typed, Running
<1>3. Grows /\ Closes
  BY <1>0, Untouched DEF Inv, Closes
<1>4. Others(Batcher) /\ Hand(Batcher)'
  BY <1>0, <1>2, <1>3, HandStays DEF Others, Inv
<1>5. Collected'
  <2>1. \A g \in Captures : Backed(g) => Backed(g)'
    BY <1>2, <1>3, BackedStays DEF Inv
  <2> QED
    BY <1>0, <1>1, <2>1 DEF Inv, Collected, Sound, Backed, Running
<1>6. Covering'
  BY <1>0 DEF Inv, Covering, Exact, FinishedCovers, Running
<1> QED
  BY <1>0, <1>2, <1>3, <1>4, <1>5, <1>6, StepKeeps

(***************************************************************************)
(* The invariant, and what it says.                                        *)
(***************************************************************************)

(* Nothing is known, and nothing reported, before the first run. *)
LEMMA InitHolds ==
  Init => Inv
<1> SUFFICES ASSUME Init PROVE Inv
  OBVIOUS
<1>1. Typed
  <2>1. count \in [runs : 0..MaxRuns, replays : Nat, edits : Nat, deaths : Nat]
    BY FixtureAssumption DEF Init
  <2>2. groups \in Seq(Results) /\ previous \in Seq(Results)
    BY DEF Init
  <2>3. /\ folder \in [Names -> Captures] /\ began \in [Names -> Captures]
        /\ stored \subseteq Captures /\ metadata \subseteq stored /\ failures \subseteq metadata
        /\ saved \in [Entities -> [time : Nat, by : Captures] \cup {NoRow}]
        /\ edited \in BOOLEAN /\ finished \in BOOLEAN /\ receipt \in Receipts \cup {None, Torn}
    BY DEF Init
  <2>4. /\ job \in [Captures -> JobStates]
        /\ task \in [Captures -> {"none", "running", "succeeded", "failed"}]
        /\ exported \in [Captures -> {"none", "torn", "whole"}]
    BY DEF Init, JobStates
  <2>5. /\ pc \in [Procs -> Steps] /\ doing \in [Procs -> Captures \cup {None}]
        /\ next \in [Procs -> Nat \ {0}] /\ broken \in [Procs -> BOOLEAN]
    BY DEF Init, Steps
  <2> QED
    BY <2>1, <2>2, <2>3, <2>4, <2>5 DEF Typed
<1>2. ASSUME NEW p \in Procs PROVE Hand(p)
  BY <1>2 DEF Init, Hand, Working, Persisting, Saving, Finishing, Exporting, Batching
<1>3. ASSUME NEW f \in Captures PROVE Closed(f)
  BY <1>3 DEF Init, Closed
<1>4. Collected
  <2>1. /\ groups = <<>> /\ previous = <<>> /\ receipt = None /\ pc[Batcher] = "idle"
        /\ count.runs = 0
    BY DEF Init, Procs
  <2> QED
    BY <2>1, FixtureAssumption
       DEF Collected, Sound, Running, Working, Persisting, Saving, Finishing, Exporting
<1>5. Covering
  BY DEF Init, Covering, FinishedCovers, Running, Procs
<1> QED
  BY <1>1, <1>2, <1>3, <1>4, <1>5 DEF Inv

(* A step that changes nothing keeps what is known. *)
LEMMA StutterKeeps ==
  ASSUME Inv, UNCHANGED vars
  PROVE  Inv'
<1>0. UNCHANGED <<folder, stored, metadata, saved, job, task, failures, exported, receipt, pc,
                  doing, next, broken, previous, groups, digest, began, finished, edited, count>>
  BY DEF vars, rows, artifacts, batch
<1>1. Typed'
  BY <1>0 DEF Inv, Typed
<1>2. Grows /\ Closes /\ Others(Batcher) /\ Within /\ Batcher \in Procs
  BY <1>0, Untouched DEF Inv, Closes, Others, Within, batch, Procs
<1>3. Hand(Batcher)'
  BY <1>0, <1>1, <1>2, HandStays DEF Inv
<1> QED
  BY <1>1, <1>2, <1>3, WithinKeeps, StepKeeps

(* Every step keeps the invariant. *)
LEMMA InvariantStep ==
  Inv /\ [Next]_vars => Inv'
<1> SUFFICES ASSUME Inv, [Next]_vars PROVE Inv'
  OBVIOUS
<1>1. CASE \/ \E resume \in BOOLEAN : StartBatch(resume)
           \/ Keep \/ Take \/ ReadFixture \/ Truncate \/ WriteProgress \/ WriteResult
  BY <1>1, StartBatchKeeps, KeepKeeps, TakeKeeps, ReadFixtureKeeps, TruncateKeeps,
     WriteProgressKeeps, WriteResultKeeps
<1>2. CASE \E p \in Replayers, f \in Captures : StartReplay(p, f)
  BY <1>2, StartReplayKeeps
<1>3. ASSUME NEW p \in Procs, Persist(p) PROVE Inv'
  BY <1>3, AddMetadataKeeps, CreateJobKeeps, StartJobKeeps, InsertTaskKeeps, SaveKeeps,
     SaveFailsKeeps, MarkFailedKeeps, FailJobKeeps, FinishTaskKeeps, CheckJobKeeps, CloseJobKeeps
     DEF Persist
<1>4. ASSUME NEW p \in Procs,
             \/ Parse(p) \/ ParseFails(p)
             \/ BeginExport(p) \/ EndExport(p) \/ ExportFails(p) \/ Die(p)
      PROVE  Inv'
  BY <1>4, ParseKeeps, ParseFailsKeeps, BeginExportKeeps, EndExportKeeps, ExportFailsKeeps,
     DieKeeps
<1>5. CASE \E n \in Names, f \in Captures : Edit(n, f)
  BY <1>5, EditKeeps
<1>6. CASE UNCHANGED vars
  BY <1>6, StutterKeeps
<1> QED
  BY <1>1, <1>2, <1>3, <1>4, <1>5, <1>6 DEF Next

(* The invariant holds in every state. *)
THEOREM Invariant == Spec => []Inv
<1>1. Init => Inv
  BY InitHolds
<1>2. Inv /\ [Next]_vars => Inv'
  BY InvariantStep
<1> QED
  BY <1>1, <1>2, PTL DEF Spec

(***************************************************************************)
(* The exports: only a writer that is at work, was cut off or was          *)
(* overlapped leaves them torn.                                            *)
(***************************************************************************)

(* Half written, there is a writer, or the last one was cut off or overlapped. *)
Attended(f) == exported[f] = "torn" => Exporters(f) # {} \/ f \in spoiled
Exports == spoiled \subseteq stored /\ \A f \in Captures : Attended(f)

(* Who writes a capture goes on writing it. *)
Writes(q) == pc[q] = "exporting" => pc'[q] = "exporting" /\ doing'[q] = doing[q]

(* A capture whose exports and writers a step leaves alone. *)
LEMMA AttendedStays ==
  ASSUME NEW f \in Captures, Attended(f), exported'[f] = exported[f],
         f \in spoiled => f \in spoiled',
         \A q \in Procs : doing[q] = f => Writes(q)
  PROVE  Attended(f)'
<1> SUFFICES ASSUME exported'[f] = "torn", f \notin spoiled'
             PROVE  Exporters(f)' # {}
  BY DEF Attended
<1>1. PICK q \in Procs : pc[q] = "exporting" /\ doing[q] = f
  BY DEF Attended, Exporters
<1>2. pc'[q] = "exporting" /\ doing'[q] = f
  BY <1>1 DEF Writes
<1> QED
  BY <1>2 DEF Exporters

(* Other steps than those of an export, in which writers and exports stay. *)
LEMMA ExportsStay ==
  ASSUME Exports, UNCHANGED <<exported, spoiled>>, stored \subseteq stored',
         \A q \in Procs : Writes(q)
  PROVE  Exports'
<1>1. ASSUME NEW f \in Captures PROVE Attended(f)'
  BY AttendedStays DEF Exports
<1> QED
  BY <1>1 DEF Exports

(* A process in another step than an export moves no writer. *)
LEMMA MoveWrites ==
  ASSUME Inv, NEW p \in Procs, pc[p] # "exporting",
         NEW step, pc' = [pc EXCEPT ![p] = step],
         doing' = doing \/ \E f \in Captures \cup {None} : doing' = [doing EXCEPT ![p] = f]
  PROVE  \A q \in Procs : Writes(q)
BY DEF Inv, Typed, Writes

(* Nor does one that returns or leaves, and none but its own capture's. *)
LEMMA DropWrites ==
  ASSUME Inv, NEW p \in Procs, NEW step, Drops(p, step)
  PROVE  /\ \A q \in Procs : q # p => Writes(q)
         /\ pc[p] # "exporting" => Writes(p)
BY DEF Inv, Typed, Writes, Drops, Goto

(* A process of the system that returns or leaves drops its capture. *)
LEMMA EndDrops ==
  ASSUME NEW p, NEW state, Returns(p, state) \/ Leaves(p)
  PROVE  \E step \in {"progress", "idle"} : Drops(p, step)
BY DEF Returns, Leaves

(* BeginExport, EndExport, ExportFails, Die: the steps of a writer. *)
LEMMA WriterKeeps ==
  ASSUME Inv, Exports, NEW p \in Procs,
         \/ BeginExport(p) \/ EndExport(p) \/ ExportFails(p)
         \/ pc[p] = "exporting" /\ Die(p)
  PROVE  Exports'
<1>1. CASE BeginExport(p)
  <2>1. /\ pc[p] = "export" /\ pc' = [pc EXCEPT ![p] = "exporting"]
        /\ exported' = [exported EXCEPT ![doing[p]] = "torn"]
        /\ spoiled' = spoiled \ {doing[p]} \/ spoiled' = spoiled \cup {doing[p]}
        /\ UNCHANGED <<stored, doing>>
    BY <1>1 DEF BeginExport, Goto
  <2>2. doing[p] \in stored /\ doing[p] \in Captures
    BY <2>1 DEF Inv, Typed, Hand, Working, Persisting, Saving, Finishing, Exporting
  <2>3. spoiled' \subseteq stored'
    BY <2>1, <2>2 DEF Exports
  <2>4. \A q \in Procs : Writes(q)
    BY <2>1, MoveWrites
  <2>5. ASSUME NEW f \in Captures PROVE Attended(f)'
    <3>1. CASE f = doing[p]
      <4>1. pc'[p] = "exporting" /\ doing'[p] = f
        BY <2>1, <3>1 DEF Inv, Typed
      <4> QED
        BY <4>1 DEF Attended, Exporters
    <3>2. CASE f # doing[p]
      <4>1. exported'[f] = exported[f] /\ (f \in spoiled => f \in spoiled')
        BY <2>1, <3>2 DEF Inv, Typed
      <4> QED
        BY <2>4, <4>1, AttendedStays DEF Exports
    <3> QED
      BY <3>1, <3>2
  <2> QED
    BY <2>3, <2>5 DEF Exports
<1>2. CASE EndExport(p) \/ ExportFails(p) \/ (pc[p] = "exporting" /\ Die(p))
  <2>0. \E left \in {"torn", "whole", "as before"} :
          /\ exported' = IF left = "as before" THEN exported
                         ELSE [exported EXCEPT ![doing[p]] = left]
          /\ left # "whole" => doing[p] \in spoiled'
    <3>1. CASE EndExport(p)
      BY <3>1 DEF EndExport
    <3>2. CASE ExportFails(p) \/ (pc[p] = "exporting" /\ Die(p))
      BY <3>2 DEF ExportFails, Die
    <3> QED
      BY <1>2, <3>1, <3>2
  <2>1. PICK left \in {"torn", "whole", "as before"} :
          /\ exported' = IF left = "as before" THEN exported
                         ELSE [exported EXCEPT ![doing[p]] = left]
          /\ left # "whole" => doing[p] \in spoiled'
    BY <2>0
  <2>2. /\ pc[p] = "exporting" /\ spoiled \subseteq spoiled' /\ stored' = stored
        /\ spoiled' \subseteq spoiled \cup {doing[p]}
        /\ \E step \in {"progress", "idle"} : Drops(p, step)
    BY <1>2, EndDrops DEF EndExport, ExportFails, Die
  <2>3. doing[p] \in stored /\ doing[p] \in Captures
    BY <2>2 DEF Inv, Typed, Hand, Working, Persisting, Saving, Finishing, Exporting
  <2>4. spoiled' \subseteq stored'
    BY <2>2, <2>3 DEF Exports
  <2>5. \A q \in Procs : q # p => Writes(q)
    BY <2>2, DropWrites
  <2>6. ASSUME NEW f \in Captures PROVE Attended(f)'
    <3>1. CASE f = doing[p]
      BY <2>1, <2>3, <3>1 DEF Attended, Inv, Typed
    <3>2. CASE f # doing[p]
      <4>1. exported'[f] = exported[f] /\ (f \in spoiled => f \in spoiled')
        BY <2>1, <2>2, <3>2 DEF Inv, Typed
      <4> QED
        BY <2>5, <3>2, <4>1, AttendedStays DEF Exports
    <3> QED
      BY <3>1, <3>2
  <2> QED
    BY <2>4, <2>6 DEF Exports
<1> QED
  BY <1>1, <1>2

(* The steps of a run or a replay up to the export, and a death in them. *)
LEMMA WorkKeeps ==
  ASSUME Inv, Exports, NEW p \in Procs,
         Parse(p) \/ ParseFails(p) \/ Persist(p) \/ (pc[p] # "exporting" /\ Die(p))
  PROVE  Exports'
<1>1. UNCHANGED <<exported, spoiled, stored>> /\ pc[p] # "exporting"
  <2>1. CASE Parse(p) \/ ParseFails(p)
    BY <2>1 DEF Parse, ParseFails, artifacts
  <2>2. CASE Persist(p)
    <3>1. UNCHANGED artifacts
      BY <2>2 DEF Persist, AddMetadata, CreateJob, StartJob, CloseJob, Transition, InsertTask,
         Save, SaveFails, MarkFailed, FailJob, FinishTask, CheckJob
    <3>2. pc[p] # "exporting"
      BY <2>2 DEF Persist, AddMetadata, CreateJob, StartJob, CloseJob, Transition, InsertTask,
         Save, SaveFails, MarkFailed, FailJob, FinishTask, CheckJob
    <3> QED
      BY <3>1, <3>2 DEF artifacts
  <2>3. CASE pc[p] # "exporting" /\ Die(p)
    BY <2>3 DEF Die
  <2> QED
    BY <2>1, <2>2, <2>3
<1>2. \A q \in Procs : Writes(q)
  <2>1. CASE \E step : Drops(p, step)
    BY <1>1, <2>1, DropWrites
  <2>2. CASE doing' = doing /\ \E step : pc' = [pc EXCEPT ![p] = step]
    BY <1>1, <2>2, MoveWrites
  <2>3. CASE UNCHANGED <<pc, doing>>
    BY <2>3 DEF Writes
  <2>4. CASE Parse(p) \/ ParseFails(p) \/ (pc[p] # "exporting" /\ Die(p))
    BY <2>1, <2>2, <2>4, EndDrops DEF Parse, ParseFails, Die, Goto
  <2>5. CASE AddMetadata(p) \/ CreateJob(p) \/ InsertTask(p) \/ SaveFails(p) \/ MarkFailed(p)
             \/ FinishTask(p) \/ CheckJob(p)
    BY <2>2, <2>5 DEF AddMetadata, CreateJob, InsertTask, SaveFails, MarkFailed, FinishTask,
       CheckJob, Goto
  <2>6. CASE Save(p)
    BY <2>3, <2>6 DEF Save
  <2>7. CASE StartJob(p) \/ CloseJob(p)
    BY <2>1, <2>2, <2>7, EndDrops DEF StartJob, CloseJob, Transition, Goto
  <2>8. CASE FailJob(p)
    BY <2>1, <2>8, EndDrops DEF FailJob
  <2> QED
    BY <2>4, <2>5, <2>6, <2>7, <2>8 DEF Persist
<1> QED
  BY <1>1, <1>2, ExportsStay

(* The steps of the batch, a replay that begins, the operator's, and none. *)
LEMMA OthersKeep ==
  ASSUME Inv, Exports,
         \/ \E resume \in BOOLEAN : StartBatch(resume)
         \/ Keep \/ Take \/ ReadFixture \/ Truncate \/ WriteProgress \/ WriteResult
         \/ \E p \in Replayers, f \in Captures : StartReplay(p, f)
         \/ \E n \in Names, f \in Captures : Edit(n, f)
         \/ UNCHANGED vars
  PROVE  Exports'
<1>0. Batcher \in Procs /\ Replayers \subseteq Procs
  BY DEF Procs
<1>1. UNCHANGED <<exported, spoiled>> /\ stored \subseteq stored'
  BY DEF StartBatch, Keep, Take, ReadFixture, Truncate, WriteProgress, WriteResult, StartReplay,
     Edit, vars, artifacts
<1>2. \A q \in Procs : Writes(q)
  <2>1. CASE \/ \E resume \in BOOLEAN : StartBatch(resume)
             \/ Take \/ Truncate \/ WriteProgress
    <3>1. pc[Batcher] # "exporting" /\ doing' = doing
          /\ \E step : pc' = [pc EXCEPT ![Batcher] = step]
      BY <2>1 DEF StartBatch, Take, Truncate, WriteProgress, Goto, Running
    <3> QED
      BY <1>0, <3>1, MoveWrites
  <2>2. CASE ReadFixture
    <3>1. folder[File] \in Captures
      <4>1. File \in Names
        BY <2>2, NumberFacts DEF ReadFixture, Inv, Collected, Names
      <4> QED
        BY <4>1 DEF Inv, Typed
    <3>2. pc[Batcher] # "exporting" /\ doing' = [doing EXCEPT ![Batcher] = folder[File]]
          /\ pc' = [pc EXCEPT ![Batcher] = "parse"]
      BY <2>2 DEF ReadFixture, Goto
    <3> QED
      BY <1>0, <3>1, <3>2, MoveWrites
  <2>3. CASE WriteResult
    <3>1. pc[Batcher] # "exporting" /\ Drops(Batcher, "idle")
      BY <2>3 DEF WriteResult, Leaves
    <3> QED
      BY <1>0, <3>1, DropWrites
  <2>4. CASE \E p \in Replayers, f \in Captures : StartReplay(p, f)
    <3>1. PICK p \in Replayers, f \in Captures : StartReplay(p, f)
      BY <2>4
    <3>2. pc[p] # "exporting" /\ doing' = [doing EXCEPT ![p] = f]
          /\ pc' = [pc EXCEPT ![p] = "parse"]
      BY <3>1 DEF StartReplay, Goto
    <3> QED
      BY <1>0, <3>2, MoveWrites
  <2>5. CASE Keep \/ (\E n \in Names, f \in Captures : Edit(n, f)) \/ UNCHANGED vars
    BY <2>5 DEF Keep, Edit, vars, Writes
  <2> QED
    BY <2>1, <2>2, <2>3, <2>4, <2>5
<1> QED
  BY <1>1, <1>2, ExportsStay

(* In every state, a torn export has a writer, or is spoiled. *)
THEOREM ExportsAttended == Spec => []Exports
<1>1. Init => Exports
  BY DEF Init, Exports, Attended
<1>2. Inv /\ Exports /\ [Next]_vars => Exports'
  <2> SUFFICES ASSUME Inv, Exports, [Next]_vars PROVE Exports'
    OBVIOUS
  <2>1. ASSUME NEW p \in Procs,
               \/ Parse(p) \/ ParseFails(p) \/ Persist(p)
               \/ BeginExport(p) \/ EndExport(p) \/ ExportFails(p) \/ Die(p)
        PROVE  Exports'
    BY <2>1, WriterKeeps, WorkKeeps
  <2> QED
    BY <2>1, OthersKeep DEF Next
<1> QED
  BY <1>1, <1>2, Invariant, PTL DEF Spec

(* Every variable keeps its type, and a result has no more attempts than there were runs. *)
THEOREM TypeCorrect == Spec => []TypeOK
<1>1. Inv /\ Exports => TypeOK
  <2> SUFFICES ASSUME Inv, Exports PROVE TypeOK
    OBVIOUS
  <2>1. /\ \A n \in DOMAIN previous : previous[n] \in Results
        /\ \A n \in DOMAIN groups : groups[n] \in Results
    BY DEF Inv, Typed
  <2> QED
    BY <2>1 DEF Inv, Typed, Collected, Sound, Exports, TypeOK
<1> QED
  BY <1>1, Invariant, ExportsAttended, PTL

(* What a receipt reports as succeeded has its raw bytes, its records and a job that has
   ended; its exports are whole, unless somebody writes them again or the last who did was cut
   off or overlapped; and it is about the bytes it names, unless a file changed meanwhile.  A
   job that has ended has its records or its failure. *)
THEOREM SuccessIsBacked == Spec => []SuccessBacked
<1>1. Inv /\ Exports => SuccessBacked
  <2> SUFFICES ASSUME Inv, Exports PROVE SuccessBacked
    OBVIOUS
  <2>1. ASSUME receipt \notin {None, Torn}, NEW n \in DOMAIN receipt.groups,
               receipt.groups[n].state = "succeeded", NEW f, f = receipt.groups[n].run
        PROVE  /\ Holds(f) /\ job[f] \in {"succeeded", "failed"}
               /\ (exported[f] = "whole" \/ Exporters(f) # {} \/ f \in spoiled)
               /\ (~receipt.edited => f = receipt.groups[n].digest)
    <3>1. f \in Captures /\ Backed(f)
      BY <2>1 DEF Inv, Collected, Sound
    <3>2. exported[f] \in {"torn", "whole"}
      BY <3>1 DEF Backed, Inv, Typed
    <3>3. exported[f] = "whole" \/ Exporters(f) # {} \/ f \in spoiled
      BY <3>1, <3>2 DEF Exports, Attended
    <3>4. ~receipt.edited => f = receipt.groups[n].digest
      BY <2>1 DEF Inv, Covering, Exact
    <3> QED
      BY <3>1, <3>3, <3>4 DEF Backed
  <2>2. \A f \in Captures : /\ job[f] = "succeeded" => Holds(f)
                            /\ job[f] = "failed" => f \in failures
    BY DEF Inv, Closed
  <2> QED
    BY <2>1, <2>2 DEF SuccessBacked
<1> QED
  BY <1>1, Invariant, ExportsAttended, PTL

(* A batch that has ended by itself, over a directory nobody changed, reports every file of it
   under the bytes it had, and keeps successes of those bytes only. *)
THEOREM FinishedIsCovered == Spec => []FinishedCovers
<1>1. Inv => FinishedCovers
  BY DEF Inv, Covering
<1> QED
  BY <1>1, Invariant, PTL
=============================================================================
