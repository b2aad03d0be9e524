-------------------------- MODULE OperatorBatchProofs --------------------------
(***************************************************************************)
(* Proofs about OperatorBatch for every set of targets, target lists and   *)
(* identifier sets, and every number of runs: what the receipt and the     *)
(* sidecar say after any interruptions, and what a resume makes of them.   *)
(***************************************************************************)
EXTENDS OperatorBatch, SequenceTheorems, TLAPS

(***************************************************************************)
(* The inductive invariant.                                                *)
(***************************************************************************)

Writing == pc \in {"receipt", "sidecar"}
Stopping == pc = "finish" \/ (Writing /\ after = "finish")

(* The results follow the targets; the run is stopping if and only if the last
   one is stopped; a process that is gone has left no memory. *)
LoopOK ==
  /\ \A n \in 1..Len(groups) : groups[n].target = keys[n]
  /\ \A n \in 1..Len(groups) : groups[n].state = "stopped" => n = Len(groups) /\ Stopping
  /\ Stopping => groups # <<>> /\ groups[Len(groups)].state = "stopped"
  /\ pc = "idle" => groups = <<>> /\ DOMAIN prev = {} /\ DOMAIN values = {} /\ after = "loop"

(* The results being resumed are those of the run's own targets. *)
PrevOK ==
  \A t \in DOMAIN prev : prev[t].target = t /\ \E n \in 1..Len(keys) : keys[n] = t

(* A result of this run continues the one of the run before. *)
Continues(entry) ==
  entry.target \in DOMAIN prev =>
    IF prev[entry.target].state = "incomplete"
      THEN entry.attempts = prev[entry.target].attempts + 1
      ELSE entry = prev[entry.target]
ContinuedOK == \A n \in 1..Len(groups) : Continues(groups[n])

(* Every success in memory has its identifiers in memory. *)
ValuesOK ==
  /\ \A n \in 1..Len(groups) : Backed(groups[n], values)
  /\ \A t \in DOMAIN prev : Backed(prev[t], values)

(* The sidecar has those of the first k results, and of the results resumed. *)
Sidecar(k) ==
  /\ sidecar # NoFile /\ sidecar.targets = keys
  /\ \A n \in 1..k : Backed(groups[n], sidecar.values)
  /\ \A t \in DOMAIN prev : Backed(prev[t], sidecar.values)
SidecarOK ==
  /\ pc \in {"loop", "finish"} => Sidecar(Len(groups))
  /\ Writing /\ groups # <<>> => Sidecar(Len(groups) - 1)
  /\ pc = "sidecar" => receipt = Progress("running")

(* A final receipt agrees with the sidecar, whatever a later run is doing until
   it replaces them. *)
FinalOK ==
  receipt # NoFile /\ receipt.state # "running" => Accepts(receipt.targets)

FilesOK == ReceiptIsPrefix /\ OnlyLastUnbacked /\ FinalOK
IInv == TypeOK /\ LoopOK /\ PrevOK /\ ContinuedOK /\ ValuesOK /\ SidecarOK /\ FilesOK

(***************************************************************************)
(* Facts about the data.                                                   *)
(***************************************************************************)

(* A list discovery returns is a sequence of targets without repetition. *)
LEMMA ListFacts ==
  ASSUME NEW list \in TargetLists
  PROVE  /\ list \in Seq(Targets)
         /\ Len(list) \in Nat
         /\ \A n \in 1..Len(list) : list[n] \in Targets
         /\ \A m, n \in 1..Len(list) : list[m] = list[n] => m = n
BY BatchAssumption

(* A process that is gone has empty maps. *)
LEMMA EmptyMap ==
  ASSUME NEW S
  PROVE  DOMAIN Empty = {} /\ MapsInto(Empty, S)
<1>1. DOMAIN Empty = {}
  BY DEF Empty
<1>2. Empty = [x \in {} |-> 0]
  BY DEF Empty
<1> QED
  BY <1>1, <1>2 DEF MapsInto

(* Setting one entry of a map keeps the others. *)
LEMMA SetFacts ==
  ASSUME NEW S, NEW f, MapsInto(f, S), NEW t \in Targets, NEW v \in S
  PROVE  /\ MapsInto(Set(f, t, v), S)
         /\ t \in DOMAIN Set(f, t, v) /\ Set(f, t, v)[t] = v
         /\ \A x \in DOMAIN f : x \in DOMAIN Set(f, t, v)
         /\ \A x \in DOMAIN f : x # t => Set(f, t, v)[x] = f[x]
BY DEF MapsInto, Set

(* What a sequence of results is after one more. *)
LEMMA AppendFacts ==
  ASSUME NEW S, NEW seq \in Seq(S), NEW e \in S
  PROVE  /\ Append(seq, e) \in Seq(S)
         /\ Len(seq) \in Nat
         /\ Len(Append(seq, e)) = Len(seq) + 1
         /\ Append(seq, e) # <<>>
         /\ \A n \in 1..Len(seq) : Append(seq, e)[n] = seq[n]
         /\ Append(seq, e)[Len(seq) + 1] = e
BY AppendProperties

(* The sidecar a run writes is one, and has the identifiers of its targets. *)
LEMMA WrittenSidecar ==
  ASSUME TypeOK
  PROVE  /\ Identifiers # NoFile /\ Identifiers.targets = keys
         /\ MapsInto(Identifiers.values, Values)
         /\ \A n \in 1..Len(keys) : keys[n] \in DOMAIN values =>
              keys[n] \in DOMAIN Identifiers.values /\ Identifiers.values[keys[n]] = values[keys[n]]
<1> DEFINE kept == DOMAIN values \cap Entries(keys)
           map == [t \in kept |-> values[t]]
<1>1. keys \in TargetLists /\ MapsInto(values, Values)
  BY DEF TypeOK
<1>2. kept \in SUBSET Targets /\ map \in [kept -> Values] /\ DOMAIN map = kept
  BY <1>1 DEF MapsInto
<1>3. Identifiers = [targets |-> keys, values |-> map]
  BY DEF Identifiers
<1>4. map \in UNION {[some -> Values] : some \in SUBSET Targets}
  BY <1>2
<1>5. Identifiers \in Sidecars
  BY <1>1, <1>3, <1>4 DEF Sidecars
<1>6. Identifiers # NoFile
  BY <1>5, BatchAssumption
<1>7. \A n \in 1..Len(keys) : keys[n] \in Entries(keys)
  BY <1>1, ListFacts DEF Entries
<1>8. MapsInto(map, Values)
  BY <1>2 DEF MapsInto
<1> QED
  BY <1>3, <1>6, <1>7, <1>8

(* The target of the turn is the one after the results so far. *)
LEMMA CurrentFacts ==
  ASSUME TypeOK, LoopOK, pc = "loop", Len(groups) < Len(keys)
  PROVE  /\ Current \in Targets
         /\ Len(groups) \in Nat /\ Len(keys) \in Nat
         /\ Len(groups) + 1 \in 1..Len(keys)
         /\ \A n \in 1..Len(groups) : groups[n].target # Current
         /\ \A n \in 1..Len(groups) : groups[n].state # "stopped"
<1>1. keys \in TargetLists /\ groups \in Seq(Results)
  BY DEF TypeOK
<1>2. Len(groups) \in Nat /\ Len(keys) \in Nat
  BY <1>1, ListFacts
<1>3. Len(groups) + 1 \in 1..Len(keys)
  BY <1>2
<1>4. ASSUME NEW n \in 1..Len(groups) PROVE groups[n].target # Current
  <2>1. n \in 1..Len(keys) /\ n # Len(groups) + 1
    BY <1>2
  <2>2. groups[n].target = keys[n]
    BY DEF LoopOK
  <2> QED
    BY <1>1, <1>3, <2>1, <2>2, ListFacts DEF Current
<1>5. ~Stopping
  BY DEF Stopping, Writing
<1> QED
  BY <1>1, <1>2, <1>3, <1>4, <1>5, ListFacts DEF Current, LoopOK

(* What a result of this turn is. *)
LEMMA AttemptsType ==
  ASSUME TypeOK
  PROVE  Attempts \in Nat
BY DEF TypeOK, Attempts, Known, MapsInto, Results

(* The results of a receipt by target: every one has its target's entry. *)
LEMMA ByTargetFacts ==
  ASSUME NEW list \in Seq(Results)
  PROVE  /\ MapsInto(ByTarget(list), Results)
         /\ \A t \in DOMAIN ByTarget(list) :
              \E n \in DOMAIN list : ByTarget(list)[t] = list[n] /\ list[n].target = t
<1>1. ASSUME NEW t \in DOMAIN ByTarget(list)
      PROVE  \E n \in DOMAIN list : ByTarget(list)[t] = list[n] /\ list[n].target = t
  <2>1. \E e \in Entries(list) : e.target = t
    BY DEF ByTarget
  <2>2. ByTarget(list)[t] \in Entries(list) /\ ByTarget(list)[t].target = t
    BY <2>1 DEF ByTarget
  <2> QED
    BY <2>2 DEF Entries
<1>2. \A n \in DOMAIN list : list[n] \in Results
  OBVIOUS
<1>3. DOMAIN ByTarget(list) \subseteq Targets
  BY <1>1, <1>2 DEF Results
<1>4. \A t \in DOMAIN ByTarget(list) : ByTarget(list)[t] \in Results
  BY <1>1, <1>2
<1>5. ByTarget(list) = [t \in DOMAIN ByTarget(list) |-> ByTarget(list)[t]]
  BY DEF ByTarget
<1> QED
  BY <1>1, <1>3, <1>4, <1>5 DEF MapsInto

(***************************************************************************)
(* The steps of a run.                                                     *)
(***************************************************************************)

(* A turn of the loop: one result more, which continues the run before and
   whose identifiers are in memory.  It was captured, or kept. *)
Turn(entry) ==
  /\ pc = "loop" /\ Len(groups) < Len(keys)
  /\ entry \in Results /\ entry.target = Current
  /\ groups' = Append(groups, entry)
  /\ UNCHANGED <<receipt, sidecar, keys, prev, runs>>
  /\ MapsInto(values', Values)
  /\ \A x \in DOMAIN values : x # Current => x \in DOMAIN values' /\ values'[x] = values[x]
  /\ Continues(entry) /\ Backed(entry, values')
  /\ \/ /\ pc' = "receipt" /\ after' \in {"loop", "finish", "raise"}
        /\ after' = "finish" <=> entry.state = "stopped"
        /\ Current \in DOMAIN prev => prev[Current].state = "incomplete"
     \/ /\ pc' = IF entry.state = "stopped" THEN "finish" ELSE "loop"
        /\ Current \in DOMAIN prev /\ entry = prev[Current]
        /\ values' = values /\ after' = after

(* The process is gone, and its memory with it. *)
Gone ==
  /\ pc' = "idle" /\ groups' = <<>> /\ after' = "loop"
  /\ DOMAIN prev' = {} /\ MapsInto(prev', Results)
  /\ DOMAIN values' = {} /\ MapsInto(values', Values)
  /\ UNCHANGED <<keys, runs>>

(* Exit leaves no memory behind. *)
LEMMA ExitGone == Exit => Gone
BY EmptyMap DEF Exit, Gone

(* A Group that is kept is a turn. *)
LEMMA KeepTurns ==
  ASSUME TypeOK, LoopOK, PrevOK, ValuesOK, Keep
  PROVE  Turn(prev[Current])
<1>1. /\ pc = "loop" /\ Len(groups) < Len(keys)
      /\ Current \in DOMAIN prev /\ prev[Current].state # "incomplete"
      /\ groups' = Append(groups, prev[Current])
      /\ pc' = IF prev[Current].state = "stopped" THEN "finish" ELSE "loop"
      /\ UNCHANGED <<receipt, sidecar, keys, prev, values, after, runs>>
  BY DEF Keep, Known, files
<1>2. prev[Current] \in Results /\ prev[Current].target = Current
  BY <1>1 DEF TypeOK, MapsInto, PrevOK
<1>3. Continues(prev[Current])
  BY <1>1, <1>2 DEF Continues
<1>4. Backed(prev[Current], values')
  BY <1>1 DEF ValuesOK
<1>5. MapsInto(values', Values)
  BY <1>1 DEF TypeOK
<1> QED
  BY <1>1, <1>2, <1>3, <1>4, <1>5 DEF Turn

(* A captured Group is a turn, whatever came of it. *)
LEMMA CaptureTurns ==
  ASSUME TypeOK, LoopOK, PrevOK, Captures,
         NEW entry, entry \in Results, entry.target = Current, entry.attempts = Attempts,
         groups' = Append(groups, entry),
         UNCHANGED <<receipt, sidecar, keys, prev, runs>>,
         MapsInto(values', Values),
         \A x \in DOMAIN values : x # Current => x \in DOMAIN values' /\ values'[x] = values[x],
         Backed(entry, values'),
         after' \in {"loop", "finish", "raise"},
         after' = "finish" <=> entry.state = "stopped"
  PROVE  Turn(entry)
<1>1. /\ pc = "loop" /\ Len(groups) < Len(keys) /\ pc' = "receipt"
      /\ Current \in DOMAIN prev => prev[Current].state = "incomplete"
  BY DEF Captures, Known
<1>2. Continues(entry)
  BY <1>1 DEF Continues, Attempts, Known
<1> QED
  BY <1>1, <1>2 DEF Turn

(* The capture returned its identifiers. *)
LEMMA SuccessTurns ==
  ASSUME TypeOK, LoopOK, PrevOK, NEW v \in Values, CaptureSucceeds(v)
  PROVE  Turn(Success(Current, Attempts, v))
<1> DEFINE entry == Success(Current, Attempts, v)
<1>1. /\ Captures /\ groups' = Append(groups, entry)
      /\ values' = Set(values, Current, v) /\ after' = "loop"
      /\ UNCHANGED <<receipt, sidecar, keys, prev, runs>>
  BY DEF CaptureSucceeds, files
<1>2. Current \in Targets
  BY <1>1, CurrentFacts DEF Captures
<1>3. entry \in Results
  BY <1>2, AttemptsType DEF Success, Results, GroupStates
<1>4. entry.target = Current /\ entry.attempts = Attempts
      /\ entry.state = "succeeded" /\ entry.value = v
  BY DEF Success
<1>5. MapsInto(values, Values)
  BY DEF TypeOK
<1>6. /\ MapsInto(values', Values)
      /\ Current \in DOMAIN values' /\ values'[Current] = v
      /\ \A x \in DOMAIN values : x # Current => x \in DOMAIN values' /\ values'[x] = values[x]
  BY <1>1, <1>2, <1>5, SetFacts
<1>7. Backed(entry, values')
  BY <1>4, <1>6 DEF Backed
<1> HIDE DEF entry
<1> QED
  BY <1>1, <1>3, <1>4, <1>6, <1>7, CaptureTurns DEF entry

(* The capture raised, whatever follows. *)
LEMMA RaiseTurns ==
  ASSUME TypeOK, LoopOK, PrevOK, CaptureRaises
  PROVE  \E entry : Turn(entry)
<1>1. PICK state \in {"incomplete", "failed", "stopped"} :
        /\ groups' = Append(groups, Terminal(Current, Attempts, state))
        /\ after' \in {"loop", "finish", "raise"}
        /\ after' = "finish" <=> state = "stopped"
  BY DEF CaptureRaises
<1> DEFINE entry == Terminal(Current, Attempts, state)
<1>2. Captures /\ UNCHANGED <<receipt, sidecar, keys, prev, values, runs>>
  BY DEF CaptureRaises, files
<1>3. Current \in Targets
  BY <1>2, CurrentFacts DEF Captures
<1>4. entry \in Results
  BY <1>3, AttemptsType DEF Terminal, Results, GroupStates
<1>5. entry.target = Current /\ entry.attempts = Attempts /\ entry.state = state
  BY DEF Terminal
<1>6. Backed(entry, values')
  BY <1>5 DEF Backed
<1>7. MapsInto(values', Values)
  BY <1>2 DEF TypeOK
<1> HIDE DEF entry
<1>8. groups' = Append(groups, entry)
  BY <1>1 DEF entry
<1>9. Turn(entry)
  BY <1>1, <1>2, <1>4, <1>5, <1>6, <1>7, <1>8, CaptureTurns
<1> QED
  BY <1>9

(* What a turn makes of the results. *)
LEMMA TurnFacts ==
  ASSUME TypeOK, LoopOK, NEW entry, Turn(entry)
  PROVE  /\ groups' \in Seq(Results) /\ groups' # <<>>
         /\ Len(groups) \in Nat /\ Len(groups') = Len(groups) + 1
         /\ Len(groups') <= Len(keys) /\ Len(keys) \in Nat
         /\ \A n \in 1..Len(groups) : groups'[n] = groups[n] /\ groups[n].target # Current
                                        /\ groups[n].state # "stopped"
         /\ groups'[Len(groups) + 1] = entry
         /\ entry.target = keys[Len(groups) + 1]
<1>1. pc = "loop" /\ Len(groups) < Len(keys) /\ entry \in Results /\ groups' = Append(groups, entry)
      /\ entry.target = Current
  BY DEF Turn
<1>2. groups \in Seq(Results)
  BY DEF TypeOK
<1> QED
  BY <1>1, <1>2, CurrentFacts, AppendFacts DEF Current

(* Every step is one of these. *)
LEMMA StepCases ==
  ASSUME TypeOK, LoopOK, PrevOK, ValuesOK, [Next]_vars
  PROVE  \/ \E list \in TargetLists : Fresh(list) \/ Resume(list)
         \/ \E entry : Turn(entry)
         \/ WriteReceipt \/ WriteSidecar \/ Finish \/ Die
         \/ UNCHANGED vars
BY KeepTurns, SuccessTurns, RaiseTurns DEF Next


(***************************************************************************)
(* Each part of the invariant is kept by every step.                       *)
(***************************************************************************)

(* What the receipt written is. *)
LEMMA ProgressFacts ==
  ASSUME NEW s
  PROVE  /\ Progress(s).targets = keys /\ Progress(s).groups = groups
         /\ Progress(s).state = s
BY DEF Progress

(* Writing the sidecar either goes on or ends the process. *)
LEMMA SidecarWrites ==
  ASSUME WriteSidecar
  PROVE  /\ pc = "sidecar" /\ sidecar' = Identifiers /\ receipt' = receipt
         /\ \/ Gone
            \/ pc' = after /\ after # "raise" /\ UNCHANGED <<keys, prev, groups, values, after, runs>>
BY ExitGone DEF WriteSidecar, memory

(* The end of a run. *)
LEMMA FinishWrites ==
  ASSUME Finish
  PROVE  /\ pc = "finish" \/ (pc = "loop" /\ Len(groups) = Len(keys))
         /\ sidecar' = sidecar /\ Gone
         /\ receipt' = Progress(IF \E e \in Entries(groups) : e.state = "stopped"
                                THEN "stopped" ELSE "completed")
BY ExitGone DEF Finish

(* What a resume accepts, and what it starts from. *)
LEMMA ResumeFacts ==
  ASSUME TypeOK, LoopOK, NEW list \in TargetLists, Resume(list)
  PROVE  /\ pc = "idle" /\ pc' = "loop" /\ runs < MaxRuns /\ runs' = runs + 1
         /\ Accepts(list) /\ keys' = list /\ values' = sidecar.values
         /\ groups = <<>> /\ after = "loop"
         /\ UNCHANGED <<receipt, sidecar, groups, after>>
         /\ MapsInto(prev', Results)
         /\ \A t \in DOMAIN prev' :
              \E n \in DOMAIN receipt.groups :
                prev'[t] = receipt.groups[n] /\ receipt.groups[n].target = t
<1>1. /\ pc = "idle" /\ pc' = "loop" /\ runs < MaxRuns /\ runs' = runs + 1
      /\ Accepts(list) /\ keys' = list /\ values' = sidecar.values
      /\ UNCHANGED <<receipt, sidecar, groups, after>>
      /\ prev' = ByTarget(receipt.groups)
  BY DEF Resume, files
<1>2. receipt.groups \in Seq(Results)
  BY <1>1 DEF Accepts, TypeOK
<1>3. groups = <<>> /\ after = "loop"
  BY <1>1 DEF LoopOK
<1> QED
  BY <1>1, <1>2, <1>3, ByTargetFacts

(* Every variable stays in its type. *)
LEMMA TypeStep ==
  ASSUME IInv, [Next]_vars
  PROVE  TypeOK'
<1> USE DEF IInv
<1>1. CASE \E list \in TargetLists : Fresh(list)
  <2>1. PICK list \in TargetLists : Fresh(list)
    BY <1>1
  <2>2. groups' = <<>> /\ Len(list) \in 1..10
    BY <2>1, BatchAssumption DEF Fresh, LoopOK
  <2>3. runs' \in 0..MaxRuns
    BY <2>1, BatchAssumption DEF Fresh, TypeOK
  <2> QED
    BY <2>1, <2>2, <2>3 DEF Fresh, TypeOK, files
<1>2. CASE \E list \in TargetLists : Resume(list)
  <2>1. PICK list \in TargetLists : Resume(list)
    BY <1>2
  <2>2. Len(list) \in 1..10
    BY BatchAssumption
  <2>3. runs' \in 0..MaxRuns
    BY <2>1, BatchAssumption, ResumeFacts DEF TypeOK
  <2>4. MapsInto(sidecar.values, Values)
    BY <2>1, ResumeFacts DEF TypeOK, Accepts
  <2>5. groups' \in Seq(Results) /\ Len(groups') <= Len(keys')
    BY <2>1, <2>2, ResumeFacts DEF TypeOK
  <2> QED
    BY <2>1, <2>3, <2>4, <2>5, ResumeFacts DEF TypeOK
<1>3. CASE \E entry : Turn(entry)
  <2>1. PICK entry : Turn(entry)
    BY <1>3
  <2>2. groups' \in Seq(Results) /\ Len(groups') <= Len(keys)
    BY <2>1, TurnFacts
  <2> QED
    BY <2>1, <2>2 DEF Turn, TypeOK
<1>4. CASE WriteReceipt
  BY <1>4, ProgressFacts DEF WriteReceipt, memory, TypeOK
<1>5. CASE WriteSidecar
  <2>1. /\ sidecar' # NoFile /\ sidecar'.targets \in TargetLists
        /\ MapsInto(sidecar'.values, Values)
    BY <1>5, SidecarWrites, WrittenSidecar DEF TypeOK
  <2>2. CASE Gone
    BY <1>5, <2>1, <2>2, SidecarWrites, ListFacts DEF TypeOK, Gone
  <2>3. CASE pc' = after /\ after # "raise" /\ UNCHANGED <<keys, prev, groups, values, after, runs>>
    BY <1>5, <2>1, <2>3, SidecarWrites DEF TypeOK
  <2> QED
    BY <1>5, <2>2, <2>3, SidecarWrites
<1>6. CASE Finish
  <2>1. receipt'.state \in {"stopped", "completed"}
        /\ receipt'.targets \in TargetLists /\ receipt'.groups \in Seq(Results)
    BY <1>6, FinishWrites, ProgressFacts DEF TypeOK
  <2> QED
    BY <1>6, <2>1, FinishWrites, ListFacts DEF TypeOK, Gone
<1>7. CASE Die
  BY <1>7, ExitGone, ListFacts DEF Die, files, Gone, TypeOK
<1>8. CASE UNCHANGED vars
  BY <1>8 DEF vars, files, memory, TypeOK
<1> QED
  BY <1>1, <1>2, <1>3, <1>4, <1>5, <1>6, <1>7, <1>8, StepCases

(* The results keep following the targets, and nothing follows a stop. *)
LEMMA LoopStep ==
  ASSUME IInv, [Next]_vars
  PROVE  LoopOK'
<1> USE DEF IInv
<1>1. CASE \E list \in TargetLists : Fresh(list)
  BY <1>1 DEF Fresh, LoopOK, Stopping, Writing
<1>2. CASE \E list \in TargetLists : Resume(list)
  BY <1>2, ResumeFacts DEF LoopOK, Stopping, Writing
<1>3. CASE \E entry : Turn(entry)
  <2>1. PICK entry : Turn(entry)
    BY <1>3
  <2>2. /\ Len(groups) \in Nat /\ Len(groups') = Len(groups) + 1 /\ groups' # <<>>
        /\ \A n \in 1..Len(groups) : groups'[n] = groups[n] /\ groups[n].state # "stopped"
        /\ groups'[Len(groups) + 1] = entry
        /\ entry.target = keys[Len(groups) + 1] /\ keys' = keys
    BY <2>1, TurnFacts DEF Turn
  <2>3. \A n \in 1..Len(groups') : n \in 1..Len(groups) \/ n = Len(groups')
    BY <2>2
  <2>4. \A n \in 1..Len(groups) : groups[n].target = keys[n]
    BY DEF LoopOK
  <2>5. Stopping' <=> entry.state = "stopped"
    <3>1. pc = "loop" /\ ~Writing /\ ~Stopping
      BY <2>1 DEF Turn, Stopping, Writing
    <3> QED
      BY <2>1 DEF Turn, Stopping, Writing
  <2>6. pc' # "idle"
    BY <2>1 DEF Turn
  <2> QED
    BY <2>2, <2>3, <2>4, <2>5, <2>6 DEF LoopOK
<1>4. CASE WriteReceipt
  BY <1>4 DEF WriteReceipt, memory, LoopOK, Stopping, Writing
<1>5. CASE WriteSidecar
  <2>1. CASE Gone
    BY <2>1 DEF Gone, LoopOK, Stopping, Writing
  <2>2. CASE pc' = after /\ after # "raise" /\ UNCHANGED <<keys, prev, groups, values, after, runs>>
    <3>1. pc = "sidecar" /\ after \in {"loop", "finish"}
      BY <1>5, <2>2, SidecarWrites DEF TypeOK
    <3> QED
      BY <2>2, <3>1 DEF LoopOK, Stopping, Writing
  <2> QED
    BY <1>5, <2>1, <2>2, SidecarWrites
<1>6. CASE Gone
  BY <1>6 DEF Gone, LoopOK, Stopping, Writing
<1>7. CASE UNCHANGED vars
  BY <1>7 DEF vars, files, memory, LoopOK, Stopping, Writing
<1> QED
  BY <1>1, <1>2, <1>3, <1>4, <1>5, <1>6, <1>7, StepCases, FinishWrites, ExitGone DEF Die

(* What a resume starts from are results of its own targets. *)
LEMMA PrevStep ==
  ASSUME IInv, [Next]_vars
  PROVE  PrevOK'
<1> USE DEF IInv
<1>1. CASE \E list \in TargetLists : Fresh(list)
  BY <1>1 DEF Fresh, LoopOK, PrevOK
<1>2. CASE \E list \in TargetLists : Resume(list)
  <2>1. PICK list \in TargetLists : Resume(list)
    BY <1>2
  <2>2. /\ receipt # NoFile /\ receipt.targets = list /\ keys' = list
        /\ \A t \in DOMAIN prev' :
             \E n \in DOMAIN receipt.groups :
               prev'[t] = receipt.groups[n] /\ receipt.groups[n].target = t
    BY <2>1, ResumeFacts DEF Accepts
  <2>3. receipt.groups \in Seq(Results) /\ Covers(receipt.groups, list)
    BY <2>2 DEF TypeOK, FilesOK, ReceiptIsPrefix
  <2>4. Len(list) \in Nat
    BY ListFacts
  <2>5. \A n \in DOMAIN receipt.groups : n \in 1..Len(list) /\ receipt.groups[n].target = list[n]
    BY <2>3, <2>4 DEF Covers
  <2> QED
    BY <2>2, <2>5 DEF PrevOK
<1>3. CASE \E entry : Turn(entry)
  BY <1>3 DEF Turn, PrevOK
<1>4. CASE WriteReceipt
  BY <1>4 DEF WriteReceipt, memory, PrevOK
<1>5. CASE WriteSidecar
  BY <1>5, SidecarWrites DEF Gone, PrevOK
<1>6. CASE Gone
  BY <1>6 DEF Gone, PrevOK
<1>7. CASE UNCHANGED vars
  BY <1>7 DEF vars, memory, PrevOK
<1> QED
  BY <1>1, <1>2, <1>3, <1>4, <1>5, <1>6, <1>7, StepCases, FinishWrites, ExitGone DEF Die

(* A new result continues the one of the run before. *)
LEMMA ContinuedStep ==
  ASSUME IInv, [Next]_vars
  PROVE  ContinuedOK'
<1> USE DEF IInv
<1>1. CASE groups' = <<>>
  BY <1>1 DEF ContinuedOK
<1>2. CASE \E entry : Turn(entry)
  <2>1. PICK entry : Turn(entry)
    BY <1>2
  <2>2. /\ Len(groups) \in Nat /\ Len(groups') = Len(groups) + 1
        /\ \A n \in 1..Len(groups) : groups'[n] = groups[n]
        /\ groups'[Len(groups) + 1] = entry
        /\ prev' = prev /\ Continues(entry)
    BY <2>1, TurnFacts DEF Turn
  <2>3. \A n \in 1..Len(groups') : n \in 1..Len(groups) \/ n = Len(groups) + 1
    BY <2>2
  <2> QED
    BY <2>2, <2>3 DEF ContinuedOK, Continues
<1>3. CASE UNCHANGED <<groups, prev>>
  BY <1>3 DEF ContinuedOK, Continues
<1>4. CASE \E list \in TargetLists : Fresh(list) \/ Resume(list)
  <2>1. groups' = <<>>
    BY <1>4, ResumeFacts DEF Fresh, LoopOK
  <2> QED
    BY <1>1, <2>1
<1> QED
  BY <1>1, <1>2, <1>3, <1>4, StepCases, SidecarWrites, FinishWrites, ExitGone
  DEF WriteReceipt, Die, Gone, vars, memory

(* The memory holds the identifiers of its successes. *)
LEMMA ValuesStep ==
  ASSUME IInv, [Next]_vars
  PROVE  ValuesOK'
<1> USE DEF IInv
<1>1. CASE groups' = <<>> /\ DOMAIN prev' = {}
  BY <1>1 DEF ValuesOK
<1>2. CASE \E entry : Turn(entry)
  <2>1. PICK entry : Turn(entry)
    BY <1>2
  <2>2. /\ Len(groups) \in Nat /\ Len(groups') = Len(groups) + 1
        /\ \A n \in 1..Len(groups) : groups'[n] = groups[n] /\ groups[n].target # Current
        /\ groups'[Len(groups) + 1] = entry
        /\ prev' = prev /\ Backed(entry, values')
        /\ \A x \in DOMAIN values : x # Current => x \in DOMAIN values' /\ values'[x] = values[x]
    BY <2>1, TurnFacts DEF Turn
  <2>3. \A n \in 1..Len(groups') : n \in 1..Len(groups) \/ n = Len(groups) + 1
    BY <2>2
  <2>4. \A n \in 1..Len(groups) : Backed(groups[n], values')
    BY <2>2 DEF ValuesOK, Backed
  <2>5. ASSUME NEW t \in DOMAIN prev
        PROVE  Backed(prev[t], values')
    <3>1. prev[t].target = t /\ Backed(prev[t], values)
      BY DEF PrevOK, ValuesOK
    <3>2. CASE t = Current
      BY <2>1, <3>1, <3>2 DEF Turn, Backed
    <3>3. CASE t # Current
      BY <2>2, <3>1, <3>3 DEF Backed
    <3> QED
      BY <3>2, <3>3
  <2> QED
    BY <2>2, <2>3, <2>4, <2>5 DEF ValuesOK
<1>3. CASE \E list \in TargetLists : Resume(list)
  <2>1. PICK list \in TargetLists : Resume(list)
    BY <1>3
  <2> QED
    BY <2>1, ResumeFacts DEF ValuesOK, Accepts
<1>4. CASE \E list \in TargetLists : Fresh(list)
  BY <1>1, <1>4 DEF Fresh, LoopOK
<1>5. CASE UNCHANGED <<groups, prev, values>>
  BY <1>5 DEF ValuesOK
<1> QED
  BY <1>1, <1>2, <1>3, <1>4, <1>5, StepCases, SidecarWrites, FinishWrites, ExitGone
  DEF WriteReceipt, Die, Gone, vars, memory

(* The identifiers a run writes are those of its results, and of the results it
   resumes. *)
LEMMA IdentifiersBack ==
  ASSUME TypeOK, LoopOK, PrevOK, ValuesOK
  PROVE  /\ \A n \in 1..Len(groups) : Backed(groups[n], Identifiers.values)
         /\ \A t \in DOMAIN prev : Backed(prev[t], Identifiers.values)
<1>1. /\ keys \in TargetLists /\ groups \in Seq(Results) /\ Len(groups) <= Len(keys)
      /\ Len(keys) \in Nat /\ Len(groups) \in Nat
  BY ListFacts DEF TypeOK
<1>2. ASSUME NEW m \in 1..Len(keys), NEW e, e.target = keys[m], Backed(e, values)
      PROVE  Backed(e, Identifiers.values)
  BY <1>2, WrittenSidecar DEF Backed
<1>3. ASSUME NEW n \in 1..Len(groups)
      PROVE  Backed(groups[n], Identifiers.values)
  <2>1. n \in 1..Len(keys)
    BY <1>1
  <2> QED
    BY <1>2, <2>1 DEF LoopOK, ValuesOK
<1>4. ASSUME NEW t \in DOMAIN prev
      PROVE  Backed(prev[t], Identifiers.values)
  BY <1>2 DEF PrevOK, ValuesOK
<1> QED
  BY <1>3, <1>4

(* The sidecar lags behind the memory by one result at most. *)
LEMMA SidecarStep ==
  ASSUME IInv, [Next]_vars
  PROVE  SidecarOK'
<1> USE DEF IInv
<1>1. CASE \E list \in TargetLists : Fresh(list)
  BY <1>1 DEF Fresh, LoopOK, SidecarOK, Writing
<1>2. CASE \E list \in TargetLists : Resume(list)
  BY <1>2, ResumeFacts DEF SidecarOK, Writing, Sidecar, Accepts
<1>3. CASE \E entry : Turn(entry)
  <2>1. PICK entry : Turn(entry)
    BY <1>3
  <2>2. /\ Len(groups) \in Nat /\ Len(groups') = Len(groups) + 1
        /\ \A n \in 1..Len(groups) : groups'[n] = groups[n]
        /\ groups'[Len(groups) + 1] = entry
        /\ prev' = prev /\ keys' = keys /\ sidecar' = sidecar
    BY <2>1, TurnFacts DEF Turn
  <2>3. Sidecar(Len(groups))
    BY <2>1 DEF Turn, SidecarOK
  <2>4. CASE pc' = "receipt"
    <3>1. Len(groups') - 1 = Len(groups)
      BY <2>2
    <3> QED
      BY <2>2, <2>3, <2>4, <3>1 DEF SidecarOK, Writing, Sidecar
  <2>5. CASE pc' \in {"loop", "finish"}
    <3>1. Backed(entry, sidecar.values)
      BY <2>1, <2>3, <2>5 DEF Turn, Sidecar
    <3>2. \A n \in 1..Len(groups') : n \in 1..Len(groups) \/ n = Len(groups) + 1
      BY <2>2
    <3> QED
      BY <2>2, <2>3, <2>5, <3>1, <3>2 DEF SidecarOK, Writing, Sidecar
  <2> QED
    BY <2>1, <2>4, <2>5 DEF Turn
<1>4. CASE WriteReceipt
  BY <1>4 DEF WriteReceipt, memory, SidecarOK, Writing, Sidecar, Progress
<1>5. CASE WriteSidecar
  <2>1. CASE Gone
    BY <2>1 DEF Gone, SidecarOK, Writing
  <2>2. CASE pc' = after /\ after # "raise" /\ UNCHANGED <<keys, prev, groups, values, after, runs>>
    <3>1. pc' \in {"loop", "finish"}
      BY <2>2 DEF TypeOK
    <3>2. sidecar' # NoFile /\ sidecar'.targets = keys
      BY <1>5, SidecarWrites, WrittenSidecar
    <3>3. /\ \A n \in 1..Len(groups) : Backed(groups[n], sidecar'.values)
          /\ \A t \in DOMAIN prev : Backed(prev[t], sidecar'.values)
      BY <1>5, SidecarWrites, IdentifiersBack
    <3> QED
      BY <2>2, <3>1, <3>2, <3>3 DEF SidecarOK, Writing, Sidecar
  <2> QED
    BY <1>5, <2>1, <2>2, SidecarWrites
<1>6. CASE Gone
  BY <1>6 DEF Gone, SidecarOK, Writing
<1>7. CASE UNCHANGED vars
  BY <1>7 DEF vars, files, memory, SidecarOK, Writing, Sidecar, Progress
<1> QED
  BY <1>1, <1>2, <1>3, <1>4, <1>5, <1>6, <1>7, StepCases, FinishWrites, ExitGone DEF Die

(* The results in memory cover the targets from the first on. *)
LEMMA GroupsCover ==
  ASSUME TypeOK, LoopOK
  PROVE  Covers(groups, keys)
<1>1. groups \in Seq(Results) /\ Len(groups) <= Len(keys)
  BY DEF TypeOK
<1> QED
  BY <1>1 DEF LoopOK, Covers

(* Only the last result can be stopped, and it is when the run is stopping. *)
LEMMA StoppedLast ==
  ASSUME TypeOK, LoopOK
  PROVE  /\ Stopping => \E e \in Entries(groups) : e.state = "stopped"
         /\ (\E e \in Entries(groups) : e.state = "stopped")
              => groups[Len(groups)].state = "stopped"
<1>1. groups \in Seq(Results) /\ DOMAIN groups = 1..Len(groups) /\ Len(groups) \in Nat
  BY DEF TypeOK
<1>2. groups # <<>> => Len(groups) \in DOMAIN groups
  BY <1>1, EmptySeq
<1>3. ASSUME Stopping
      PROVE  \E e \in Entries(groups) : e.state = "stopped"
  <2>1. groups # <<>> /\ groups[Len(groups)].state = "stopped"
    BY <1>3 DEF LoopOK
  <2>2. groups[Len(groups)] \in Entries(groups)
    BY <1>2, <2>1 DEF Entries
  <2> QED
    BY <2>1, <2>2
<1>4. ASSUME NEW e \in Entries(groups), e.state = "stopped"
      PROVE  groups[Len(groups)].state = "stopped"
  <2>1. PICK n \in DOMAIN groups : e = groups[n]
    BY DEF Entries
  <2> QED
    BY <1>1, <1>4, <2>1 DEF LoopOK
<1> QED
  BY <1>3, <1>4

(* The two files keep agreeing with each other. *)
LEMMA FilesStep ==
  ASSUME IInv, [Next]_vars
  PROVE  FilesOK'
<1> USE DEF IInv
<1>0. groups \in Seq(Results) /\ Len(groups) \in Nat /\ DOMAIN groups = 1..Len(groups)
  BY DEF TypeOK
<1>1. CASE UNCHANGED <<receipt, sidecar>>
  BY <1>1 DEF FilesOK, ReceiptIsPrefix, OnlyLastUnbacked, FinalOK, Accepts
<1>2. CASE WriteReceipt
  <2>1. /\ pc = "receipt" /\ receipt'.targets = keys /\ receipt'.groups = groups
        /\ receipt'.state = "running" /\ sidecar' = sidecar
    BY <1>2, ProgressFacts DEF WriteReceipt
  <2>2. ReceiptIsPrefix'
    BY <2>1, GroupsCover DEF ReceiptIsPrefix
  <2>3. OnlyLastUnbacked'
    BY <2>1 DEF OnlyLastUnbacked, SidecarOK, Sidecar, Writing
  <2>4. FinalOK'
    BY <2>1 DEF FinalOK
  <2> QED
    BY <2>2, <2>3, <2>4 DEF FilesOK
<1>3. CASE WriteSidecar
  <2>1. /\ receipt' = receipt /\ sidecar' = Identifiers /\ receipt.targets = keys
        /\ receipt.groups = groups /\ receipt.state = "running"
    BY <1>3, SidecarWrites, ProgressFacts DEF SidecarOK
  <2>2. ReceiptIsPrefix'
    BY <2>1 DEF FilesOK, ReceiptIsPrefix
  <2>3. OnlyLastUnbacked'
    <3>1. \A n \in 1..(Len(groups) - 1) : n \in 1..Len(groups)
      BY <1>0
    <3> QED
      BY <2>1, <3>1, WrittenSidecar, IdentifiersBack DEF OnlyLastUnbacked
  <2>4. FinalOK'
    BY <2>1 DEF FinalOK
  <2> QED
    BY <2>2, <2>3, <2>4 DEF FilesOK
<1>4. CASE Finish
  <2> DEFINE stopped == \E e \in Entries(groups) : e.state = "stopped"
  <2>1. /\ receipt'.targets = keys /\ receipt'.groups = groups /\ sidecar' = sidecar
        /\ receipt'.state = IF stopped THEN "stopped" ELSE "completed"
        /\ pc = "finish" \/ (pc = "loop" /\ Len(groups) = Len(keys))
    BY <1>4, FinishWrites, ProgressFacts
  <2>2. pc = "finish" => stopped
    BY StoppedLast DEF Stopping
  <2>3. stopped => groups[Len(groups)].state = "stopped"
    BY StoppedLast
  <2>4. Sidecar(Len(groups))
    BY <2>1 DEF SidecarOK
  <2> HIDE DEF stopped
  <2>5. ReceiptIsPrefix'
    BY <2>1, <2>2, <2>3, GroupsCover DEF ReceiptIsPrefix
  <2>6. OnlyLastUnbacked'
    <3>1. \A n \in 1..(Len(groups) - 1) : n \in 1..Len(groups)
      BY <1>0
    <3> QED
      BY <2>1, <2>4, <3>1 DEF OnlyLastUnbacked, Sidecar
  <2>7. FinalOK'
    BY <1>0, <2>1, <2>4 DEF FinalOK, Accepts, Sidecar
  <2> QED
    BY <2>5, <2>6, <2>7 DEF FilesOK
<1> QED
  BY <1>1, <1>2, <1>3, <1>4, StepCases, ResumeFacts
  DEF Fresh, Turn, Die, vars, files

(***************************************************************************)
(* The theorems.                                                           *)
(***************************************************************************)

(* Before the first run there are no files. *)
LEMMA InitHolds == Init => IInv
<1> SUFFICES ASSUME Init PROVE IInv
  OBVIOUS
<1>1. /\ receipt = NoFile /\ sidecar = NoFile /\ pc = "idle" /\ groups = <<>>
      /\ after = "loop" /\ runs = 0 /\ keys \in TargetLists
      /\ DOMAIN prev = {} /\ MapsInto(prev, Results)
      /\ DOMAIN values = {} /\ MapsInto(values, Values)
  BY EmptyMap DEF Init
<1>2. TypeOK
  BY <1>1, ListFacts, BatchAssumption DEF TypeOK
<1>3. LoopOK /\ PrevOK /\ ContinuedOK /\ ValuesOK /\ SidecarOK
  BY <1>1 DEF LoopOK, PrevOK, ContinuedOK, ValuesOK, SidecarOK, Stopping, Writing
<1>4. FilesOK
  BY <1>1 DEF FilesOK, ReceiptIsPrefix, OnlyLastUnbacked, FinalOK
<1> QED
  BY <1>2, <1>3, <1>4 DEF IInv

(* A run that ends without a stop has a result for each Group it resumed, which
   is the old one unless that was incomplete. *)
LEMMA FinishStep ==
  ASSUME IInv, [Next]_vars, Finish, receipt'.state = "completed",
         NEW t \in DOMAIN prev
  PROVE  \E e \in Entries(receipt'.groups) :
           /\ e.target = t
           /\ IF prev[t].state = "incomplete" THEN e.attempts = prev[t].attempts + 1
              ELSE e = prev[t]
<1> USE DEF IInv
<1>1. /\ receipt'.groups = groups
      /\ ~\E e \in Entries(groups) : e.state = "stopped"
      /\ pc = "finish" \/ (pc = "loop" /\ Len(groups) = Len(keys))
  BY FinishWrites, ProgressFacts
<1>2. Len(groups) = Len(keys)
  BY <1>1, StoppedLast DEF Stopping
<1>3. PICK n \in 1..Len(keys) : keys[n] = t
  BY DEF PrevOK
<1>4. groups[n].target = t /\ Continues(groups[n])
  BY <1>2, <1>3 DEF LoopOK, ContinuedOK
<1>5. groups[n] \in Entries(groups)
  BY <1>2 DEF TypeOK, Entries
<1> QED
  BY <1>1, <1>4, <1>5 DEF Continues

(* After any sequence of runs, deaths and failed writes the invariant holds. *)
THEOREM Invariant == Spec => []IInv
<1>1. ASSUME IInv, [Next]_vars
      PROVE  IInv'
  BY <1>1, TypeStep, LoopStep, PrevStep, ContinuedStep, ValuesStep, SidecarStep, FilesStep DEF IInv
<1> QED
  BY <1>1, InitHolds, PTL DEF Spec

(* The files, the results and the maps stay in their types. *)
THEOREM TypeCorrect == Spec => []TypeOK
<1>1. IInv => TypeOK
  BY DEF IInv
<1> QED
  BY <1>1, Invariant, PTL

(* However often runs die, the receipt lists the targets from the first one on,
   in order, and captures nothing after a stop. *)
THEOREM Prefix == Spec => []ReceiptIsPrefix
<1>1. IInv => ReceiptIsPrefix
  BY DEF IInv, FilesOK
<1> QED
  BY <1>1, Invariant, PTL

(* A death between the two replacements costs one Group's identifiers at most. *)
THEOREM OneGroupLost == Spec => []OnlyLastUnbacked
<1>1. IInv => OnlyLastUnbacked
  BY DEF IInv, FilesOK
<1> QED
  BY <1>1, Invariant, PTL

(* A run that ended by itself can always be resumed. *)
THEOREM Resumable == Spec => []FinishedIsResumable
<1>1. IInv => FinishedIsResumable
  BY DEF IInv, FilesOK, FinalOK, FinishedIsResumable
<1> QED
  BY <1>1, Invariant, PTL

(* Each success a process reports has the identifiers its own capture returned. *)
THEOREM NoMixedGenerations == Spec => []IdentifiersMatch
<1>1. ASSUME IInv
      PROVE  IdentifiersMatch
  <2>1. groups \in Seq(Results)
    BY <1>1 DEF IInv, TypeOK
  <2>2. \A e \in Succeeded(groups) : \E n \in 1..Len(groups) : e = groups[n]
    BY <2>1 DEF Succeeded, Entries
  <2> QED
    BY <1>1, <2>2 DEF IInv, ValuesOK, IdentifiersMatch
<1> QED
  BY <1>1, Invariant, PTL

(* A resumed run that comes to its end has lost no success of an earlier run. *)
THEOREM CompletedAreKept == Spec => FinishKeepsCompleted
<1>1. ASSUME IInv, [Next]_vars
      PROVE  [Finish /\ receipt'.state = "completed" =>
                \A t \in DOMAIN prev : \E e \in Entries(receipt'.groups) :
                  /\ e.target = t
                  /\ IF prev[t].state = "incomplete" THEN e.attempts = prev[t].attempts + 1
                     ELSE e = prev[t]]_vars
  BY <1>1, FinishStep
<1> QED
  BY <1>1, Invariant, PTL DEF Spec, FinishKeepsCompleted
=============================================================================
