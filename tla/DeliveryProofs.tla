---------------------------- MODULE DeliveryProofs ----------------------------
(***************************************************************************)
(* Proofs about Delivery for every set of processes, any number of pages,   *)
(* commands, session classes and text exports: what one delivery that no    *)
(* other overlaps leaves behind, and that a later one reproduces what its   *)
(* receipt attests.                                                        *)
(***************************************************************************)
EXTENDS Delivery, FiniteSetTheorems, SequenceTheorems, TLAPS

(***************************************************************************)
(* The inductive invariant.                                                *)
(***************************************************************************)

States == {"idle", "capture", "stopping", "profile", "list", "read", "export", "clean"}
Anything == Content \cup Manifest

(* Every variable has its type, the memory of the processes included. *)
Typed ==
  /\ class \in Classes /\ as \in [Workers -> Classes \cup {Missing}]
  /\ job \in {"open", "succeeded", "failed"} /\ pages \in 0..MaxPages /\ raw \subseteq 1..pages
  /\ gate \in Workers \cup {Nobody} /\ alone \in Workers \cup {Nobody}
  /\ commands \in 0..MaxCommands /\ settled \in BOOLEAN
  /\ files \in [Kinds -> Anything] /\ \A kind \in Hashed : files[kind] \in Content
  /\ files["manifest"] \in Manifest \cup {Missing, Emptied, Mixed}
  /\ row \in Manifest \cup {Missing}
  /\ receipt # Missing /\ receipt.of # Missing => receipt.state = "succeeded"
  /\ pc \in [Workers -> States] /\ at \in [Workers -> Nat]
  /\ todo \in [Workers -> SUBSET Pages] /\ got \in [Workers -> SUBSET Pages]
  /\ seen \in [Workers -> [Kinds -> Anything]]
  /\ \A w \in Workers, kind \in Hashed : seen[w][kind] \in Content

(* The gate is held from the capture to the end of the delivery, which begins with
   the session class. *)
Gated(w) ==
  /\ pc[w] \in {"capture", "stopping"} => gate = w
  /\ pc[w] = "capture" => job = "open"
  /\ gate = w =>
       /\ pc[w] \in States \ {"idle", "clean"}
       /\ pc[w] \in {"profile", "list", "read", "export"} => job = "succeeded"
       /\ pc[w] \in {"read", "export"} => todo[w] = 1..pages
  /\ pc[w] \in {"list", "read", "export"} => as[w] \in Classes
  /\ IF pc[w] = "export" THEN got[w] = todo[w] /\ at[w] \in 1..Len(Script(w)) ELSE at[w] = 0

(* A delivery that is alone is the only one, and one that has settled was the last. *)
Lonely ==
  /\ \A w \in Workers : alone = w => Delivering = {w}
  /\ settled => Delivering = {}

(* What a delivery of these records leaves when nothing disturbs it. *)
Told(of) == [of |-> of, hashes |-> [kind \in Hashed |-> of]]
Delivered(of) == [kind \in Kinds |-> IF kind = "manifest" THEN Told(of) ELSE of]

(* So much of it is there when the process has done these steps of its script. *)
Undisturbed(w) ==
  \A n \in 1..at[w] - 1 :
    LET step == Script(w)[n]
        final == Delivered(Holds(w))[step.kind]
    IN  /\ step.do = "open" /\ n = at[w] - 1 => files[step.kind] = Emptied
        /\ step.do = "write" => files[step.kind] = final
        /\ step.do = "hash" => seen[w][step.kind] = final
        /\ step.do = "record" => row = final

(* The latest delivery left everything. *)
Whole == settled => /\ row.of \in Records
                    /\ row = Told(row.of) /\ files = Delivered(row.of)

(* A receipt of an undisturbed delivery stands for the pages of the job, which do
   not grow any more, and later deliveries are of the same pages. *)
Attested ==
  receipt # Missing /\ receipt.lone =>
    /\ job = "succeeded" /\ receipt.of \in Records
    /\ receipt.of.pages = 1..pages /\ receipt.raw = 1..pages
    /\ receipt.files = Delivered(receipt.of)
    /\ \A w \in Delivering : todo[w] = 1..pages
    /\ settled => row.of.pages = 1..pages

Inv ==
  /\ Typed /\ Lonely /\ Whole /\ Attested
  /\ \A w \in Workers : Gated(w)
  /\ \A w \in Workers : alone = w /\ pc[w] = "export" => Undisturbed(w)

-----------------------------------------------------------------------------
(***************************************************************************)
(* The script of a delivery, position by position.                         *)
(***************************************************************************)

T == Len(Texts)
Dos == [do : {"open", "write", "hash", "record", "attest"}, kind : Kinds]

(* The text exports are some of three, each once; SQLite is another, and the
   manifest is none of the files it hashes. *)
LEMMA TextsType ==
  /\ T \in Nat /\ DOMAIN Texts = 1..T
  /\ \A j \in 1..T : Texts[j] \in Hashed /\ Texts[j] \in Kinds
  /\ \A j \in 1..T : Texts[j] # "sqlite" /\ Texts[j] # "manifest"
  /\ \A i, j \in 1..T : Texts[i] = Texts[j] => i = j
  /\ \A kind \in Hashed : kind = "sqlite" \/ \E j \in 1..T : kind = Texts[j]
  /\ "manifest" \notin Hashed /\ "manifest" \in Kinds /\ "sqlite" \in Hashed
  /\ "sqlite" \in Kinds /\ Hashed \subseteq Kinds
<1>1. Texts \in Seq({"json", "csv", "markdown"}) /\ IsInjective(Texts)
  BY DeliveryAssumption
<1>2. T \in Nat /\ DOMAIN Texts = 1..T /\ \A j \in 1..T : Texts[j] \in {"json", "csv", "markdown"}
  BY <1>1 DEF T
<1>3. Range(Texts) = {Texts[j] : j \in 1..T}
  BY <1>2 DEF Range
<1>4. \A i, j \in 1..T : Texts[i] = Texts[j] => i = j
  BY <1>1, <1>2 DEF IsInjective
<1> QED
  BY <1>2, <1>3, <1>4 DEF Hashed, Kinds

(* One sequence of steps after the other. *)
LEMMA Joined ==
  ASSUME NEW s \in Seq(Dos), NEW u \in Seq(Dos)
  PROVE  /\ s \o u \in Seq(Dos) /\ Len(s \o u) = Len(s) + Len(u)
         /\ \A n \in 1..Len(s) : (s \o u)[n] = s[n]
         /\ \A n \in 1..Len(u) : (s \o u)[Len(s) + n] = u[n]
<1>1. s \o u \in Seq(Dos) /\ Len(s \o u) = Len(s) + Len(u)
  BY ConcatProperties
<1>2. \A n \in 1..Len(s) + Len(u) :
        (s \o u)[n] = IF n <= Len(s) THEN s[n] ELSE u[n - Len(s)]
  BY ConcatProperties
<1>3. Len(s) \in Nat /\ Len(u) \in Nat
  OBVIOUS
<1>4. ASSUME NEW n \in 1..Len(s) PROVE (s \o u)[n] = s[n]
  <2>1. n \in 1..Len(s) + Len(u) /\ n <= Len(s)
    BY <1>3
  <2> QED
    BY <1>2, <2>1
<1>5. ASSUME NEW n \in 1..Len(u) PROVE (s \o u)[Len(s) + n] = u[n]
  <2>1. Len(s) + n \in 1..Len(s) + Len(u) /\ ~(Len(s) + n <= Len(s)) /\ Len(s) + n - Len(s) = n
    BY <1>3
  <2> QED
    BY <1>2, <2>1
<1> QED
  BY <1>1, <1>4, <1>5

(* Each text export is opened, then written. *)
LEMMA WrittenAt ==
  /\ Written \in Seq(Dos) /\ Len(Written) = 2 * T
  /\ \A j \in 1..T : /\ Written[2 * j - 1] = Do("open", Texts[j])
                     /\ Written[2 * j] = Do("write", Texts[j])
<1>1. T \in Nat
  BY TextsType
<1>2. \A n \in 1..2 * T : (n + 1) \div 2 \in 1..T
  BY <1>1
<1>3. Written = [n \in 1..2 * T |->
                   Do(IF n % 2 = 1 THEN "open" ELSE "write", Texts[(n + 1) \div 2])]
  BY DEF Written, T
<1>4. \A n \in 1..2 * T : Do(IF n % 2 = 1 THEN "open" ELSE "write", Texts[(n + 1) \div 2]) \in Dos
  BY <1>2, TextsType DEF Do, Dos
<1>5. Written \in [1..2 * T -> Dos] /\ 2 * T \in Nat
  BY <1>1, <1>3, <1>4
<1>6. Written \in Seq(Dos) /\ Len(Written) = 2 * T
  BY <1>5
<1>7. ASSUME NEW j \in 1..T
      PROVE  /\ Written[2 * j - 1] = Do("open", Texts[j])
             /\ Written[2 * j] = Do("write", Texts[j])
  <2>1. /\ 2 * j - 1 \in 1..2 * T /\ (2 * j - 1) % 2 = 1 /\ (2 * j - 1 + 1) \div 2 = j
        /\ 2 * j \in 1..2 * T /\ (2 * j) % 2 # 1 /\ (2 * j + 1) \div 2 = j
    BY <1>1
  <2> QED
    BY <1>3, <2>1
<1> QED
  BY <1>6, <1>7

(* Every file is hashed but the manifest. *)
LEMMA HashesAt ==
  /\ Hashes \in Seq(Dos) /\ Len(Hashes) = T + 1
  /\ \A j \in 1..T : Hashes[j] = Do("hash", Texts[j])
  /\ Hashes[T + 1] = Do("hash", "sqlite")
<1> DEFINE first == [n \in 1..T |-> Do("hash", Texts[n])]
<1>1. T \in Nat
  BY TextsType
<1>2. \A n \in 1..T : Do("hash", Texts[n]) \in Dos
  BY TextsType DEF Do, Dos
<1>3. first \in Seq(Dos) /\ Len(first) = T
  <2>1. first \in [1..T -> Dos]
    BY <1>2
  <2> HIDE DEF first
  <2> QED
    BY <1>1, <2>1
<1>4. \A n \in 1..T : first[n] = Do("hash", Texts[n])
  OBVIOUS
<1>5. Do("hash", "sqlite") \in Dos
  BY TextsType DEF Do, Dos
<1>6. Hashes = first \o <<Do("hash", "sqlite")>>
  BY DEF Hashes, T
<1> HIDE DEF first
<1> QED
  BY <1>1, <1>3, <1>4, <1>5, <1>6

(* _export: the texts, the database, their hashes, and the manifest. *)
LEMMA ExportAt ==
  /\ Export \in Seq(Dos) /\ Len(Export) = 3 * T + 5
  /\ \A j \in 1..T : /\ Export[2 * j - 1] = Do("open", Texts[j])
                     /\ Export[2 * j] = Do("write", Texts[j])
                     /\ Export[2 * T + 1 + j] = Do("hash", Texts[j])
  /\ Export[2 * T + 1] = Do("write", "sqlite") /\ Export[3 * T + 2] = Do("hash", "sqlite")
  /\ Export[3 * T + 3] = Do("open", "manifest") /\ Export[3 * T + 4] = Do("write", "manifest")
  /\ Export[3 * T + 5] = Do("record", "manifest")
<1> DEFINE a == <<Do("write", "sqlite")>>
           b == Written \o a
           c == b \o Hashes
<1>1. T \in Nat
  BY TextsType
<1>2. a \in Seq(Dos) /\ Len(a) = 1 /\ a[1] = Do("write", "sqlite")
  BY TextsType DEF Do, Dos
<1>3. /\ Manifested \in Seq(Dos) /\ Len(Manifested) = 3
      /\ Manifested[1] = Do("open", "manifest") /\ Manifested[2] = Do("write", "manifest")
      /\ Manifested[3] = Do("record", "manifest")
  <2>1. Do("open", "manifest") \in Dos /\ Do("write", "manifest") \in Dos
        /\ Do("record", "manifest") \in Dos
    BY TextsType DEF Do, Dos
  <2> QED
    BY <2>1 DEF Manifested
<1>4. Export = c \o Manifested
  BY DEF Export
<1> HIDE DEF a
<1>5. /\ b \in Seq(Dos) /\ Len(b) = 2 * T + 1
      /\ \A n \in 1..2 * T : b[n] = Written[n]
      /\ b[2 * T + 1] = Do("write", "sqlite")
  <2>1. /\ b \in Seq(Dos) /\ Len(b) = Len(Written) + Len(a)
        /\ \A n \in 1..Len(Written) : b[n] = Written[n]
        /\ \A n \in 1..Len(a) : b[Len(Written) + n] = a[n]
    BY <1>2, WrittenAt, Joined
  <2> HIDE DEF b
  <2>2. b[2 * T + 1] = a[1]
    BY <1>2, <2>1, WrittenAt
  <2> QED
    BY <1>1, <1>2, <2>1, <2>2, WrittenAt
<1> HIDE DEF b
<1>6. /\ c \in Seq(Dos) /\ Len(c) = 3 * T + 2
      /\ \A n \in 1..2 * T + 1 : c[n] = b[n]
      /\ \A j \in 1..T + 1 : c[2 * T + 1 + j] = Hashes[j]
  <2>1. /\ c \in Seq(Dos) /\ Len(c) = Len(b) + Len(Hashes)
        /\ \A n \in 1..Len(b) : c[n] = b[n]
        /\ \A n \in 1..Len(Hashes) : c[Len(b) + n] = Hashes[n]
    BY <1>5, HashesAt, Joined
  <2> HIDE DEF c
  <2> QED
    BY <1>1, <1>5, <2>1, HashesAt
<1> HIDE DEF c
<1>7. /\ Export \in Seq(Dos) /\ Len(Export) = 3 * T + 5
      /\ \A n \in 1..3 * T + 2 : Export[n] = c[n]
      /\ \A j \in 1..3 : Export[3 * T + 2 + j] = Manifested[j]
  <2>1. /\ Export \in Seq(Dos) /\ Len(Export) = Len(c) + Len(Manifested)
        /\ \A n \in 1..Len(c) : Export[n] = c[n]
        /\ \A n \in 1..Len(Manifested) : Export[Len(c) + n] = Manifested[n]
    BY <1>3, <1>4, <1>6, Joined
  <2> QED
    BY <1>1, <1>3, <1>6, <2>1
<1>8. ASSUME NEW j \in 1..T
      PROVE  /\ Export[2 * j - 1] = Do("open", Texts[j])
             /\ Export[2 * j] = Do("write", Texts[j])
             /\ Export[2 * T + 1 + j] = Do("hash", Texts[j])
  <2>1. /\ 2 * j - 1 \in 1..2 * T /\ 2 * j \in 1..2 * T /\ j \in 1..T + 1
        /\ 2 * j - 1 \in 1..2 * T + 1 /\ 2 * j \in 1..2 * T + 1
        /\ 2 * j - 1 \in 1..3 * T + 2 /\ 2 * j \in 1..3 * T + 2
        /\ 2 * T + 1 + j \in 1..3 * T + 2
    BY <1>1
  <2>2. Export[2 * j - 1] = Written[2 * j - 1] /\ Export[2 * j] = Written[2 * j]
    BY <1>5, <1>6, <1>7, <2>1
  <2>3. Export[2 * T + 1 + j] = Hashes[j]
    BY <1>6, <1>7, <2>1
  <2> QED
    BY <2>2, <2>3, WrittenAt, HashesAt
<1>9. /\ Export[2 * T + 1] = Do("write", "sqlite") /\ Export[3 * T + 2] = Do("hash", "sqlite")
  <2>1. /\ 2 * T + 1 \in 1..2 * T + 1 /\ 2 * T + 1 \in 1..3 * T + 2 /\ T + 1 \in 1..T + 1
        /\ 3 * T + 2 \in 1..3 * T + 2 /\ 3 * T + 2 = 2 * T + 1 + (T + 1)
    BY <1>1
  <2>2. Export[2 * T + 1] = b[2 * T + 1] /\ Export[3 * T + 2] = c[2 * T + 1 + (T + 1)]
    BY <1>6, <1>7, <2>1
  <2>3. c[2 * T + 1 + (T + 1)] = Hashes[T + 1]
    BY <1>6, <2>1
  <2> QED
    BY <1>5, <2>2, <2>3, HashesAt
<1>10. /\ Export[3 * T + 3] = Do("open", "manifest") /\ Export[3 * T + 4] = Do("write", "manifest")
       /\ Export[3 * T + 5] = Do("record", "manifest")
  <2>1. 3 * T + 3 = 3 * T + 2 + 1 /\ 3 * T + 4 = 3 * T + 2 + 2 /\ 3 * T + 5 = 3 * T + 2 + 3
    BY <1>1
  <2> QED
    BY <1>3, <1>7, <2>1
<1> QED
  BY <1>7, <1>8, <1>9, <1>10

(* The receipt hashes the same files, the manifest too, and is written last. *)
LEMMA AttestAt ==
  /\ Attest \in Seq(Dos) /\ Len(Attest) = T + 3
  /\ \A j \in 1..T : Attest[j] = Do("hash", Texts[j])
  /\ Attest[T + 1] = Do("hash", "sqlite") /\ Attest[T + 2] = Do("hash", "manifest")
  /\ Attest[T + 3] = Do("attest", "manifest")
<1> DEFINE a == <<Do("hash", "manifest"), Do("attest", "manifest")>>
<1>1. T \in Nat
  BY TextsType
<1>2. Do("hash", "manifest") \in Dos /\ Do("attest", "manifest") \in Dos
  BY TextsType DEF Do, Dos
<1>3. /\ a \in Seq(Dos) /\ Len(a) = 2
      /\ a[1] = Do("hash", "manifest") /\ a[2] = Do("attest", "manifest")
  BY <1>2
<1>4. Attest = Hashes \o a
  BY DEF Attest
<1> HIDE DEF a
<1>5. /\ Attest \in Seq(Dos) /\ Len(Attest) = T + 3
      /\ \A n \in 1..T + 1 : Attest[n] = Hashes[n]
      /\ Attest[T + 1 + 1] = a[1] /\ Attest[T + 1 + 2] = a[2]
  <2>1. /\ Attest \in Seq(Dos) /\ Len(Attest) = Len(Hashes) + Len(a)
        /\ \A n \in 1..Len(Hashes) : Attest[n] = Hashes[n]
        /\ \A n \in 1..Len(a) : Attest[Len(Hashes) + n] = a[n]
    BY <1>3, <1>4, HashesAt, Joined
  <2> QED
    BY <1>1, <1>3, <2>1, HashesAt
<1>6. T + 1 \in 1..T + 1 /\ T + 1 + 1 = T + 2 /\ T + 1 + 2 = T + 3
      /\ \A j \in 1..T : j \in 1..T + 1
  BY <1>1
<1> QED
  BY <1>3, <1>5, <1>6, HashesAt

(* The positions of the script of a process. *)
Positions(w) ==
  /\ \A j \in 1..T : /\ Script(w)[2 * j - 1] = Do("open", Texts[j])
                     /\ Script(w)[2 * j] = Do("write", Texts[j])
                     /\ Script(w)[2 * T + 1 + j] = Do("hash", Texts[j])
  /\ Script(w)[2 * T + 1] = Do("write", "sqlite") /\ Script(w)[3 * T + 2] = Do("hash", "sqlite")
  /\ Script(w)[3 * T + 3] = Do("open", "manifest")
  /\ Script(w)[3 * T + 4] = Do("write", "manifest")
  /\ Script(w)[3 * T + 5] = Do("record", "manifest")
  /\ gate = w =>
       /\ \A j \in 1..T : Script(w)[3 * T + 5 + j] = Do("hash", Texts[j])
       /\ Script(w)[4 * T + 6] = Do("hash", "sqlite")
       /\ Script(w)[4 * T + 7] = Do("hash", "manifest")
       /\ Script(w)[4 * T + 8] = Do("attest", "manifest")

(* The gate holder goes on to attest what it has exported. *)
LEMMA ScriptAt ==
  ASSUME NEW w
  PROVE  /\ Positions(w)
         /\ Len(Script(w)) = IF gate = w THEN 4 * T + 8 ELSE 3 * T + 5
<1>1. T \in Nat
  BY TextsType
<1>2. CASE gate # w
  <2>1. Script(w) = Export
    BY <1>2 DEF Script
  <2> QED
    BY <1>2, <2>1, ExportAt DEF Positions
<1>3. CASE gate = w
  <2>1. Script(w) = Export \o Attest
    BY <1>3 DEF Script
  <2>2. /\ Len(Script(w)) = 4 * T + 8
        /\ \A n \in 1..3 * T + 5 : Script(w)[n] = Export[n]
        /\ \A n \in 1..T + 3 : Script(w)[3 * T + 5 + n] = Attest[n]
    <3>1. /\ Len(Script(w)) = Len(Export) + Len(Attest)
          /\ \A n \in 1..Len(Export) : Script(w)[n] = Export[n]
          /\ \A n \in 1..Len(Attest) : Script(w)[Len(Export) + n] = Attest[n]
      <4>1. /\ Len(Export \o Attest) = Len(Export) + Len(Attest)
            /\ \A n \in 1..Len(Export) : (Export \o Attest)[n] = Export[n]
            /\ \A n \in 1..Len(Attest) : (Export \o Attest)[Len(Export) + n] = Attest[n]
        BY ExportAt, AttestAt, Joined
      <4> QED
        BY <2>1, <4>1
    <3>2. Len(Export) = 3 * T + 5 /\ Len(Attest) = T + 3
      BY ExportAt, AttestAt
    <3> QED
      BY <1>1, <3>1, <3>2
  <2>3. ASSUME NEW j \in 1..T
        PROVE  /\ Script(w)[2 * j - 1] = Do("open", Texts[j])
               /\ Script(w)[2 * j] = Do("write", Texts[j])
               /\ Script(w)[2 * T + 1 + j] = Do("hash", Texts[j])
               /\ Script(w)[3 * T + 5 + j] = Do("hash", Texts[j])
    <3>1. /\ 2 * j - 1 \in 1..3 * T + 5 /\ 2 * j \in 1..3 * T + 5
          /\ 2 * T + 1 + j \in 1..3 * T + 5 /\ j \in 1..T + 3
      BY <1>1
    <3> QED
      BY <2>2, <3>1, ExportAt, AttestAt
  <2>4. /\ 2 * T + 1 \in 1..3 * T + 5 /\ 3 * T + 2 \in 1..3 * T + 5
        /\ 3 * T + 3 \in 1..3 * T + 5 /\ 3 * T + 4 \in 1..3 * T + 5 /\ 3 * T + 5 \in 1..3 * T + 5
        /\ T + 1 \in 1..T + 3 /\ T + 2 \in 1..T + 3 /\ T + 3 \in 1..T + 3
        /\ 4 * T + 6 = 3 * T + 5 + (T + 1) /\ 4 * T + 7 = 3 * T + 5 + (T + 2)
        /\ 4 * T + 8 = 3 * T + 5 + (T + 3)
    BY <1>1
  <2>5. /\ Script(w)[2 * T + 1] = Export[2 * T + 1] /\ Script(w)[3 * T + 2] = Export[3 * T + 2]
        /\ Script(w)[3 * T + 3] = Export[3 * T + 3] /\ Script(w)[3 * T + 4] = Export[3 * T + 4]
        /\ Script(w)[3 * T + 5] = Export[3 * T + 5]
    BY <2>2, <2>4
  <2>6. /\ Script(w)[4 * T + 6] = Attest[T + 1] /\ Script(w)[4 * T + 7] = Attest[T + 2]
        /\ Script(w)[4 * T + 8] = Attest[T + 3]
    BY <2>2, <2>4
  <2> QED
    BY <1>3, <2>2, <2>3, <2>5, <2>6, ExportAt, AttestAt DEF Positions
<1> QED
  BY <1>2, <1>3

(* What a step of the script is, by its position. *)
LEMMA StepKinds ==
  ASSUME NEW w, NEW n \in 1..Len(Script(w))
  PROVE  \/ \E j \in 1..T : n = 2 * j - 1 /\ Script(w)[n] = Do("open", Texts[j])
         \/ \E j \in 1..T : n = 2 * j /\ Script(w)[n] = Do("write", Texts[j])
         \/ n = 2 * T + 1 /\ Script(w)[n] = Do("write", "sqlite")
         \/ \E j \in 1..T : n = 2 * T + 1 + j /\ Script(w)[n] = Do("hash", Texts[j])
         \/ n = 3 * T + 2 /\ Script(w)[n] = Do("hash", "sqlite")
         \/ n = 3 * T + 3 /\ Script(w)[n] = Do("open", "manifest")
         \/ n = 3 * T + 4 /\ Script(w)[n] = Do("write", "manifest")
         \/ n = 3 * T + 5 /\ Script(w)[n] = Do("record", "manifest")
         \/ /\ gate = w /\ Len(Script(w)) = 4 * T + 8
            /\ \/ \E j \in 1..T : n = 3 * T + 5 + j /\ Script(w)[n] = Do("hash", Texts[j])
               \/ n = 4 * T + 6 /\ Script(w)[n] = Do("hash", "sqlite")
               \/ n = 4 * T + 7 /\ Script(w)[n] = Do("hash", "manifest")
               \/ n = 4 * T + 8 /\ Script(w)[n] = Do("attest", "manifest")
<1>1. T \in Nat /\ n \in Nat /\ n > 0
  <2>1. T \in Nat
    BY TextsType
  <2> QED
    BY <2>1, ScriptAt
<1>2. n <= IF gate = w THEN 4 * T + 8 ELSE 3 * T + 5
  BY <1>1, ScriptAt
<1>3. Positions(w)
  BY ScriptAt
<1>4. CASE n \in 1..2 * T
  <2>1. \E j \in 1..T : n = 2 * j - 1 \/ n = 2 * j
    <3>1. (n + 1) \div 2 \in 1..T
      BY <1>1, <1>4
    <3>2. n = 2 * ((n + 1) \div 2) - 1 \/ n = 2 * ((n + 1) \div 2)
      BY <1>1
    <3> QED
      BY <3>1, <3>2
  <2> QED
    BY <1>3, <2>1 DEF Positions
<1>5. CASE n \in 2 * T + 2..3 * T + 1
  <2>1. n - (2 * T + 1) \in 1..T /\ n = 2 * T + 1 + (n - (2 * T + 1))
    BY <1>1, <1>5
  <2> QED
    BY <1>3, <2>1 DEF Positions
<1>6. CASE n \in {2 * T + 1, 3 * T + 2, 3 * T + 3, 3 * T + 4, 3 * T + 5}
  BY <1>3, <1>6 DEF Positions
<1>7. CASE gate = w /\ n \in 3 * T + 6..4 * T + 5
  <2>1. n - (3 * T + 5) \in 1..T /\ n = 3 * T + 5 + (n - (3 * T + 5))
    BY <1>1, <1>7
  <2> QED
    BY <1>3, <1>7, <2>1, ScriptAt DEF Positions
<1>8. CASE gate = w /\ n \in {4 * T + 6, 4 * T + 7, 4 * T + 8}
  BY <1>3, <1>8, ScriptAt DEF Positions
<1>9. \/ n \in 1..2 * T \/ n \in 2 * T + 2..3 * T + 1
      \/ n \in {2 * T + 1, 3 * T + 2, 3 * T + 3, 3 * T + 4, 3 * T + 5}
      \/ gate = w /\ n \in 3 * T + 6..4 * T + 5
      \/ gate = w /\ n \in {4 * T + 6, 4 * T + 7, 4 * T + 8}
  BY <1>1, <1>2
<1> QED
  BY <1>4, <1>5, <1>6, <1>7, <1>8, <1>9

(* From the manifest on, every file is written and hashed. *)
LEMMA HashedBefore ==
  ASSUME NEW w, NEW n \in 1..Len(Script(w)), n >= 3 * T + 4, NEW kind \in Hashed
  PROVE  \E m \in 1..n - 1 : Script(w)[m] = Do("hash", kind)
<1>1. T \in Nat /\ Positions(w) /\ n \in Nat
  BY TextsType, ScriptAt
<1>2. CASE kind = "sqlite"
  <2>1. 3 * T + 2 \in 1..n - 1
    BY <1>1
  <2> QED
    BY <1>1, <1>2, <2>1 DEF Positions
<1>3. ASSUME NEW j \in 1..T, kind = Texts[j]
      PROVE  \E m \in 1..n - 1 : Script(w)[m] = Do("hash", kind)
  <2>1. 2 * T + 1 + j \in 1..n - 1
    BY <1>1
  <2> QED
    BY <1>1, <1>3, <2>1 DEF Positions
<1> QED
  BY <1>2, <1>3, TextsType

(* The order of the script: what each of its steps comes after. *)
StepOrder(w, n) ==
  LET step == Script(w)[n]
  IN  /\ step.kind \in Kinds
      /\ step.do \in {"open", "write", "hash"} => n + 1 <= Len(Script(w))
      /\ step.do = "record" /\ gate = w => n + 1 <= Len(Script(w))
      /\ step.do = "attest" => gate = w
      /\ step.do \in {"record", "attest"} => step.kind = "manifest"
      /\ step.do = "open" => \A m \in 1..n - 1 : Script(w)[m] # Do("write", step.kind)
      /\ step.do = "write" =>
           step.kind = "sqlite" \/ (n > 1 /\ Script(w)[n - 1] = Do("open", step.kind))
      /\ step.do = "hash" => \E m \in 1..n - 1 : Script(w)[m] = Do("write", step.kind)
      /\ step = Do("write", "manifest") \/ step.do \in {"record", "attest"} =>
           \A kind \in Hashed : \E m \in 1..n - 1 : Script(w)[m] = Do("hash", kind)
      /\ step.do \in {"record", "attest"} =>
           \E m \in 1..n - 1 : Script(w)[m] = Do("write", "manifest")
      /\ step.do = "attest" =>
           /\ \E m \in 1..n - 1 : Script(w)[m] = Do("hash", "manifest")
           /\ \E m \in 1..n - 1 : Script(w)[m] = Do("record", "manifest")

(* A text export is not written before its position. *)
LEMMA WrittenOnce ==
  ASSUME NEW w, NEW m \in 1..Len(Script(w)), NEW kind, Script(w)[m] = Do("write", kind)
  PROVE  \/ \E j \in 1..T : m = 2 * j /\ kind = Texts[j]
         \/ m = 2 * T + 1 /\ kind = "sqlite"
         \/ m = 3 * T + 4 /\ kind = "manifest"
<1>1. Script(w)[m].do = "write" /\ Script(w)[m].kind = kind
  BY DEF Do
<1>2. \A d, k : Do(d, k).do = d /\ Do(d, k).kind = k
  BY DEF Do
<1> QED
  BY <1>1, <1>2, StepKinds

(* _export and the receipt writer take their steps in this order. *)
LEMMA Ordered ==
  ASSUME NEW w, NEW n \in 1..Len(Script(w))
  PROVE  StepOrder(w, n)
<1>1. T \in Nat /\ Positions(w) /\ n \in Nat /\ n > 0
  <2>1. T \in Nat /\ Positions(w)
    BY TextsType, ScriptAt
  <2> QED
    BY <2>1, ScriptAt
<1>2. Len(Script(w)) = IF gate = w THEN 4 * T + 8 ELSE 3 * T + 5
  BY ScriptAt
<1>3. ASSUME NEW j \in 1..T, n = 2 * j - 1, Script(w)[n] = Do("open", Texts[j])
      PROVE  StepOrder(w, n)
  <2>1. ASSUME NEW m \in 1..n - 1 PROVE Script(w)[m] # Do("write", Texts[j])
    <3> SUFFICES ASSUME Script(w)[m] = Do("write", Texts[j]) PROVE FALSE
      OBVIOUS
    <3>1. m \in 1..Len(Script(w))
      BY <1>1, <1>2
    <3>2. PICK i \in 1..T : m = 2 * i /\ Texts[j] = Texts[i]
      BY <3>1, WrittenOnce, TextsType
    <3>3. i = j
      BY <3>2, TextsType
    <3> QED
      BY <1>1, <1>3, <3>2, <3>3
  <2>2. n + 1 <= Len(Script(w)) /\ Texts[j] \in Kinds
    BY <1>1, <1>2, <1>3, TextsType
  <2> QED
    BY <1>3, <2>1, <2>2 DEF StepOrder, Do
<1>4. ASSUME NEW j \in 1..T, n = 2 * j, Script(w)[n] = Do("write", Texts[j])
      PROVE  StepOrder(w, n)
  <2>1. n > 1 /\ n - 1 = 2 * j - 1
    BY <1>1, <1>4
  <2>2. Script(w)[n - 1] = Do("open", Texts[j])
    BY <1>1, <2>1 DEF Positions
  <2>3. n + 1 <= Len(Script(w)) /\ Texts[j] \in Kinds /\ Texts[j] # "manifest"
    BY <1>1, <1>2, <1>4, TextsType
  <2> QED
    BY <1>4, <2>1, <2>2, <2>3 DEF StepOrder, Do
<1>5. CASE n = 2 * T + 1 /\ Script(w)[n] = Do("write", "sqlite")
  <2>1. n + 1 <= Len(Script(w)) /\ "sqlite" \in Kinds
    BY <1>1, <1>2, <1>5, TextsType
  <2>2. /\ Script(w)[n].do = "write" /\ Script(w)[n].kind = "sqlite"
        /\ Script(w)[n] # Do("write", "manifest")
    BY <1>5 DEF Do
  <2> QED
    BY <2>1, <2>2 DEF StepOrder
<1>6. ASSUME NEW j \in 1..T, n = 2 * T + 1 + j \/ (gate = w /\ n = 3 * T + 5 + j),
             Script(w)[n] = Do("hash", Texts[j])
      PROVE  StepOrder(w, n)
  <2>1. 2 * j \in 1..n - 1 /\ n + 1 <= Len(Script(w)) /\ Texts[j] \in Kinds
    BY <1>1, <1>2, <1>6, TextsType
  <2>2. Script(w)[2 * j] = Do("write", Texts[j])
    BY <1>1 DEF Positions
  <2> QED
    BY <1>6, <2>1, <2>2 DEF StepOrder, Do
<1>7. CASE /\ n = 3 * T + 2 \/ (gate = w /\ n = 4 * T + 6)
           /\ Script(w)[n] = Do("hash", "sqlite")
  <2>1. 2 * T + 1 \in 1..n - 1 /\ n + 1 <= Len(Script(w)) /\ "sqlite" \in Kinds
    BY <1>1, <1>2, <1>7, TextsType
  <2>2. Script(w)[2 * T + 1] = Do("write", "sqlite")
    BY <1>1 DEF Positions
  <2> QED
    BY <1>7, <2>1, <2>2 DEF StepOrder, Do
<1>8. CASE n = 3 * T + 3 /\ Script(w)[n] = Do("open", "manifest")
  <2>1. ASSUME NEW m \in 1..n - 1 PROVE Script(w)[m] # Do("write", "manifest")
    <3> SUFFICES ASSUME Script(w)[m] = Do("write", "manifest") PROVE FALSE
      OBVIOUS
    <3>1. m \in 1..Len(Script(w))
      BY <1>1, <1>2
    <3>2. m = 3 * T + 4
      BY <3>1, WrittenOnce, TextsType
    <3> QED
      BY <1>1, <1>8, <3>2
  <2>2. n + 1 <= Len(Script(w)) /\ "manifest" \in Kinds
    BY <1>1, <1>2, <1>8, TextsType
  <2> QED
    BY <1>8, <2>1, <2>2 DEF StepOrder, Do
<1>9. CASE n = 3 * T + 4 /\ Script(w)[n] = Do("write", "manifest")
  <2>1. n > 1 /\ n - 1 = 3 * T + 3 /\ n >= 3 * T + 4
    BY <1>1, <1>9
  <2>2. Script(w)[n - 1] = Do("open", "manifest")
    BY <1>1, <2>1 DEF Positions
  <2>3. \A kind \in Hashed : \E m \in 1..n - 1 : Script(w)[m] = Do("hash", kind)
    BY <2>1, HashedBefore
  <2>4. n + 1 <= Len(Script(w)) /\ "manifest" \in Kinds
    BY <1>1, <1>2, <1>9, TextsType
  <2> QED
    BY <1>9, <2>1, <2>2, <2>3, <2>4 DEF StepOrder, Do
<1>10. CASE n = 3 * T + 5 /\ Script(w)[n] = Do("record", "manifest")
  <2>1. 3 * T + 4 \in 1..n - 1 /\ n >= 3 * T + 4
    BY <1>1, <1>10
  <2>2. Script(w)[3 * T + 4] = Do("write", "manifest")
    BY <1>1 DEF Positions
  <2>3. \A kind \in Hashed : \E m \in 1..n - 1 : Script(w)[m] = Do("hash", kind)
    BY <2>1, HashedBefore
  <2>4. (gate = w => n + 1 <= Len(Script(w))) /\ "manifest" \in Kinds
    BY <1>1, <1>2, <1>10, TextsType
  <2> QED
    BY <1>10, <2>1, <2>2, <2>3, <2>4 DEF StepOrder, Do
<1>11. CASE gate = w /\ n = 4 * T + 7 /\ Script(w)[n] = Do("hash", "manifest")
  <2>1. 3 * T + 4 \in 1..n - 1 /\ n + 1 <= Len(Script(w)) /\ "manifest" \in Kinds
    BY <1>1, <1>2, <1>11, TextsType
  <2>2. Script(w)[3 * T + 4] = Do("write", "manifest")
    BY <1>1 DEF Positions
  <2> QED
    BY <1>11, <2>1, <2>2 DEF StepOrder, Do
<1>12. CASE gate = w /\ n = 4 * T + 8 /\ Script(w)[n] = Do("attest", "manifest")
  <2>1. /\ 3 * T + 4 \in 1..n - 1 /\ 3 * T + 5 \in 1..n - 1 /\ 4 * T + 7 \in 1..n - 1
        /\ n >= 3 * T + 4 /\ "manifest" \in Kinds
    BY <1>1, <1>12, TextsType
  <2>2. /\ Script(w)[3 * T + 4] = Do("write", "manifest")
        /\ Script(w)[3 * T + 5] = Do("record", "manifest")
        /\ Script(w)[4 * T + 7] = Do("hash", "manifest")
    BY <1>1, <1>12 DEF Positions
  <2>3. \A kind \in Hashed : \E m \in 1..n - 1 : Script(w)[m] = Do("hash", kind)
    BY <2>1, HashedBefore
  <2> QED
    BY <1>12, <2>1, <2>2, <2>3 DEF StepOrder, Do
<1>13. CASE \/ \E j \in 1..T : n = 2 * j - 1 /\ Script(w)[n] = Do("open", Texts[j])
            \/ \E j \in 1..T : n = 2 * j /\ Script(w)[n] = Do("write", Texts[j])
  BY <1>3, <1>4, <1>13
<1>14. CASE \/ \E j \in 1..T : n = 2 * T + 1 + j /\ Script(w)[n] = Do("hash", Texts[j])
  BY <1>6, <1>14, Zenon
<1>15. CASE /\ gate = w
            /\ \E j \in 1..T : n = 3 * T + 5 + j /\ Script(w)[n] = Do("hash", Texts[j])
  BY <1>6, <1>15, Zenon
<1> DEFINE opens == \E j \in 1..T : n = 2 * j - 1 /\ Script(w)[n] = Do("open", Texts[j])
           writes == \E j \in 1..T : n = 2 * j /\ Script(w)[n] = Do("write", Texts[j])
           hashes == \E j \in 1..T : n = 2 * T + 1 + j /\ Script(w)[n] = Do("hash", Texts[j])
           again == \E j \in 1..T : n = 3 * T + 5 + j /\ Script(w)[n] = Do("hash", Texts[j])
<1>16. (opens \/ writes => StepOrder(w, n)) /\ (hashes => StepOrder(w, n))
       /\ (gate = w /\ again => StepOrder(w, n))
  BY <1>13, <1>14, <1>15
<1>17. \/ opens \/ writes \/ hashes \/ (gate = w /\ again)
       \/ n = 2 * T + 1 /\ Script(w)[n] = Do("write", "sqlite")
       \/ n = 3 * T + 2 /\ Script(w)[n] = Do("hash", "sqlite")
       \/ n = 3 * T + 3 /\ Script(w)[n] = Do("open", "manifest")
       \/ n = 3 * T + 4 /\ Script(w)[n] = Do("write", "manifest")
       \/ n = 3 * T + 5 /\ Script(w)[n] = Do("record", "manifest")
       \/ gate = w /\ n = 4 * T + 6 /\ Script(w)[n] = Do("hash", "sqlite")
       \/ gate = w /\ n = 4 * T + 7 /\ Script(w)[n] = Do("hash", "manifest")
       \/ gate = w /\ n = 4 * T + 8 /\ Script(w)[n] = Do("attest", "manifest")
  BY StepKinds
<1> HIDE DEF opens, writes, hashes, again
<1> QED
  BY <1>5, <1>7, <1>8, <1>9, <1>10, <1>11, <1>12, <1>16, <1>17

(* A step is given by what it does and to which file. *)
LEMMA StepShape ==
  ASSUME NEW w, NEW n \in 1..Len(Script(w))
  PROVE  Script(w)[n] = Do(Script(w)[n].do, Script(w)[n].kind)
<1>1. \A d, k : Do(d, k) = Do(Do(d, k).do, Do(d, k).kind)
  BY DEF Do
<1>2. \E d, k : Script(w)[n] = Do(d, k)
  BY StepKinds
<1> QED
  BY <1>1, <1>2

-----------------------------------------------------------------------------
(***************************************************************************)
(* What the steps leave alone.                                             *)
(***************************************************************************)

(* The other processes stay where they are. *)
Others(w) ==
  \A v \in Workers \ {w} :
    /\ pc'[v] = pc[v] /\ at'[v] = at[v] /\ todo'[v] = todo[v] /\ as'[v] = as[v]
    /\ got'[v] = got[v] /\ seen'[v] = seen[v] /\ (gate' = v <=> gate = v)

(* A process that stays where it is keeps its script and its place in it. *)
LEMMA StaysThere ==
  ASSUME NEW v, Gated(v), pc'[v] = pc[v], at'[v] = at[v], todo'[v] = todo[v], got'[v] = got[v],
         as'[v] = as[v], gate' = v <=> gate = v,
         UNCHANGED <<job, pages>> \/ gate # v
  PROVE  Gated(v)'
<1>1. Script(v)' = Script(v)
  BY DEF Script
<1>2. CASE UNCHANGED <<job, pages>>
  BY <1>1, <1>2 DEF Gated
<1>3. CASE gate # v
  BY <1>1, <1>3 DEF Gated
<1> QED
  BY <1>2, <1>3

(* A delivery that is not touched keeps what it has done. *)
LEMMA StaysUndisturbed ==
  ASSUME NEW v, Undisturbed(v), at'[v] = at[v], as'[v] = as[v], got'[v] = got[v],
         seen'[v] = seen[v], gate' = v <=> gate = v, UNCHANGED <<files, row>>
  PROVE  Undisturbed(v)'
<1>1. Script(v)' = Script(v) /\ Holds(v)' = Holds(v)
  BY DEF Script, Holds
<1> QED
  BY <1>1 DEF Undisturbed, Delivered, Told

(* A process that delivers nothing, before and after its step, disturbs nothing. *)
LEMMA QuietStep ==
  ASSUME Inv, NEW w \in Workers, Others(w), Typed', Gated(w)',
         pc[w] \notin {"read", "export"}, pc'[w] \notin {"read", "export"},
         UNCHANGED <<files, row, alone, settled>>,
         UNCHANGED <<job, pages>> \/ (gate = w /\ job = "open"),
         receipt' = receipt \/ receipt'.lone = FALSE
  PROVE  Inv'
<1>0. Typed /\ Lonely /\ Whole /\ Attested
  BY DEF Inv
<1>1. Delivering' = Delivering /\ w \notin Delivering
  BY DEF Delivering, Others
<1>2. Lonely'
  BY <1>0, <1>1 DEF Lonely
<1>3. Whole'
  BY <1>0 DEF Whole, Told, Delivered
<1>4. Attested'
  <2>1. \A v \in Delivering : todo'[v] = todo[v]
    BY <1>1 DEF Others, Delivering
  <2> SUFFICES ASSUME receipt' = receipt, receipt # Missing, receipt.lone
               PROVE  Attested'
    BY DEF Attested
  <2>2. UNCHANGED <<job, pages>>
    BY <1>0 DEF Attested
  <2> QED
    BY <1>0, <1>1, <2>1, <2>2 DEF Attested, Delivered, Told
<1>5. ASSUME NEW v \in Workers PROVE Gated(v)'
  <2>1. CASE v = w
    BY <2>1
  <2>2. CASE v # w
    <3>1. Gated(v) /\ (UNCHANGED <<job, pages>> \/ gate # v)
      BY <2>2 DEF Inv
    <3> QED
      BY <2>2, <3>1, StaysThere DEF Others
  <2> QED
    BY <2>1, <2>2
<1>6. ASSUME NEW v \in Workers, alone' = v, pc'[v] = "export" PROVE Undisturbed(v)'
  <2>1. v # w /\ pc[v] = "export" /\ alone = v
    BY <1>6 DEF Others
  <2>2. Undisturbed(v)
    BY <2>1 DEF Inv
  <2> QED
    BY <2>1, <2>2, StaysUndisturbed DEF Others
<1> QED
  BY <1>0, <1>2, <1>3, <1>4, <1>5, <1>6 DEF Inv

(* While one delivery goes on nothing has settled, and if another one than it were
   alone there would be two. *)
LEMMA Disturbing ==
  ASSUME Inv, NEW w \in Workers, pc[w] \in {"read", "export"}
  PROVE  /\ ~settled /\ w \in Delivering
         /\ \A v \in Workers : alone = v => v = w
<1>1. w \in Delivering /\ Lonely /\ settled \in BOOLEAN
  BY DEF Delivering, Inv, Typed
<1> QED
  BY <1>1 DEF Lonely

(* A step inside a delivery matters only to what the delivery itself has done. *)
LEMMA DeliveryStep ==
  ASSUME Inv, NEW w \in Workers, Others(w), Typed', Gated(w)',
         pc[w] \in {"read", "export"}, pc'[w] \in {"read", "export"}, todo'[w] = todo[w],
         UNCHANGED <<job, pages, gate, receipt, alone, settled>>,
         alone = w /\ pc'[w] = "export" => Undisturbed(w)'
  PROVE  Inv'
<1>0. Typed /\ Lonely /\ Attested /\ ~settled /\ \A v \in Workers : alone = v => v = w
  BY Disturbing DEF Inv
<1>1. Delivering' = Delivering
  BY DEF Delivering, Others
<1>2. Lonely' /\ Whole'
  BY <1>0, <1>1 DEF Lonely, Whole
<1>3. Attested'
  <2>1. \A v \in Delivering : todo'[v] = todo[v]
    BY DEF Others, Delivering
  <2> QED
    BY <1>0, <1>1, <2>1 DEF Attested, Delivered, Told
<1>4. ASSUME NEW v \in Workers PROVE Gated(v)'
  <2>1. CASE v # w
    BY <2>1, StaysThere DEF Others, Inv
  <2> QED
    BY <2>1
<1>5. ASSUME NEW v \in Workers, alone' = v, pc'[v] = "export" PROVE Undisturbed(v)'
  BY <1>0, <1>5
<1> QED
  BY <1>2, <1>3, <1>4, <1>5 DEF Inv

(* A process that ends leaves the others where they are. *)
LEMMA EndsThere ==
  ASSUME Typed, NEW w \in Workers, Ends(w)
  PROVE  /\ Others(w) /\ pc'[w] = "idle" /\ at'[w] = 0 /\ gate' # w /\ Gated(w)'
         /\ gate' \in Workers \cup {Nobody} /\ alone' \in Workers \cup {Nobody}
         /\ alone' # w /\ (alone # w => alone' = alone)
         /\ pc' \in [Workers -> States] /\ at' \in [Workers -> Nat]
         /\ todo' \in [Workers -> SUBSET Pages] /\ got' \in [Workers -> SUBSET Pages]
         /\ as' \in [Workers -> Classes \cup {Missing}]
         /\ seen' \in [Workers -> [Kinds -> Anything]]
         /\ \A v \in Workers, kind \in Hashed : seen'[v][kind] \in Content
<1>1. Nobody # w
  BY DeliveryAssumption
<1>2. Nothing \in [Kinds -> Anything] /\ \A kind \in Hashed : Nothing[kind] \in Content
  <2>1. Missing \in Content /\ Missing \in Anything
    BY DEF Content, Anything
  <2>2. \A kind \in Hashed : kind \in Kinds
    BY TextsType
  <2> QED
    BY <2>1, <2>2 DEF Nothing
<1>3. pc'[w] = "idle" /\ at'[w] = 0 /\ gate' # w
  BY <1>1 DEF Ends, Typed
<1>4. Gated(w)'
  BY <1>3 DEF Gated
<1>5. \A v \in Workers \ {w} : gate' = v <=> gate = v
  BY DeliveryAssumption DEF Ends
<1>6. Others(w)
  BY <1>5 DEF Others, Ends, Typed
<1>7. /\ gate' \in Workers \cup {Nobody} /\ alone' \in Workers \cup {Nobody}
      /\ alone' # w /\ (alone # w => alone' = alone)
  BY <1>1 DEF Ends, Typed
<1>8. /\ pc' \in [Workers -> States] /\ at' \in [Workers -> Nat]
      /\ todo' \in [Workers -> SUBSET Pages] /\ got' \in [Workers -> SUBSET Pages]
      /\ as' \in [Workers -> Classes \cup {Missing}]
  BY DEF Ends, Typed, States
<1>9. seen' \in [Workers -> [Kinds -> Anything]]
  BY <1>2 DEF Ends, Typed
<1>10. \A v \in Workers, kind \in Hashed : seen'[v][kind] \in Content
  BY <1>2 DEF Ends, Typed
<1> QED
  BY <1>3, <1>4, <1>6, <1>7, <1>8, <1>9, <1>10

-----------------------------------------------------------------------------
(***************************************************************************)
(* The steps.                                                              *)
(***************************************************************************)

(* At the start there is nothing to deliver. *)
LEMMA InitHolds ==
  ASSUME Init
  PROVE  Inv
<1>1. Nothing \in [Kinds -> Anything] /\ \A kind \in Kinds : Nothing[kind] = Missing
  <2>1. Missing \in Anything
    BY DEF Content, Anything
  <2> QED
    BY <2>1 DEF Nothing
<1>2. Typed
  <2>1. MaxPages \in Nat /\ MaxCommands \in Nat /\ Hashed \subseteq Kinds /\ "manifest" \in Kinds
    BY DeliveryAssumption, TextsType
  <2>2. Missing \in Content
    BY DEF Content
  <2>3. files \in [Kinds -> Anything] /\ (\A kind \in Hashed : files[kind] \in Content)
        /\ files["manifest"] \in Manifest \cup {Missing, Emptied, Mixed}
    BY <1>1, <2>1, <2>2 DEF Init
  <2>4. /\ seen \in [Workers -> [Kinds -> Anything]]
        /\ \A w \in Workers, kind \in Hashed : seen[w][kind] \in Content
    BY <1>1, <2>1, <2>2 DEF Init
  <2>5. /\ pc \in [Workers -> States] /\ at \in [Workers -> Nat]
        /\ todo \in [Workers -> SUBSET Pages] /\ got \in [Workers -> SUBSET Pages]
    BY DEF Init, States
  <2>6. /\ job \in {"open", "succeeded", "failed"} /\ gate \in Workers \cup {Nobody}
        /\ alone \in Workers \cup {Nobody} /\ settled \in BOOLEAN
        /\ row \in Manifest \cup {Missing} /\ receipt = Missing
        /\ class \in Classes /\ as \in [Workers -> Classes \cup {Missing}]
    BY DEF Init
  <2>7. pages \in 0..MaxPages /\ raw \subseteq 1..pages /\ commands \in 0..MaxCommands
    BY <2>1 DEF Init
  <2> QED
    BY <2>3, <2>4, <2>5, <2>6, <2>7 DEF Typed
<1>3. Delivering = {} /\ \A w \in Workers : alone # w /\ gate # w
  BY DeliveryAssumption DEF Init, Delivering
<1>4. Lonely /\ Whole /\ Attested
  BY <1>3 DEF Init, Lonely, Whole, Attested
<1>5. \A w \in Workers : Gated(w)
  BY <1>3 DEF Init, Gated
<1> QED
  BY <1>2, <1>3, <1>4, <1>5 DEF Inv

(* StartCapture: the gate is free, and the process takes it. *)
LEMMA StartCaptureKeeps ==
  ASSUME Inv, NEW w \in Workers, StartCapture(w)
  PROVE  Inv'
<1>0. Typed /\ Gated(w)
  BY DEF Inv
<1>1. /\ commands < MaxCommands /\ commands' = commands + 1
      /\ UNCHANGED <<class, job, pages, raw, files, row, receipt, at, todo, as, got, seen, alone,
                     settled>>
      /\ pc[w] = "idle" /\ gate = Nobody /\ job = "open" /\ gate' = w
      /\ pc' = [pc EXCEPT ![w] = "capture"]
  BY DEF StartCapture, Starts
<1>9. commands' \in 0..MaxCommands
  BY <1>0, <1>1, DeliveryAssumption DEF Typed
<1>2. pc'[w] = "capture" /\ at'[w] = 0
  BY <1>0, <1>1 DEF Typed, Gated
<1>3. Typed'
  BY <1>0, <1>1, <1>9 DEF Typed, States
<1>4. Others(w)
  <2>1. \A v \in Workers \ {w} : gate' = v <=> gate = v
    BY <1>1, DeliveryAssumption
  <2> QED
    BY <1>0, <1>1, <2>1 DEF Others, Typed
<1>5. Gated(w)'
  BY <1>1, <1>2 DEF Gated, States
<1> QED
  BY <1>1, <1>2, <1>3, <1>4, <1>5, QuietStep

(* CheckpointPage: the job grows only while it is captured. *)
LEMMA CheckpointPageKeeps ==
  ASSUME Inv, NEW w \in Workers, CheckpointPage(w)
  PROVE  Inv'
<1>0. Typed /\ Gated(w)
  BY DEF Inv
<1>1. /\ UNCHANGED <<class, job, gate, files, row, receipt, pc, at, todo, as, got, seen, commands, alone,
                     settled>>
      /\ pc[w] = "capture" /\ pages < MaxPages /\ pages' = pages + 1
      /\ raw' = raw \cup {pages + 1}
  BY DEF CheckpointPage
<1>2. gate = w /\ job = "open" /\ at[w] = 0
  BY <1>0, <1>1 DEF Gated
<1>3. pages' \in 0..MaxPages /\ raw' \subseteq 1..pages'
  BY <1>0, <1>1, DeliveryAssumption DEF Typed
<1>4. Typed'
  BY <1>0, <1>1, <1>3 DEF Typed
<1>5. Others(w)
  BY <1>1 DEF Others
<1>6. Gated(w)'
  BY <1>1, <1>2 DEF Gated, States
<1> QED
  BY <1>1, <1>2, <1>4, <1>5, <1>6, QuietStep

(* EndCapture: the job succeeds, and its process goes on to deliver it. *)
LEMMA EndCaptureKeeps ==
  ASSUME Inv, NEW w \in Workers, EndCapture(w)
  PROVE  Inv'
<1>0. Typed /\ Gated(w)
  BY DEF Inv
<1>1. /\ UNCHANGED <<class, pages, raw, gate, files, row, receipt, at, todo, as, got, seen, commands, alone,
                     settled>>
      /\ pc[w] = "capture" /\ job' = "succeeded" /\ pc' = [pc EXCEPT ![w] = "profile"]
  BY DEF EndCapture
<1>2. gate = w /\ job = "open" /\ at[w] = 0 /\ pc'[w] = "profile"
  BY <1>0, <1>1 DEF Gated, Typed
<1>3. Typed'
  BY <1>0, <1>1 DEF Typed, States
<1>4. Others(w)
  BY <1>0, <1>1 DEF Others, Typed
<1>5. Gated(w)'
  BY <1>1, <1>2 DEF Gated, States
<1> QED
  BY <1>1, <1>2, <1>3, <1>4, <1>5, QuietStep

(* FailCapture: the job fails, and its process writes a stop receipt next. *)
LEMMA FailCaptureKeeps ==
  ASSUME Inv, NEW w \in Workers, FailCapture(w)
  PROVE  Inv'
<1>0. Typed /\ Gated(w)
  BY DEF Inv
<1>1. /\ UNCHANGED <<class, pages, raw, gate, files, row, receipt, at, todo, as, got, seen, commands, alone,
                     settled>>
      /\ pc[w] = "capture" /\ job' = "failed" /\ pc' = [pc EXCEPT ![w] = "stopping"]
  BY DEF FailCapture
<1>2. gate = w /\ job = "open" /\ at[w] = 0 /\ pc'[w] = "stopping"
  BY <1>0, <1>1 DEF Gated, Typed
<1>3. Typed'
  BY <1>0, <1>1 DEF Typed, States
<1>4. Others(w)
  BY <1>0, <1>1 DEF Others, Typed
<1>5. Gated(w)'
  BY <1>1, <1>2 DEF Gated, States
<1> QED
  BY <1>1, <1>2, <1>3, <1>4, <1>5, QuietStep

(* WriteStop: the stop receipt has no exports and attests nothing. *)
LEMMA WriteStopKeeps ==
  ASSUME Inv, NEW w \in Workers, WriteStop(w)
  PROVE  Inv'
<1>0. Typed /\ Gated(w) /\ Lonely
  BY DEF Inv
<1>1. /\ UNCHANGED <<class, job, pages, raw, files, row, commands, settled>>
      /\ pc[w] = "stopping" /\ Ends(w)
      /\ receipt' = [state |-> job, of |-> Missing, raw |-> 1..pages, files |-> Nothing,
                     lone |-> FALSE]
  BY DEF WriteStop
<1>2. /\ Others(w) /\ pc'[w] = "idle" /\ Gated(w)'
      /\ gate' \in Workers \cup {Nobody} /\ alone' \in Workers \cup {Nobody}
      /\ (alone # w => alone' = alone)
      /\ pc' \in [Workers -> States] /\ at' \in [Workers -> Nat]
      /\ todo' \in [Workers -> SUBSET Pages] /\ got' \in [Workers -> SUBSET Pages]
      /\ as' \in [Workers -> Classes \cup {Missing}]
      /\ seen' \in [Workers -> [Kinds -> Anything]]
      /\ \A v \in Workers, kind \in Hashed : seen'[v][kind] \in Content
  BY <1>0, <1>1, EndsThere
<1>3. alone' = alone
  <2>1. w \notin Delivering
    BY <1>1 DEF Delivering
  <2> QED
    BY <1>0, <1>2, <2>1 DEF Lonely
<1>4. receipt'.of = Missing /\ receipt'.lone = FALSE
  BY <1>1
<1>5. Typed'
  BY <1>0, <1>1, <1>2, <1>4 DEF Typed
<1> QED
  BY <1>1, <1>2, <1>3, <1>4, <1>5, QuietStep

(* StartReplay: the replay command reads nothing yet. *)
LEMMA StartReplayKeeps ==
  ASSUME Inv, NEW w \in Workers, StartReplay(w)
  PROVE  Inv'
<1>0. Typed /\ Gated(w)
  BY DEF Inv
<1>1. /\ commands < MaxCommands /\ commands' = commands + 1
      /\ UNCHANGED <<class, job, pages, raw, gate, files, row, receipt, at, todo, as, got, seen,
                     alone, settled>>
      /\ pc[w] = "idle" /\ pc' = [pc EXCEPT ![w] = "profile"]
  BY DEF StartReplay, Starts
<1>9. commands' \in 0..MaxCommands
  BY <1>0, <1>1, DeliveryAssumption DEF Typed
<1>2. gate # w /\ at[w] = 0 /\ pc'[w] = "profile"
  BY <1>0, <1>1 DEF Gated, Typed
<1>3. Typed'
  BY <1>0, <1>1, <1>9 DEF Typed, States
<1>4. Others(w)
  BY <1>0, <1>1 DEF Others, Typed
<1>5. Gated(w)'
  BY <1>1, <1>2 DEF Gated
<1> QED
  BY <1>1, <1>2, <1>3, <1>4, <1>5, QuietStep

(* ReadClass: a delivery begins with the class that the session row names. *)
LEMMA ReadClassKeeps ==
  ASSUME Inv, NEW w \in Workers, ReadClass(w)
  PROVE  Inv'
<1>0. Typed /\ Gated(w)
  BY DEF Inv
<1>1. /\ UNCHANGED <<class, job, pages, raw, gate, files, row, receipt, at, todo, got, seen,
                     commands, alone, settled>>
      /\ pc[w] = "profile" /\ pc' = [pc EXCEPT ![w] = "list"] /\ as' = [as EXCEPT ![w] = class]
  BY DEF ReadClass
<1>2. at[w] = 0 /\ pc'[w] = "list" /\ as'[w] \in Classes
  BY <1>0, <1>1 DEF Gated, Typed
<1>3. Typed'
  BY <1>0, <1>1 DEF Typed, States
<1>4. Others(w)
  BY <1>0, <1>1 DEF Others, Typed
<1>5. Gated(w)'
  BY <1>0, <1>1, <1>2 DEF Gated, States
<1> QED
  BY <1>1, <1>2, <1>3, <1>4, <1>5, QuietStep

(* Nothing depends on the session row but what deliveries read of it. *)
LEMMA Elsewhere ==
  ASSUME Inv, class' \in Classes,
         UNCHANGED <<job, pages, raw, gate, files, row, receipt, pc, at, todo, as, got, seen,
                     commands, alone, settled>>
  PROVE  Inv'
<1>1. Typed'
  BY DEF Inv, Typed
<1>2. Lonely' /\ Whole' /\ Attested'
  BY DEF Inv, Lonely, Whole, Attested, Delivering, Delivered, Told
<1>3. ASSUME NEW v \in Workers PROVE Gated(v)'
  <2>1. Gated(v)
    BY DEF Inv
  <2> QED
    BY <2>1, StaysThere
<1>4. ASSUME NEW v \in Workers, alone' = v, pc'[v] = "export" PROVE Undisturbed(v)'
  <2>1. Undisturbed(v)
    BY <1>4 DEF Inv
  <2> QED
    BY <2>1, StaysUndisturbed
<1> QED
  BY <1>1, <1>2, <1>3, <1>4 DEF Inv

(* StartClean: the clean command notes what it will unlink. *)
LEMMA StartCleanKeeps ==
  ASSUME Inv, NEW w \in Workers, StartClean(w)
  PROVE  Inv'
<1>0. Typed /\ Gated(w)
  BY DEF Inv
<1>1. /\ commands < MaxCommands /\ commands' = commands + 1
      /\ UNCHANGED <<class, job, pages, raw, gate, files, row, receipt, at, as, got, seen, alone,
                     settled>>
      /\ pc[w] = "idle" /\ pc' = [pc EXCEPT ![w] = "clean"]
  BY DEF StartClean, Starts
<1>9. commands' \in 0..MaxCommands
  BY <1>0, <1>1, DeliveryAssumption DEF Typed
<1>2. PICK cutoff \in 1..pages : todo' = [todo EXCEPT ![w] = 1..cutoff]
  BY DEF StartClean
<1>3. gate # w /\ at[w] = 0 /\ pc'[w] = "clean"
  BY <1>0, <1>1 DEF Gated, Typed
<1>4. 1..cutoff \in SUBSET Pages
  BY <1>0, <1>2, DeliveryAssumption DEF Typed, Pages
<1>5. Typed'
  BY <1>0, <1>1, <1>9, <1>2, <1>4 DEF Typed, States
<1>6. Others(w)
  BY <1>0, <1>1, <1>2 DEF Others, Typed
<1>7. Gated(w)'
  BY <1>1, <1>3 DEF Gated
<1> QED
  BY <1>1, <1>3, <1>5, <1>6, <1>7, QuietStep

(* Unlink: raw files go, and no delivery has begun to write without them. *)
LEMMA UnlinkKeeps ==
  ASSUME Inv, NEW w \in Workers, Unlink(w)
  PROVE  Inv'
<1>0. Typed /\ Gated(w) /\ Lonely
  BY DEF Inv
<1>1. /\ UNCHANGED <<class, job, pages, files, row, receipt, commands, settled>>
      /\ pc[w] = "clean" /\ raw' \subseteq raw
  BY DEF Unlink
<1>2. PICK p \in todo[w] :
        IF todo[w] = {p} THEN Ends(w)
        ELSE todo' = [todo EXCEPT ![w] = @ \ {p}] /\ UNCHANGED <<pc, at, as, got, seen,
                                                                 gate, alone>>
  BY DEF Unlink
<1>3. raw' \subseteq 1..pages
  BY <1>0, <1>1 DEF Typed
<1>4. CASE todo[w] = {p}
  <2>1. Ends(w)
    BY <1>2, <1>4
  <2>2. /\ Others(w) /\ pc'[w] = "idle" /\ Gated(w)'
        /\ gate' \in Workers \cup {Nobody} /\ alone' \in Workers \cup {Nobody}
        /\ (alone # w => alone' = alone)
        /\ pc' \in [Workers -> States] /\ at' \in [Workers -> Nat]
        /\ todo' \in [Workers -> SUBSET Pages] /\ got' \in [Workers -> SUBSET Pages]
        /\ as' \in [Workers -> Classes \cup {Missing}]
        /\ seen' \in [Workers -> [Kinds -> Anything]]
        /\ \A v \in Workers, kind \in Hashed : seen'[v][kind] \in Content
    BY <1>0, <2>1, EndsThere
  <2>3. alone' = alone
    <3>1. w \notin Delivering
      BY <1>1 DEF Delivering
    <3> QED
      BY <1>0, <2>2, <3>1 DEF Lonely
  <2>4. Typed'
    BY <1>0, <1>1, <1>3, <2>2 DEF Typed
  <2> QED
    BY <1>1, <2>2, <2>3, <2>4, QuietStep
<1>5. CASE todo[w] # {p}
  <2>1. todo' = [todo EXCEPT ![w] = @ \ {p}] /\ UNCHANGED <<pc, at, as, got, seen, gate, alone>>
    BY <1>2, <1>5
  <2>2. todo' \in [Workers -> SUBSET Pages]
    BY <1>0, <2>1 DEF Typed
  <2>3. Typed'
    BY <1>0, <1>1, <1>3, <2>1, <2>2 DEF Typed
  <2>4. Others(w)
    BY <1>0, <2>1 DEF Others, Typed
  <2>5. Gated(w)'
    BY <1>0, <1>1, <2>1 DEF Gated
  <2> QED
    BY <1>1, <2>1, <2>3, <2>4, <2>5, QuietStep
<1> QED
  BY <1>4, <1>5

(* ListPages: every page that is checkpointed is to be delivered. *)
LEMMA ListPagesKeeps ==
  ASSUME Inv, NEW w \in Workers, ListPages(w)
  PROVE  Inv'
<1>0. Typed /\ Gated(w) /\ Lonely /\ Attested
  BY DEF Inv
<1>1. /\ UNCHANGED <<class, job, pages, raw, gate, files, row, receipt, at, as, got, seen, commands>>
      /\ pc[w] = "list" /\ todo' = [todo EXCEPT ![w] = 1..pages]
      /\ pc' = [pc EXCEPT ![w] = "read"] /\ settled' = FALSE
      /\ alone' = IF Delivering = {} THEN w ELSE Nobody
  BY DEF ListPages
<1>2. 1..pages \in SUBSET Pages
  BY <1>0, DeliveryAssumption DEF Typed, Pages
<1>3. Typed'
  BY <1>0, <1>1, <1>2 DEF Typed, States
<1>4. pc'[w] = "read" /\ todo'[w] = 1..pages /\ at[w] = 0
  BY <1>0, <1>1 DEF Typed, Gated
<1>5. Others(w)
  BY <1>0, <1>1 DEF Others, Typed
<1>6. Delivering' = Delivering \cup {w}
  BY <1>4, <1>5 DEF Delivering, Others
<1>7. \A v \in Workers : alone' = v => Delivering = {} /\ v = w
  BY <1>1, DeliveryAssumption
<1>8. Lonely'
  BY <1>1, <1>6, <1>7 DEF Lonely
<1>9. Whole'
  BY <1>1 DEF Whole
<1>10. Attested'
  <2>1. \A v \in Delivering : v = w \/ todo'[v] = todo[v]
    BY <1>5 DEF Others, Delivering
  <2> QED
    BY <1>0, <1>1, <1>4, <1>6, <2>1 DEF Attested, Delivered, Told
<1>11. ASSUME NEW v \in Workers PROVE Gated(v)'
  <2>1. CASE v = w
    BY <1>0, <1>1, <1>4, <2>1 DEF Gated, States
  <2>2. CASE v # w
    <3>1. Gated(v)
      BY DEF Inv
    <3> QED
      BY <1>1, <1>5, <2>2, <3>1, StaysThere DEF Others
  <2> QED
    BY <2>1, <2>2
<1>12. ASSUME NEW v \in Workers, alone' = v, pc'[v] = "export" PROVE Undisturbed(v)'
  BY <1>4, <1>7, <1>12
<1> QED
  BY <1>3, <1>8, <1>9, <1>10, <1>11, <1>12 DEF Inv

(* ReadPage: a page that is still there is read. *)
LEMMA ReadPageKeeps ==
  ASSUME Inv, NEW w \in Workers, ReadPage(w)
  PROVE  Inv'
<1>0. Typed /\ Gated(w)
  BY DEF Inv
<1>1. /\ UNCHANGED <<class, job, pages, raw, gate, files, row, receipt, pc, at, todo, as, seen, commands,
                     alone, settled>>
      /\ pc[w] = "read" /\ NextPage(w) \in raw
      /\ got' = [got EXCEPT ![w] = @ \cup {NextPage(w)}]
  BY DEF ReadPage
<1>2. NextPage(w) \in Pages
  <2>1. raw \subseteq 1..pages /\ pages \in 0..MaxPages /\ MaxPages \in Nat
    BY <1>0, DeliveryAssumption DEF Typed
  <2>2. NextPage(w) \in 1..pages
    BY <1>1, <2>1
  <2> HIDE DEF NextPage
  <2> QED
    BY <2>1, <2>2 DEF Pages
<1>3. Typed'
  BY <1>0, <1>1, <1>2 DEF Typed
<1>4. Others(w)
  BY <1>0, <1>1 DEF Others, Typed
<1>5. Gated(w)'
  BY <1>0, <1>1 DEF Gated
<1> QED
  BY <1>1, <1>3, <1>4, <1>5, DeliveryStep

(* BeginExport: all pages have been read before a file is touched. *)
LEMMA BeginExportKeeps ==
  ASSUME Inv, NEW w \in Workers, BeginExport(w)
  PROVE  Inv'
<1>0. Typed /\ Gated(w)
  BY DEF Inv
<1>1. /\ UNCHANGED <<class, job, pages, raw, gate, files, row, receipt, todo, as, got, seen, commands,
                     alone, settled>>
      /\ pc[w] = "read" /\ got[w] = todo[w]
      /\ pc' = [pc EXCEPT ![w] = "export"] /\ at' = [at EXCEPT ![w] = 1]
  BY DEF BeginExport, MayExport
<1>2. Typed'
  BY <1>0, <1>1 DEF Typed, States
<1>3. Others(w)
  BY <1>0, <1>1 DEF Others, Typed
<1>4. pc'[w] = "export" /\ at'[w] = 1
  BY <1>0, <1>1 DEF Typed
<1>5. 1 \in 1..Len(Script(w))
  BY ScriptAt, TextsType
<1>6. Gated(w)'
  <2>1. Script(w)' = Script(w)
    BY <1>1 DEF Script
  <2> QED
    BY <1>0, <1>1, <1>4, <1>5, <2>1 DEF Gated, States
<1>7. Undisturbed(w)'
  BY <1>4 DEF Undisturbed
<1> QED
  BY <1>1, <1>2, <1>3, <1>4, <1>6, <1>7, DeliveryStep

(* What an undisturbed delivery has written is as it left it. *)
LEMMA WrittenStays ==
  ASSUME NEW w, Undisturbed(w), NEW kind,
         \E m \in 1..at[w] - 1 : Script(w)[m] = Do("write", kind)
  PROVE  files[kind] = Delivered(Holds(w))[kind]
<1>1. PICK m \in 1..at[w] - 1 : Script(w)[m] = Do("write", kind)
  OBVIOUS
<1>2. Script(w)[m].do = "write" /\ Script(w)[m].kind = kind
  BY <1>1 DEF Do
<1> QED
  BY <1>1, <1>2 DEF Undisturbed

(* What it has hashed is what it has written. *)
LEMMA HashedStays ==
  ASSUME NEW w, Undisturbed(w), NEW kind,
         \E m \in 1..at[w] - 1 : Script(w)[m] = Do("hash", kind)
  PROVE  seen[w][kind] = Delivered(Holds(w))[kind]
<1>1. PICK m \in 1..at[w] - 1 : Script(w)[m] = Do("hash", kind)
  OBVIOUS
<1>2. Script(w)[m].do = "hash" /\ Script(w)[m].kind = kind
  BY <1>1 DEF Do
<1> QED
  BY <1>1, <1>2 DEF Undisturbed

(* What a delivery leaves of each file. *)
LEMMA DeliveredKinds ==
  ASSUME NEW of
  PROVE  /\ \A kind \in Hashed : Delivered(of)[kind] = of
         /\ Delivered(of)["manifest"] = Told(of)
  BY TextsType DEF Delivered

(* The manifest of a delivery that has hashed every other file tells of its records. *)
LEMMA ManifestTold ==
  ASSUME NEW w, Undisturbed(w),
         \A kind \in Hashed : \E m \in 1..at[w] - 1 : Script(w)[m] = Do("hash", kind)
  PROVE  Output(w, "manifest") = Told(Holds(w))
<1>1. \A kind \in Hashed : seen[w][kind] = Holds(w)
  BY HashedStays, DeliveredKinds
<1>2. [k \in Hashed |-> seen[w][k]] = [k \in Hashed |-> Holds(w)]
  BY <1>1
<1> QED
  BY <1>2 DEF Output, Told

(* A delivery that has hashed every file has written every file. *)
LEMMA AllWritten ==
  ASSUME NEW w, at[w] \in 1..Len(Script(w)), Undisturbed(w), files \in [Kinds -> Anything],
         \A kind \in Hashed : \E m \in 1..at[w] - 1 : Script(w)[m] = Do("hash", kind),
         \E m \in 1..at[w] - 1 : Script(w)[m] = Do("write", "manifest")
  PROVE  files = Delivered(Holds(w))
<1>0. Len(Script(w)) \in Nat
  BY ScriptAt, TextsType
<1>1. ASSUME NEW kind \in Hashed
      PROVE  \E m \in 1..at[w] - 1 : Script(w)[m] = Do("write", kind)
  <2>1. PICK m \in 1..at[w] - 1 : Script(w)[m] = Do("hash", kind)
    BY <1>1
  <2>2. m \in 1..Len(Script(w))
    BY <1>0
  <2>3. Script(w)[m].do = "hash" /\ Script(w)[m].kind = kind
    BY <2>1 DEF Do
  <2>4. PICK i \in 1..m - 1 : Script(w)[i] = Do("write", kind)
    BY <2>2, <2>3, Ordered DEF StepOrder
  <2>5. i \in 1..at[w] - 1
    BY <1>0, <2>1
  <2> QED
    BY <2>4, <2>5
<1>2. \A kind \in Kinds : files[kind] = Delivered(Holds(w))[kind]
  BY <1>1, WrittenStays DEF Kinds
<1>3. DOMAIN Delivered(Holds(w)) = Kinds
  BY DEF Delivered
<1>4. Delivered(Holds(w)) = [kind \in Kinds |-> Delivered(Holds(w))[kind]]
  BY DEF Delivered
<1>5. files = [kind \in Kinds |-> files[kind]]
  OBVIOUS
<1> QED
  BY <1>2, <1>4, <1>5

(* Open: an export is emptied only before this delivery has written it. *)
LEMMA OpenKeeps ==
  ASSUME Inv, NEW w \in Workers, Open(w)
  PROVE  Inv'
<1> DEFINE n == at[w]
           kind == Script(w)[n].kind
<1>0. Typed /\ Gated(w)
  BY DEF Inv
<1>1. /\ UNCHANGED <<class, job, pages, raw, gate, row, receipt, pc, todo, as, got, seen, commands, alone,
                     settled>>
      /\ pc[w] = "export" /\ Script(w)[n].do = "open"
      /\ files' = [files EXCEPT ![kind] = Emptied] /\ at' = [at EXCEPT ![w] = n + 1]
  BY DEF Open, Step, Advance
<1>2. n \in 1..Len(Script(w)) /\ n \in Nat /\ Len(Script(w)) \in Nat
  BY <1>0, <1>1, ScriptAt, TextsType DEF Gated, Typed
<1>3. kind \in Kinds /\ n + 1 \in 1..Len(Script(w))
      /\ \A m \in 1..n - 1 : Script(w)[m] # Do("write", kind)
  <2>1. StepOrder(w, n)
    BY <1>2, Ordered
  <2> QED
    BY <1>1, <1>2, <2>1 DEF StepOrder
<1>4. Typed'
  <2>1. Emptied \in Content /\ Emptied \in Anything
    BY DEF Content, Anything
  <2>2. files' \in [Kinds -> Anything] /\ (\A k \in Hashed : files'[k] \in Content)
        /\ files'["manifest"] \in Manifest \cup {Missing, Emptied, Mixed}
    BY <1>0, <1>1, <1>3, <2>1, TextsType DEF Typed
  <2>3. at' \in [Workers -> Nat]
    BY <1>0, <1>1, <1>2 DEF Typed
  <2> QED
    BY <1>0, <1>1, <2>2, <2>3 DEF Typed
<1>5. Others(w) /\ at'[w] = n + 1
  BY <1>0, <1>1 DEF Others, Typed
<1>6. Script(w)' = Script(w)
  BY <1>1 DEF Script
<1>7. Gated(w)'
  BY <1>0, <1>1, <1>3, <1>5, <1>6 DEF Gated
<1>8. ASSUME alone = w PROVE Undisturbed(w)'
  <2>1. Undisturbed(w)
    BY <1>1, <1>8 DEF Inv
  <2>2. ASSUME NEW m \in 1..n
        PROVE  LET step == Script(w)[m]
                   final == Delivered(Holds(w))[step.kind]
               IN  /\ step.do = "open" /\ m = n => files'[step.kind] = Emptied
                   /\ step.do = "write" => files'[step.kind] = final
                   /\ step.do = "hash" => seen[w][step.kind] = final
                   /\ step.do = "record" => row = final
    <3>1. CASE m = n
      BY <1>0, <1>1, <1>3, <3>1 DEF Typed
    <3>2. CASE m # n
      <4>1. m \in 1..n - 1 /\ m \in 1..Len(Script(w))
        BY <1>2, <3>2
      <4>2. /\ Script(w)[m].do = "write" => files[Script(w)[m].kind] = Delivered(Holds(w))[Script(w)[m].kind]
            /\ Script(w)[m].do = "hash" => seen[w][Script(w)[m].kind] = Delivered(Holds(w))[Script(w)[m].kind]
            /\ Script(w)[m].do = "record" => row = Delivered(Holds(w))[Script(w)[m].kind]
        BY <2>1, <4>1 DEF Undisturbed
      <4>3. ASSUME Script(w)[m].do = "write"
            PROVE  files'[Script(w)[m].kind] = files[Script(w)[m].kind]
        <5>1. Script(w)[m] = Do("write", Script(w)[m].kind)
          BY <4>1, <4>3, StepShape
        <5>2. Script(w)[m].kind # kind
          BY <1>3, <4>1, <5>1
        <5> QED
          BY <1>0, <1>1, <5>2 DEF Typed
      <4> QED
        BY <3>2, <4>2, <4>3
    <3> QED
      BY <3>1, <3>2
  <2>3. Holds(w)' = Holds(w) /\ seen'[w] = seen[w] /\ row' = row /\ at'[w] - 1 = n
    BY <1>1, <1>2, <1>5 DEF Holds
  <2> QED
    BY <1>6, <2>2, <2>3 DEF Undisturbed, Delivered, Told
<1> QED
  BY <1>1, <1>4, <1>5, <1>7, <1>8, DeliveryStep

(* What a process may write has the type of the file. *)
LEMMA OutputType ==
  ASSUME Typed, NEW w \in Workers, Gated(w), pc[w] = "export", NEW kind \in Kinds
  PROVE  /\ Holds(w) \in Records
         /\ kind \in Hashed => Output(w, kind) = Holds(w) /\ Output(w, kind) \in Content
         /\ kind = "manifest" => Output(w, kind) \in Manifest
         /\ Output(w, "manifest") \in Manifest
<1>1. Holds(w) \in Records
  <2>1. got[w] \in SUBSET Pages /\ as[w] \in Classes
    BY DEF Typed, Gated
  <2> QED
    BY <2>1 DEF Holds, Records
<1>2. ASSUME kind \in Hashed
      PROVE  kind # "manifest" /\ Output(w, kind) = Holds(w) /\ Output(w, kind) \in Content
  <2>1. kind # "manifest"
    BY <1>2, TextsType
  <2>2. Output(w, kind) = Holds(w)
    BY <2>1 DEF Output
  <2> QED
    BY <1>1, <2>1, <2>2 DEF Content
<1>3. Output(w, "manifest") \in Manifest
  <2>1. Output(w, "manifest") = [of |-> Holds(w), hashes |-> [k \in Hashed |-> seen[w][k]]]
    BY DEF Output
  <2>2. [k \in Hashed |-> seen[w][k]] \in [Hashed -> Content]
    BY DEF Typed
  <2> QED
    BY <1>1, <2>1, <2>2 DEF Manifest
<1> QED
  BY <1>1, <1>2, <1>3, TextsType

(* Write: what an undisturbed delivery writes is what it is to leave. *)
LEMMA WriteKeeps ==
  ASSUME Inv, NEW w \in Workers, Write(w)
  PROVE  Inv'
<1> DEFINE n == at[w]
           kind == Script(w)[n].kind
<1>0. Typed /\ Gated(w)
  BY DEF Inv
<1>9. PICK tail \in Tails(w, kind) :
        files' = [files EXCEPT ![kind] = IF tail THEN Mixed ELSE Output(w, kind)]
  BY DEF Write, Step
<1> DEFINE value == IF tail THEN Mixed ELSE Output(w, kind)
<1>1. /\ UNCHANGED <<class, job, pages, raw, gate, row, receipt, pc, todo, as, got, seen, commands, alone,
                     settled>>
      /\ pc[w] = "export" /\ Script(w)[n].do = "write"
      /\ files' = [files EXCEPT ![kind] = value] /\ at' = [at EXCEPT ![w] = n + 1]
  BY <1>9 DEF Write, Step, Advance
<1>2. n \in 1..Len(Script(w)) /\ n \in Nat /\ Len(Script(w)) \in Nat
  BY <1>0, <1>1, ScriptAt, TextsType DEF Gated, Typed
<1>3. /\ kind \in Kinds /\ n + 1 \in 1..Len(Script(w))
      /\ kind = "sqlite" \/ (n > 1 /\ Script(w)[n - 1] = Do("open", kind))
      /\ kind = "manifest" => \A k \in Hashed : \E m \in 1..n - 1 : Script(w)[m] = Do("hash", k)
  <2>1. StepOrder(w, n)
    BY <1>2, Ordered
  <2>2. Script(w)[n] = Do("write", kind)
    BY <1>1, <1>2, StepShape
  <2> QED
    BY <1>1, <1>2, <2>1, <2>2 DEF StepOrder
<1>4. Typed'
  <2>1. /\ kind \in Hashed => value \in Content
        /\ kind = "manifest" => value \in Manifest \cup {Missing, Emptied, Mixed}
        /\ kind \in Hashed \/ kind = "manifest"
    BY <1>0, <1>1, <1>3, OutputType DEF Content, Kinds
  <2>2. value \in Anything
    BY <2>1 DEF Anything, Content
  <2> HIDE DEF value, kind
  <2>3. files' \in [Kinds -> Anything] /\ (\A k \in Hashed : files'[k] \in Content)
        /\ files'["manifest"] \in Manifest \cup {Missing, Emptied, Mixed}
    BY <1>0, <1>1, <1>3, <2>1, <2>2, TextsType DEF Typed
  <2>4. at' \in [Workers -> Nat]
    BY <1>0, <1>1, <1>2 DEF Typed
  <2> QED
    BY <1>0, <1>1, <2>3, <2>4 DEF Typed
<1>5. Others(w) /\ at'[w] = n + 1
  BY <1>0, <1>1 DEF Others, Typed
<1>6. Script(w)' = Script(w)
  BY <1>1 DEF Script
<1>7. Gated(w)'
  BY <1>0, <1>1, <1>3, <1>5, <1>6 DEF Gated
<1>8. ASSUME alone = w PROVE Undisturbed(w)'
  <2>1. Undisturbed(w)
    BY <1>1, <1>8 DEF Inv
  <2>2. tail = FALSE
    <3>1. CASE kind = "sqlite"
      BY <1>9, <3>1 DEF Tails
    <3>2. CASE n > 1 /\ Script(w)[n - 1] = Do("open", kind)
      <4>1. n - 1 \in 1..n - 1
        BY <1>2, <3>2
      <4>2. Script(w)[n - 1].do = "open" /\ Script(w)[n - 1].kind = kind
        BY <3>2 DEF Do
      <4>3. files[kind] = Emptied
        BY <2>1, <4>1, <4>2 DEF Undisturbed
      <4> QED
        BY <1>9, <4>3 DEF Tails
    <3> QED
      BY <1>3, <3>1, <3>2
  <2>3. value = Delivered(Holds(w))[kind]
    <3>1. CASE kind \in Hashed
      <4>1. value = Holds(w)
        BY <1>0, <1>1, <1>3, <2>2, <3>1, OutputType
      <4> QED
        BY <3>1, <4>1, DeliveredKinds
    <3>2. CASE kind = "manifest"
      <4>1. Output(w, "manifest") = Told(Holds(w))
        BY <1>3, <2>1, <3>2, ManifestTold
      <4> QED
        BY <2>2, <3>2, <4>1, DeliveredKinds
    <3> QED
      BY <1>3, <3>1, <3>2 DEF Kinds
  <2> HIDE DEF value
  <2>4. files'[kind] = Delivered(Holds(w))[kind]
    BY <1>0, <1>1, <1>3, <2>3 DEF Typed
  <2>5. \A k \in Kinds : k # kind => files'[k] = files[k]
    BY <1>0, <1>1 DEF Typed
  <2>6. ASSUME NEW m \in 1..n
        PROVE  LET step == Script(w)[m]
                   final == Delivered(Holds(w))[step.kind]
               IN  /\ step.do = "open" /\ m = n => files'[step.kind] = Emptied
                   /\ step.do = "write" => files'[step.kind] = final
                   /\ step.do = "hash" => seen[w][step.kind] = final
                   /\ step.do = "record" => row = final
    <3>1. CASE m = n
      BY <1>1, <2>4, <3>1
    <3>2. CASE m # n
      <4>1. m \in 1..n - 1 /\ m \in 1..Len(Script(w))
        BY <1>2, <3>2
      <4>2. /\ Script(w)[m].do = "write" => files[Script(w)[m].kind] = Delivered(Holds(w))[Script(w)[m].kind]
            /\ Script(w)[m].do = "hash" => seen[w][Script(w)[m].kind] = Delivered(Holds(w))[Script(w)[m].kind]
            /\ Script(w)[m].do = "record" => row = Delivered(Holds(w))[Script(w)[m].kind]
        BY <2>1, <4>1 DEF Undisturbed
      <4>3. Script(w)[m].kind \in Kinds
        BY <4>1, Ordered DEF StepOrder
      <4>4. ASSUME Script(w)[m].do = "write"
            PROVE  files'[Script(w)[m].kind] = Delivered(Holds(w))[Script(w)[m].kind]
        <5>1. CASE Script(w)[m].kind = kind
          BY <2>4, <5>1
        <5>2. CASE Script(w)[m].kind # kind
          BY <2>5, <4>2, <4>3, <4>4, <5>2
        <5> QED
          BY <5>1, <5>2
      <4> QED
        BY <3>2, <4>2, <4>4
    <3> QED
      BY <3>1, <3>2
  <2>7. Holds(w)' = Holds(w) /\ seen'[w] = seen[w] /\ row' = row /\ at'[w] - 1 = n
    BY <1>1, <1>2, <1>5 DEF Holds
  <2> QED
    BY <1>6, <2>6, <2>7 DEF Undisturbed, Delivered, Told
<1> QED
  BY <1>1, <1>4, <1>5, <1>7, <1>8, DeliveryStep

(* Hash: what it hashes is what it has written. *)
LEMMA HashKeeps ==
  ASSUME Inv, NEW w \in Workers, Hash(w)
  PROVE  Inv'
<1> DEFINE n == at[w]
           kind == Script(w)[n].kind
<1>0. Typed /\ Gated(w)
  BY DEF Inv
<1>1. /\ UNCHANGED <<class, job, pages, raw, gate, files, row, receipt, pc, todo, as, got, commands, alone,
                     settled>>
      /\ pc[w] = "export" /\ Script(w)[n].do = "hash"
      /\ seen' = [seen EXCEPT ![w][kind] = files[kind]] /\ at' = [at EXCEPT ![w] = n + 1]
  BY DEF Hash, Step, Advance
<1>2. n \in 1..Len(Script(w)) /\ n \in Nat /\ Len(Script(w)) \in Nat
  BY <1>0, <1>1, ScriptAt, TextsType DEF Gated, Typed
<1>3. /\ kind \in Kinds /\ n + 1 \in 1..Len(Script(w))
      /\ \E m \in 1..n - 1 : Script(w)[m] = Do("write", kind)
  <2>1. StepOrder(w, n)
    BY <1>2, Ordered
  <2> QED
    BY <1>1, <1>2, <2>1 DEF StepOrder
<1>4. /\ \A v \in Workers \ {w} : seen'[v] = seen[v]
      /\ \A k \in Kinds : seen'[w][k] = IF k = kind THEN files[kind] ELSE seen[w][k]
      /\ seen' \in [Workers -> [Kinds -> Anything]]
  <2>1. files[kind] \in Anything
    BY <1>0, <1>3 DEF Typed
  <2>2. seen \in [Workers -> [Kinds -> Anything]]
    BY <1>0 DEF Typed
  <2> HIDE DEF kind
  <2> QED
    BY <1>1, <1>3, <2>1, <2>2
<1>5. Typed'
  <2>1. \A v \in Workers, k \in Hashed : seen'[v][k] \in Content
    <3>1. \A k \in Hashed : files[k] \in Content /\ k \in Kinds
      BY <1>0, TextsType DEF Typed
    <3>2. \A v \in Workers, k \in Hashed : seen[v][k] \in Content
      BY <1>0 DEF Typed
    <3> HIDE DEF kind
    <3> QED
      BY <1>4, <3>1, <3>2
  <2>2. at' \in [Workers -> Nat]
    BY <1>0, <1>1, <1>2 DEF Typed
  <2> QED
    BY <1>0, <1>1, <1>4, <2>1, <2>2 DEF Typed
<1>6. Others(w) /\ at'[w] = n + 1
  BY <1>0, <1>1, <1>4 DEF Others, Typed
<1>7. Script(w)' = Script(w)
  BY <1>1 DEF Script
<1>8. Gated(w)'
  BY <1>0, <1>1, <1>3, <1>6, <1>7 DEF Gated
<1>9. ASSUME alone = w PROVE Undisturbed(w)'
  <2>1. Undisturbed(w)
    BY <1>1, <1>9 DEF Inv
  <2>2. seen'[w][kind] = Delivered(Holds(w))[kind]
    BY <1>3, <1>4, <2>1, WrittenStays
  <2>3. ASSUME NEW m \in 1..n
        PROVE  LET step == Script(w)[m]
                   final == Delivered(Holds(w))[step.kind]
               IN  /\ step.do = "open" /\ m = n => files[step.kind] = Emptied
                   /\ step.do = "write" => files[step.kind] = final
                   /\ step.do = "hash" => seen'[w][step.kind] = final
                   /\ step.do = "record" => row = final
    <3>1. CASE m = n
      BY <1>1, <2>2, <3>1
    <3>2. CASE m # n
      <4>1. m \in 1..n - 1 /\ m \in 1..Len(Script(w))
        BY <1>2, <3>2
      <4>2. /\ Script(w)[m].do = "write" => files[Script(w)[m].kind] = Delivered(Holds(w))[Script(w)[m].kind]
            /\ Script(w)[m].do = "hash" => seen[w][Script(w)[m].kind] = Delivered(Holds(w))[Script(w)[m].kind]
            /\ Script(w)[m].do = "record" => row = Delivered(Holds(w))[Script(w)[m].kind]
        BY <2>1, <4>1 DEF Undisturbed
      <4>3. Script(w)[m].kind \in Kinds
        BY <4>1, Ordered DEF StepOrder
      <4>4. ASSUME Script(w)[m].do = "hash"
            PROVE  seen'[w][Script(w)[m].kind] = Delivered(Holds(w))[Script(w)[m].kind]
        <5>1. CASE Script(w)[m].kind = kind
          BY <2>2, <5>1
        <5>2. CASE Script(w)[m].kind # kind
          BY <1>4, <4>2, <4>3, <4>4, <5>2
        <5> QED
          BY <5>1, <5>2
      <4> QED
        BY <3>2, <4>2, <4>4
    <3> QED
      BY <3>1, <3>2
  <2>4. Holds(w)' = Holds(w) /\ files' = files /\ row' = row /\ at'[w] - 1 = n
    BY <1>1, <1>2, <1>6 DEF Holds
  <2> QED
    BY <1>7, <2>3, <2>4 DEF Undisturbed, Delivered, Told
<1> QED
  BY <1>1, <1>5, <1>6, <1>8, <1>9, DeliveryStep

(* A delivery that ends takes its memory with it, and no other is undisturbed. *)
LEMMA DeliveryEnds ==
  ASSUME Inv, NEW w \in Workers, Ends(w), pc[w] \in {"read", "export"}, Typed',
         UNCHANGED <<job, pages>>, Whole', Attested',
         settled' => Delivering \subseteq {w}
  PROVE  Inv'
<1>0. Typed /\ \A v \in Workers : alone = v => v = w
  BY Disturbing DEF Inv
<1>1. Others(w) /\ pc'[w] = "idle" /\ Gated(w)' /\ alone' # w /\ (alone # w => alone' = alone)
  BY <1>0, EndsThere
<1>2. Delivering' = Delivering \ {w}
  BY <1>1 DEF Delivering, Others
<1>3. \A v \in Workers : alone' # v
  <2>1. alone' = IF alone = w THEN Nobody ELSE alone
    BY DEF Ends
  <2> QED
    BY <1>0, <2>1, DeliveryAssumption
<1>4. Lonely'
  BY <1>2, <1>3 DEF Lonely
<1>5. ASSUME NEW v \in Workers PROVE Gated(v)'
  <2>1. CASE v # w
    <3>1. Gated(v)
      BY DEF Inv
    <3> QED
      BY <1>1, <2>1, <3>1, StaysThere DEF Others
  <2> QED
    BY <1>1, <2>1
<1>6. ASSUME NEW v \in Workers, alone' = v, pc'[v] = "export" PROVE Undisturbed(v)'
  BY <1>3, <1>6
<1> QED
  BY <1>4, <1>5, <1>6 DEF Inv

(* Record: the manifest row is that of the manifest, and a replay ends with it. *)
LEMMA RecordKeeps ==
  ASSUME Inv, NEW w \in Workers, Record(w)
  PROVE  Inv'
<1> DEFINE n == at[w]
<1>0. Typed /\ Gated(w) /\ Lonely /\ Attested
  BY DEF Inv
<1>1. /\ UNCHANGED <<class, job, pages, raw, files, receipt, commands>>
      /\ pc[w] = "export" /\ Script(w)[n].do = "record" /\ row' = Output(w, "manifest")
  BY DEF Record, Step
<1>2. n \in 1..Len(Script(w)) /\ n \in Nat /\ Len(Script(w)) \in Nat
  BY <1>0, <1>1, ScriptAt, TextsType DEF Gated, Typed
<1>3. /\ gate = w => n + 1 \in 1..Len(Script(w))
      /\ Script(w)[n].kind = "manifest"
      /\ \A k \in Hashed : \E m \in 1..n - 1 : Script(w)[m] = Do("hash", k)
      /\ \E m \in 1..n - 1 : Script(w)[m] = Do("write", "manifest")
  <2>1. StepOrder(w, n)
    BY <1>2, Ordered
  <2> QED
    BY <1>1, <1>2, <2>1 DEF StepOrder
<1>4. row' \in Manifest /\ Holds(w) \in Records
  BY <1>0, <1>1, OutputType, TextsType
<1>5. ASSUME alone = w
      PROVE  Undisturbed(w) /\ row' = Told(Holds(w)) /\ files = Delivered(Holds(w))
  <2>1. Undisturbed(w)
    BY <1>1, <1>5 DEF Inv
  <2>2. row' = Told(Holds(w))
    BY <1>1, <1>3, <2>1, ManifestTold
  <2>3. files = Delivered(Holds(w))
    BY <1>0, <1>2, <1>3, <2>1, AllWritten DEF Typed
  <2> QED
    BY <2>1, <2>2, <2>3
<1>6. CASE gate = w
  <2>1. at' = [at EXCEPT ![w] = n + 1] /\ UNCHANGED <<gate, pc, todo, as, got, seen, alone,
                                                      settled>>
    BY <1>6 DEF Record, Advance
  <2>2. Typed'
    <3>1. at' \in [Workers -> Nat]
      BY <1>0, <1>2, <2>1 DEF Typed
    <3> QED
      BY <1>0, <1>1, <1>4, <2>1, <3>1 DEF Typed
  <2>3. Others(w) /\ at'[w] = n + 1
    BY <1>0, <2>1 DEF Others, Typed
  <2>4. Script(w)' = Script(w)
    BY <2>1 DEF Script
  <2>5. Gated(w)'
    BY <1>0, <1>1, <1>3, <1>6, <2>1, <2>3, <2>4 DEF Gated
  <2>6. ASSUME alone = w PROVE Undisturbed(w)'
    <3>1. Undisturbed(w) /\ row' = Delivered(Holds(w))["manifest"]
      BY <1>5, <2>6, DeliveredKinds
    <3>2. ASSUME NEW m \in 1..n
          PROVE  LET step == Script(w)[m]
                     final == Delivered(Holds(w))[step.kind]
                 IN  /\ step.do = "open" /\ m = n => files[step.kind] = Emptied
                     /\ step.do = "write" => files[step.kind] = final
                     /\ step.do = "hash" => seen[w][step.kind] = final
                     /\ step.do = "record" => row' = final
      <4>1. CASE m = n
        BY <1>1, <1>3, <3>1, <4>1
      <4>2. CASE m # n
        <5>1. m \in 1..n - 1 /\ m \in 1..Len(Script(w))
          BY <1>2, <4>2
        <5>2. /\ Script(w)[m].do = "write" => files[Script(w)[m].kind] = Delivered(Holds(w))[Script(w)[m].kind]
              /\ Script(w)[m].do = "hash" => seen[w][Script(w)[m].kind] = Delivered(Holds(w))[Script(w)[m].kind]
          BY <3>1, <5>1 DEF Undisturbed
        <5>3. Script(w)[m].do = "record" => Script(w)[m].kind = "manifest"
          BY <5>1, Ordered DEF StepOrder
        <5> QED
          BY <3>1, <4>2, <5>2, <5>3
      <4> QED
        BY <4>1, <4>2
    <3>3. Holds(w)' = Holds(w) /\ seen'[w] = seen[w] /\ files' = files /\ at'[w] - 1 = n
      BY <1>1, <1>2, <2>1, <2>3 DEF Holds
    <3> QED
      BY <2>4, <3>2, <3>3 DEF Undisturbed, Delivered, Told
  <2> QED
    BY <1>1, <2>1, <2>2, <2>3, <2>5, <2>6, DeliveryStep
<1>7. CASE gate # w
  <2>1. settled' = (alone = w) /\ Ends(w)
    BY <1>7 DEF Record
  <2>2. Typed'
    <3>1. settled' \in BOOLEAN
      BY <2>1
    <3> QED
      BY <1>0, <1>1, <1>4, <2>1, <3>1, EndsThere DEF Typed
  <2>3. Whole'
    <3> SUFFICES ASSUME alone = w PROVE /\ row'.of \in Records
                                        /\ row' = Told(row'.of) /\ files' = Delivered(row'.of)
      BY <2>1 DEF Whole, Told, Delivered, Records
    <3>1. row'.of = Holds(w)
      BY <1>5 DEF Told
    <3> QED
      BY <1>1, <1>4, <1>5, <3>1
  <2>4. Attested'
    <3> SUFFICES ASSUME receipt # Missing, receipt.lone PROVE Attested'
      BY <1>1 DEF Attested
    <3>1. /\ job = "succeeded" /\ receipt.of \in Records
          /\ receipt.of.pages = 1..pages /\ receipt.raw = 1..pages
          /\ receipt.files = Delivered(receipt.of)
          /\ \A v \in Delivering : todo[v] = 1..pages
      BY <1>0 DEF Attested
    <3>2. \A v \in Delivering' : v \in Delivering /\ todo'[v] = todo[v]
      BY <1>0, <2>1, EndsThere DEF Delivering, Others
    <3>3. alone = w => row'.of.pages = 1..pages
      <4>1. w \in Delivering /\ got[w] = todo[w]
        BY <1>0, <1>1 DEF Delivering, Gated
      <4> QED
        BY <1>5, <3>1, <4>1 DEF Told, Holds
    <3>4. /\ job' = "succeeded" /\ receipt'.of \in Records
          /\ receipt'.of.pages = (1..pages)' /\ receipt'.raw = (1..pages)'
          /\ receipt'.files = Delivered(receipt.of)'
      BY <1>1, <3>1
    <3>5. ASSUME NEW v \in Delivering' PROVE todo'[v] = (1..pages)'
      BY <1>1, <3>1, <3>2
    <3>6. settled' => row'.of.pages = (1..pages)'
      BY <1>1, <2>1, <3>3
    <3> QED
      BY <3>4, <3>5, <3>6 DEF Attested, Records
  <2>5. settled' => Delivering \subseteq {w}
    BY <1>0, <2>1 DEF Lonely
  <2> QED
    BY <1>1, <2>1, <2>2, <2>3, <2>4, <2>5, DeliveryEnds
<1> QED
  BY <1>6, <1>7

(* WriteReceipt: the receipt of an undisturbed delivery attests what is there. *)
LEMMA WriteReceiptKeeps ==
  ASSUME Inv, NEW w \in Workers, WriteReceipt(w)
  PROVE  Inv'
<1> DEFINE n == at[w]
<1>0. Typed /\ Gated(w) /\ Lonely
  BY DEF Inv
<1>1. /\ UNCHANGED <<class, job, pages, raw, files, row, commands>>
      /\ pc[w] = "export" /\ Script(w)[n].do = "attest" /\ Ends(w)
      /\ settled' = (alone = w)
      /\ receipt' = [state |-> job, of |-> Holds(w), raw |-> 1..pages, files |-> seen[w],
                     lone |-> alone = w]
  BY DEF WriteReceipt, Step
<1>2. n \in 1..Len(Script(w)) /\ n \in Nat /\ Len(Script(w)) \in Nat
  BY <1>0, <1>1, ScriptAt, TextsType DEF Gated, Typed
<1>3. /\ gate = w
      /\ \A k \in Hashed : \E m \in 1..n - 1 : Script(w)[m] = Do("hash", k)
      /\ \E m \in 1..n - 1 : Script(w)[m] = Do("write", "manifest")
      /\ \E m \in 1..n - 1 : Script(w)[m] = Do("hash", "manifest")
      /\ \E m \in 1..n - 1 : Script(w)[m] = Do("record", "manifest")
  <2>1. StepOrder(w, n)
    BY <1>2, Ordered
  <2> QED
    BY <1>1, <1>2, <2>1 DEF StepOrder
<1>4. job = "succeeded" /\ got[w] = 1..pages /\ Holds(w) \in Records
  BY <1>0, <1>1, <1>3, OutputType, TextsType DEF Gated
<1>5. Typed'
  <2>1. settled' \in BOOLEAN /\ receipt'.state = "succeeded"
    BY <1>1, <1>4
  <2> QED
    BY <1>0, <1>1, <2>1, EndsThere DEF Typed
<1>6. ASSUME alone = w
      PROVE  /\ row = Told(Holds(w)) /\ files = Delivered(Holds(w))
             /\ seen[w] = Delivered(Holds(w))
  <2>1. Undisturbed(w)
    BY <1>1, <1>6 DEF Inv
  <2>2. files = Delivered(Holds(w))
    BY <1>0, <1>2, <1>3, <2>1, AllWritten DEF Typed
  <2>3. row = Told(Holds(w))
    <3>1. PICK m \in 1..n - 1 : Script(w)[m] = Do("record", "manifest")
      BY <1>3
    <3>2. Script(w)[m].do = "record" /\ Script(w)[m].kind = "manifest"
      BY <3>1 DEF Do
    <3>3. row = Delivered(Holds(w))["manifest"]
      BY <2>1, <3>1, <3>2 DEF Undisturbed
    <3> QED
      BY <3>3, DeliveredKinds
  <2>4. \A k \in Kinds : seen[w][k] = Delivered(Holds(w))[k]
    BY <1>3, <2>1, HashedStays DEF Kinds
  <2>5. seen[w] = [k \in Kinds |-> seen[w][k]]
    BY <1>0 DEF Typed
  <2>6. Delivered(Holds(w)) = [k \in Kinds |-> Delivered(Holds(w))[k]]
    BY DEF Delivered
  <2> QED
    BY <1>4, <2>2, <2>3, <2>4, <2>5, <2>6
<1>7. Whole'
  <2> SUFFICES ASSUME alone = w PROVE /\ row.of \in Records
                                      /\ row = Told(row.of) /\ files = Delivered(row.of)
    BY <1>1 DEF Whole, Told, Delivered, Records
  <2>1. row.of = Holds(w)
    BY <1>6 DEF Told
  <2> QED
    BY <1>4, <1>6, <2>1
<1>8. Attested'
  <2> SUFFICES ASSUME alone = w PROVE Attested'
    BY <1>1 DEF Attested
  <2>1. \A v \in Delivering' : FALSE
    <3>1. Delivering = {w}
      BY <1>0 DEF Lonely
    <3>2. Delivering' = Delivering \ {w}
      BY <1>0, <1>1, EndsThere DEF Delivering, Others
    <3> QED
      BY <3>1, <3>2
  <2>2. Holds(w).pages = 1..pages
    BY <1>4 DEF Holds
  <2>3. /\ receipt'.of \in Records /\ receipt'.of.pages = 1..pages /\ receipt'.raw = 1..pages
        /\ receipt'.files = Delivered(receipt'.of) /\ row.of.pages = 1..pages
    BY <1>1, <1>4, <1>6, <2>2 DEF Told
  <2> QED
    BY <1>1, <1>4, <2>1, <2>3 DEF Attested, Delivered, Told, Records
<1>9. settled' => Delivering \subseteq {w}
  BY <1>0, <1>1 DEF Lonely
<1> QED
  BY <1>1, <1>5, <1>7, <1>8, <1>9, DeliveryEnds

(* Die: what a process leaves half done nobody takes for whole. *)
LEMMA DieKeeps ==
  ASSUME Inv, NEW w \in Workers, Die(w)
  PROVE  Inv'
<1>0. Typed /\ Gated(w) /\ Lonely /\ Whole /\ Attested
  BY DEF Inv
<1>1. /\ UNCHANGED <<class, job, pages, raw, files, row, receipt, commands, settled>>
      /\ Ends(w)
  BY DEF Die
<1>3. Typed'
  BY <1>0, <1>1, EndsThere DEF Typed
<1>4. /\ Others(w) /\ pc'[w] = "idle" /\ Gated(w)' /\ (alone # w => alone' = alone)
  BY <1>0, <1>1, EndsThere
<1>5. CASE pc[w] \notin {"read", "export"}
  <2>1. alone' = alone
    <3>1. w \notin Delivering
      BY <1>5 DEF Delivering
    <3> QED
      BY <1>0, <1>4, <3>1 DEF Lonely
  <2> QED
    BY <1>1, <1>3, <1>4, <1>5, <2>1, QuietStep
<1>6. CASE pc[w] \in {"read", "export"}
  <2>1. ~settled
    BY <1>6, Disturbing
  <2>2. Whole'
    BY <1>1, <2>1 DEF Whole
  <2>3. \A v \in Delivering' : v \in Delivering /\ todo'[v] = todo[v]
    BY <1>4 DEF Delivering, Others
  <2>4. Attested'
    BY <1>0, <1>1, <2>1, <2>3 DEF Attested, Delivered, Told
  <2> QED
    BY <1>1, <1>3, <1>6, <2>1, <2>2, <2>4, DeliveryEnds
<1> QED
  BY <1>5, <1>6

-----------------------------------------------------------------------------
(***************************************************************************)
(* The theorems.                                                           *)
(***************************************************************************)

(* Every step keeps the invariant. *)
LEMMA NextKeeps ==
  ASSUME Inv, [Next]_vars
  PROVE  Inv'
<1>1. ASSUME NEW w \in Workers,
             \/ StartCapture(w) \/ CheckpointPage(w) \/ EndCapture(w) \/ FailCapture(w)
             \/ WriteStop(w) \/ StartReplay(w) \/ ReadClass(w)
      PROVE  Inv'
  BY <1>1, StartCaptureKeeps, CheckpointPageKeeps, EndCaptureKeeps, FailCaptureKeeps,
     WriteStopKeeps, StartReplayKeeps, ReadClassKeeps
<1>2. ASSUME NEW w \in Workers,
             \/ ListPages(w) \/ ReadPage(w) \/ BeginExport(w) \/ Open(w) \/ Write(w) \/ Hash(w)
      PROVE  Inv'
  BY <1>2, ListPagesKeeps, ReadPageKeeps, BeginExportKeeps, OpenKeeps, WriteKeeps, HashKeeps
<1>3. ASSUME NEW w \in Workers,
             Record(w) \/ WriteReceipt(w) \/ StartClean(w) \/ Unlink(w) \/ Die(w)
      PROVE  Inv'
  BY <1>3, RecordKeeps, WriteReceiptKeeps, StartCleanKeeps, UnlinkKeeps, DieKeeps
<1>4. CASE SaveProfile
  BY <1>4, Elsewhere DEF SaveProfile
<1>5. CASE UNCHANGED vars
  <2>1. class \in Classes
    BY DEF Inv, Typed
  <2> QED
    BY <1>5, <2>1, Elsewhere DEF vars
<1> QED
  BY <1>1, <1>2, <1>3, <1>4, <1>5 DEF Next

(* The invariant holds in every state the processes can reach. *)
THEOREM Invariance == Spec => []Inv
<1>1. Init => Inv
  BY InitHolds
<1>2. Inv /\ [Next]_vars => Inv'
  BY NextKeeps
<1> QED
  BY <1>1, <1>2, PTL DEF Spec

(* Every variable keeps its type, no process leaves its script, and a receipt with
   exports is the one of a job that has succeeded. *)
THEOREM TypeCorrect == Spec => []TypeOK
<1>1. Inv => TypeOK
  <2> SUFFICES ASSUME Inv PROVE TypeOK
    OBVIOUS
  <2>1. Typed /\ \A w \in Workers : Gated(w)
    BY DEF Inv
  <2>2. ASSUME NEW w \in Workers
        PROVE  /\ pc[w] \in States /\ at[w] \in 0..Len(Script(w))
               /\ todo[w] \in SUBSET Pages /\ got[w] \in SUBSET Pages
    <3>1. Len(Script(w)) \in Nat
      BY ScriptAt, TextsType
    <3>2. IF pc[w] = "export" THEN at[w] \in 1..Len(Script(w)) ELSE at[w] = 0
      BY <2>1 DEF Gated
    <3>3. at[w] \in 0..Len(Script(w))
      BY <3>1, <3>2
    <3> QED
      BY <2>1, <3>3 DEF Typed
  <2> QED
    BY <2>1, <2>2 DEF Typed, TypeOK, States
<1> QED
  BY <1>1, Invariance, PTL

(* After a delivery that no other has overlapped the five files hold the same records,
   the manifest has the hashes of the other four and the row has the manifest's,
   whatever deaths and overlaps came before. *)
THEOREM ExportsRepaired == Spec => []ExportsAgree
<1>1. Inv => ExportsAgree
  <2> SUFFICES ASSUME Inv, settled
               PROVE  /\ files["manifest"] = row
                      /\ \A kind \in Hashed : files[kind] = row.of /\ row.hashes[kind] = files[kind]
    BY DEF ExportsAgree
  <2>1. row = Told(row.of) /\ files = Delivered(row.of)
    BY DEF Inv, Whole
  <2>2. /\ \A kind \in Hashed : Delivered(row.of)[kind] = row.of
        /\ Delivered(row.of)["manifest"] = Told(row.of)
    BY DeliveredKinds
  <2>3. \A kind \in Hashed : Told(row.of).hashes[kind] = row.of
    BY DEF Told
  <2>4. files["manifest"] = row
    BY <2>1, <2>2
  <2>5. ASSUME NEW kind \in Hashed
        PROVE  files[kind] = row.of /\ row.hashes[kind] = files[kind]
    <3>1. files[kind] = row.of
      BY <2>1, <2>2
    <3>2. row.hashes[kind] = row.of
      BY <2>1, <2>3
    <3> QED
      BY <3>1, <3>2
  <2> QED
    BY <2>4, <2>5
<1> QED
  BY <1>1, Invariance, PTL

(* A later delivery that no other overlaps, and that reads the same session class,
   reproduces the files that the receipt of an undisturbed one attests, whatever raw
   files are cleaned meanwhile. *)
THEOREM ReceiptIsReproduced == Spec => []ReceiptReproduced
<1>1. Inv => ReceiptReproduced
  <2> SUFFICES ASSUME Inv, receipt # Missing, receipt.lone
               PROVE  /\ receipt.of.pages = receipt.raw /\ receipt.raw = 1..pages
                      /\ settled /\ row.of.class = receipt.of.class => receipt.files = files
    BY DEF ReceiptReproduced
  <2>1. /\ receipt.of \in Records /\ receipt.of.pages = 1..pages /\ receipt.raw = 1..pages
        /\ receipt.files = Delivered(receipt.of)
        /\ settled => row.of.pages = 1..pages
    BY DEF Inv, Attested
  <2>2. settled => row.of \in Records /\ files = Delivered(row.of)
    BY DEF Inv, Whole
  <2>3. ASSUME settled, row.of.class = receipt.of.class PROVE receipt.files = files
    <3>1. row.of = receipt.of
      BY <2>1, <2>2, <2>3 DEF Records
    <3> QED
      BY <2>1, <2>2, <2>3, <3>1
  <2> QED
    BY <2>1, <2>3
<1> QED
  BY <1>1, Invariance, PTL
=============================================================================
