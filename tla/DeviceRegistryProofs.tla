------------------------ MODULE DeviceRegistryProofs ------------------------
(***************************************************************************)
(* Proofs about DeviceRegistry, for every set of devices and every number  *)
(* of changes, failed writes, kills and stops.                             *)
(*                                                                         *)
(* None of the properties is inductive: they speak of the memory and of a  *)
(* whole file, while a kill or a landing write brings back a snapshot made *)
(* earlier.  The invariant says of the writes under way what the           *)
(* properties say of the file they will leave.                             *)
(***************************************************************************)
EXTENDS DeviceRegistry, TLAPS, SequenceTheorems

\* The snapshots of the chain grow with time and end with the memory.
Grows ==
  /\ \A d \in Devices : \A i, j \in 1..Len(chain) :
       i < j => chain[i].snapshot[d].change <= chain[j].snapshot[d].change
  /\ chain # <<>> => chain[Len(chain)].snapshot = records

\* A write carries the change it was made for.
Carries ==
  \A i \in 1..Len(chain) : chain[i].snapshot[chain[i].device].change = chain[i].change

\* A snapshot of a device lies between what was answered and the memory, and
\* with the same change it is the same record.
Between(d) ==
  \A i \in 1..Len(chain) :
    LET r == chain[i].snapshot[d]
    IN  /\ answered[d] <= r.change /\ r.change <= records[d].change
        /\ r.change = records[d].change => r = records[d]
        /\ told[d] => r.status = "REMOVED"

Remembered(d) ==
  Running => /\ answered[d] <= records[d].change /\ records[d].change <= changes
             /\ told[d] => records[d].status = "REMOVED"

Kept(d) ==
  /\ file = "absent" => answered[d] = 0 /\ ~told[d]
  /\ file = "whole" => /\ answered[d] <= stored[d].change
                       /\ stored[d].change <= changes
                       /\ told[d] => stored[d].status = "REMOVED"

Saves ==
  Running /\ chain = <<>> /\ saved => \/ records = Nobody
                                      \/ file = "whole" /\ stored = records

IInv ==
  /\ TypeOK /\ Grows /\ Carries /\ Saves
  /\ \A d \in Devices : Between(d) /\ Remembered(d) /\ Kept(d)

-----------------------------------------------------------------------------
LEMMA RecordFacts ==
  /\ Nobody \in [Devices -> Records] /\ Unknown \in Records
  /\ Unknown.change = 0 /\ Unknown.status = "NONE"
  /\ \A r \in Records : r.change \in Nat /\ r.change <= MaxChanges
  /\ \A r \in Records : r # Unknown => r.status \in Statuses
BY BoundsAssumption DEF Nobody, Records, Unknown, Statuses

\* A change of one device, in memory and with its write.
LEMMA ChangeInv ==
  ASSUME IInv, NEW d \in Devices, NEW s \in Statuses, Running, Change(d, s),
         told' \in [Devices -> BOOLEAN],
         \A e \in Devices : told'[e] => told[e] /\ e # d
  PROVE  IInv'
<1> DEFINE r == [status |-> s, change |-> changes + 1]
           w == [snapshot |-> records', device |-> d, change |-> changes + 1]
<1>1. TypeOK /\ changes \in Nat /\ changes + 1 \in 1..MaxChanges
  BY BoundsAssumption DEF IInv, TypeOK, Change
<1>2. /\ records' = [records EXCEPT ![d] = r] /\ records' \in [Devices -> Records]
      /\ records'[d] = r /\ \A e \in Devices \ {d} : records'[e] = records[e]
  BY <1>1 DEF TypeOK, Change, Records
<1>3. chain' = Append(chain, w) /\ w \in Writes
  BY <1>1, <1>2 DEF Change, Persist, Snapshot, Writes
<1>4. /\ chain \in Seq(Writes) /\ Len(chain) \in Nat /\ Len(chain') = Len(chain) + 1
      /\ chain' \in Seq(Writes) /\ chain' # <<>>
      /\ \A i \in 1..Len(chain) : chain'[i] = chain[i] /\ chain[i] \in Writes
      /\ chain'[Len(chain) + 1] = w
  <2>1. chain \in Seq(Writes) /\ Len(chain) \in Nat
    BY <1>1, LenProperties DEF TypeOK
  <2>2. /\ Len(chain') = Len(chain) + 1 /\ chain' \in Seq(Writes)
        /\ \A i \in 1..Len(chain) : chain'[i] = chain[i]
        /\ chain'[Len(chain) + 1] = w
    BY <1>3, <2>1, AppendProperties
  <2>3. \A i \in 1..Len(chain) : chain[i] \in Writes
    BY <2>1, ElementOfSeq
  <2>4. chain' # <<>>
    BY <2>1, <2>2, EmptySeq
  <2> QED
    BY <2>1, <2>2, <2>3, <2>4
<1>5. /\ UNCHANGED <<process, opened, toFlush, file, stored, answered, saved, faults, ends>>
      /\ changes' = changes + 1
  BY DEF Change, disk
<1>6. \A i \in 1..Len(chain') : i \in 1..Len(chain) \/ i = Len(chain) + 1
  BY <1>4, SMT
<1>7. TypeOK'
  BY <1>1, <1>2, <1>4, <1>5, BoundsAssumption DEF TypeOK, Running
<1>8. \A e \in Devices : /\ answered[e] \in Nat /\ records[e] \in Records
                         /\ records[e].change \in Nat
                         /\ answered[e] <= records[e].change
                         /\ records[e].change <= changes
                         /\ told[e] => records[e].status = "REMOVED"
  BY <1>1, RecordFacts, BoundsAssumption DEF IInv, Remembered, TypeOK
<1>9. \A i \in 1..Len(chain), e \in Devices :
        /\ chain[i].snapshot[e].change \in Nat
        /\ answered[e] <= chain[i].snapshot[e].change
        /\ chain[i].snapshot[e].change <= records[e].change
        /\ chain[i].snapshot[e].change = records[e].change
             => chain[i].snapshot[e] = records[e]
        /\ told[e] => chain[i].snapshot[e].status = "REMOVED"
  BY <1>4, RecordFacts DEF IInv, Between, Writes
<1>10. Grows'
  <2>1. \A e \in Devices : \A i, j \in 1..Len(chain') :
          i < j => chain'[i].snapshot[e].change <= chain'[j].snapshot[e].change
    <3> SUFFICES ASSUME NEW e \in Devices, NEW i \in 1..Len(chain'),
                        NEW j \in 1..Len(chain'), i < j
                 PROVE  chain'[i].snapshot[e].change <= chain'[j].snapshot[e].change
      OBVIOUS
    <3>1. i \in 1..Len(chain)
      BY <1>4, SMT
    <3>2. CASE j \in 1..Len(chain)
      BY <1>4, <3>1, <3>2 DEF IInv, Grows
    <3>3. CASE j = Len(chain) + 1
      <4>1. chain'[j].snapshot[e] = records'[e]
        BY <1>4, <3>3
      <4>2. records[e].change <= records'[e].change
        BY <1>2, <1>8, <1>1
      <4>3. records'[e].change \in Nat
        BY <1>2, RecordFacts
      <4> QED
        BY <1>4, <1>8, <1>9, <3>1, <4>1, <4>2, <4>3
    <3> QED
      BY <1>6, <3>2, <3>3
  <2> QED
    BY <1>4, <2>1 DEF Grows
<1>11. Carries'
  BY <1>2, <1>4, <1>6 DEF IInv, Carries
<1>12. Saves'
  BY <1>4 DEF Saves
<1>13. ASSUME NEW e \in Devices
       PROVE  Between(e)' /\ Remembered(e)' /\ Kept(e)'
  <2>1. /\ records[e].change <= records'[e].change
        /\ records'[e].change <= changes'
        /\ records'[e].change \in Nat
        /\ records'[e].change = records[e].change => records'[e] = records[e]
        /\ told'[e] => told[e] /\ records'[e] = records[e]
    BY <1>1, <1>2, <1>5, <1>8, RecordFacts
  <2>2. Remembered(e)'
    BY <1>5, <1>8, <2>1 DEF Remembered
  <2>3. Kept(e)'
    <3>1. Kept(e)
      BY DEF IInv
    <3>2. stored[e].change \in Nat
      BY <1>1, RecordFacts DEF TypeOK
    <3> QED
      BY <1>1, <1>5, <2>1, <3>1, <3>2 DEF Kept
  <2>4. ASSUME NEW i \in 1..Len(chain')
        PROVE  /\ answered'[e] <= chain'[i].snapshot[e].change
               /\ chain'[i].snapshot[e].change <= records'[e].change
               /\ chain'[i].snapshot[e].change = records'[e].change
                    => chain'[i].snapshot[e] = records'[e]
               /\ told'[e] => chain'[i].snapshot[e].status = "REMOVED"
    <3>1. CASE i \in 1..Len(chain)
      <4> DEFINE past == chain[i].snapshot[e]
      <4>1. chain'[i].snapshot[e] = past /\ answered'[e] = answered[e]
        BY <1>4, <1>5, <3>1
      <4>2. /\ past.change \in Nat /\ answered[e] <= past.change
            /\ past.change <= records[e].change
            /\ past.change = records[e].change => past = records[e]
            /\ told[e] => past.status = "REMOVED"
        BY <1>9, <3>1
      <4> HIDE DEF past
      <4>3. records[e].change \in Nat /\ records'[e].change \in Nat
            /\ records[e].change <= records'[e].change
        BY <1>1, <1>2, <1>8, <2>1
      <4> QED
        BY <2>1, <4>1, <4>2, <4>3
    <3>2. CASE i = Len(chain) + 1
      <4>1. chain'[i].snapshot[e] = records'[e]
        BY <1>4, <3>2
      <4> QED
        BY <1>5, <1>8, <2>1, <4>1
    <3> QED
      BY <1>6, <3>1, <3>2
  <2> QED
    BY <2>2, <2>3, <2>4 DEF Between
<1> QED
  BY <1>7, <1>10, <1>11, <1>12, <1>13 DEF IInv

\* The oldest write of the chain settles: the rest of the chain is as it was.
LEMMA SettledChain ==
  ASSUME IInv, chain # <<>>, chain' = Tail(chain), UNCHANGED records
  PROVE  /\ Head(chain) = chain[1] /\ chain[1] \in Writes /\ 1 \in 1..Len(chain)
         /\ Len(chain) \in Nat \ {0} /\ Len(chain') = Len(chain) - 1
         /\ chain' \in Seq(Writes)
         /\ \A i \in 1..Len(chain') : i + 1 \in 1..Len(chain) /\ chain'[i] = chain[i + 1]
         /\ Grows' /\ Carries'
         /\ chain' = <<>> => chain[1].snapshot = records
<1>1. chain \in Seq(Writes)
  BY DEF IInv, TypeOK
<1>2. /\ Head(chain) = chain[1] /\ chain[1] \in Writes /\ 1 \in 1..Len(chain)
      /\ Len(chain) \in Nat \ {0} /\ Len(chain') = Len(chain) - 1
      /\ chain' \in Seq(Writes)
      /\ \A i \in 1..Len(chain') : i + 1 \in 1..Len(chain) /\ chain'[i] = chain[i + 1]
  <2>1. Len(chain) \in Nat \ {0}
    BY <1>1, EmptySeq
  <2>2. /\ Head(chain) = chain[1] /\ Head(chain) \in Writes
        /\ Tail(chain) \in Seq(Writes) /\ Len(Tail(chain)) = Len(chain) - 1
        /\ \A i \in 1..Len(Tail(chain)) : Tail(chain)[i] = chain[i + 1]
    BY <1>1, HeadTailProperties
  <2> QED
    BY <2>1, <2>2
<1>3. chain' = <<>> => chain[1].snapshot = records
  <2>1. chain' = <<>> => Len(chain') = 0
    BY EmptySeq
  <2>2. chain' = <<>> => Len(chain) = 1
    BY <1>2, <2>1, SMT
  <2> QED
    BY <2>2 DEF IInv, Grows
<1>4. chain' # <<>> => chain'[Len(chain')].snapshot = records
  <2>1. chain' # <<>> => Len(chain') \in 1..Len(chain') /\ Len(chain') + 1 = Len(chain)
    BY <1>2, EmptySeq, SMT
  <2> QED
    BY <1>2, <2>1 DEF IInv, Grows
<1>5. \A d \in Devices : \A i, j \in 1..Len(chain') :
        i < j => chain'[i].snapshot[d].change <= chain'[j].snapshot[d].change
  <2> SUFFICES ASSUME NEW d \in Devices, NEW i \in 1..Len(chain'), NEW j \in 1..Len(chain'),
                      i < j
               PROVE  chain'[i].snapshot[d].change <= chain'[j].snapshot[d].change
    OBVIOUS
  <2>1. i + 1 \in 1..Len(chain) /\ j + 1 \in 1..Len(chain) /\ i + 1 < j + 1
    BY <1>2, SMT
  <2> QED
    BY <1>2, <2>1 DEF IInv, Grows
<1>6. Grows'
  BY <1>4, <1>5 DEF Grows
<1>7. Carries'
  BY <1>2 DEF IInv, Carries
<1> QED
  BY <1>2, <1>3, <1>6, <1>7

-----------------------------------------------------------------------------
(* Each action keeps the invariant.                                        *)

LEMMA InitInv ==
  ASSUME Init
  PROVE  IInv
<1>1. chain = <<>> /\ chain \in Seq(Writes) /\ Len(chain) = 0
  BY EmptySeq DEF Init
<1>2. TypeOK
  <2>1. 0 \in 0..MaxChanges /\ 0 \in 0..MaxFaults /\ 0 \in 0..MaxEnds /\ 0 \in 0..Len(chain)
    BY <1>1, BoundsAssumption
  <2>2. /\ answered \in [Devices -> 0..MaxChanges] /\ told \in [Devices -> BOOLEAN]
        /\ records \in [Devices -> Records] /\ stored \in [Devices -> Records]
    BY <2>1, RecordFacts DEF Init
  <2> QED
    BY <1>1, <2>1, <2>2 DEF Init, TypeOK, Running
<1>3. Grows /\ Carries /\ \A d \in Devices : Between(d)
  BY <1>1 DEF Grows, Carries, Between
<1>4. Saves /\ \A d \in Devices : Remembered(d) /\ Kept(d)
  BY DEF Init, Saves, Remembered, Kept, Nobody, Unknown
<1> QED
  BY <1>2, <1>3, <1>4 DEF IInv

\* The four ways to change a record.
LEMMA ChangesInv ==
  ASSUME IInv, NEW d \in Devices,
         \/ EnsureRegistered(d) \/ Register(d) \/ Update(d)
         \/ \E s \in Statuses : SetStatus(d, s)
  PROVE  IInv'
<1>1. told \in [Devices -> BOOLEAN] /\ records[d] \in Records
  BY DEF IInv, TypeOK
<1>2. Running => (told[d] => records[d].status = "REMOVED")
  BY DEF IInv, Remembered
<1>3. CASE EnsureRegistered(d)
  <2>1. ~told[d] /\ told' = told /\ Running /\ Change(d, "ENABLED")
    BY <1>2, <1>3 DEF EnsureRegistered, Unknown
  <2> QED
    BY <1>1, <2>1, ChangeInv DEF Statuses
<1>4. CASE Register(d)
  <2>1. Running /\ Change(d, "ENABLED") /\ told' = [told EXCEPT ![d] = FALSE]
    BY <1>4 DEF Register, Running
  <2> QED
    BY <1>1, <2>1, ChangeInv DEF Statuses
<1>5. CASE Update(d)
  <2>1. ~told[d] /\ told' = told /\ Running /\ Change(d, records[d].status)
    BY <1>2, <1>5 DEF Update, Running
  <2>2. records[d].status \in Statuses
    BY <1>5 DEF Update, Statuses
  <2> QED
    BY <1>1, <2>1, <2>2, ChangeInv
<1>6. ASSUME NEW s \in Statuses, SetStatus(d, s)
      PROVE  IInv'
  <2>1. Running /\ Change(d, s) /\ told' = [told EXCEPT ![d] = FALSE]
    BY <1>6 DEF SetStatus, Running
  <2> QED
    BY <1>1, <2>1, ChangeInv
<1> QED
  BY <1>3, <1>4, <1>5, <1>6

\* The file is emptied, or written in part.
LEMMA WritesOnInv ==
  ASSUME IInv, WriteOpens \/ WriteProceeds
  PROVE  IInv'
<1>1. /\ UNCHANGED <<process, records, chain, toFlush, answered, told, saved, changes,
                     faults, ends>>
      /\ chain # <<>> /\ opened' = TRUE
      /\ file' \in {"empty", "fragment"} /\ stored' \in [Devices -> Records]
  BY RecordFacts
     DEF IInv, TypeOK, WriteOpens, WriteProceeds, memory, ghosts
<1>2. TypeOK'
  BY <1>1 DEF IInv, TypeOK, Running
<1>3. Grows' /\ Carries' /\ Saves'
  BY <1>1 DEF IInv, Grows, Carries, Saves
<1>4. \A d \in Devices : Between(d)' /\ Remembered(d)' /\ Kept(d)'
  BY <1>1 DEF IInv, Between, Remembered, Kept, Running
<1> QED
  BY <1>2, <1>3, <1>4 DEF IInv

LEMMA LandsInv ==
  ASSUME IInv, WriteLands
  PROVE  IInv'
<1> DEFINE w == Head(chain)
<1>1. TypeOK /\ opened /\ chain # <<>> /\ Running
  BY DEF IInv, TypeOK, WriteLands
<1>2. /\ chain' = Tail(chain) /\ UNCHANGED <<process, records, changes, faults, ends>>
      /\ opened' = FALSE /\ toFlush' = (IF toFlush > 0 THEN toFlush - 1 ELSE 0)
      /\ saved' = TRUE /\ file' = "whole" /\ stored' = w.snapshot
      /\ answered' = [answered EXCEPT ![w.device] = w.change]
      /\ told' = [told EXCEPT ![w.device] =
             @ \/ records[w.device] = [status |-> "REMOVED", change |-> w.change]]
  BY DEF WriteLands, WriteSettles, FlushesLeft
<1>3. /\ w = chain[1] /\ w \in Writes /\ 1 \in 1..Len(chain)
      /\ Len(chain) \in Nat \ {0} /\ Len(chain') = Len(chain) - 1
      /\ chain' \in Seq(Writes)
      /\ \A i \in 1..Len(chain') : i + 1 \in 1..Len(chain) /\ chain'[i] = chain[i + 1]
      /\ Grows' /\ Carries'
      /\ chain' = <<>> => w.snapshot = records
  BY <1>1, <1>2, SettledChain
<1>4. /\ w.snapshot \in [Devices -> Records] /\ w.device \in Devices
      /\ w.change \in 1..MaxChanges
      /\ \A d \in Devices : w.snapshot[d] \in Records /\ w.snapshot[d].change \in Nat
      /\ w.snapshot[w.device].change = w.change
  BY <1>3, RecordFacts DEF Writes, IInv, Carries
<1>5. \A d \in Devices :
        /\ answered[d] \in Nat /\ told[d] \in BOOLEAN
        /\ answered[d] <= w.snapshot[d].change
        /\ w.snapshot[d].change <= records[d].change
        /\ w.snapshot[d].change = records[d].change => w.snapshot[d] = records[d]
        /\ told[d] => w.snapshot[d].status = "REMOVED"
        /\ records[d] \in Records /\ records[d].change \in Nat
        /\ records[d].change <= changes /\ (told[d] => records[d].status = "REMOVED")
  BY <1>1, <1>3, RecordFacts DEF IInv, Between, Remembered, TypeOK
<1>6. toFlush' \in 0..Len(chain')
  BY <1>1, <1>2, <1>3, SMT DEF TypeOK
<1>7. answered' \in [Devices -> 0..MaxChanges] /\ told' \in [Devices -> BOOLEAN]
  BY <1>1, <1>2, <1>4, BoundsAssumption DEF TypeOK
<1>8. TypeOK'
  BY <1>1, <1>2, <1>3, <1>4, <1>6, <1>7 DEF TypeOK, Running
<1>9. Saves'
  BY <1>2, <1>3 DEF Saves
<1>10. ASSUME NEW d \in Devices
       PROVE  /\ answered'[d] \in Nat /\ answered'[d] <= w.snapshot[d].change
              /\ told'[d] => w.snapshot[d].status = "REMOVED"
              /\ told'[d] => records[d].status = "REMOVED"
              /\ told'[d] => \/ told[d]
                             \/ w.snapshot[d].change = records[d].change
  <2>1. CASE d = w.device
    <3>1. answered'[d] = w.change
      BY <1>1, <1>2, <2>1 DEF TypeOK
    <3>2. told'[d] => \/ told[d]
                      \/ records[d] = [status |-> "REMOVED", change |-> w.change]
      BY <1>1, <1>2, <2>1 DEF TypeOK
    <3> QED
      BY <1>4, <1>5, <2>1, <3>1, <3>2
  <2>2. CASE d # w.device
    <3>1. answered'[d] = answered[d] /\ told'[d] = told[d]
      BY <1>1, <1>2, <2>2 DEF TypeOK
    <3> QED
      BY <1>5, <3>1
  <2> QED
    BY <2>1, <2>2
<1>11. ASSUME NEW d \in Devices
       PROVE  Remembered(d)' /\ Kept(d)'
  <2>1. /\ answered'[d] \in Nat /\ w.snapshot[d].change \in Nat /\ records[d].change \in Nat
        /\ changes \in Nat /\ answered'[d] <= w.snapshot[d].change
        /\ w.snapshot[d].change <= records[d].change /\ records[d].change <= changes
    BY <1>1, <1>4, <1>5, <1>10, BoundsAssumption DEF TypeOK
  <2>2. /\ answered'[d] <= records[d].change
        /\ w.snapshot[d].change <= changes
    BY <2>1
  <2>3. Remembered(d)'
    BY <1>2, <1>10, <2>1, <2>2 DEF Remembered
  <2>4. Kept(d)'
    BY <1>2, <1>10, <2>1, <2>2 DEF Kept
  <2> QED
    BY <2>3, <2>4
<1>12. ASSUME NEW d \in Devices, NEW i \in 1..Len(chain')
       PROVE  LET r == chain'[i].snapshot[d]
              IN  /\ answered'[d] <= r.change /\ r.change <= records'[d].change
                  /\ r.change = records'[d].change => r = records'[d]
                  /\ told'[d] => r.status = "REMOVED"
  <2> DEFINE r == chain'[i].snapshot[d]
  <2>1. i + 1 \in 1..Len(chain) /\ chain'[i] = chain[i + 1] /\ 1 < i + 1
    BY <1>3, SMT
  <2>2. /\ w.snapshot[d].change <= r.change
        /\ r.change <= records[d].change
        /\ r.change = records[d].change => r = records[d]
        /\ told[d] => r.status = "REMOVED"
    BY <1>3, <2>1 DEF IInv, Grows, Between
  <2>3. chain[i + 1] \in Writes
    BY <1>1, <2>1, ElementOfSeq DEF TypeOK
  <2>4. r.change \in Nat
    BY <2>1, <2>3, RecordFacts DEF Writes
  <2>5. answered'[d] <= r.change
    BY <1>4, <1>10, <2>2, <2>4
  <2>6. w.snapshot[d].change = records[d].change => r = records[d]
    BY <1>4, <1>5, <2>2, <2>4
  <2> QED
    BY <1>2, <1>10, <2>2, <2>5, <2>6
<1>13. \A d \in Devices : Between(d)'
  BY <1>12 DEF Between
<1> QED
  BY <1>3, <1>8, <1>9, <1>11, <1>13 DEF IInv

LEMMA FailsInv ==
  ASSUME IInv, WriteFails
  PROVE  IInv'
<1>1. TypeOK /\ chain # <<>> /\ Running
  BY DEF IInv, WriteFails
<1>2. /\ chain' = Tail(chain)
      /\ UNCHANGED <<process, records, file, stored, answered, told, changes, ends>>
      /\ opened' = FALSE /\ toFlush' = (IF toFlush > 0 THEN toFlush - 1 ELSE 0)
      /\ saved' = FALSE /\ faults' = faults + 1 /\ faults < MaxFaults
  BY DEF WriteFails, WriteSettles, FlushesLeft, disk
<1>3. /\ 1 \in 1..Len(chain)
      /\ Len(chain) \in Nat \ {0} /\ Len(chain') = Len(chain) - 1
      /\ chain' \in Seq(Writes)
      /\ \A i \in 1..Len(chain') : i + 1 \in 1..Len(chain) /\ chain'[i] = chain[i + 1]
      /\ Grows' /\ Carries'
  BY <1>1, <1>2, SettledChain
<1>4. toFlush' \in 0..Len(chain') /\ faults' \in 0..MaxFaults
  BY <1>1, <1>2, <1>3, BoundsAssumption, SMT DEF TypeOK
<1>5. TypeOK'
  BY <1>1, <1>2, <1>3, <1>4 DEF TypeOK, Running
<1>6. Saves'
  BY <1>2 DEF Saves
<1>7. \A d \in Devices : Between(d)' /\ Remembered(d)' /\ Kept(d)'
  BY <1>2, <1>3 DEF IInv, Between, Remembered, Kept, Running
<1> QED
  BY <1>3, <1>5, <1>6, <1>7 DEF IInv

\* The process is asked to stop, or has come to close().
LEMMA StopsInv ==
  ASSUME IInv, Stop \/ Close
  PROVE  IInv'
<1>1. /\ UNCHANGED <<records, chain, opened, file, stored, answered, told, saved, changes,
                     faults>>
      /\ Running /\ process' \in {"stopping", "closing"}
      /\ ends' \in 0..MaxEnds /\ toFlush' \in 0..Len(chain)
  <2>1. Len(chain) \in Nat /\ TypeOK
    BY LenProperties DEF IInv, TypeOK
  <2> QED
    BY <2>1, BoundsAssumption DEF TypeOK, Stop, Close, memory, disk, ghosts, Running
<1>2. TypeOK'
  BY <1>1 DEF IInv, TypeOK, Running
<1>3. Grows' /\ Carries' /\ Saves'
  BY <1>1 DEF IInv, Grows, Carries, Saves, Running
<1>4. \A d \in Devices : Between(d)' /\ Remembered(d)' /\ Kept(d)'
  BY <1>1 DEF IInv, Between, Remembered, Kept, Running
<1> QED
  BY <1>2, <1>3, <1>4 DEF IInv

\* The process ends, having closed or killed.
LEMMA EndsInv ==
  ASSUME IInv, Exit \/ Kill
  PROVE  IInv'
<1>1. /\ MemoryIsLost /\ UNCHANGED <<file, stored, answered, told, saved, changes, faults>>
      /\ ends' \in 0..MaxEnds
  BY BoundsAssumption DEF IInv, TypeOK, Exit, Kill, disk, ghosts
<1>2. \A i \in 1..Len(chain') : FALSE
  BY <1>1, EmptySeq, SMT DEF MemoryIsLost
<1>3. 0 \in 0..Len(chain') /\ chain' \in Seq(Writes)
  BY <1>1, EmptySeq, SMT DEF MemoryIsLost
<1>4. TypeOK'
  BY <1>1, <1>3, RecordFacts DEF IInv, TypeOK, Running, MemoryIsLost
<1>5. Grows' /\ Carries' /\ Saves' /\ \A d \in Devices : Between(d)'
  BY <1>1, <1>2 DEF MemoryIsLost, Grows, Carries, Saves, Between, Running
<1>6. \A d \in Devices : Remembered(d)' /\ Kept(d)'
  BY <1>1 DEF IInv, MemoryIsLost, Remembered, Kept, Running
<1> QED
  BY <1>4, <1>5, <1>6 DEF IInv

LEMMA StartInv ==
  ASSUME IInv, Start
  PROVE  IInv'
<1>1. TypeOK /\ chain = <<>> /\ ~Running
  BY DEF IInv, TypeOK, Start, Running
<1>2. /\ UNCHANGED <<chain, opened, toFlush, file, stored, changes, faults, ends>>
      /\ process' = "up" /\ saved' = TRUE /\ file # "fragment"
      /\ records' = (IF file = "whole" THEN stored ELSE Nobody)
      /\ answered' = [d \in Devices |-> IF file = "empty" THEN 0 ELSE answered[d]]
      /\ told' = [d \in Devices |-> told[d] /\ file # "empty"]
  BY DEF Start, Loads, disk
<1>3. \A i \in 1..Len(chain') : FALSE
  BY <1>1, <1>2, EmptySeq, SMT
<1>4. /\ records' \in [Devices -> Records] /\ told' \in [Devices -> BOOLEAN]
      /\ answered' \in [Devices -> 0..MaxChanges]
  BY <1>1, <1>2, RecordFacts, BoundsAssumption DEF TypeOK
<1>5. TypeOK'
  BY <1>1, <1>2, <1>4 DEF TypeOK, Running
<1>6. Grows' /\ Carries' /\ Saves' /\ \A d \in Devices : Between(d)'
  BY <1>1, <1>2, <1>3 DEF Grows, Carries, Saves, Between
<1>7. ASSUME NEW d \in Devices
      PROVE  Remembered(d)' /\ Kept(d)'
  <2>1. /\ Kept(d) /\ answered[d] \in Nat /\ changes \in Nat /\ told[d] \in BOOLEAN
        /\ file \in {"absent", "empty", "whole"}
    BY <1>1, <1>2 DEF IInv, TypeOK
  <2>2. Remembered(d)'
    <3>1. CASE file = "whole"
      <4>1. records' = stored /\ answered'[d] = answered[d] /\ told'[d] = told[d]
        BY <1>2, <2>1, <3>1
      <4> QED
        BY <1>2, <2>1, <3>1, <4>1 DEF Remembered, Kept
    <3>2. CASE file # "whole"
      <4>1. records'[d].change = 0 /\ answered'[d] = 0 /\ ~told'[d]
        BY <1>2, <2>1, <3>2 DEF Kept, Nobody, Unknown
      <4> QED
        BY <1>2, <2>1, <4>1 DEF Remembered
    <3> QED
      BY <3>1, <3>2
  <2>3. Kept(d)'
    <3>1. /\ file' = file /\ stored' = stored /\ changes' = changes
          /\ file # "empty" => answered'[d] = answered[d] /\ told'[d] = told[d]
      BY <1>2, <2>1
    <3> QED
      BY <2>1, <3>1 DEF Kept
  <2> QED
    BY <2>2, <2>3
<1> QED
  BY <1>5, <1>6, <1>7 DEF IInv

LEMMA NextInv ==
  ASSUME IInv, [Next]_vars
  PROVE  IInv'
<1>1. CASE UNCHANGED vars
  <2>1. UNCHANGED <<process, records, chain, opened, toFlush, file, stored, answered,
                    told, saved, changes, faults, ends>>
    BY <1>1 DEF vars, memory, disk, ghosts
  <2>2. TypeOK'
    BY <2>1 DEF IInv, TypeOK, Running
  <2>3. Grows' /\ Carries'
    BY <2>1 DEF IInv, Grows, Carries
  <2>4. Saves'
    BY <2>1 DEF IInv, Saves, Running
  <2>5. ASSUME NEW d \in Devices
        PROVE  Between(d)' /\ Remembered(d)' /\ Kept(d)'
    <3>1. Between(d) /\ Remembered(d) /\ Kept(d)
      BY DEF IInv
    <3>2. Between(d)'
      BY <2>1, <3>1 DEF Between
    <3>3. Remembered(d)'
      BY <2>1, <3>1 DEF Remembered, Running
    <3>4. Kept(d)'
      BY <2>1, <3>1 DEF Kept
    <3> QED
      BY <3>2, <3>3, <3>4
  <2> QED
    BY <2>2, <2>3, <2>4, <2>5 DEF IInv
<1>2. CASE Next
  BY <1>2, ChangesInv, WritesOnInv, LandsInv, FailsInv, StopsInv, EndsInv, StartInv
     DEF Next
<1> QED
  BY <1>1, <1>2

-----------------------------------------------------------------------------
(* Theorems.                                                               *)

\* The inductive invariant holds in every reachable state.
THEOREM Invariance == Spec => []IInv
<1>1. Init => IInv
  BY InitInv
<1>2. IInv /\ [Next]_vars => IInv'
  BY NextInv
<1> QED
  BY <1>1, <1>2, PTL DEF Spec

\* Type correctness; the write that has emptied the file is one of the chain,
\* and close() waits for writes of the chain only.
THEOREM TypeCorrect == Spec => []TypeOK
<1>1. IInv => TypeOK
  BY DEF IInv
<1> QED
  BY <1>1, Invariance, PTL

\* What a caller was told is done stays done, for any number of changes,
\* failed writes, kills and restarts.
THEOREM AnswersAreKept == Spec => []AnswersHold
<1>1. IInv => AnswersHold
  BY RecordFacts DEF IInv, TypeOK, Remembered, Kept, AnswersHold
<1> QED
  BY <1>1, Invariance, PTL

\* A device whose removal was reported stays removed.
THEOREM RemovalIsKept == Spec => []RemovalHolds
<1>1. IInv => RemovalHolds
  BY DEF IInv, Remembered, RemovalHolds
<1> QED
  BY <1>1, Invariance, PTL

\* When no write is under way the file agrees with the memory, unless the last
\* write failed.
THEOREM QuietIsSaved == Spec => []QuietMeansSaved
<1>1. IInv => QuietMeansSaved
  BY DEF IInv, Saves, QuietMeansSaved
<1> QED
  BY <1>1, Invariance, PTL
=============================================================================
