----------------------------- MODULE LibraryProofs -----------------------------
(***************************************************************************)
(* Theorems about the code beside the kernel: the motion sensor driver, for*)
(* integers of any width, any number of threads, samples and ranges, and   *)
(* whatever transactions fail; the ring of pointers, for any length and any*)
(* pointers; the linked queue, the priority list and the heap, for any     *)
(* number of nodes; the ring of characters, for any length and strings of  *)
(* any length; the allocator, for any array, header, requests and number of*)
(* users; the search tree, for any numbers.                                *)
(*                                                                         *)
(* The driver is MPU6050 itself, the containers are those of Containers.   *)
(***************************************************************************)
EXTENDS MPU6050, Containers, FiniteSetTheorems, SequenceTheorems, WellFoundedInduction,
        TLAPS

Stages == {"status", "data", "average"}

Kinds == {"none", "once", "blocking", "sampled"}

CallType == [kind : Kinds, n : Nat, samples : Raw, sum : Int, taken : Seq(Nat),
             garbled : BOOLEAN]

DeviceType == [ready : BOOLEAN, number : Nat, reading : Raw, enabled : BOOLEAN,
               range : SUBSET RangeBits]

TypeOK ==
  /\ device \in DeviceType
  /\ range \in SUBSET RangeBits /\ written \in BOOLEAN
  /\ running \in Threads \cup {NULL} /\ stage \in Stages
  /\ call \in [Threads -> CallType]

(* A sampled call leaves its loop after the samples it was asked for, and  *)
(* its sum is of n readings of an int16_t each.                            *)
Summed(c, averages) ==
  /\ IF c.kind = "sampled"
     THEN c.n <= c.samples /\ (averages \/ c.n < c.samples)
     ELSE c.n = 0
  /\ -(HALF * c.n) <= c.sum /\ c.sum <= (HALF - 1) * c.n

SumInv ==
  /\ TypeOK
  /\ running = NULL => stage = "status"
  /\ \A t \in Threads : Summed(call[t], running = t /\ stage = "average")
  /\ written => range = device.range

-----------------------------------------------------------------------------
(* What two bytes make is an int16_t.                                      *)
LEMMA SignedRange == \A raw \in Raw : Signed(raw) \in Int16
BY HalfAssumption DEF Raw, Signed, Int16

(* One more reading keeps the bounds of the sum.                           *)
LEMMA SumGrows ==
  ASSUME NEW n \in Nat, NEW sum \in Int, NEW x \in Int16,
         -(HALF * n) <= sum, sum <= (HALF - 1) * n
  PROVE  -(HALF * (n + 1)) <= sum + x /\ sum + x <= (HALF - 1) * (n + 1)
<1>1. HALF \in Int /\ -HALF <= x /\ x <= HALF - 1 /\ x \in Int
  BY HalfAssumption DEF Int16
<1>2. HALF * (n + 1) = HALF * n + HALF /\ (HALF - 1) * (n + 1) = (HALF - 1) * n + (HALF - 1)
  BY <1>1
<1> QED
  BY <1>1, <1>2

(* The product of a bounded count with a bounded factor.                   *)
LEMMA ProductGrows ==
  ASSUME NEW a \in Nat, NEW n \in Nat, NEW m \in Nat, n <= m
  PROVE  a * n <= a * m
<1>1. a * m = a * n + a * (m - n) /\ a * (m - n) >= 0
  OBVIOUS
<1> QED
  BY <1>1

(* A sum of at most 2 * HALF - 1 readings fits an int32_t.                 *)
LEMMA SumIsInt32 ==
  ASSUME NEW n \in Raw, NEW sum \in Int,
         -(HALF * n) <= sum, sum <= (HALF - 1) * n
  PROVE  sum \in Int32
<1>1. HALF \in Nat /\ HALF >= 1 /\ HALF - 1 \in Nat /\ n \in Nat /\ n <= 2 * HALF - 1
  BY HalfAssumption DEF Raw
<1>2. HALF * n <= HALF * (2 * HALF - 1) /\ (HALF - 1) * n <= (HALF - 1) * (2 * HALF - 1)
  BY <1>1, ProductGrows
<1>3. /\ HALF * (2 * HALF - 1) = 2 * HALF * HALF - HALF
      /\ (HALF - 1) * (2 * HALF - 1) = 2 * HALF * HALF - 3 * HALF + 1
  BY <1>1
<1>4. 2 * HALF * HALF \in Int
  BY <1>1
<1> QED
  BY <1>1, <1>2, <1>3, <1>4 DEF Int32

(* Division: a number of at most a * n goes into n at most a times.        *)
LEMMA QuotientBound ==
  ASSUME NEW a \in Nat, NEW n \in Nat, NEW s \in Nat, n > 0, s <= a * n
  PROVE  s \div n \in 0 .. a
<1>1. s \div n \in Nat /\ n * (s \div n) <= s
  BY Z3
<1>2. SUFFICES ASSUME s \div n >= a + 1 PROVE FALSE
  BY <1>1
<1>3. n * (a + 1) <= n * (s \div n)
  BY <1>1, <1>2, ProductGrows
<1>4. n * (a + 1) = a * n + n
  OBVIOUS
<1> QED
  BY <1>1, <1>3, <1>4

(* The mean of n readings of an int16_t is one.                            *)
LEMMA MeanIsInt16 ==
  ASSUME NEW n \in Nat, n > 0, NEW sum \in Int,
         -(HALF * n) <= sum, sum <= (HALF - 1) * n
  PROVE  Quotient(sum, n) \in Int16
<1>1. HALF \in Nat /\ HALF - 1 \in Nat
  BY HalfAssumption
<1>2. CASE sum >= 0
  <2>1. sum \div n \in 0 .. HALF - 1
    BY <1>1, <1>2, QuotientBound
  <2> QED
    BY <1>1, <1>2, <2>1 DEF Quotient, Int16
<1>3. CASE sum < 0
  <2>1. -sum \in Nat /\ -sum <= HALF * n
    BY <1>1, <1>3
  <2>2. (-sum) \div n \in 0 .. HALF
    BY <1>1, <2>1, QuotientBound
  <2> QED
    BY <1>1, <1>3, <2>2 DEF Quotient, Int16
<1> QED
  BY <1>2, <1>3

-----------------------------------------------------------------------------
(* The first state of a call.                                              *)
LEMMA CallStarts ==
  ASSUME NEW kind \in Kinds, NEW samples \in Raw
  PROVE  /\ Call(kind, samples) \in CallType
         /\ Call(kind, samples).kind = kind /\ Call(kind, samples).samples = samples
         /\ Call(kind, samples).n = 0 /\ Call(kind, samples).sum = 0
         /\ Call(kind, samples).taken = <<>>
BY DEF Call, CallType

LEMMA NothingSummed ==
  ASSUME NEW c \in CallType, c.n = 0, c.sum = 0, c.kind = "sampled" => c.samples >= 0,
         NEW averages \in BOOLEAN,
         c.kind = "sampled" => averages \/ c.samples > 0
  PROVE  Summed(c, averages)
BY HalfAssumption DEF Summed, CallType

LEMMA IdleFacts == Idle \in CallType /\ Summed(Idle, FALSE) /\ Idle.kind = "none" /\ Idle.taken = <<>>
<1>1. 0 \in Raw /\ "none" \in Kinds
  BY HalfAssumption DEF Raw, Kinds
<1>2. Idle \in CallType /\ Idle.kind = "none" /\ Idle.n = 0 /\ Idle.sum = 0 /\ Idle.taken = <<>>
  BY <1>1, CallStarts DEF Idle
<1> QED
  BY <1>2, NothingSummed

(* The initial state.                                                      *)
LEMMA SumInit == Init => SumInv
<1> SUFFICES ASSUME Init PROVE SumInv
  OBVIOUS
<1>0. device \in DeviceType
  <2>1. 0 \in Raw /\ 0 \in Nat /\ {} \in SUBSET RangeBits /\ FALSE \in BOOLEAN
    BY HalfAssumption DEF Raw
  <2> QED
    BY <2>1 DEF Init, DeviceType
<1>1. TypeOK
  BY <1>0, IdleFacts DEF Init, TypeOK, Stages
<1>2. \A t \in Threads : call[t] = Idle /\ running # t
  BY NullAssumption DEF Init
<1> QED
  BY <1>1, <1>2, IdleFacts DEF Init, SumInv

(* A step of the sensor and of init_mpu6050 leaves the calls alone.        *)
LEMMA DeviceStep ==
  ASSUME SumInv, UNCHANGED <<running, stage, call>>, device' \in DeviceType,
         range' \in SUBSET RangeBits, written' \in BOOLEAN,
         written' => range' = device'.range
  PROVE  SumInv'
BY DEF SumInv, TypeOK

(* A step of thread t changes its own call only.                           *)
LEMMA LocalStep ==
  ASSUME SumInv, NEW t \in Threads, NEW c \in CallType,
         call' = [call EXCEPT ![t] = c],
         running \in {t, NULL}, running' \in {t, NULL}, stage' \in Stages,
         running' = NULL => stage' = "status",
         Summed(c, running' = t /\ stage' = "average"),
         device' \in DeviceType, device'.range = device.range,
         UNCHANGED <<range, written>>
  PROVE  SumInv'
<1>1. TypeOK'
  BY DEF SumInv, TypeOK
<1>2. ASSUME NEW u \in Threads PROVE Summed(call[u], running = u /\ stage = "average")'
  <2>1. CASE u = t
    BY <2>1 DEF SumInv, TypeOK
  <2>2. CASE u # t
    <3>1. call'[u] = call[u] /\ running # u /\ running' # u
      BY <2>2, NullAssumption DEF SumInv, TypeOK
    <3>2. Summed(call[u], FALSE)
      BY <3>1 DEF SumInv
    <3> QED
      BY <3>1, <3>2
  <2> QED
    BY <2>1, <2>2
<1> QED
  BY <1>1, <1>2 DEF SumInv

(* The test of INT_STATUS, with the call's locals as it leaves them.       *)
LEMMA StatusStep ==
  ASSUME SumInv, NEW t \in Threads, running = t, stage = "status",
         NEW ready \in BOOLEAN, NEW garbled \in BOOLEAN, NEW locals,
         locals = [call[t] EXCEPT !.garbled = garbled],
         StatusTested(t, ready, locals),
         device' \in DeviceType, device'.range = device.range,
         UNCHANGED <<range, written>>
  PROVE  SumInv'
<1>1. call[t] \in CallType /\ Summed(call[t], FALSE)
  BY NullAssumption DEF SumInv, TypeOK
<1>2. locals \in CallType /\ locals.kind = call[t].kind
  BY <1>1 DEF CallType
<1>3. Summed(locals, FALSE)
  BY <1>1, <1>2 DEF Summed, CallType
<1>4. PICK c \in {locals, Idle} :
        /\ call' = [call EXCEPT ![t] = c]
        /\ \/ running' = t /\ stage' = "data"
           \/ running' = NULL /\ stage' = "status"
  BY DEF StatusTested, Return, Leave
<1>5. c \in CallType /\ Summed(c, FALSE)
  BY <1>2, <1>3, IdleFacts
<1>6. ~(running' = t /\ stage' = "average") /\ stage' \in Stages
  BY <1>4 DEF Stages
<1> QED
  BY <1>4, <1>5, <1>6, LocalStep, NullAssumption

(* Reading the data: a sampled call adds it, the others return.            *)
LEMMA DataStep ==
  ASSUME SumInv, NEW t \in Threads, running = t, stage = "data",
         NEW raw \in Raw, NEW numbers \in Seq(Nat), NEW garbled \in BOOLEAN,
         DataRead(t, raw, numbers, garbled), UNCHANGED <<range, written>>
  PROVE  SumInv'
<1>1. call[t] \in CallType /\ Summed(call[t], FALSE) /\ device \in DeviceType
  BY NullAssumption DEF SumInv, TypeOK
<1>2. UNCHANGED device
  BY DEF DataRead
<1>3. CASE call[t].kind = "sampled"
  <2> DEFINE c == [call[t] EXCEPT !.n = @ + 1, !.sum = Added(@, raw),
                                  !.taken = @ \o numbers, !.garbled = @ \/ garbled]
  <2>1. /\ call' = [call EXCEPT ![t] = c] /\ running' = t
        /\ stage' = IF call[t].n + 1 < call[t].samples THEN "status" ELSE "average"
    BY <1>1, <1>3 DEF DataRead, SumInv, TypeOK
  <2>2. Added(call[t].sum, raw) = call[t].sum + Signed(raw) /\ Signed(raw) \in Int16
    BY SignedRange DEF Added
  <2>3. /\ c \in CallType /\ c.kind = "sampled" /\ c.samples = call[t].samples
        /\ c.n = call[t].n + 1 /\ c.sum = call[t].sum + Signed(raw)
    <3>1. call[t].sum + Signed(raw) \in Int
      BY <1>1, <2>2, HalfAssumption DEF CallType, Int16
    <3>2. call[t].n + 1 \in Nat /\ call[t].taken \o numbers \in Seq(Nat)
      BY <1>1 DEF CallType
    <3> QED
      BY <1>1, <1>3, <2>2, <3>1, <3>2 DEF CallType
  <2>4. -(HALF * c.n) <= c.sum /\ c.sum <= (HALF - 1) * c.n
    BY <1>1, <2>2, <2>3, SumGrows DEF Summed, CallType
  <2>5. Summed(c, running' = t /\ stage' = "average")
    <3>1. /\ call[t].n < call[t].samples /\ call[t].n \in Nat /\ call[t].samples \in Nat
      BY <1>1, <1>3, HalfAssumption DEF Summed, CallType, Raw
    <3> HIDE DEF c
    <3> QED
      BY <2>1, <2>3, <2>4, <3>1 DEF Summed
  <2> HIDE DEF c
  <2> QED
    BY <1>1, <1>2, <2>1, <2>3, <2>5, LocalStep, NullAssumption DEF Stages
<1>4. CASE call[t].kind # "sampled"
  <2>1. Return(t)
    BY <1>4 DEF DataRead
  <2> QED
    BY <1>1, <1>2, <2>1, IdleFacts, LocalStep DEF Return, Leave, Stages
<1> QED
  BY <1>3, <1>4

(* The calls begin, come back from their yields and end.                   *)
LEMMA CallStep ==
  ASSUME SumInv, NEW t \in Threads,
         \/ \E blocking \in BOOLEAN : get_latest_mpu6050_data(t, blocking)
         \/ \E samples \in Counts : get_latest_mpu6050_data_sampled(t, samples)
         \/ resume(t) \/ average(t)
  PROVE  SumInv'
<1>1. ASSUME NEW kind \in Kinds, NEW samples \in Raw, NEW first \in {"status", "average"},
             Start(t, kind, samples, first),
             kind = "sampled" => first = "average" \/ samples > 0
      PROVE  SumInv'
  <2>1. /\ running = NULL /\ running' = t /\ stage' = first
        /\ call' = [call EXCEPT ![t] = Call(kind, samples)]
        /\ UNCHANGED <<device, range, written>>
    BY <1>1 DEF Start
  <2>2. samples >= 0 /\ first \in Stages
    BY HalfAssumption DEF Raw, Stages
  <2>3. Call(kind, samples) \in CallType
    BY CallStarts
  <2>4. Summed(Call(kind, samples), first = "average")
    BY <1>1, <2>2, <2>3, CallStarts, NothingSummed
  <2>5. device \in DeviceType
    BY DEF SumInv, TypeOK
  <2> QED
    BY <2>1, <2>2, <2>3, <2>4, <2>5, LocalStep, NullAssumption
<1>2. 1 \in Raw
  BY HalfAssumption DEF Raw
<1>3. ASSUME NEW blocking \in BOOLEAN, get_latest_mpu6050_data(t, blocking)
      PROVE  SumInv'
  BY <1>1, <1>2, <1>3 DEF get_latest_mpu6050_data, Kinds
<1>4. ASSUME NEW samples \in Counts, get_latest_mpu6050_data_sampled(t, samples)
      PROVE  SumInv'
  <2>1. samples \in Raw /\ (samples = 0 \/ samples > 0)
    BY CountsAssumption, HalfAssumption DEF Raw
  <2> QED
    BY <1>1, <1>4, <2>1 DEF get_latest_mpu6050_data_sampled, Kinds
<1>5. CASE resume(t)
  <2>1. /\ running = NULL /\ stage = "status" /\ running' = t
        /\ UNCHANGED <<device, range, written, stage, call>>
    BY <1>5 DEF resume, SumInv
  <2>2. call[t] \in CallType /\ device \in DeviceType /\ call' = [call EXCEPT ![t] = call[t]]
    BY <2>1 DEF SumInv, TypeOK
  <2>3. Summed(call[t], FALSE)
    BY <2>1, NullAssumption DEF SumInv
  <2> QED
    BY <2>1, <2>2, <2>3, LocalStep, NullAssumption DEF Stages
<1>6. CASE average(t)
  <2>1. device \in DeviceType
    BY DEF SumInv, TypeOK
  <2> QED
    BY <1>6, <2>1, IdleFacts, LocalStep DEF average, At, Return, Leave, Stages
<1> QED
  BY <1>3, <1>4, <1>5, <1>6

(* The sensor takes a sample, or a thread sets it up.                      *)
LEMMA SensorStep ==
  ASSUME SumInv,
         \/ \E raw \in Readings : Sample(raw)
         \/ \E address \in Addresses, a_range \in Ranges :
              init_mpu6050(address, a_range) \/ init_mpu6050_not_found(address, a_range)
  PROVE  SumInv'
<1>0. device \in DeviceType
  BY DEF SumInv, TypeOK
<1>1. ASSUME NEW raw \in Readings, Sample(raw) PROVE SumInv'
  <2>1. raw \in Raw /\ device' = [device EXCEPT !.ready = TRUE, !.number = @ + 1, !.reading = raw]
    BY <1>1, ReadingsAssumption DEF Sample
  <2>2. device.number + 1 \in Nat
    BY <1>0 DEF DeviceType
  <2>3. device' \in DeviceType
    BY <1>0, <2>1, <2>2 DEF DeviceType
  <2>4. device'.range = device.range
    BY <1>0, <2>1 DEF DeviceType
  <2> QED
    BY <1>1, <2>3, <2>4, DeviceStep DEF Sample, SumInv, TypeOK
<1>2. ASSUME NEW address \in Addresses, NEW a_range \in Ranges, init_mpu6050(address, a_range)
      PROVE  SumInv'
  <2>1. PICK interrupt \in BOOLEAN :
          device' = [device EXCEPT
                       !.enabled = @ \/ interrupt,
                       !.range = IF written' THEN WithRange(@, a_range) ELSE @]
    BY <1>2 DEF init_mpu6050
  <2>2. /\ range' = a_range /\ a_range \in SUBSET RangeBits /\ written' \in BOOLEAN
        /\ UNCHANGED <<running, stage, call>>
    BY <1>2, RangesAssumption DEF init_mpu6050
  <2>3. WithRange(device.range, a_range) = a_range
    BY <1>0, <2>2 DEF WithRange, DeviceType
  <2>4. device' \in DeviceType /\ (written' => device'.range = a_range)
    BY <1>0, <2>1, <2>2, <2>3 DEF DeviceType
  <2> QED
    BY <2>2, <2>4, DeviceStep
<1>3. ASSUME NEW address \in Addresses, NEW a_range \in Ranges,
             init_mpu6050_not_found(address, a_range)
      PROVE  SumInv'
  BY <1>0, <1>3, DeviceStep, RangesAssumption DEF init_mpu6050_not_found
<1> QED
  BY <1>1, <1>2, <1>3

(* The invariant is inductive.                                             *)
LEMMA SumStep == SumInv /\ [Next]_vars => SumInv'
<1> SUFFICES ASSUME SumInv, [Next]_vars PROVE SumInv'
  OBVIOUS
<1>0. device \in DeviceType /\ call \in [Threads -> CallType]
  BY DEF SumInv, TypeOK
<1>1. ASSUME NEW t \in Threads, status_answered(t) PROVE SumInv'
  <2>1. device' = [device EXCEPT !.ready = FALSE]
    BY <1>1 DEF status_answered
  <2>2. device' \in DeviceType /\ device'.range = device.range /\ device.ready \in BOOLEAN
    BY <1>0, <2>1 DEF DeviceType
  <2>3. call[t] = [call[t] EXCEPT !.garbled = call[t].garbled] /\ call[t].garbled \in BOOLEAN
    BY <1>0 DEF CallType
  <2> QED
    BY <1>1, <2>2, <2>3, StatusStep DEF status_answered, At
<1>2. ASSUME NEW t \in Threads, status_garbled(t) PROVE SumInv'
  BY <1>0, <1>2, StatusStep DEF status_garbled, At
<1>3. ASSUME NEW t \in Threads, data_answered(t) PROVE SumInv'
  <2>1. device.reading \in Raw /\ device.number \in Nat /\ <<device.number>> \in Seq(Nat)
    BY <1>0 DEF DeviceType
  <2> QED
    BY <1>3, <2>1, DataStep DEF data_answered, At
<1>4. ASSUME NEW t \in Threads, data_garbled(t) PROVE SumInv'
  <2>1. PICK raw \in Raw : DataRead(t, raw, <<>>, TRUE)
    BY <1>4, ReadingsAssumption DEF data_garbled
  <2>2. << >> \in Seq(Nat)
    OBVIOUS
  <2> QED
    BY <1>4, <2>1, <2>2, DataStep DEF data_garbled, At
<1>5. CASE UNCHANGED vars
  BY <1>5 DEF vars, SumInv, TypeOK
<1> QED
  BY <1>1, <1>2, <1>3, <1>4, <1>5, CallStep, SensorStep DEF Next

(* Every reachable state satisfies the invariant.                          *)
THEOREM SumInvariant == Spec => []SumInv
  BY SumInit, SumStep, PTL DEF Spec

(* The sum of a sampled call fits its int32_t and its mean the int16_t it  *)
(* is stored in, for every number of samples a uint16_t can ask for.       *)
THEOREM SumsFit == Spec => []SumFits
<1>1. ASSUME SumInv, NEW t \in Threads
      PROVE  /\ call[t].sum \in Int32
             /\ call[t].n > 0 => Quotient(call[t].sum, call[t].n) \in Int16
  <2>1. call[t] \in CallType /\ \E averages \in BOOLEAN : Summed(call[t], averages)
    BY <1>1 DEF SumInv, TypeOK
  <2>2. call[t].n \in Nat /\ call[t].sum \in Int /\ call[t].samples \in Raw
    BY <2>1 DEF CallType
  <2>3. call[t].n \in Raw
    BY <2>1, <2>2, HalfAssumption DEF Summed, Raw
  <2> QED
    BY <2>1, <2>2, <2>3, SumIsInt32, MeanIsInt16 DEF Summed
<1>2. SumInv => SumFits
  BY <1>1 DEF SumFits
<1> QED
  BY <1>2, SumInvariant, PTL

(* After an init whose writes arrived the driver converts with the range   *)
(* the sensor measures in.                                                 *)
THEOREM RangesAlwaysAgree == Spec => []RangesAgree
<1>1. SumInv => RangesAgree
  BY DEF SumInv, RangesAgree
<1> QED
  BY <1>1, SumInvariant, PTL

-----------------------------------------------------------------------------
(* What a call has read, when the sensor is at sample `number': in order,  *)
(* none three times.  If it has read its last sample twice, a newer one is *)
(* there before it reads again: `ready' is not left over from the old one. *)
Fresh(taken, number, ready, reads) ==
  /\ \A i \in 1 .. Len(taken) : taken[i] <= number
  /\ \A i \in 1 .. Len(taken) - 1 : taken[i] <= taken[i + 1]
  /\ \A i \in 1 .. Len(taken) - 2 : taken[i] < taken[i + 2]
  /\ \A i \in 1 .. Len(taken) :
       i = Len(taken) /\ ready /\ reads => taken[i] < number
  /\ \A i \in 1 .. Len(taken) - 1 :
       i = Len(taken) - 1 /\ taken[i] = taken[i + 1] =>
         taken[i] < number \/ (~ready /\ ~reads)

FreshCall(t) ==
  Fresh(call[t].taken, device.number, device.ready, running = t /\ stage = "data")

FreshInv ==
  /\ SumInv
  /\ \A t \in Threads : ~call[t].garbled => FreshCall(t)

(* A call that has read nothing.                                           *)
LEMMA FreshEmpty ==
  ASSUME NEW number, NEW ready, NEW reads
  PROVE  Fresh(<<>>, number, ready, reads)
BY DEF Fresh

(* The sensor takes a sample, or somebody's status test takes the bit.     *)
LEMMA FreshDevice ==
  ASSUME NEW taken \in Seq(Nat), NEW number \in Nat, NEW later \in Nat,
         NEW ready \in BOOLEAN, NEW now \in BOOLEAN, NEW reads \in BOOLEAN,
         Fresh(taken, number, ready, reads),
         (later = number /\ (now => ready)) \/ later = number + 1
  PROVE  Fresh(taken, later, now, reads)
<1>1. \A i \in 1 .. Len(taken) : taken[i] \in Nat
  OBVIOUS
<1> QED
  BY <1>1 DEF Fresh

(* The call's own status test finds the bit.                               *)
LEMMA FreshStatus ==
  ASSUME NEW taken \in Seq(Nat), NEW number \in Nat, Fresh(taken, number, TRUE, FALSE)
  PROVE  Fresh(taken, number, FALSE, TRUE)
<1>1. \A i \in 1 .. Len(taken) : taken[i] \in Nat
  OBVIOUS
<1> QED
  BY <1>1 DEF Fresh

(* The call reads the sensor's sample.                                     *)
LEMMA FreshRead ==
  ASSUME NEW taken \in Seq(Nat), NEW number \in Nat, NEW ready \in BOOLEAN,
         Fresh(taken, number, ready, TRUE)
  PROVE  Fresh(taken \o <<number>>, number, ready, FALSE)
<1> DEFINE longer == taken \o <<number>>
<1>1. /\ longer \in Seq(Nat) /\ Len(longer) = Len(taken) + 1 /\ Len(taken) \in Nat
      /\ \A i \in 1 .. Len(taken) : longer[i] = taken[i] /\ taken[i] \in Nat
      /\ longer[Len(taken) + 1] = number
  OBVIOUS
<1> HIDE DEF longer
<1> DEFINE n == Len(taken)
<1>2. \A i \in 1 .. Len(longer) : longer[i] <= number
  <2> TAKE i \in 1 .. Len(longer)
  <2>1. CASE i \in 1 .. n
    BY <1>1, <2>1 DEF Fresh
  <2>2. CASE i = n + 1
    BY <1>1, <2>2
  <2> QED
    BY <1>1, <2>1, <2>2
<1>3. \A i \in 1 .. Len(longer) - 1 : longer[i] <= longer[i + 1]
  <2> TAKE i \in 1 .. Len(longer) - 1
  <2>1. CASE i \in 1 .. n - 1
    <3>1. taken[i] <= taken[i + 1] /\ i + 1 \in 1 .. n
      BY <1>1, <2>1 DEF Fresh
    <3> QED
      BY <1>1, <2>1, <3>1
  <2>2. CASE i = n
    <3>1. taken[i] <= number
      BY <1>1, <2>2 DEF Fresh
    <3> QED
      BY <1>1, <2>2, <3>1
  <2> QED
    BY <1>1, <2>1, <2>2
<1>4. \A i \in 1 .. Len(longer) - 2 : longer[i] < longer[i + 2]
  <2> TAKE i \in 1 .. Len(longer) - 2
  <2>1. CASE i = n - 1
    <3>1. i \in 1 .. n - 1 /\ i \in 1 .. n /\ i + 1 \in 1 .. n
      BY <1>1, <2>1
    <3>2. taken[i] <= taken[i + 1] /\ taken[i + 1] <= number
      BY <3>1 DEF Fresh
    <3>3. taken[i] = taken[i + 1] => taken[i] < number
      BY <2>1, <3>1 DEF Fresh
    <3>4. longer[i] = taken[i] /\ longer[i + 2] = number /\ taken[i] \in Nat
          /\ taken[i + 1] \in Nat
      BY <1>1, <2>1, <3>1
    <3> QED
      BY <3>2, <3>3, <3>4
  <2>2. CASE i \in 1 .. n - 2
    <3>1. taken[i] < taken[i + 2] /\ i \in 1 .. n /\ i + 2 \in 1 .. n
      BY <1>1, <2>2 DEF Fresh
    <3> QED
      BY <1>1, <3>1
  <2> QED
    BY <1>1, <2>1, <2>2
<1>5. \A i \in 1 .. Len(longer) - 1 :
        i = Len(longer) - 1 /\ longer[i] = longer[i + 1] => ~ready
  BY <1>1 DEF Fresh
<1> QED
  BY <1>2, <1>3, <1>4, <1>5 DEF Fresh, longer

(* A step of the sensor leaves every call fresh.                           *)
LEMMA FreshSensor ==
  ASSUME FreshInv, SumInv', UNCHANGED <<running, stage, call>>,
         \/ device'.number = device.number /\ device'.ready = device.ready
         \/ device'.number = device.number + 1
  PROVE  FreshInv'
<1> SUFFICES ASSUME NEW t \in Threads, ~call[t].garbled PROVE FreshCall(t)'
  BY DEF FreshInv
<1> DEFINE reads == running = t /\ stage = "data"
<1>1. /\ call[t].taken \in Seq(Nat) /\ reads \in BOOLEAN
      /\ device.number \in Nat /\ device.ready \in BOOLEAN
      /\ device'.number \in Nat /\ device'.ready \in BOOLEAN
  BY DEF FreshInv, SumInv, TypeOK, CallType, DeviceType
<1>2. Fresh(call[t].taken, device.number, device.ready, reads)
  BY DEF FreshInv, FreshCall
<1>3. reads' = reads /\ UNCHANGED call
  OBVIOUS
<1> HIDE DEF reads
<1>4. Fresh(call[t].taken, device'.number, device'.ready, reads)
  BY <1>1, <1>2, FreshDevice
<1> QED
  BY <1>3, <1>4 DEF FreshCall, reads

(* A step of thread t leaves the others' calls fresh: it may take the bit. *)
LEMMA FreshLocal ==
  ASSUME FreshInv, SumInv', NEW t \in Threads, NEW c,
         call' = [call EXCEPT ![t] = c], running \in {t, NULL}, running' \in {t, NULL},
         device'.number = device.number, device'.ready => device.ready,
         ~c.garbled => Fresh(c.taken, device.number, device'.ready,
                             running' = t /\ stage' = "data")
  PROVE  FreshInv'
<1> SUFFICES ASSUME NEW u \in Threads, ~call'[u].garbled PROVE FreshCall(u)'
  BY DEF FreshInv
<1>0. call \in [Threads -> CallType] /\ device \in DeviceType /\ device' \in DeviceType
  BY DEF FreshInv, SumInv, TypeOK
<1>1. CASE u = t
  BY <1>0, <1>1 DEF FreshCall
<1>2. CASE u # t
  <2>1. call'[u] = call[u] /\ running # u /\ running' # u
    BY <1>0, <1>2, NullAssumption
  <2>2. Fresh(call[u].taken, device.number, device.ready, FALSE)
    BY <2>1 DEF FreshInv, FreshCall
  <2>3. /\ call[u].taken \in Seq(Nat) /\ device.number \in Nat
        /\ device.ready \in BOOLEAN /\ device'.ready \in BOOLEAN
    BY <1>0 DEF CallType, DeviceType
  <2>4. Fresh(call[u].taken, device.number, device'.ready, FALSE)
    <3>1. CASE device'.ready = device.ready
      BY <2>2, <3>1
    <3>2. CASE device'.ready = FALSE
      <4>1. Fresh(call[u].taken, device.number, FALSE, FALSE)
        BY <2>2, <2>3, FreshDevice
      <4> QED
        BY <3>2, <4>1
    <3> QED
      BY <2>3, <3>1, <3>2
  <2> QED
    BY <2>1, <2>4 DEF FreshCall
<1> QED
  BY <1>1, <1>2

(* So does a call that begins or ends.                                     *)
LEMMA FreshEnd ==
  ASSUME FreshInv, SumInv', NEW t \in Threads, NEW c, c.taken = <<>>,
         call' = [call EXCEPT ![t] = c], running \in {t, NULL}, running' \in {t, NULL},
         UNCHANGED device
  PROVE  FreshInv'
<1>1. Fresh(c.taken, device.number, device'.ready, running' = t /\ stage' = "data")
  BY FreshEmpty
<1> QED
  BY <1>1, FreshLocal

(* A status test: finding the bit, a call may read; not finding it, it may *)
(* not.  A test that failed says nothing, and the call is garbled.         *)
LEMMA FreshStatusStep ==
  ASSUME FreshInv, SumInv', NEW t \in Threads, status_answered(t) \/ status_garbled(t)
  PROVE  FreshInv'
<1>0. /\ call[t] \in CallType /\ call \in [Threads -> CallType] /\ device \in DeviceType
      /\ running = t /\ stage = "status"
  BY DEF FreshInv, SumInv, TypeOK, status_answered, status_garbled, At
<1>1. call[t].taken \in Seq(Nat) /\ device.number \in Nat /\ device.ready \in BOOLEAN
  BY <1>0 DEF CallType, DeviceType
<1>2. ~call[t].garbled => Fresh(call[t].taken, device.number, device.ready, FALSE)
  BY <1>0 DEF FreshInv, FreshCall
<1>3. \A ready \in BOOLEAN, reads \in BOOLEAN :
        Fresh(Idle.taken, device.number, ready, reads)
  BY IdleFacts, FreshEmpty
<1>4. CASE status_answered(t)
  <2>1. device' = [device EXCEPT !.ready = FALSE] /\ StatusTested(t, device.ready, call[t])
    BY <1>4 DEF status_answered
  <2>2. device'.number = device.number /\ device'.ready = FALSE
    BY <1>0, <2>1 DEF DeviceType
  <2>3. CASE device.ready
    <3>1. running' = t /\ stage' = "data" /\ call' = [call EXCEPT ![t] = call[t]]
      BY <1>0, <2>1, <2>3 DEF StatusTested
    <3>2. ~call[t].garbled => Fresh(call[t].taken, device.number, FALSE, TRUE)
      BY <1>1, <1>2, <2>3, FreshStatus
    <3> QED
      BY <1>0, <2>2, <3>1, <3>2, FreshLocal
  <2>4. CASE ~device.ready
    <3>1. PICK c \in {call[t], Idle} : call' = [call EXCEPT ![t] = c] /\ running' = NULL
      BY <2>1, <2>4 DEF StatusTested, Return, Leave
    <3>2. ~c.garbled => Fresh(c.taken, device.number, FALSE, FALSE)
      BY <1>1, <1>2, <1>3, <2>4
    <3>3. running' # t
      BY <3>1, NullAssumption
    <3> QED
      BY <1>0, <2>2, <3>1, <3>2, <3>3, FreshLocal
  <2> QED
    BY <2>3, <2>4
<1>5. CASE status_garbled(t)
  <2> DEFINE locals == [call[t] EXCEPT !.garbled = TRUE]
  <2>1. PICK ready \in BOOLEAN : StatusTested(t, ready, locals)
    BY <1>5 DEF status_garbled
  <2>2. locals.garbled /\ UNCHANGED device
    BY <1>0, <1>5 DEF status_garbled, CallType
  <2> HIDE DEF locals
  <2>3. PICK c \in {locals, Idle} :
          call' = [call EXCEPT ![t] = c] /\ running' \in {t, NULL}
    BY <1>0, <2>1 DEF StatusTested, Return, Leave
  <2>4. ~c.garbled => Fresh(c.taken, device.number, device'.ready,
                            running' = t /\ stage' = "data")
    BY <2>2, <2>3, IdleFacts, FreshEmpty
  <2> QED
    BY <1>0, <2>2, <2>3, <2>4, FreshLocal
<1> QED
  BY <1>4, <1>5

(* A call reads the data.                                                  *)
LEMMA FreshDataStep ==
  ASSUME FreshInv, SumInv', NEW t \in Threads, data_answered(t) \/ data_garbled(t)
  PROVE  FreshInv'
<1>0. /\ call[t] \in CallType /\ call \in [Threads -> CallType] /\ device \in DeviceType
      /\ running = t /\ stage = "data"
  BY DEF FreshInv, SumInv, TypeOK, data_answered, data_garbled, At
<1>1. call[t].taken \in Seq(Nat) /\ device.number \in Nat /\ device.ready \in BOOLEAN
  BY <1>0 DEF CallType, DeviceType
<1>2. PICK raw, numbers, garbled :
        /\ DataRead(t, raw, numbers, garbled)
        /\ \/ garbled = TRUE
           \/ garbled = FALSE /\ numbers = <<device.number>>
  <2>1. CASE data_answered(t)
    BY <2>1 DEF data_answered
  <2>2. CASE data_garbled(t)
    BY <2>2 DEF data_garbled
  <2> QED
    BY <2>1, <2>2
<1>3. UNCHANGED device
  BY <1>2 DEF DataRead
<1>4. CASE call[t].kind = "sampled"
  <2> DEFINE c == [call[t] EXCEPT !.n = @ + 1, !.sum = Added(@, raw),
                                  !.taken = @ \o numbers, !.garbled = @ \/ garbled]
  <2>1. call' = [call EXCEPT ![t] = c] /\ running' = t /\ stage' # "data"
    BY <1>0, <1>2, <1>4 DEF DataRead
  <2>2. c.taken = call[t].taken \o numbers /\ (c.garbled <=> call[t].garbled \/ garbled)
    BY <1>0 DEF CallType
  <2>3. ~call[t].garbled => Fresh(call[t].taken, device.number, device.ready, TRUE)
    BY <1>0 DEF FreshInv, FreshCall
  <2> HIDE DEF c
  <2>4. ~c.garbled => Fresh(c.taken, device.number, device.ready, FALSE)
    BY <1>1, <1>2, <2>2, <2>3, FreshRead
  <2> QED
    BY <1>0, <1>3, <2>1, <2>4, FreshLocal
<1>5. CASE call[t].kind # "sampled"
  <2>1. running' = NULL /\ call' = [call EXCEPT ![t] = Idle]
    BY <1>2, <1>5 DEF DataRead, Return, Leave
  <2> QED
    BY <1>0, <1>3, <2>1, IdleFacts, FreshEnd
<1> QED
  BY <1>4, <1>5

(* The calls begin, come back from their yields and end.                   *)
LEMMA FreshCallStep ==
  ASSUME FreshInv, SumInv', NEW t \in Threads,
         \/ \E blocking \in BOOLEAN : get_latest_mpu6050_data(t, blocking)
         \/ \E samples \in Counts : get_latest_mpu6050_data_sampled(t, samples)
         \/ resume(t) \/ average(t)
  PROVE  FreshInv'
<1>0. call \in [Threads -> CallType] /\ UNCHANGED device
  BY
    DEF FreshInv, SumInv, TypeOK, get_latest_mpu6050_data,
        get_latest_mpu6050_data_sampled,
         Start, resume, average
<1>1. ASSUME NEW kind, NEW samples, NEW first, Start(t, kind, samples, first)
      PROVE  FreshInv'
  <2>1. /\ call' = [call EXCEPT ![t] = Call(kind, samples)]
        /\ running = NULL /\ running' = t
    BY <1>1 DEF Start
  <2>2. Call(kind, samples).taken = <<>>
    BY DEF Call
  <2> QED
    BY <1>0, <2>1, <2>2, FreshEnd
<1>2. CASE resume(t)
  <2>1. /\ running = NULL /\ running' = t /\ stage' = "status"
        /\ call' = [call EXCEPT ![t] = call[t]]
    BY <1>0, <1>2 DEF resume, FreshInv, SumInv
  <2>2. ~call[t].garbled => Fresh(call[t].taken, device.number, device.ready, FALSE)
    BY <2>1, NullAssumption DEF FreshInv, FreshCall
  <2> QED
    BY <1>0, <2>1, <2>2, FreshLocal
<1>3. CASE average(t)
  <2>1. running = t /\ running' = NULL /\ call' = [call EXCEPT ![t] = Idle]
    BY <1>3 DEF average, At, Return, Leave
  <2> QED
    BY <1>0, <2>1, IdleFacts, FreshEnd
<1> QED
  BY <1>1, <1>2, <1>3 DEF get_latest_mpu6050_data, get_latest_mpu6050_data_sampled

(* The invariant is inductive.                                             *)
LEMMA FreshStep == FreshInv /\ SumInv' /\ [Next]_vars => FreshInv'
<1> SUFFICES ASSUME FreshInv, SumInv', [Next]_vars PROVE FreshInv'
  OBVIOUS
<1>0. device \in DeviceType
  BY DEF FreshInv, SumInv, TypeOK
<1>1. ASSUME NEW raw \in Readings, Sample(raw) PROVE FreshInv'
  <2>1. device'.number = device.number + 1 /\ UNCHANGED <<running, stage, call>>
    BY <1>0, <1>1 DEF Sample, DeviceType
  <2> QED
    BY <2>1, FreshSensor
<1>2. ASSUME NEW address \in Addresses, NEW a_range \in Ranges,
             init_mpu6050(address, a_range) \/ init_mpu6050_not_found(address, a_range)
      PROVE  FreshInv'
  <2>1. /\ device'.number = device.number /\ device'.ready = device.ready
        /\ UNCHANGED <<running, stage, call>>
    BY <1>0, <1>2 DEF init_mpu6050, init_mpu6050_not_found, DeviceType
  <2> QED
    BY <2>1, FreshSensor
<1>3. CASE UNCHANGED vars
  BY <1>3, FreshSensor DEF vars
<1> QED
  BY <1>1, <1>2, <1>3, FreshStatusStep, FreshDataStep, FreshCallStep DEF Next

(* Unless a read failed, a sampled call counts no sample of the sensor     *)
(* three times, however many threads poll the status and whenever samples  *)
(* arrive.                                                                 *)
THEOREM SamplesCountedAtMostTwice == Spec => []SampleCountedAtMostTwice
<1>1. Init => FreshInv
  <2> SUFFICES ASSUME Init PROVE FreshInv
    OBVIOUS
  <2>1. \A t \in Threads : call[t].taken = <<>>
    BY IdleFacts DEF Init
  <2> QED
    BY <2>1, SumInit, FreshEmpty DEF FreshInv, FreshCall
<1>2. FreshInv /\ SumInv' /\ [Next]_vars => FreshInv'
  BY FreshStep
<1>3. FreshInv => SampleCountedAtMostTwice
  BY DEF FreshInv, FreshCall, Fresh, SampleCountedAtMostTwice
<1> QED
  BY <1>1, <1>2, <1>3, SumInvariant, PTL DEF Spec

-----------------------------------------------------------------------------
(* What the cells of a ring hold.                                          *)
RingContents == [Ring!Cells -> Pointers \cup {nullptr}]

(* A position of the ring follows another.                                 *)
LEMMA FollowingType ==
  /\ 0 \in Ring!Cells /\ buffer_length \in Nat /\ buffer_length >= 1
         /\ \A position \in Ring!Cells : Ring!Following(position) \in Ring!Cells
BY LengthAssumption, BlankAssumption DEF Ring!Cells, Ring!Following

(* The states the ring can be in.                                          *)
LEMMA RingStep ==
  Ring!TypeOK /\ [Ring!Next]_(Ring!vars) => Ring!TypeOK'
<1> SUFFICES ASSUME Ring!TypeOK, [Ring!Next]_(Ring!vars) PROVE Ring!TypeOK'
  OBVIOUS
<1>1. CASE Ring!init
  <2>1. Ring!Unwritten \in RingContents
    BY DEF Ring!Unwritten, RingContents
  <2> QED
    BY <1>1, <2>1, FollowingType DEF Ring!init, Ring!TypeOK, RingContents
<1>2. ASSUME NEW p \in Pointers, Ring!insert(p) PROVE Ring!TypeOK'
  <2>1. buffer \in RingContents
    BY <1>2 DEF Ring!insert, Ring!TypeOK, RingContents
  <2>2. [buffer EXCEPT ![current_position] = p] \in RingContents
    BY <2>1 DEF RingContents
  <2> QED
    BY <1>2, <2>2, FollowingType DEF Ring!insert, Ring!TypeOK, RingContents
<1>3. CASE Ring!insert_null \/ Ring!deinit \/ UNCHANGED Ring!vars
  BY <1>3 DEF Ring!insert_null, Ring!deinit, Ring!vars, Ring!TypeOK
<1> QED
  BY <1>1, <1>2, <1>3 DEF Ring!Next

(* The ring is well typed: its position stays inside.                      *)
THEOREM RingTypeCorrect ==
  Ring!Spec => []Ring!TypeOK
<1>1. Ring!Init => Ring!TypeOK
  BY FollowingType DEF Ring!Init, Ring!TypeOK
<1> QED
  BY <1>1, RingStep, PTL DEF Ring!Spec

(* The window is a sequence of buffer_length cells.                        *)
LEMMA WindowIsSequence ==
  ASSUME NEW window \in [1 .. buffer_length -> Pointers \cup {nullptr}]
  PROVE  /\ window \in Seq(Pointers \cup {nullptr})
         /\ Len(window) = buffer_length
BY FollowingType

(* Every offset from a position is a cell.                                 *)
LEMMA Ahead ==
  ASSUME NEW position \in Ring!Cells, NEW offset \in 0 .. buffer_length - 1
  PROVE  (IF position + offset < buffer_length THEN position + offset
          ELSE position + offset - buffer_length) \in Ring!Cells
BY FollowingType DEF Ring!Cells

(* Seen from the cell that is written next, a store shifts the window.     *)
LEMMA StoreShifts ==
  ASSUME Ring!TypeOK, Ring!TypeOK', NEW p \in Pointers, Ring!insert(p)
  PROVE  Ring!Recent!Store(p)
<1> DEFINE shifted == Append(Tail(Ring!Window), p)
<1>1. /\ buffer_length \in Nat /\ buffer_length >= 1
      /\ current_position \in 0 .. buffer_length - 1
  BY LengthAssumption, BlankAssumption DEF Ring!TypeOK, Ring!Cells
<1>2. /\ buffer \in RingContents /\ buffer' \in RingContents
      /\ buffer # nullptr /\ buffer' # nullptr
      /\ buffer' = [buffer EXCEPT ![current_position] = p]
      /\ current_position' = Ring!Following(current_position)
  <2>1. buffer # nullptr /\ buffer' = [buffer EXCEPT ![current_position] = p]
    BY DEF Ring!insert
  <2>2. buffer \in RingContents
    BY <2>1 DEF Ring!TypeOK, RingContents
  <2>3. buffer' \in RingContents
    BY <2>1, <2>2 DEF RingContents
  <2> QED
    BY <2>1, <2>2, <2>3, LengthAssumption, BlankAssumption
       DEF Ring!insert, RingContents, Ring!Cells
<1>w. ASSUME NEW i \in 1 .. buffer_length
      PROVE  Ring!From(i - 1) \in Ring!Cells /\ Ring!From(i - 1)' \in Ring!Cells
  <2>1. i - 1 \in 0 .. buffer_length - 1 /\ current_position \in Ring!Cells
        /\ current_position' \in Ring!Cells
    BY <1>1 DEF Ring!TypeOK
  <2> QED
    BY <2>1, Ahead DEF Ring!From
<1>3. /\ Len(Ring!Window) = buffer_length /\ Ring!Window \in Seq(Pointers \cup {nullptr})
      /\ Ring!Window # <<>>
  <2>1. Ring!Window \in [1 .. buffer_length -> Pointers \cup {nullptr}]
    BY <1>2, <1>w DEF Ring!Window, RingContents
  <2>2. Ring!Window \in Seq(Pointers \cup {nullptr}) /\ Len(Ring!Window) = buffer_length
    BY <2>1, WindowIsSequence
  <2> QED
    BY <1>1, <2>2
<1>4. /\ Tail(Ring!Window) \in Seq(Pointers \cup {nullptr})
      /\ Len(Tail(Ring!Window)) = buffer_length - 1
      /\ \A i \in 1 .. buffer_length - 1 : Tail(Ring!Window)[i] = Ring!Window[i + 1]
  BY <1>3, HeadTailProperties
<1>5. /\ shifted \in Seq(Pointers \cup {nullptr}) /\ Len(shifted) = buffer_length
      /\ \A i \in 1 .. buffer_length - 1 : shifted[i] = Ring!Window[i + 1]
      /\ shifted[buffer_length] = p
  BY <1>1, <1>4, AppendProperties
<1>6. Len(Ring!Window') = buffer_length /\ Ring!Window' \in Seq(Pointers \cup {nullptr})
  <2>1. Ring!Window' \in [1 .. buffer_length -> Pointers \cup {nullptr}]
    BY <1>2, <1>w DEF Ring!Window, RingContents
  <2> QED
    BY <2>1, WindowIsSequence
<1> HIDE DEF shifted
<1>7. ASSUME NEW i \in 1 .. buffer_length
      PROVE  Ring!Window'[i] = shifted[i]
  <2>1. Ring!Window'[i] = buffer'[Ring!From(i - 1)']
    BY <1>2 DEF Ring!Window
  <2>2. CASE i = buffer_length
    <3>1. Ring!From(i - 1)' = current_position
      BY <1>1, <1>2, <2>2 DEF Ring!From, Ring!Following
    <3> QED
      BY <1>1, <1>2, <1>5, <2>1, <2>2, <3>1 DEF RingContents, Ring!Cells
  <2>3. CASE i \in 1 .. buffer_length - 1
    <3>1. /\ Ring!From(i - 1)' = Ring!From(i)
          /\ Ring!From(i) # current_position /\ Ring!From(i) \in Ring!Cells
      BY <1>1, <1>2, <2>3 DEF Ring!From, Ring!Following, Ring!Cells
    <3>2. Ring!Window[i + 1] = buffer[Ring!From(i)]
      BY <1>1, <1>2, <2>3 DEF Ring!Window
    <3> QED
      BY <1>2, <1>5, <2>1, <2>3, <3>1, <3>2 DEF RingContents
  <2> QED
    BY <1>1, <2>2, <2>3
<1>8. Ring!Window' = shifted
  BY <1>5, <1>6, <1>7, SeqEqual
<1> QED
  BY <1>8 DEF Ring!Recent!Store, shifted

(* Every step of the ring is a step of the window or a stutter.            *)
LEMMA WindowStep ==
  Ring!TypeOK /\ Ring!TypeOK' /\ [Ring!Next]_(Ring!vars)
           => [Ring!Recent!Next]_(Ring!Window)
<1> SUFFICES ASSUME Ring!TypeOK, Ring!TypeOK', [Ring!Next]_(Ring!vars)
             PROVE  [Ring!Recent!Next]_(Ring!Window)
  OBVIOUS
<1>1. CASE Ring!init
  <2>1. ASSUME NEW i \in 1 .. buffer_length
        PROVE  (IF buffer = nullptr THEN nullptr ELSE buffer[Ring!From(i - 1)])' = nullptr
    <3>1. Ring!From(i - 1)' \in Ring!Cells
      BY <1>1, LengthAssumption, BlankAssumption DEF Ring!init, Ring!From, Ring!Cells
    <3> QED
      BY <1>1, <3>1 DEF Ring!init, Ring!Unwritten
  <2>2. Ring!Recent!Reset
    BY <2>1 DEF Ring!Window, Ring!Recent!Reset, Ring!Recent!Nothing
  <2> QED
    BY <2>2 DEF Ring!Recent!Next
<1>2. ASSUME NEW p \in Pointers, Ring!insert(p) PROVE [Ring!Recent!Next]_(Ring!Window)
  BY <1>2, StoreShifts DEF Ring!Recent!Next
<1>3. CASE Ring!insert_null \/ Ring!deinit \/ UNCHANGED Ring!vars
  BY <1>3 DEF Ring!insert_null, Ring!deinit, Ring!vars, Ring!Window, Ring!From
<1> QED
  BY <1>1, <1>2, <1>3 DEF Ring!Next

(* Read from current_position on, the ring is always the latest pointers   *)
(* stored, oldest first.                                                   *)
THEOREM KeepsTheLatest ==
  Ring!Spec => SlidingWindow
<1>1. Ring!Init => Ring!Recent!Init
  BY DEF Ring!Init, Ring!Window, Ring!Recent!Init, Ring!Recent!Nothing
<1>2. Ring!TypeOK /\ Ring!TypeOK' /\ [Ring!Next]_(Ring!vars)
        => [Ring!Recent!Next]_(Ring!Window)
  BY WindowStep
<1> QED
  BY <1>1, <1>2, RingTypeCorrect, PTL
     DEF Ring!Spec, SlidingWindow, Ring!SlidingWindow, Ring!Recent!Spec

-----------------------------------------------------------------------------
(* Wherever an unset pointer leads, the linked queue is empty at both ends *)
(* or at neither.                                                          *)
THEOREM QueueEndsTogether ==
  Queue!Spec => []EndsTogether
<1> USE NodesAssumption DEF EndsTogether, Queue!EndsTogether
<1>1. Queue!Init => EndsTogether
  BY DEF Queue!Init
<1>2. EndsTogether /\ [Queue!Next]_(Queue!vars) => EndsTogether'
  <2> SUFFICES ASSUME EndsTogether, [Queue!Next]_(Queue!vars) PROVE EndsTogether'
    OBVIOUS
  <2>1. ASSUME NEW node, NEW p, Queue!enque_first(node, p) \/ Queue!enque_next(node, p)
        PROVE  EndsTogether'
    BY <2>1 DEF Queue!enque_first, Queue!enque_next, Queue!Allocated
  <2>2. CASE Queue!deque
    BY <2>2 DEF Queue!deque
  <2> QED
    BY <2>1, <2>2 DEF Queue!Next, Queue!vars
<1> QED
  BY <1>1, <1>2, PTL DEF Queue!Spec

-----------------------------------------------------------------------------
(* Loops: what a number of equal steps leads to, by induction on it.       *)
(* A nonempty set of natural numbers has a least element.                  *)
LEMMA LeastNumber ==
  ASSUME NEW T \in SUBSET Nat, T # {}
  PROVE  \E n \in T : \A m \in T : n <= m
<1> DEFINE R == {ss \in Nat \X Nat : ss[1] < ss[2]}
<1>1. IsWellFoundedOn(R, Nat)
  BY NatLessThanWellFounded DEF OpToRel
<1>2. PICK n \in T : \A m \in T : ~ (<<m, n>> \in R)
  <2> HIDE DEF R
  <2> QED
    BY <1>1, WFMin
<1>3. ASSUME NEW m \in T PROVE n <= m
  <2>1. <<m, n>> \in Nat \X Nat /\ <<m, n>>[1] = m /\ <<m, n>>[2] = n
    OBVIOUS
  <2>2. ~ (<<m, n>>[1] < <<m, n>>[2])
    BY <1>2, <2>1
  <2> QED
    BY <2>1, <2>2
<1> QED
  BY <1>3

(* Induction, with a set in place of a predicate.                          *)
LEMMA EveryStep ==
  ASSUME NEW N \in Nat, NEW S, 0 \in S,
         \A n \in 1 .. N : n - 1 \in S => n \in S
  PROVE  \A n \in 0 .. N : n \in S
<1> DEFINE T == (0 .. N) \ S
<1>1. T = {}
  <2> SUFFICES ASSUME T # {} PROVE FALSE
    OBVIOUS
  <2>0. T \in SUBSET Nat
    OBVIOUS
  <2>1. PICK n \in T : \A m \in T : n <= m
    BY <2>0, LeastNumber
  <2>2. n \in 1 .. N /\ n - 1 \in 0 .. N /\ ~ (n <= n - 1)
    BY <2>1
  <2>3. n - 1 \in S
    BY <2>1, <2>2
  <2> QED
    BY <2>1, <2>2, <2>3
<1> QED
  BY <1>1

(* A loop of N steps has a state after each.                               *)
IsLoop(f, D, base, step, N) ==
  /\ f \in [0 .. N -> D]
  /\ f[0] = base
  /\ \A n \in 1 .. N : f[n] = step[<<n, f[n - 1]>>]

LEMMA StepByStep ==
  ASSUME NEW D, NEW base \in D, NEW step \in [Nat \X D -> D], NEW N \in Nat
  PROVE  \E f : IsLoop(f, D, base, step, N)
<1> DEFINE Good(n) == \E f \in [0 .. n -> D] :
             f[0] = base /\ \A m \in 1 .. n : f[m] = step[<<m, f[m - 1]>>]
           S == {n \in Nat : Good(n)}
<1>1. Good(0)
  <2>1. [n \in 0 .. 0 |-> base] \in [0 .. 0 -> D]
    OBVIOUS
  <2>2. [n \in 0 .. 0 |-> base][0] = base /\ 1 .. 0 = {}
    OBVIOUS
  <2> QED
    BY <2>1, <2>2
<1>2. ASSUME NEW n \in Nat, Good(n) PROVE Good(n + 1)
  <2>1. PICK f \in [0 .. n -> D] :
             f[0] = base /\ \A m \in 1 .. n : f[m] = step[<<m, f[m - 1]>>]
    BY <1>2
  <2> DEFINE g == [m \in 0 .. n + 1 |-> IF m <= n THEN f[m] ELSE step[<<n + 1, f[n]>>]]
  <2>2. g \in [0 .. n + 1 -> D]
    BY <2>1
  <2>3. g[0] = base
    BY <2>1
  <2>4. ASSUME NEW m \in 1 .. n + 1 PROVE g[m] = step[<<m, g[m - 1]>>]
    BY <2>1
  <2> QED
    BY <2>2, <2>3, <2>4
<1> HIDE DEF Good
<1>3. \A n \in 1 .. N : n - 1 \in S => n \in S
  <2> SUFFICES ASSUME NEW n \in 1 .. N, n - 1 \in S PROVE Good(n)
    OBVIOUS
  <2>1. n - 1 \in Nat /\ (n - 1) + 1 = n
    OBVIOUS
  <2> QED
    BY <1>2, <2>1
<1>4. 0 \in S
  BY <1>1
<1> HIDE DEF S
<1>5. \A n \in 0 .. N : n \in S
  BY <1>3, <1>4, EveryStep
<1>6. N \in S
  BY <1>5
<1> QED
  BY <1>6 DEF S, Good, IsLoop

-----------------------------------------------------------------------------
(* The bag of what an array holds at some places: how often it holds each  *)
(* of its elements there.                                                  *)
Places(f, D, x) == {i \in D : f[i] = x}

BagOn(f, D) == [x \in {f[i] : i \in D} |-> Cardinality(Places(f, D, x))]

(* An element has finitely many places, and one if it is in the array.     *)
LEMMA PlacesOn ==
  ASSUME NEW f, NEW D, IsFiniteSet(D), NEW x
  PROVE  /\ IsFiniteSet(Places(f, D, x))
         /\ Cardinality(Places(f, D, x)) \in Nat
         /\ Cardinality(Places(f, D, x)) = 0 <=> Places(f, D, x) = {}
<1>1. Places(f, D, x) \in SUBSET D
  BY DEF Places
<1>2. IsFiniteSet(Places(f, D, x))
  BY <1>1, FS_Subset
<1> QED
  BY <1>2, FS_CardinalityType, FS_EmptySet

(* One place more for one element is one more in the bag, and the other way*)
(* round one less.                                                         *)
LEMMA OneMore ==
  ASSUME NEW s, NEW D, IsFiniteSet(D), NEW t, NEW E, IsFiniteSet(E), NEW e,
         \A x : Cardinality(Places(t, E, x)) =
                  IF x = e THEN Cardinality(Places(s, D, x)) + 1
                  ELSE Cardinality(Places(s, D, x))
  PROVE  /\ BagOn(t, E) = ListQueue!BagAdd(BagOn(s, D), e)
         /\ BagOn(s, D) = ListQueue!BagRemove(BagOn(t, E), e)
         /\ e \in DOMAIN BagOn(t, E)
<1> DEFINE A == {s[i] : i \in D}
           B == {t[i] : i \in E}
           CA(x) == Cardinality(Places(s, D, x))
           CB(x) == Cardinality(Places(t, E, x))
<1>1. \A x : CA(x) \in Nat /\ (CA(x) = 0 <=> x \notin A)
  <2>1. \A x : Places(s, D, x) = {} <=> x \notin A
    BY DEF Places
  <2> QED
    BY <2>1, PlacesOn
<1>2. \A x : CB(x) = IF x = e THEN CA(x) + 1 ELSE CA(x)
  OBVIOUS
<1>3. B = A \cup {e}
  <2>1. \A x : CB(x) \in Nat /\ (CB(x) = 0 <=> x \notin B)
    <3>1. \A x : Places(t, E, x) = {} <=> x \notin B
      BY DEF Places
    <3> QED
      BY <3>1, PlacesOn
  <2> HIDE DEF A, B, CA, CB
  <2>2. \A x : x \in B <=> x \in A \/ x = e
    BY <1>1, <1>2, <2>1
  <2> QED
    BY <2>2
<1>4. BagOn(s, D) = [x \in A |-> CA(x)] /\ BagOn(t, E) = [x \in B |-> CB(x)]
  BY DEF BagOn
<1> HIDE DEF A, B, CA, CB
<1>5. BagOn(t, E) = ListQueue!BagAdd(BagOn(s, D), e)
  <2>1. CASE e \in A
    BY <1>1, <1>2, <1>3, <1>4, <2>1 DEF ListQueue!BagAdd
  <2>2. CASE e \notin A
    BY <1>1, <1>2, <1>3, <1>4, <2>2 DEF ListQueue!BagAdd
  <2> QED
    BY <2>1, <2>2
<1>6. e \in DOMAIN BagOn(t, E) /\ BagOn(t, E)[e] = CA(e) + 1
  BY <1>2, <1>3, <1>4
<1>7. BagOn(s, D) = ListQueue!BagRemove(BagOn(t, E), e)
  <2>1. CASE e \in A
    <3>1. BagOn(t, E)[e] # 1 /\ DOMAIN BagOn(t, E) = A
      BY <1>1, <1>3, <1>4, <1>6, <2>1
    <3>2. \A x \in A : CA(x) = IF x = e THEN BagOn(t, E)[x] - 1 ELSE BagOn(t, E)[x]
      BY <1>1, <1>2, <1>4, <3>1
    <3>3. ListQueue!BagRemove(BagOn(t, E), e)
            = [x \in A |-> IF x = e THEN BagOn(t, E)[x] - 1 ELSE BagOn(t, E)[x]]
      BY <1>6, <3>1 DEF ListQueue!BagRemove
    <3> QED
      BY <1>4, <3>2, <3>3
  <2>2. CASE e \notin A
    <3>1. BagOn(t, E)[e] = 1 /\ DOMAIN BagOn(t, E) \ {e} = A
      BY <1>1, <1>3, <1>4, <1>6, <2>2
    <3>2. \A x \in A : CA(x) = BagOn(t, E)[x]
      BY <1>1, <1>2, <1>4, <3>1
    <3>3. ListQueue!BagRemove(BagOn(t, E), e) = [x \in A |-> BagOn(t, E)[x]]
      BY <1>6, <3>1 DEF ListQueue!BagRemove
    <3> QED
      BY <1>4, <3>2, <3>3
  <2> QED
    BY <2>1, <2>2
<1> QED
  BY <1>5, <1>6, <1>7

(* The bag of what a list holds.                                           *)
PlacesOf(s, x) == Places(s, 1 .. Len(s), x)

BagOf(s) == BagOn(s, 1 .. Len(s))

(* It is what the list is mapped to.                                       *)
LEMMA ContentsAreBag ==
  /\ list \in Seq(Items) => List!Contents = BagOf(list)
  /\ list' \in Seq(Items) => List!Contents' = BagOf(list')
<1>0. \A A : List!Cardinality(A) = Cardinality(A)
  BY DEF List!Cardinality, Cardinality
<1>1. list \in Seq(Items) => List!Contents = BagOf(list)
  <2> SUFFICES ASSUME list \in Seq(Items)
               PROVE  List!Contents = BagOf(list)
    OBVIOUS
  <2>1. DOMAIN list = 1 .. Len(list)
    OBVIOUS
  <2>2. List!Contents
          = [x \in {list[i] : i \in 1 .. Len(list)} |->
               List!Cardinality({i \in 1 .. Len(list) : list[i] = x})]
    BY <2>1 DEF List!Contents, List!ToSet
  <2> QED
    BY <1>0, <2>2 DEF BagOf, BagOn, PlacesOf, Places
<1>2. list' \in Seq(Items) => List!Contents' = BagOf(list')
  <2> SUFFICES ASSUME list' \in Seq(Items)
               PROVE  List!Contents' = BagOf(list')
    OBVIOUS
  <2>1. DOMAIN list' = 1 .. Len(list')
    OBVIOUS
  <2>2. List!Contents'
          = [x \in {list'[i] : i \in 1 .. Len(list')} |->
               List!Cardinality({i \in 1 .. Len(list') : list'[i] = x})]
    BY <2>1 DEF List!Contents, List!ToSet
  <2> QED
    BY <1>0, <2>2 DEF BagOf, BagOn, PlacesOf, Places
<1> QED
  BY <1>1, <1>2

(* An element has finitely many places, and one if it is in the list.      *)
LEMMA PlacesCounted ==
  ASSUME NEW S, NEW s \in Seq(S), NEW x
  PROVE  /\ IsFiniteSet(PlacesOf(s, x))
         /\ Cardinality(PlacesOf(s, x)) \in Nat
         /\ Cardinality(PlacesOf(s, x)) = 0 <=> PlacesOf(s, x) = {}
<1>1. IsFiniteSet(1 .. Len(s)) /\ PlacesOf(s, x) \in SUBSET (1 .. Len(s))
  BY FS_Interval, LenProperties DEF PlacesOf, Places
<1>2. IsFiniteSet(PlacesOf(s, x))
  BY <1>1, FS_Subset
<1> QED
  BY <1>2, FS_CardinalityType, FS_EmptySet

(* A list t that is s with e put behind its first k elements.              *)
WithElement(s, t, e, k) ==
  /\ Len(t) = Len(s) + 1
  /\ \A i \in 1 .. k : t[i] = s[i]
  /\ t[k + 1] = e
  /\ \A i \in k + 1 .. Len(s) : t[i + 1] = s[i]

(* The places of an element move, and e gets one more.                     *)
LEMMA OnePlaceMore ==
  ASSUME NEW S, NEW s \in Seq(S), NEW t \in Seq(S), NEW e, NEW k \in 0 .. Len(s),
         WithElement(s, t, e, k), NEW x
  PROVE  Cardinality(PlacesOf(t, x)) =
           IF x = e THEN Cardinality(PlacesOf(s, x)) + 1
           ELSE Cardinality(PlacesOf(s, x))
<1> DEFINE f == [i \in PlacesOf(s, x) |-> IF i <= k THEN i ELSE i + 1]
           T == PlacesOf(t, x) \ {k + 1}
<1>0. Len(s) \in Nat /\ Len(t) = Len(s) + 1 /\ k \in Nat /\ k <= Len(s)
  BY LenProperties DEF WithElement
<1>1. \A i \in PlacesOf(s, x) : f[i] \in T
  BY <1>0 DEF WithElement, PlacesOf, Places
<1>2. \A i, j \in PlacesOf(s, x) : f[i] = f[j] => i = j
  BY <1>0 DEF PlacesOf, Places
<1>3. \A j \in T : \E i \in PlacesOf(s, x) : f[i] = j
  <2> SUFFICES ASSUME NEW j \in T PROVE \E i \in PlacesOf(s, x) : f[i] = j
    OBVIOUS
  <2>1. CASE j <= k
    <3>1. j \in PlacesOf(s, x)
      BY <1>0, <2>1 DEF WithElement, PlacesOf, Places
    <3> QED
      BY <2>1, <3>1
  <2>2. CASE j > k + 1
    <3>1. j - 1 \in PlacesOf(s, x) /\ ~(j - 1 <= k) /\ (j - 1) + 1 = j
      <4>1. j - 1 \in k + 1 .. Len(s) /\ (j - 1) + 1 = j
        BY <1>0, <2>2 DEF PlacesOf, Places
      <4>2. t[(j - 1) + 1] = s[j - 1]
        BY <4>1 DEF WithElement
      <4>3. t[j] = x
        BY DEF PlacesOf, Places
      <4> QED
        BY <1>0, <4>1, <4>2, <4>3 DEF PlacesOf, Places
    <3> QED
      BY <3>1
  <2>3. j \in 1 .. Len(t) /\ j # k + 1
    BY DEF PlacesOf, Places
  <2>4. j <= k \/ j > k + 1
    BY <1>0, <2>3
  <2> QED
    BY <2>1, <2>2, <2>4
<1>4. ExistsBijection(PlacesOf(s, x), T)
  <2>1. f \in [PlacesOf(s, x) -> T]
    BY <1>1
  <2> HIDE DEF f, T
  <2>2. f \in Bijection(PlacesOf(s, x), T)
    BY <1>2, <1>3, <2>1 DEF Bijection, Injection, Surjection, IsInjective
  <2> QED
    BY <2>2 DEF ExistsBijection
<1>5. IsFiniteSet(T) /\ Cardinality(T) = Cardinality(PlacesOf(s, x))
  BY <1>4, PlacesCounted, FS_Bijection
<1>6. k + 1 \in PlacesOf(t, x) <=> x = e
  BY <1>0 DEF WithElement, PlacesOf, Places
<1>7. CASE x = e
  <2>1. PlacesOf(t, x) = T \cup {k + 1} /\ k + 1 \notin T
    BY <1>6, <1>7
  <2> HIDE DEF T
  <2> QED
    BY <1>5, <1>7, <2>1, FS_AddElement
<1>8. CASE x # e
  BY <1>5, <1>6, <1>8
<1> QED
  BY <1>7, <1>8

(* One element more in the list is one more in the bag, and the other way  *)
(* round one less.                                                         *)
LEMMA OneElementMore ==
  ASSUME NEW S, NEW s \in Seq(S), NEW t \in Seq(S), NEW e, NEW k \in 0 .. Len(s),
         WithElement(s, t, e, k)
  PROVE  /\ BagOf(t) = ListQueue!BagAdd(BagOf(s), e)
         /\ BagOf(s) = ListQueue!BagRemove(BagOf(t), e)
         /\ e \in DOMAIN BagOf(t)
<1>1. IsFiniteSet(1 .. Len(s)) /\ IsFiniteSet(1 .. Len(t))
  BY FS_Interval, LenProperties
<1>2. \A x : Cardinality(Places(t, 1 .. Len(t), x)) =
               IF x = e THEN Cardinality(Places(s, 1 .. Len(s), x)) + 1
               ELSE Cardinality(Places(s, 1 .. Len(s), x))
  BY OnePlaceMore DEF PlacesOf
<1> QED
  BY <1>1, <1>2, OneMore DEF BagOf

-----------------------------------------------------------------------------
(* The list is in order of priority, highest first.                        *)
Sorted(s) == \A i, j \in 1 .. Len(s) : i < j => s[i].priority >= s[j].priority

ListInv == list \in Seq(Items) /\ Sorted(list)

(* What insert makes of a list.                                            *)
LEMMA InsertAtPlace ==
  ASSUME NEW S, NEW s \in Seq(S), NEW e \in S, NEW k \in 0 .. Len(s)
  PROVE  /\ List!InsertAt(s, k + 1, e) \in Seq(S)
         /\ WithElement(s, List!InsertAt(s, k + 1, e), e, k)
<1> DEFINE front == SubSeq(s, 1, k)
           back == SubSeq(s, k + 1, Len(s))
           t == List!InsertAt(s, k + 1, e)
<1>1. t = front \o <<e>> \o back
  <2>1. (k + 1) - 1 = k
    BY LenProperties
  <2> QED
    BY <2>1 DEF List!InsertAt
<1>2. /\ front \in Seq(S)
      /\ Len(front) = k
      /\ \A i \in 1 .. k : front[i] = s[i]
      /\ back \in Seq(S)
      /\ Len(back) = Len(s) - k
      /\ \A i \in 1 .. Len(s) - k : back[i] = s[k + i]
  OBVIOUS
<1>3. <<e>> \in Seq(S) /\ Len(<<e>>) = 1 /\ <<e>>[1] = e
  OBVIOUS
<1> HIDE DEF front, back, t
<1> DEFINE middle == front \o <<e>>
<1>4. /\ middle \in Seq(S)
      /\ Len(middle) = k + 1
      /\ \A i \in 1 .. k : middle[i] = s[i]
      /\ middle[k + 1] = e
  BY <1>2, <1>3
<1>5. t = middle \o back
  BY <1>1
<1> HIDE DEF middle
<1>6. /\ t \in Seq(S)
      /\ Len(t) = Len(s) + 1
      /\ \A i \in 1 .. k + 1 : t[i] = middle[i]
      /\ \A i \in k + 1 .. Len(s) : t[i + 1] = back[i - k]
  BY <1>2, <1>4, <1>5, SMTT(30)
<1>7. WithElement(s, t, e, k)
  BY <1>2, <1>4, <1>6 DEF WithElement
<1> QED
  BY <1>6, <1>7 DEF t

(* The list without its head has one element less.                         *)
LEMMA TailPlace ==
  ASSUME NEW S, NEW s \in Seq(S), s # <<>>
  PROVE  Tail(s) \in Seq(S) /\ Head(s) \in S /\ WithElement(Tail(s), s, Head(s), 0)
<1>1. /\ Tail(s) \in Seq(S) /\ Head(s) \in S /\ Head(s) = s[1]
      /\ Len(s) \in Nat /\ Len(s) # 0
      /\ Len(Tail(s)) = Len(s) - 1
      /\ \A i \in 1 .. Len(s) - 1 : Tail(s)[i] = s[i + 1]
  OBVIOUS
<1> QED
  BY <1>1 DEF WithElement

(* Priorities are numbers.                                                 *)
LEMMA ItemAt ==
  ASSUME NEW s \in Seq(Items)
  PROVE  \A i \in 1 .. Len(s) : s[i] \in Items /\ s[i].priority \in Int
<1>1. \A i \in 1 .. Len(s) : s[i] \in Items
  OBVIOUS
<1>2. \A x \in Items : x.priority \in Int
  BY PrioritiesAssumption DEF Items
<1> QED
  BY <1>1, <1>2

(* The walk puts an element where the list stays in order.                 *)
LEMMA InsertSorted ==
  ASSUME NEW s \in Seq(Items), NEW t \in Seq(Items), NEW e \in Items,
         NEW k \in 0 .. Len(s), Sorted(s),
         List!InsertsAfter(s, e, k), WithElement(s, t, e, k)
  PROVE  Sorted(t)
<1>1. /\ Len(s) \in Nat /\ Len(t) = Len(s) + 1 /\ k \in Nat /\ k <= Len(s)
      /\ e.priority \in Int
      /\ \A i \in 1 .. Len(s) : s[i].priority \in Int
  <2>1. e.priority \in Int
    BY PrioritiesAssumption DEF Items
  <2> QED
    BY <2>1, LenProperties, ItemAt DEF WithElement
<1>2. \A i \in 1 .. k : s[i].priority >= e.priority
  <2>1. k # 0 => s[k].priority >= e.priority
    BY <1>1 DEF List!InsertsAfter
  <2> QED
    BY <1>1, <2>1 DEF Sorted
<1>3. \A i \in k + 1 .. Len(s) : e.priority >= s[i].priority
  <2>1. k < Len(s) => e.priority >= s[k + 1].priority
    BY <1>1 DEF List!InsertsAfter
  <2> QED
    BY <1>1, <2>1 DEF Sorted
<1> SUFFICES ASSUME NEW i \in 1 .. Len(t), NEW j \in 1 .. Len(t), i < j
             PROVE  t[i].priority >= t[j].priority
  BY DEF Sorted
<1>4. CASE j <= k
  BY <1>1, <1>4 DEF Sorted, WithElement
<1>5. CASE j = k + 1
  BY <1>1, <1>2, <1>5 DEF WithElement
<1>6. CASE j > k + 1
  <2>1. j - 1 \in k + 1 .. Len(s) /\ (j - 1) + 1 = j
    BY <1>1, <1>6
  <2>2. t[j] = s[j - 1]
    BY <2>1 DEF WithElement
  <2>3. CASE i <= k
    <3>1. t[i] = s[i] /\ i \in 1 .. Len(s) /\ i < j - 1
      BY <1>1, <2>1, <2>3 DEF WithElement
    <3> QED
      BY <1>1, <2>1, <2>2, <3>1 DEF Sorted
  <2>4. CASE i = k + 1
    BY <1>1, <1>3, <2>1, <2>2, <2>4 DEF WithElement
  <2>5. CASE i > k + 1
    <3>1. i - 1 \in k + 1 .. Len(s) /\ (i - 1) + 1 = i
      BY <1>1, <2>5
    <3>2. t[i] = s[i - 1]
      BY <3>1 DEF WithElement
    <3> QED
      BY <1>1, <2>1, <2>2, <3>1, <3>2 DEF Sorted
  <2> QED
    BY <1>1, <2>3, <2>4, <2>5
<1> QED
  BY <1>1, <1>4, <1>5, <1>6

(* The empty list is the empty bag.                                        *)
LEMMA NothingListed == BagOf(<<>>) = ListQueue!Nothing
<1>1. {<<>>[i] : i \in 1 .. Len(<<>>)} = {}
  OBVIOUS
<1> QED
  BY <1>1 DEF BagOf, BagOn, ListQueue!Nothing

LEMMA ListInvInit == List!Init => ListInv
BY DEF List!Init, ListInv, Sorted

LEMMA ListInvNext ==
  ListInv /\ [List!Next]_List!vars => ListInv'
<1> SUFFICES ASSUME ListInv, [List!Next]_List!vars
             PROVE  ListInv'
  OBVIOUS
<1>1. CASE \E item \in Items : List!insert(item)
  <2>1. PICK item \in Items, last \in 0 .. Len(list) :
          /\ List!InsertsAfter(list, item, last)
          /\ list' = List!InsertAt(list, last + 1, item)
    BY <1>1 DEF List!insert
  <2>2. list' \in Seq(Items) /\ WithElement(list, list', item, last)
    BY <2>1, InsertAtPlace DEF ListInv
  <2> QED
    BY <2>1, <2>2, InsertSorted DEF ListInv
<1>2. CASE List!pop
  <2>1. /\ list' \in Seq(Items) /\ Len(list') = Len(list) - 1 /\ Len(list) \in Nat
        /\ \A i \in 1 .. Len(list') : list'[i] = list[i + 1]
    BY <1>2 DEF List!pop, ListInv
  <2> QED
    BY <2>1 DEF ListInv, Sorted
<1>3. CASE List!check_exists
  BY <1>3 DEF List!check_exists, ListInv, Sorted
<1>4. CASE List!pop_empty \/ UNCHANGED List!vars
  BY <1>4 DEF List!pop_empty, List!vars, ListInv, Sorted
<1> QED
  BY <1>1, <1>2, <1>3, <1>4 DEF List!Next

(* Every operation on the list is one on the bag.                          *)
LEMMA ListStep ==
  ListInv /\ [List!Next]_List!vars
    => [ListQueue!Next \/ ListQueue!Clear]_(ListQueue!vars)
<1> SUFFICES ASSUME ListInv, [List!Next]_List!vars
             PROVE  [ListQueue!Next \/ ListQueue!Clear]_(ListQueue!vars)
  OBVIOUS
<1>0. /\ list \in Seq(Items) /\ list' \in Seq(Items) 
      /\ List!Contents = BagOf(list) /\ List!Contents' = BagOf(list')
  BY ListInvNext, ContentsAreBag DEF ListInv
<1>1. CASE \E item \in Items : List!insert(item)
  <2>1. PICK item \in Items, last \in 0 .. Len(list) :
          /\ List!InsertsAfter(list, item, last)
          /\ list' = List!InsertAt(list, last + 1, item)
          /\ list_popped' = list_popped
    BY <1>1 DEF List!insert
  <2>2. WithElement(list, list', item, last)
    BY <1>0, <2>1, InsertAtPlace
  <2>3. ListQueue!Insert(item)
    BY <1>0, <2>1, <2>2, OneElementMore DEF ListQueue!Insert
  <2> QED
    BY <2>3 DEF ListQueue!Next
<1>2. CASE List!pop
  <2>1. list # <<>> /\ list' = Tail(list) /\ list_popped' = Head(list).ptr
    BY <1>2 DEF List!pop
  <2> DEFINE item == Head(list)
  <2>2. item \in Items /\ WithElement(list', list, item, 0)
    BY <1>0, <2>1, TailPlace
  <2>3. /\ item \in DOMAIN BagOf(list)
        /\ BagOf(list') = ListQueue!BagRemove(BagOf(list), item)
    <3>1. 0 \in 0 .. Len(list')
      BY <1>0, LenProperties
    <3> QED
      BY <1>0, <2>2, <3>1, OneElementMore
  <2>4. \A other \in DOMAIN BagOf(list) : other.priority <= item.priority
    <3>1. DOMAIN BagOf(list) = {list[i] : i \in 1 .. Len(list)}
      BY DEF BagOf, BagOn
    <3>2. /\ item = list[1] /\ Len(list) \in Nat /\ Len(list) # 0
          /\ \A i \in 1 .. Len(list) : list[i].priority \in Int
      <4>1. item = list[1] /\ Len(list) \in Nat /\ Len(list) # 0
        BY <1>0, <2>1
      <4> QED
        BY <1>0, <4>1, ItemAt
    <3>3. \A i \in 1 .. Len(list) : list[i].priority <= list[1].priority
      BY <3>2 DEF ListInv, Sorted
    <3> HIDE DEF item
    <3> QED
      BY <3>1, <3>2, <3>3
  <2>5. ListQueue!Pop(item)
    BY <1>0, <2>1, <2>3, <2>4 DEF ListQueue!Pop
  <2> QED
    BY <2>2, <2>5 DEF ListQueue!Next
<1>3. CASE List!check_exists
  BY <1>0, <1>3, NothingListed
    DEF List!check_exists, ListQueue!Next, ListQueue!Clear
<1>4. CASE List!pop_empty
  BY <1>0, <1>4, NothingListed
    DEF List!pop_empty, ListQueue!Next, ListQueue!PopEmpty
<1>5. CASE UNCHANGED List!vars
  BY <1>0, <1>5 DEF List!vars, ListQueue!vars
<1> QED
  BY <1>1, <1>2, <1>3, <1>4, <1>5 DEF List!Next

(* The priority list is a priority queue: what is popped is an element no  *)
(* other one precedes, and nothing inserted is lost but by the empty test  *)
(* that assigns, which drops it all (priority_queue.cpp:100).               *)
THEOREM ListIsPriorityQueue == List!Spec => ListQueue!ClearingSpec
<1>1. List!Init => ListQueue!Init
  <2>1. list = <<>> => List!Contents = ListQueue!Nothing
    <3>1. <<>> \in Seq(Items)
      OBVIOUS
    <3> QED
      BY <3>1, ContentsAreBag, NothingListed
  <2> QED
    BY <2>1 DEF List!Init, ListQueue!Init
<1>2. ListInv /\ [List!Next]_List!vars => [ListQueue!Next \/ ListQueue!Clear]_(ListQueue!vars)
  BY ListStep
<1> QED
  BY <1>1, <1>2, ListInvInit, ListInvNext, PTL DEF List!Spec, ListQueue!ClearingSpec

-----------------------------------------------------------------------------
(* The heap's array, filled up to a length; an order in which no element   *)
(* precedes its parent; the same elements in another order.                *)
Memory == [0 .. max_node_size - 1 -> Items \cup {GARBAGE}]

Filled(nodes, n) ==
  /\ nodes \in Memory /\ n \in 0 .. max_node_size
  /\ \A i \in 0 .. n - 1 : nodes[i] \in Items

Precedes(x, y) == x.priority > y.priority

Heaped(nodes, n) == \A i \in 1 .. n - 1 : ~Precedes(nodes[i], nodes[Heap!parent(i)])

Rearranged(s, t, n) ==
  \A x : Cardinality(Places(t, 0 .. n - 1, x)) = Cardinality(Places(s, 0 .. n - 1, x))

HeapInv ==
  \/ node_list = nullptr /\ total_nodes = 0
  \/ Filled(node_list, total_nodes) /\ Heaped(node_list, total_nodes)

LEMMA Family ==
  ASSUME NEW i \in Nat \ {0}
  PROVE  /\ Heap!parent(i) \in Nat /\ Heap!parent(i) < i
         /\ \A n \in Nat : Heap!parent(i) = n <=> i = 2 * n + 1 \/ i = 2 * n + 2
BY DEF Heap!parent

(* Priorities are numbers, so precedence is a total order of them.         *)
LEMMA Order ==
  /\ \A x, y \in Items : Precedes(x, y) => ~Precedes(y, x)
  /\ \A x, y, z \in Items : ~Precedes(x, y) /\ ~Precedes(y, z) => ~Precedes(x, z)
  /\ \A x, y \in Items : x.priority = y.priority => ~Precedes(x, y)
<1>1. \A x \in Items : x.priority \in Int
  BY PrioritiesAssumption DEF Items
<1> QED
  BY <1>1 DEF Precedes

(* The first element is one that no other precedes.                        *)
LEMMA RootIsFirst ==
  ASSUME NEW nodes, NEW n, Filled(nodes, n), Heaped(nodes, n)
  PROVE  \A i \in 0 .. n - 1 : ~Precedes(nodes[i], nodes[0])
<1> DEFINE T == {i \in 0 .. n - 1 : Precedes(nodes[i], nodes[0])}
<1>0. n \in Nat /\ \A i \in 0 .. n - 1 : nodes[i] \in Items
  BY SizeAssumption DEF Filled
<1> SUFFICES ASSUME T # {} PROVE FALSE
  OBVIOUS
<1>1. PICK i \in T : \A j \in T : i <= j
  <2>1. T \in SUBSET Nat
    BY <1>0
  <2> HIDE DEF T
  <2> QED
    BY <2>1, LeastNumber
<1>2. i \in 0 .. n - 1 /\ i \in Nat /\ Precedes(nodes[i], nodes[0])
  BY <1>0
<1>3. i # 0 /\ i \in 1 .. n - 1
  BY <1>0, <1>2, Order
<1> DEFINE p == Heap!parent(i)
<1>4. p \in 0 .. n - 1 /\ p < i
  BY <1>0, <1>2, <1>3, Family
<1>5. ~Precedes(nodes[i], nodes[p])
  BY <1>3 DEF Heaped
<1> HIDE DEF p
<1>6. ~Precedes(nodes[p], nodes[0])
  BY <1>1, <1>2, <1>4
<1>7. 0 \in 0 .. n - 1
  BY <1>0, <1>2
<1> QED
  BY <1>0, <1>2, <1>4, <1>5, <1>6, <1>7, Order

(* What a swap changes.                                                    *)
LEMMA SwapPlaces ==
  ASSUME NEW nodes \in Memory,
         NEW i \in 0 .. max_node_size - 1, NEW j \in 0 .. max_node_size - 1
  PROVE  LET t == Heap!swap(nodes, i, j)
         IN  /\ t \in Memory /\ t[i] = nodes[j] /\ t[j] = nodes[i]
             /\ \A k \in 0 .. max_node_size - 1 : k # i /\ k # j => t[k] = nodes[k]
BY DEF Heap!swap, Memory

(* It does not change how often an element is there.                       *)
Swapped(s, t, i, j, n) ==
  /\ Filled(t, n) /\ Rearranged(s, t, n)
  /\ t[i] = s[j] /\ t[j] = s[i]
  /\ \A k \in 0 .. max_node_size - 1 : k # i /\ k # j => t[k] = s[k]

LEMMA SwapRearranges ==
  ASSUME NEW nodes, NEW n, Filled(nodes, n), NEW i \in 0 .. n - 1, NEW j \in 0 .. n - 1
  PROVE  Swapped(nodes, Heap!swap(nodes, i, j), i, j, n)
<1> DEFINE t == Heap!swap(nodes, i, j)
           D == 0 .. n - 1
<1>0. /\ nodes \in Memory /\ n \in Nat /\ D \subseteq 0 .. max_node_size - 1
      /\ i \in D /\ j \in D
      /\ \A k \in D : nodes[k] \in Items
  BY SizeAssumption DEF Filled
<1>1. /\ t \in Memory /\ t[i] = nodes[j] /\ t[j] = nodes[i]
      /\ \A k \in 0 .. max_node_size - 1 : k # i /\ k # j => t[k] = nodes[k]
  BY <1>0, SwapPlaces
<1>2. IsFiniteSet(D)
  BY <1>0, FS_Interval
<1> HIDE DEF t
<1>3. Filled(t, n)
  BY <1>0, <1>1 DEF Filled
<1> HIDE DEF D
<1>4. ASSUME NEW x PROVE Cardinality(Places(t, D, x)) = Cardinality(Places(nodes, D, x))
  <2> DEFINE A == Places(nodes, D, x)
             B == Places(t, D, x)
             f == [k \in A |-> IF k = i THEN j ELSE IF k = j THEN i ELSE k]
  <2>1. \A k \in A : f[k] \in B
    BY <1>0, <1>1 DEF Places
  <2>2. \A k, l \in A : f[k] = f[l] => k = l
    OBVIOUS
  <2>3. \A l \in B : \E k \in A : f[k] = l
    <3> SUFFICES ASSUME NEW l \in B PROVE \E k \in A : f[k] = l
      OBVIOUS
    <3> DEFINE k == IF l = i THEN j ELSE IF l = j THEN i ELSE l
    <3>1. k \in A /\ f[k] = l
      BY <1>0, <1>1 DEF Places
    <3> QED
      BY <3>1
  <2>4. f \in [A -> B]
    BY <2>1
  <2>5. IsFiniteSet(A)
    BY <1>2, PlacesOn
  <2> HIDE DEF f, A, B
  <2>6. f \in Bijection(A, B)
    BY <2>2, <2>3, <2>4 DEF Bijection, Injection, Surjection, IsInjective
  <2>7. ExistsBijection(A, B)
    BY <2>6 DEF ExistsBijection
  <2>8. Cardinality(A) = Cardinality(B)
    BY <2>5, <2>7, FS_Bijection
  <2> QED
    BY <2>8 DEF A, B
<1>5. Rearranged(nodes, t, n)
  BY <1>4 DEF Rearranged, D
<1> QED
  BY <1>1, <1>3, <1>5 DEF t, Swapped


(* On the way up only the raised element may precede its parent, and that  *)
(* parent precedes what is below the raised one.                           *)
UpInv(nodes, m, last, s) ==
  /\ Filled(nodes, last + 1) /\ m \in 0 .. last /\ Rearranged(s, nodes, last + 1)
  /\ \A i \in 1 .. last : i # m => ~Precedes(nodes[i], nodes[Heap!parent(i)])
  /\ \A i \in 1 .. last :
       Heap!parent(i) = m /\ m # 0 => ~Precedes(nodes[i], nodes[Heap!parent(m)])

Rises(nodes, m) == m # 0 /\ Precedes(nodes[m], nodes[Heap!parent(m)])

LEMMA UpStep ==
  ASSUME NEW nodes, NEW last \in Nat, NEW m, NEW s, UpInv(nodes, m, last, s),
         Rises(nodes, m)
  PROVE  /\ Heap!parent(m) < m
         /\ UpInv(Heap!swap(nodes, Heap!parent(m), m), Heap!parent(m), last, s)
<1> DEFINE p == Heap!parent(m)
           t == Heap!swap(nodes, p, m)
           Up(i) == Heap!parent(i)
<1>1. /\ m \in 1 .. last /\ p \in 0 .. last /\ p < m
      /\ last + 1 \in Nat /\ (last + 1) - 1 = last
  <2>1. m \in Nat \ {0} /\ m <= last
    BY DEF UpInv, Rises
  <2>2. p \in Nat /\ p < m
    BY <2>1, Family
  <2> QED
    BY <2>1, <2>2
<1>2. \A i \in 1 .. last : Up(i) \in 0 .. last /\ Up(i) < i
  BY Family
<1>3. Filled(nodes, last + 1) /\ \A i \in 0 .. last : nodes[i] \in Items
  BY <1>1 DEF UpInv, Filled
<1>3a. 0 .. last \subseteq 0 .. max_node_size - 1
  BY <1>1, <1>3, SizeAssumption DEF Filled
<1> HIDE DEF p, Up
<1>4. /\ Filled(t, last + 1) /\ Rearranged(nodes, t, last + 1)
      /\ t[p] = nodes[m] /\ t[m] = nodes[p]
      /\ \A k \in 0 .. max_node_size - 1 : k # p /\ k # m => t[k] = nodes[k]
  <2>1. p \in 0 .. (last + 1) - 1 /\ m \in 0 .. (last + 1) - 1
    BY <1>1
  <2>2. Swapped(nodes, t, p, m, last + 1)
    BY <1>3, <2>1, SwapRearranges
  <2> QED
    BY <2>2 DEF Swapped
<1> HIDE DEF t
<1>5. \A k \in 0 .. last : k # p /\ k # m => t[k] = nodes[k]
  BY <1>3a, <1>4
<1>6. /\ Precedes(nodes[m], nodes[p])
      /\ \A i \in 1 .. last : i # m => ~Precedes(nodes[i], nodes[Up(i)])
      /\ \A i \in 1 .. last : Up(i) = m => ~Precedes(nodes[i], nodes[p])
  BY <1>1 DEF UpInv, Rises, Up, p
<1>7. ASSUME NEW i \in 1 .. last, i # p
      PROVE  ~Precedes(t[i], t[Up(i)])
  <2>0. i \in 0 .. last /\ nodes[i] \in Items /\ nodes[p] \in Items /\ nodes[m] \in Items
        /\ Up(i) \in 0 .. last /\ Up(i) # i
    BY <1>1, <1>2, <1>3
  <2>1. CASE i = m
    <3>1. Up(i) = p
      BY <2>1 DEF Up, p
    <3> QED
      BY <1>4, <1>6, <2>0, <2>1, <3>1, Order
  <2>2. CASE i # m /\ Up(i) = p
    <3>1. t[i] = nodes[i] /\ ~Precedes(nodes[i], nodes[p])
      BY <1>5, <1>6, <1>7, <2>0, <2>2
    <3>2. ~Precedes(nodes[p], nodes[m])
      BY <1>6, <2>0, Order
    <3> QED
      BY <1>4, <2>0, <2>2, <3>1, <3>2, Order
  <2>3. CASE i # m /\ Up(i) = m
    BY <1>4, <1>5, <1>6, <1>7, <2>0, <2>3
  <2>4. CASE i # m /\ Up(i) # p /\ Up(i) # m
    BY <1>5, <1>6, <1>7, <2>0, <2>4
  <2> QED
    BY <2>1, <2>2, <2>3, <2>4
<1>8. ASSUME NEW i \in 1 .. last, Up(i) = p, p # 0
      PROVE  ~Precedes(t[i], t[Up(p)])
  <2>1. /\ p \in 1 .. last /\ p # m /\ Up(p) \in 0 .. last /\ Up(p) # p /\ Up(p) # m
        /\ i \in 0 .. last /\ i # p
        /\ nodes[i] \in Items /\ nodes[p] \in Items /\ nodes[Up(p)] \in Items
    BY <1>1, <1>2, <1>3, <1>8
  <2>2. t[Up(p)] = nodes[Up(p)] /\ ~Precedes(nodes[p], nodes[Up(p)])
    BY <1>5, <1>6, <2>1
  <2>3. CASE i = m
    BY <1>4, <2>2, <2>3
  <2>4. CASE i # m
    <3>1. t[i] = nodes[i] /\ ~Precedes(nodes[i], nodes[p])
      BY <1>5, <1>6, <1>8, <2>1, <2>4
    <3> QED
      BY <2>1, <2>2, <3>1, Order
  <2> QED
    BY <2>3, <2>4
<1>9. Rearranged(s, t, last + 1)
  BY <1>4 DEF UpInv, Rearranged
<1>10. UpInv(t, p, last, s)
  BY <1>1, <1>4, <1>7, <1>8, <1>9 DEF UpInv, Up
<1> QED
  BY <1>1, <1>10 DEF t, p

(* The loop, a turn at a time.                                             *)
LEMMA SiftUpLoop ==
  ASSUME NEW nodes \in Memory, NEW m \in 0 .. max_node_size - 1
  PROVE  \E turn \in [0 .. m -> Memory \X (0 .. max_node_size - 1)] :
           /\ turn[0] = <<nodes, m>>
           /\ \A k \in 1 .. m : turn[k] = Heap!Raised(turn[k - 1])
           /\ Heap!SiftUp(nodes, m) = turn[m][1]
<1> DEFINE D == Memory \X (0 .. max_node_size - 1)
           start == <<nodes, m>>
           step == [p \in Nat \X D |-> Heap!Raised(p[2])]
           Loop(turn) == turn = [k \in 0 .. m |-> IF k = 0 THEN start
                                                  ELSE Heap!Raised(turn[k - 1])]
<1>0. m \in Nat
  BY SizeAssumption
<1>1. start \in D
  OBVIOUS
<1>2. ASSUME NEW a \in D PROVE Heap!Raised(a) \in D
  <2> DEFINE n == a[1]
             j == a[2]
  <2>1. n \in Memory /\ j \in 0 .. max_node_size - 1
    OBVIOUS
  <2>2. CASE j # 0 /\ n[Heap!parent(j)].priority < n[j].priority
    <3>1. Heap!parent(j) \in 0 .. max_node_size - 1
      BY <2>1, <2>2, Family, SizeAssumption
    <3>2. Heap!swap(n, Heap!parent(j), j) \in Memory
      BY <2>1, <3>1, SwapPlaces
    <3>3. Heap!Raised(a) = <<Heap!swap(n, Heap!parent(j), j), Heap!parent(j)>>
      BY <2>2 DEF Heap!Raised
    <3> QED
      BY <3>1, <3>2, <3>3
  <2>3. CASE ~(j # 0 /\ n[Heap!parent(j)].priority < n[j].priority)
    <3>1. Heap!Raised(a) = a
      BY <2>3 DEF Heap!Raised
    <3> QED
      BY <3>1
  <2> QED
    BY <2>2, <2>3
<1>2a. \A a \in D : Heap!Raised(a) \in D
  BY <1>2
<1> HIDE DEF D, start
<1>3. step \in [Nat \X D -> D]
  BY <1>2a
<1>4. \A n \in Nat, a \in D : step[<<n, a>>] = Heap!Raised(a)
  OBVIOUS
<1> HIDE DEF step
<1>5. PICK f : IsLoop(f, D, start, step, m)
  BY <1>0, <1>1, <1>3, StepByStep
<1>6. Loop(f)
  <2>1. \A n \in 1 .. m : n \in Nat /\ f[n - 1] \in D /\ f[n] = step[<<n, f[n - 1]>>]
    BY <1>0, <1>5 DEF IsLoop
  <2>2. \A n \in 1 .. m : f[n] = Heap!Raised(f[n - 1])
    BY <1>4, <2>1
  <2>2a. \A n \in 0 .. m : n = 0 \/ n \in 1 .. m
    BY <1>0
  <2>2b. \A n \in 0 .. m : f[n] = IF n = 0 THEN start ELSE Heap!Raised(f[n - 1])
    BY <1>0, <1>5, <2>2, <2>2a DEF IsLoop
  <2>3. f = [n \in 0 .. m |-> f[n]]
    BY <1>5 DEF IsLoop
  <2> QED
    BY <2>2b, <2>3
<1> DEFINE turn == CHOOSE g : Loop(g)
<1>7. Loop(turn)
  <2> HIDE DEF Loop
  <2> QED
    BY <1>6
<1>8. Heap!SiftUp(nodes, m) = turn[m][1]
  BY DEF Heap!SiftUp, start
<1> HIDE DEF turn
<1>9. /\ turn[0] = start /\ turn = [k \in 0 .. m |-> turn[k]]
      /\ \A k \in 1 .. m : turn[k] = Heap!Raised(turn[k - 1])
  BY <1>0, <1>7
<1>10. \A k \in 0 .. m : turn[k] \in D
  <2> DEFINE S == {k \in 0 .. m : turn[k] \in D}
  <2>1. 0 \in S
    BY <1>0, <1>1, <1>9
  <2>2. ASSUME NEW n \in 1 .. m, n - 1 \in S PROVE n \in S
    <3>1. turn[n - 1] \in D /\ n \in 0 .. m /\ turn[n] = Heap!Raised(turn[n - 1])
      BY <1>0, <1>9, <2>2
    <3> QED
      BY <1>2a, <3>1
  <2> HIDE DEF S
  <2>3. \A n \in 0 .. m : n \in S
    BY <1>0, <2>1, <2>2, EveryStep
  <2> QED
    BY <2>3 DEF S
<1>11. turn \in [0 .. m -> D]
  BY <1>9, <1>10
<1> QED
  BY <1>8, <1>9, <1>11 DEF D, start

(* What it makes of a heap with one more element behind it is a heap.      *)
LEMMA SiftUpHeaps ==
  ASSUME NEW nodes, NEW m \in Nat, Filled(nodes, m + 1), Heaped(nodes, m)
  PROVE  LET t == Heap!SiftUp(nodes, m)
         IN  Filled(t, m + 1) /\ Heaped(t, m + 1) /\ Rearranged(nodes, t, m + 1)
<1>0. nodes \in Memory /\ m \in 0 .. max_node_size - 1 /\ (m + 1) - 1 = m
  BY SizeAssumption DEF Filled
<1>1. PICK turn \in [0 .. m -> Memory \X (0 .. max_node_size - 1)] :
        /\ turn[0] = <<nodes, m>>
        /\ \A k \in 1 .. m : turn[k] = Heap!Raised(turn[k - 1])
        /\ Heap!SiftUp(nodes, m) = turn[m][1]
  BY <1>0, SiftUpLoop
<1> DEFINE Good(k) == /\ UpInv(turn[k][1], turn[k][2], m, nodes)
                      /\ Rises(turn[k][1], turn[k][2]) => turn[k][2] <= m - k
           S == {k \in 0 .. m : Good(k)}
<1>2. 0 \in S
  <2>1. turn[0][1] = nodes /\ turn[0][2] = m
    BY <1>1
  <2>2. UpInv(nodes, m, m, nodes)
    <3>1. \A i \in 1 .. m : i # m => i \in 1 .. m - 1
      OBVIOUS
    <3>2. \A i \in 1 .. m : Heap!parent(i) # m
      BY Family
    <3> QED
      BY <1>0, <3>1, <3>2 DEF UpInv, Heaped, Rearranged
  <2> QED
    BY <2>1, <2>2
<1>3. ASSUME NEW k \in 1 .. m, k - 1 \in S PROVE k \in S
  <2> DEFINE n == turn[k - 1][1]
             j == turn[k - 1][2]
  <2>1. /\ UpInv(n, j, m, nodes) /\ (Rises(n, j) => j <= m - (k - 1))
        /\ turn[k - 1] = <<n, j>>
    BY <1>1, <1>3
  <2>2. turn[k] = Heap!Raised(turn[k - 1]) /\ j \in 0 .. m
    BY <1>1, <2>1 DEF UpInv
  <2>3. \A i \in 1 .. m : Heap!parent(i) \in 0 .. m
    BY Family
  <2>4. \A i \in 0 .. m : n[i].priority \in Int
    BY <1>0, <2>1, PrioritiesAssumption DEF UpInv, Filled, Items
  <2> HIDE DEF n, j
  <2>5. CASE Rises(n, j)
    <3> DEFINE p == Heap!parent(j)
               t == Heap!swap(n, p, j)
    <3>1. n[p].priority < n[j].priority /\ j # 0
      BY <2>2, <2>3, <2>4, <2>5 DEF Rises, Precedes
    <3>2. turn[k] = <<t, p>>
      BY <2>1, <2>2, <3>1 DEF Heap!Raised
    <3>3. p < j /\ UpInv(t, p, m, nodes)
      BY <2>1, <2>5, UpStep
    <3>4. p \in Nat
      BY <2>2, <3>1, <2>3
    <3> HIDE DEF t, p
    <3>5. turn[k][1] = t /\ turn[k][2] = p
      BY <3>2
    <3>6. p <= m - k
      BY <2>1, <2>2, <2>5, <3>3, <3>4
    <3> QED
      BY <3>3, <3>5, <3>6
  <2>6. CASE ~Rises(n, j)
    <3>1. ~(j # 0 /\ n[Heap!parent(j)].priority < n[j].priority)
      BY <2>2, <2>3, <2>4, <2>6 DEF Rises, Precedes
    <3>2. turn[k] = <<n, j>>
      BY <2>1, <2>2, <3>1 DEF Heap!Raised
    <3>3. turn[k][1] = n /\ turn[k][2] = j
      BY <3>2
    <3> QED
      BY <2>1, <2>6, <3>3
  <2> QED
    BY <2>5, <2>6
<1> HIDE DEF S
<1>4. \A k \in 0 .. m : k \in S
  BY <1>2, <1>3, EveryStep
<1>5. Good(m)
  BY <1>4 DEF S
<1> DEFINE t == turn[m][1]
           j == turn[m][2]
<1>6. UpInv(t, j, m, nodes) /\ ~Rises(t, j)
  <2>1. Rises(t, j) => j <= 0
    BY <1>5
  <2>2. j \in 0 .. m
    BY <1>5 DEF UpInv
  <2> QED
    BY <1>5, <2>1, <2>2 DEF Rises
<1>7. t = Heap!SiftUp(nodes, m)
  BY <1>1
<1> HIDE DEF t, j
<1>8. Heaped(t, m + 1)
  BY <1>0, <1>6 DEF UpInv, Rises, Heaped
<1> QED
  BY <1>6, <1>7, <1>8 DEF UpInv


(* On the way down only children of the lowered element may precede their  *)
(* parent, but not that one's, and the place behind the end holds one equal*)
(* to it.                                                                  *)
DownInv(nodes, n, total, s) ==
  /\ Filled(nodes, total) /\ n \in 0 .. total - 1 /\ Rearranged(s, nodes, total)
  /\ total < max_node_size /\ nodes[total] \in Items
  /\ nodes[total].priority = nodes[n].priority
  /\ \A i \in 1 .. total - 1 :
       Heap!parent(i) # n => ~Precedes(nodes[i], nodes[Heap!parent(i)])
  /\ \A i \in 1 .. total - 1 :
       Heap!parent(i) = n /\ n # 0 => ~Precedes(nodes[i], nodes[Heap!parent(n)])

(* The place behind the end is never the largest one's.                    *)
FirstChild(nodes, n, total, g) ==
  \/ g = n /\ \A i \in 1 .. total - 1 : Heap!parent(i) = n => ~Precedes(nodes[i], nodes[n])
  \/ /\ g \in 1 .. total - 1 /\ Heap!parent(g) = n
     /\ Precedes(nodes[g], nodes[n])
     /\ \A i \in 1 .. total - 1 : Heap!parent(i) = n => ~Precedes(nodes[i], nodes[g])

LEMMA LargestIsFirst ==
  ASSUME NEW nodes, NEW n, NEW total \in Nat, NEW s, DownInv(nodes, n, total, s)
  PROVE  FirstChild(nodes, n, total, Heap!Largest(nodes, total, n))
<1> DEFINE l == 2 * n + 1
           r == 2 * n + 2
           left == Heap!Larger(nodes, total, l, n)
           largest == Heap!Larger(nodes, total, r, left)
<1>1. /\ n \in Nat /\ n < total /\ l \in Nat /\ r \in Nat /\ l # 0 /\ r # 0
      /\ n < l /\ n < r /\ l # r
  BY DEF DownInv
<1>2. /\ \A i \in 0 .. total : nodes[i] \in Items
      /\ nodes[total].priority = nodes[n].priority
  BY DEF DownInv, Filled
<1>3. \A i \in 1 .. total - 1 : Heap!parent(i) = n <=> i = l \/ i = r
  BY <1>1, Family
<1>4. Heap!Largest(nodes, total, n) = largest
  BY DEF Heap!Largest, Heap!left_child, Heap!right_child
<1> HIDE DEF l, r
<1>5. \A c, g : Heap!Larger(nodes, total, c, g) =
                  IF c <= total /\ Precedes(nodes[c], nodes[g]) THEN c ELSE g
  BY DEF Heap!Larger, Precedes
(* What takes a child's place beside n is not the copy behind the end.     *)
<1>6. ~Precedes(nodes[total], nodes[n])
  BY <1>1, <1>2, Order
<1>7. CASE l < total /\ Precedes(nodes[l], nodes[n])
  <2>1. left = l
    BY <1>1, <1>5, <1>7
  <2>2. l \in 1 .. total - 1 /\ l \in 0 .. total /\ n \in 0 .. total
    BY <1>1, <1>7
  <2>3. CASE r <= total /\ Precedes(nodes[r], nodes[l])
    <3>1. r \in 0 .. total /\ largest = r
      BY <1>1, <1>5, <2>1, <2>3
    <3>2. Precedes(nodes[r], nodes[n])
      BY <1>2, <1>7, <2>2, <2>3, <3>1, Order
    <3>3. r \in 1 .. total - 1
      BY <1>1, <1>6, <3>1, <3>2
    <3>4. ~Precedes(nodes[l], nodes[r]) /\ ~Precedes(nodes[r], nodes[r])
      BY <1>2, <2>2, <2>3, <3>1, Order
    <3>5. \A i \in 1 .. total - 1 : Heap!parent(i) = n => ~Precedes(nodes[i], nodes[r])
      BY <1>3, <3>4
    <3> QED
      BY <1>3, <1>4, <3>1, <3>2, <3>3, <3>5 DEF FirstChild
  <2>4. CASE ~(r <= total /\ Precedes(nodes[r], nodes[l]))
    <3>1. largest = l
      BY <1>5, <2>1, <2>4
    <3>2. ~Precedes(nodes[l], nodes[l])
      BY <1>2, <2>2, Order
    <3>3. \A i \in 1 .. total - 1 : i = r => ~Precedes(nodes[i], nodes[l])
      BY <1>1, <2>4
    <3>4. \A i \in 1 .. total - 1 : Heap!parent(i) = n => ~Precedes(nodes[i], nodes[l])
      BY <1>3, <3>2, <3>3
    <3> QED
      BY <1>3, <1>4, <1>7, <2>2, <3>1, <3>4 DEF FirstChild
  <2> QED
    BY <2>3, <2>4
<1>8. CASE ~(l < total /\ Precedes(nodes[l], nodes[n]))
  <2>1. left = n
    <3>1. ~(l <= total /\ Precedes(nodes[l], nodes[n]))
      BY <1>1, <1>6, <1>8
    <3> QED
      BY <1>5, <3>1
  <2>2. \A i \in 1 .. total - 1 : i = l => ~Precedes(nodes[i], nodes[n])
    BY <1>1, <1>8
  <2>3. CASE r < total /\ Precedes(nodes[r], nodes[n])
    <3>1. largest = r /\ r \in 1 .. total - 1 /\ r \in 0 .. total /\ n \in 0 .. total
      BY <1>1, <1>5, <2>1, <2>3
    <3>2. ~Precedes(nodes[r], nodes[r]) /\ ~Precedes(nodes[n], nodes[r])
      BY <1>2, <2>3, <3>1, Order
    <3>3. \A i \in 1 .. total - 1 : i = l => ~Precedes(nodes[i], nodes[r])
      <4> SUFFICES ASSUME NEW i \in 1 .. total - 1, i = l PROVE ~Precedes(nodes[i], nodes[r])
        OBVIOUS
      <4>1. ~Precedes(nodes[i], nodes[n]) /\ i \in 0 .. total
        BY <2>2
      <4> QED
        BY <1>2, <3>1, <3>2, <4>1, Order
    <3>4. \A i \in 1 .. total - 1 : Heap!parent(i) = n => ~Precedes(nodes[i], nodes[r])
      BY <1>3, <3>2, <3>3
    <3> QED
      BY <1>3, <1>4, <2>3, <3>1, <3>4 DEF FirstChild
  <2>4. CASE ~(r < total /\ Precedes(nodes[r], nodes[n]))
    <3>1. ~(r <= total /\ Precedes(nodes[r], nodes[n]))
      BY <1>1, <1>6, <2>4
    <3>2. largest = n
      BY <1>5, <2>1, <3>1
    <3>3. \A i \in 1 .. total - 1 : i = r => ~Precedes(nodes[i], nodes[n])
      BY <1>1, <2>4
    <3>4. \A i \in 1 .. total - 1 : Heap!parent(i) = n => ~Precedes(nodes[i], nodes[n])
      BY <1>3, <2>2, <3>3
    <3> QED
      BY <1>4, <3>2, <3>4 DEF FirstChild
  <2> QED
    BY <2>3, <2>4
<1> QED
  BY <1>7, <1>8

LEMMA DownStep ==
  ASSUME NEW nodes, NEW n, NEW total \in Nat, NEW s, DownInv(nodes, n, total, s),
         NEW g, g # n, FirstChild(nodes, n, total, g)
  PROVE  n < g /\ DownInv(Heap!swap(nodes, n, g), g, total, s)
<1> DEFINE t == Heap!swap(nodes, n, g)
           Up(i) == Heap!parent(i)
<1>1. /\ n \in 0 .. total - 1 /\ g \in 1 .. total - 1 /\ Up(g) = n
      /\ Precedes(nodes[g], nodes[n])
      /\ \A i \in 1 .. total - 1 : Up(i) = n => ~Precedes(nodes[i], nodes[g])
  BY DEF DownInv, FirstChild
<1>2. \A i \in 1 .. total - 1 : Up(i) \in 0 .. total - 1 /\ Up(i) < i
  BY Family
<1>3. /\ Filled(nodes, total) /\ \A i \in 0 .. total : nodes[i] \in Items
      /\ total < max_node_size
      /\ nodes[total].priority = nodes[n].priority
      /\ \A i \in 1 .. total - 1 : Up(i) # n => ~Precedes(nodes[i], nodes[Up(i)])
      /\ \A i \in 1 .. total - 1 : Up(i) = n /\ n # 0 => ~Precedes(nodes[i], nodes[Up(n)])
  BY DEF DownInv, Filled
<1> HIDE DEF Up
<1>4. Swapped(nodes, t, n, g, total)
  <2>1. g \in 0 .. total - 1
    BY <1>1
  <2> QED
    BY <1>1, <1>3, <2>1, SwapRearranges
<1> HIDE DEF t
<1>5. /\ Filled(t, total) /\ Rearranged(nodes, t, total)
      /\ t[n] = nodes[g] /\ t[g] = nodes[n]
      /\ \A k \in 0 .. total : k # n /\ k # g => t[k] = nodes[k]
  <2>1. 0 .. total \subseteq 0 .. max_node_size - 1
    BY <1>3, SizeAssumption
  <2> QED
    BY <1>4, <2>1 DEF Swapped
<1>6. n < g
  BY <1>1, <1>2
<1>7. t[total] \in Items /\ t[total].priority = t[g].priority
  <2>1. total \in 0 .. total /\ total # n /\ total # g
    BY <1>1
  <2> QED
    BY <1>3, <1>5, <2>1
<1>8. ASSUME NEW i \in 1 .. total - 1, Up(i) # g PROVE ~Precedes(t[i], t[Up(i)])
  <2>0. /\ i \in 0 .. total /\ Up(i) \in 0 .. total /\ Up(i) # i /\ Up(i) < i
        /\ nodes[i] \in Items /\ nodes[n] \in Items /\ nodes[g] \in Items
        /\ g \in 0 .. total /\ n \in 0 .. total
    BY <1>1, <1>2, <1>3
  <2>1. CASE i = g
    BY <1>1, <1>5, <2>0, <2>1, Order
  <2>2. CASE i = n
    <3>1. n # 0 /\ ~Precedes(nodes[g], nodes[Up(n)])
      BY <1>1, <1>3, <2>2
    <3>2. t[Up(n)] = nodes[Up(n)]
      BY <1>5, <1>8, <2>0, <2>2
    <3> QED
      BY <1>5, <2>2, <3>1, <3>2
  <2>3. CASE i # g /\ i # n /\ Up(i) = n
    BY <1>1, <1>5, <2>0, <2>3
  <2>4. CASE i # g /\ i # n /\ Up(i) # n
    BY <1>3, <1>5, <1>8, <2>0, <2>4
  <2> QED
    BY <2>1, <2>2, <2>3, <2>4
<1>9. ASSUME NEW i \in 1 .. total - 1, Up(i) = g PROVE ~Precedes(t[i], t[Up(g)])
  <2>1. i \in 0 .. total /\ i # g /\ i # n
    BY <1>1, <1>2, <1>6, <1>9
  <2>2. ~Precedes(nodes[i], nodes[g])
    BY <1>3, <1>6, <1>9, <1>1
  <2> QED
    BY <1>1, <1>5, <2>1, <2>2
<1>10. Rearranged(s, t, total)
  BY <1>5 DEF DownInv, Rearranged
<1>11. g \in 0 .. total - 1
  BY <1>1
<1>12. DownInv(t, g, total, s)
  BY <1>3, <1>5, <1>7, <1>8, <1>9, <1>10, <1>11 DEF DownInv, Up
<1> QED
  BY <1>6, <1>12 DEF t


LEMMA LargerIsOneOfThem ==
  ASSUME NEW nodes, NEW total, NEW c, NEW g
  PROVE  LET larger == Heap!Larger(nodes, total, c, g)
         IN  larger = g \/ (larger = c /\ c <= total)
BY DEF Heap!Larger

(* The calls, one after the other.                                         *)
LEMMA HeapifyLoop ==
  ASSUME NEW nodes \in Memory, NEW total \in 0 .. max_node_size - 1
  PROVE  \E turn \in [0 .. total -> Memory \X (0 .. max_node_size - 1)] :
           /\ turn[0] = <<nodes, 0>>
           /\ \A k \in 1 .. total : turn[k] = Heap!Lowered(turn[k - 1], total)
           /\ Heap!max_heapify(nodes, total, 0) = turn[total][1]
<1> DEFINE D == Memory \X (0 .. max_node_size - 1)
           start == <<nodes, 0>>
           step == [p \in Nat \X D |-> Heap!Lowered(p[2], total)]
           Loop(turn) == turn = [k \in 0 .. total |-> IF k = 0 THEN start
                                                      ELSE Heap!Lowered(turn[k - 1], total)]
<1>0. total \in Nat /\ 0 \in 0 .. max_node_size - 1
  BY SizeAssumption
<1>1. start \in D
  BY <1>0
<1>2. ASSUME NEW a \in D PROVE Heap!Lowered(a, total) \in D
  <2> DEFINE n == a[1]
             j == a[2]
             g == Heap!Largest(n, total, j)
  <2>1. n \in Memory /\ j \in 0 .. max_node_size - 1
    OBVIOUS
  <2>2. g \in 0 .. max_node_size - 1
    <3>1. /\ 2 * j + 1 \in Nat /\ 2 * j + 2 \in Nat
          /\ \A c \in Nat : c <= total => c \in 0 .. max_node_size - 1
      BY <1>0, <2>1, SizeAssumption
    <3> DEFINE l == 2 * j + 1
               r == 2 * j + 2
               left == Heap!Larger(n, total, l, j)
    <3>2. g = Heap!Larger(n, total, r, left)
      BY DEF Heap!Largest, Heap!left_child, Heap!right_child
    <3>3. left = j \/ (left = l /\ l <= total)
      BY LargerIsOneOfThem
    <3>4. g = left \/ (g = r /\ r <= total)
      BY <3>2, LargerIsOneOfThem
    <3> HIDE DEF g, left, l, r
    <3> QED
      BY <2>1, <3>1, <3>3, <3>4 DEF l, r
  <2>3. CASE g # j
    <3>1. Heap!swap(n, j, g) \in Memory
      BY <2>1, <2>2, SwapPlaces
    <3>2. Heap!Lowered(a, total) = <<Heap!swap(n, j, g), g>>
      BY <2>3 DEF Heap!Lowered
    <3> QED
      BY <2>2, <3>1, <3>2
  <2>4. CASE g = j
    <3>1. Heap!Lowered(a, total) = a
      BY <2>4 DEF Heap!Lowered
    <3> QED
      BY <3>1
  <2> QED
    BY <2>3, <2>4
<1>3. \A a \in D : Heap!Lowered(a, total) \in D
  BY <1>2
<1> HIDE DEF D, start
<1>4. step \in [Nat \X D -> D]
  BY <1>3
<1>5. \A n \in Nat, a \in D : step[<<n, a>>] = Heap!Lowered(a, total)
  OBVIOUS
<1> HIDE DEF step
<1>6. PICK f : IsLoop(f, D, start, step, total)
  BY <1>0, <1>1, <1>4, StepByStep
<1>7. Loop(f)
  <2>1. \A n \in 1 .. total : n \in Nat /\ f[n - 1] \in D /\ f[n] = step[<<n, f[n - 1]>>]
    BY <1>0, <1>6 DEF IsLoop
  <2>2. \A n \in 1 .. total : f[n] = Heap!Lowered(f[n - 1], total)
    BY <1>5, <2>1
  <2>3. \A n \in 0 .. total : n = 0 \/ n \in 1 .. total
    BY <1>0
  <2>4. \A n \in 0 .. total : f[n] = IF n = 0 THEN start ELSE Heap!Lowered(f[n - 1], total)
    BY <1>0, <1>6, <2>2, <2>3 DEF IsLoop
  <2>5. f = [n \in 0 .. total |-> f[n]]
    BY <1>6 DEF IsLoop
  <2> QED
    BY <2>4, <2>5
<1> DEFINE turn == CHOOSE g : Loop(g)
<1>8. Loop(turn)
  <2> HIDE DEF Loop
  <2> QED
    BY <1>7
<1>9. Heap!max_heapify(nodes, total, 0) = turn[total][1]
  BY DEF Heap!max_heapify, start
<1> HIDE DEF turn
<1>10. /\ turn[0] = start /\ turn = [k \in 0 .. total |-> turn[k]]
       /\ \A k \in 1 .. total : turn[k] = Heap!Lowered(turn[k - 1], total)
  BY <1>0, <1>8
<1>11. \A k \in 0 .. total : turn[k] \in D
  <2> DEFINE S == {k \in 0 .. total : turn[k] \in D}
  <2>1. 0 \in S
    BY <1>0, <1>1, <1>10
  <2>2. ASSUME NEW n \in 1 .. total, n - 1 \in S PROVE n \in S
    <3>1. turn[n - 1] \in D /\ n \in 0 .. total
      BY <1>0, <2>2
    <3>2. turn[n] = Heap!Lowered(turn[n - 1], total)
      BY <1>10
    <3> QED
      BY <1>3, <3>1, <3>2
  <2> HIDE DEF S
  <2>3. \A n \in 0 .. total : n \in S
    BY <1>0, <2>1, <2>2, EveryStep
  <2> QED
    BY <2>3 DEF S
<1>12. turn \in [0 .. total -> D]
  BY <1>10, <1>11
<1> QED
  BY <1>9, <1>10, <1>12 DEF D, start

(* What they make of a heap whose first element was replaced by the one    *)
(* behind its end is a heap.                                               *)
LEMMA HeapifyHeaps ==
  ASSUME NEW nodes \in Memory, NEW total \in 0 .. max_node_size - 1, Filled(nodes, total),
         nodes[total] \in Items, nodes[total] = nodes[0],
         \A i \in 1 .. total - 1 :
           Heap!parent(i) # 0 => ~Precedes(nodes[i], nodes[Heap!parent(i)])
  PROVE  LET t == Heap!max_heapify(nodes, total, 0)
         IN  Filled(t, total) /\ Heaped(t, total) /\ Rearranged(nodes, t, total)
<1>0. total \in Nat /\ total < max_node_size
  BY SizeAssumption
<1>1. PICK turn \in [0 .. total -> Memory \X (0 .. max_node_size - 1)] :
        /\ turn[0] = <<nodes, 0>>
        /\ \A k \in 1 .. total : turn[k] = Heap!Lowered(turn[k - 1], total)
        /\ Heap!max_heapify(nodes, total, 0) = turn[total][1]
  BY HeapifyLoop
<1>2. CASE total = 0
  <2>1. Heap!max_heapify(nodes, total, 0) = nodes
    BY <1>1, <1>2
  <2>2. Heaped(nodes, total) /\ Rearranged(nodes, nodes, total)
    BY <1>2 DEF Heaped, Rearranged
  <2> QED
    BY <2>1, <2>2
<1>3. CASE total # 0
  <2> DEFINE Sinks(n, j) == Heap!Largest(n, total, j) # j
             Good(k) == /\ DownInv(turn[k][1], turn[k][2], total, nodes)
                        /\ Sinks(turn[k][1], turn[k][2]) => turn[k][2] >= k
             S == {k \in 0 .. total : Good(k)}
  <2>1. 0 \in S
    <3>1. turn[0][1] = nodes /\ turn[0][2] = 0 /\ 0 \in 0 .. total - 1 /\ 0 \in 0 .. total
      BY <1>0, <1>1, <1>3
    <3>2. DownInv(nodes, 0, total, nodes)
      BY <1>0, <3>1 DEF DownInv, Rearranged
    <3> QED
      BY <3>1, <3>2
  <2>2. ASSUME NEW k \in 1 .. total, k - 1 \in S PROVE k \in S
    <3> DEFINE n == turn[k - 1][1]
               j == turn[k - 1][2]
               g == Heap!Largest(n, total, j)
               t == Heap!swap(n, j, g)
    <3>1. /\ DownInv(n, j, total, nodes) /\ (g # j => j >= k - 1)
          /\ turn[k - 1] = <<n, j>> /\ k \in 0 .. total
      BY <1>0, <1>1, <2>2
    <3>2. turn[k] = Heap!Lowered(<<n, j>>, total)
      BY <1>1, <3>1
    <3>3. turn[k] = IF g # j THEN <<t, g>> ELSE <<n, j>>
      BY <3>2 DEF Heap!Lowered
    <3> HIDE DEF n, j, g, t
    <3>4. CASE g # j
      <4>1. j < g /\ DownInv(t, g, total, nodes)
        <5>1. FirstChild(n, j, total, g)
          BY <1>0, <3>1, LargestIsFirst DEF g
        <5> QED
          BY <1>0, <3>1, <3>4, <5>1, DownStep DEF t
      <4>2. j \in Nat /\ g \in Nat
        BY <3>1, <4>1 DEF DownInv
      <4>3. turn[k][1] = t /\ turn[k][2] = g /\ g >= k
        BY <3>1, <3>3, <3>4, <4>1, <4>2
      <4> QED
        BY <3>1, <4>1, <4>3
    <3>5. CASE g = j
      <4>1. turn[k][1] = n /\ turn[k][2] = j
        BY <3>3, <3>5
      <4> QED
        BY <3>1, <3>5, <4>1 DEF g
    <3> QED
      BY <3>4, <3>5
  <2> HIDE DEF S
  <2>3. \A k \in 0 .. total : k \in S
    BY <1>0, <2>1, <2>2, EveryStep
  <2>4. Good(total)
    BY <1>0, <2>3 DEF S
  <2> DEFINE t == turn[total][1]
             j == turn[total][2]
  <2>5. DownInv(t, j, total, nodes) /\ Heap!Largest(t, total, j) = j
    <3>1. j \in 0 .. total - 1
      BY <2>4 DEF DownInv
    <3>2. ~(j >= total)
      BY <1>0, <3>1
    <3> QED
      BY <2>4, <3>2
  <2>6. t = Heap!max_heapify(nodes, total, 0)
    BY <1>1
  <2> HIDE DEF t, j
  <2>7. FirstChild(t, j, total, j)
    BY <1>0, <2>5, LargestIsFirst
  <2>8. \A i \in 1 .. total - 1 : Heap!parent(i) = j => ~Precedes(t[i], t[j])
    <3>1. \A i \in 1 .. total - 1 : Heap!parent(i) < i
      BY Family
    <3> QED
      BY <1>0, <2>7, <3>1 DEF FirstChild
  <2>9. Heaped(t, total)
    BY <2>5, <2>8 DEF DownInv, Heaped
  <2> QED
    BY <2>5, <2>6, <2>9 DEF DownInv
<1> QED
  BY <1>2, <1>3


-----------------------------------------------------------------------------
(* What the heap is mapped to.                                             *)
LEMMA HeapContents ==
  /\ Heap!Contents = BagOn(node_list, 0 .. total_nodes - 1)
  /\ Heap!Contents' = BagOn(node_list', 0 .. total_nodes' - 1)
<1>1. \A A : Heap!Cardinality(A) = Cardinality(A)
  BY DEF Heap!Cardinality, Cardinality
<1>2. Heap!Contents = BagOn(node_list, 0 .. total_nodes - 1)
  BY <1>1 DEF Heap!Contents, Heap!Used, BagOn, Places
<1>3. Heap!Contents' = BagOn(node_list', 0 .. total_nodes' - 1)
  BY <1>1 DEF Heap!Contents, Heap!Used, BagOn, Places
<1> QED
  BY <1>2, <1>3

(* The same elements in another order are the same bag.                    *)
LEMMA SameBag ==
  ASSUME NEW s, NEW t, NEW n \in Nat, Rearranged(s, t, n)
  PROVE  BagOn(t, 0 .. n - 1) = BagOn(s, 0 .. n - 1)
<1> DEFINE D == 0 .. n - 1
           A == {s[i] : i \in D}
           B == {t[i] : i \in D}
           CA(x) == Cardinality(Places(s, D, x))
           CB(x) == Cardinality(Places(t, D, x))
<1>1. IsFiniteSet(D)
  BY FS_Interval
<1>2. \A x : CA(x) = 0 <=> x \notin A
  <2>1. \A x : Places(s, D, x) = {} <=> x \notin A
    BY DEF Places
  <2> HIDE DEF D, A
  <2> QED
    BY <1>1, <2>1, PlacesOn
<1>3. \A x : CB(x) = 0 <=> x \notin B
  <2>1. \A x : Places(t, D, x) = {} <=> x \notin B
    BY DEF Places
  <2> HIDE DEF D, B
  <2> QED
    BY <1>1, <2>1, PlacesOn
<1>4. \A x : CB(x) = CA(x)
  BY DEF Rearranged
<1>5. BagOn(s, D) = [x \in A |-> CA(x)] /\ BagOn(t, D) = [x \in B |-> CB(x)]
  BY DEF BagOn
<1> HIDE DEF D, A, B, CA, CB
<1>6. A = B
  BY <1>2, <1>3, <1>4
<1>7. BagOn(s, D) = BagOn(t, D)
  BY <1>4, <1>5, <1>6
<1> QED
  BY <1>7 DEF D

(* One element more behind the end is one more in the bag.                 *)
Longer(s, t, n, e) ==
  /\ BagOn(t, 0 .. n) = ListQueue!BagAdd(BagOn(s, 0 .. n - 1), e)
  /\ BagOn(s, 0 .. n - 1) = ListQueue!BagRemove(BagOn(t, 0 .. n), e)
  /\ e \in DOMAIN BagOn(t, 0 .. n)

LEMMA OneBehind ==
  ASSUME NEW s, NEW t, NEW n \in Nat, NEW e,
         \A i \in 0 .. n - 1 : t[i] = s[i], t[n] = e
  PROVE  Longer(s, t, n, e)
<1>1. IsFiniteSet(0 .. n - 1) /\ IsFiniteSet(0 .. n)
  BY FS_Interval
<1>2. \A i \in 0 .. n : i \in 0 .. n - 1 \/ i = n
  OBVIOUS
<1>3. n \in 0 .. n /\ n \notin 0 .. n - 1 /\ 0 .. n - 1 \subseteq 0 .. n
  OBVIOUS
<1> DEFINE D == 0 .. n - 1
           E == 0 .. n
<1> HIDE DEF D, E
<1>4. ASSUME NEW x
      PROVE  Cardinality(Places(t, E, x)) = IF x = e THEN Cardinality(Places(s, D, x)) + 1
                                            ELSE Cardinality(Places(s, D, x))
  <2>1. Places(t, E, x) = Places(s, D, x) \cup (IF x = e THEN {n} ELSE {})
    BY <1>2, <1>3 DEF Places, D, E
  <2>2. n \notin Places(s, D, x)
    BY <1>3 DEF Places, D
  <2>3. IsFiniteSet(Places(s, D, x))
    BY <1>1, PlacesOn DEF D
  <2>4. CASE x = e
    <3>1. Places(t, E, x) = Places(s, D, x) \cup {n}
      BY <2>1, <2>4
    <3> QED
      BY <2>2, <2>3, <2>4, <3>1, FS_AddElement
  <2>5. CASE x # e
    BY <2>1, <2>5
  <2> QED
    BY <2>4, <2>5
<1> QED
  BY <1>1, <1>4, OneMore DEF D, E, Longer

LEMMA SameBagOperators ==
  /\ \A b, e : HeapQueue!BagAdd(b, e) = ListQueue!BagAdd(b, e)
  /\ \A b, e : HeapQueue!BagRemove(b, e) = ListQueue!BagRemove(b, e)
BY DEF HeapQueue!BagAdd, ListQueue!BagAdd, HeapQueue!BagRemove, ListQueue!BagRemove

(* An insert keeps the heap in order and adds the item to its bag.         *)
LEMMA HeapInsert ==
  ASSUME HeapInv, NEW item \in Items, Heap!insert(item)
  PROVE  HeapInv' /\ HeapQueue!Insert(item)
<1> DEFINE n == total_nodes
           start == [node_list EXCEPT ![n] = item]
           t == Heap!SiftUp(start, n)
<1>1. /\ n < max_node_size /\ n' = n + 1 /\ node_list' = t /\ heap_popped' = heap_popped
      /\ Filled(node_list, n) /\ Heaped(node_list, n)
  BY DEF Heap!insert, HeapInv
<1>2. /\ node_list \in Memory /\ n \in Nat /\ n \in 0 .. max_node_size - 1
      /\ n + 1 \in 0 .. max_node_size /\ (n + 1) - 1 = n
      /\ \A i \in 0 .. n - 1 : node_list[i] \in Items
  BY <1>1, SizeAssumption DEF Filled
<1>3. /\ start \in Memory /\ start[n] = item
      /\ \A i \in 0 .. n - 1 : start[i] = node_list[i]
  BY <1>2 DEF Memory
<1> HIDE DEF start
<1>4. Filled(start, n + 1)
  <2>1. \A i \in 0 .. n : start[i] \in Items
    BY <1>2, <1>3
  <2> QED
    BY <1>2, <1>3, <2>1 DEF Filled
<1>5. Heaped(start, n)
  <2>1. \A i \in 1 .. n - 1 : i \in 0 .. n - 1 /\ Heap!parent(i) \in 0 .. n - 1
    BY <1>2, Family
  <2> QED
    BY <1>1, <1>3, <2>1 DEF Heaped
<1>6. Filled(t, n + 1) /\ Heaped(t, n + 1) /\ Rearranged(start, t, n + 1)
  BY <1>2, <1>4, <1>5, SiftUpHeaps
<1> HIDE DEF t
<1>7. HeapInv'
  BY <1>1, <1>6 DEF HeapInv
<1>8. BagOn(t, 0 .. n) = BagOn(start, 0 .. n)
  <2>1. n + 1 \in Nat
    BY <1>2
  <2>2. BagOn(t, 0 .. (n + 1) - 1) = BagOn(start, 0 .. (n + 1) - 1)
    BY <1>6, <2>1, SameBag
  <2> QED
    BY <1>2, <2>2
<1> HIDE DEF n
<1>9. BagOn(start, 0 .. n) = ListQueue!BagAdd(BagOn(node_list, 0 .. n - 1), item)
  <2>1. n \in Nat /\ start[n] = item
    BY <1>2, <1>3
  <2>2. \A i \in 0 .. n - 1 : start[i] = node_list[i]
    BY <1>3
  <2>3. Longer(node_list, start, n, item)
    BY <2>1, <2>2, OneBehind
  <2> QED
    BY <2>3 DEF Longer
<1>10. Heap!Contents' = HeapQueue!BagAdd(Heap!Contents, item)
  BY <1>1, <1>2, <1>8, <1>9, HeapContents, SameBagOperators DEF n
<1> QED
  BY <1>1, <1>7, <1>10 DEF HeapQueue!Insert

(* A pop keeps the heap in order and takes from its bag an item that no    *)
(* other one precedes.                                                     *)
LEMMA HeapPop ==
  ASSUME HeapInv, Heap!pop
  PROVE  HeapInv' /\ \E item \in Items : HeapQueue!Pop(item)
<1> DEFINE last == total_nodes - 1
           item == node_list[0]
           start == [node_list EXCEPT ![0] = node_list[last]]
           swapped == Heap!swap(node_list, 0, last)
           t == Heap!max_heapify(start, last, 0)
<1>1. /\ total_nodes > 0 /\ total_nodes' = last /\ node_list' = t /\ heap_popped' = item.ptr
      /\ Filled(node_list, total_nodes) /\ Heaped(node_list, total_nodes)
  BY DEF Heap!pop, HeapInv
<1>2. /\ node_list \in Memory /\ total_nodes \in Nat /\ last \in Nat
      /\ last \in 0 .. max_node_size - 1 /\ last \in 0 .. max_node_size
      /\ last + 1 = total_nodes /\ 0 \in 0 .. last /\ last \in 0 .. last
      /\ 0 \in 0 .. max_node_size - 1
      /\ \A i \in 0 .. last : node_list[i] \in Items
  BY <1>1, SizeAssumption DEF Filled
<1>3. /\ start \in Memory /\ start[0] = node_list[last] /\ start[last] = node_list[last]
      /\ \A i \in 1 .. last : start[i] = node_list[i]
  BY <1>2 DEF Memory
<1> HIDE DEF start
<1>4. Swapped(node_list, swapped, 0, last, total_nodes)
  BY <1>1, <1>2, SwapRearranges
<1> HIDE DEF swapped, t, item, last
<1>5. /\ swapped[last] = item
      /\ \A i \in 0 .. last - 1 : start[i] = swapped[i]
  <2>1. /\ swapped[0] = node_list[last] /\ swapped[last] = node_list[0]
        /\ \A k \in 1 .. last - 1 : swapped[k] = node_list[k]
    <3>1. \A k \in 1 .. last - 1 : k \in 0 .. max_node_size - 1 /\ k # 0 /\ k # last
      BY <1>2, SizeAssumption
    <3> QED
      BY <1>4, <3>1 DEF Swapped
  <2>2. \A i \in 0 .. last - 1 : i = 0 \/ (i \in 1 .. last - 1 /\ i \in 1 .. last)
    BY <1>2
  <2> QED
    BY <1>3, <2>1, <2>2 DEF item
<1>6. Filled(start, last)
  <2>1. \A i \in 0 .. last - 1 : start[i] \in Items
    <3>1. \A i \in 0 .. last - 1 : i = 0 \/ (i \in 1 .. last /\ i \in 0 .. last)
      BY <1>2
    <3> QED
      BY <1>2, <1>3, <3>1
  <2> QED
    BY <1>2, <1>3, <2>1 DEF Filled
<1>7. ASSUME NEW i \in 1 .. last - 1, Heap!parent(i) # 0
      PROVE  ~Precedes(start[i], start[Heap!parent(i)])
  <2>1. /\ i \in 1 .. last /\ i \in 1 .. total_nodes - 1
        /\ Heap!parent(i) \in 1 .. last
    BY <1>2, <1>7, Family
  <2>2. ~Precedes(node_list[i], node_list[Heap!parent(i)])
    BY <1>1, <2>1 DEF Heaped
  <2> QED
    BY <1>3, <2>1, <2>2
<1>8. Filled(t, last) /\ Heaped(t, last) /\ Rearranged(start, t, last)
  <2>1. start[last] \in Items /\ start[last] = start[0]
    BY <1>2, <1>3
  <2> QED
    BY <1>2, <1>3, <1>6, <1>7, <2>1, HeapifyHeaps DEF t
<1>9. HeapInv'
  BY <1>1, <1>8 DEF HeapInv
<1>10. /\ BagOn(t, 0 .. last - 1) = BagOn(start, 0 .. last - 1)
       /\ BagOn(swapped, 0 .. total_nodes - 1) = BagOn(node_list, 0 .. total_nodes - 1)
  <2>1. Rearranged(node_list, swapped, total_nodes)
    BY <1>4 DEF Swapped
  <2> QED
    BY <1>2, <1>8, <2>1, SameBag
<1>11. /\ BagOn(start, 0 .. last - 1) = ListQueue!BagRemove(BagOn(swapped, 0 .. last), item)
       /\ item \in DOMAIN BagOn(swapped, 0 .. last)
  <2>1. Longer(start, swapped, last, item)
    BY <1>2, <1>5, OneBehind
  <2> QED
    BY <2>1 DEF Longer
<1>12. total_nodes - 1 = last
  BY <1>2
<1>13. /\ Heap!Contents' = HeapQueue!BagRemove(Heap!Contents, item)
       /\ item \in DOMAIN Heap!Contents
  BY <1>1, <1>10, <1>11, <1>12, HeapContents, SameBagOperators
<1>14. \A other \in DOMAIN Heap!Contents : other.priority <= item.priority
  <2>1. DOMAIN Heap!Contents = {node_list[i] : i \in 0 .. last}
    BY <1>12, HeapContents DEF BagOn
  <2>2. \A i \in 0 .. last : ~Precedes(node_list[i], item)
    BY <1>1, <1>12, RootIsFirst DEF item
  <2>3. \A i \in 0 .. last : node_list[i].priority \in Int
    BY <1>2, PrioritiesAssumption DEF Items
  <2>4. item.priority \in Int
    BY <1>2, <2>3 DEF item
  <2>5. \A i \in 0 .. last : node_list[i].priority <= item.priority
    BY <2>2, <2>3, <2>4 DEF Precedes
  <2> QED
    BY <2>1, <2>5
<1>15. item \in Items
  BY <1>2 DEF item
<1>16. HeapQueue!Pop(item)
  BY <1>1, <1>13, <1>14 DEF HeapQueue!Pop
<1> QED
  BY <1>9, <1>15, <1>16

LEMMA HeapStep ==
  HeapInv /\ [Heap!Next]_Heap!vars
    => HeapInv' /\ [HeapQueue!Next]_(HeapQueue!vars)
<1> SUFFICES ASSUME HeapInv, [Heap!Next]_Heap!vars
             PROVE  HeapInv' /\ [HeapQueue!Next]_(HeapQueue!vars)
  OBVIOUS
<1>1. ASSUME total_nodes = 0, total_nodes' = 0
      PROVE  Heap!Contents' = Heap!Contents
  <2>1. 0 .. total_nodes - 1 = {} /\ 0 .. total_nodes' - 1 = {}
    BY <1>1
  <2> QED
    BY <2>1, HeapContents DEF BagOn
<1>2. CASE Heap!init_priority_queue
  <2>1. /\ node_list' = [i \in 0 .. max_node_size - 1 |-> GARBAGE]
        /\ total_nodes' = total_nodes /\ heap_popped' = heap_popped
    BY <1>2 DEF Heap!init_priority_queue
  <2>2. CASE total_nodes = 0
    <3>1. Filled(node_list', 0) /\ Heaped(node_list', 0)
      BY <2>1, SizeAssumption DEF Filled, Heaped, Memory
    <3> QED
      BY <1>1, <2>1, <2>2, <3>1 DEF HeapInv, HeapQueue!vars
  <2>3. CASE total_nodes # 0
    BY <1>2, <2>3, BlankAssumption DEF HeapInv, Heap!init_priority_queue, Filled, Memory
  <2> QED
    BY <2>2, <2>3
<1>3. CASE Heap!deinit
  BY <1>1, <1>3 DEF Heap!deinit, HeapInv, HeapQueue!vars
<1>4. CASE Heap!insert_full \/ UNCHANGED Heap!vars
  <2>1. node_list' = node_list /\ total_nodes' = total_nodes /\ heap_popped' = heap_popped
    BY <1>4 DEF Heap!insert_full, Heap!vars
  <2>2. Heap!Contents' = Heap!Contents
    BY <2>1, HeapContents
  <2> QED
    BY <2>1, <2>2 DEF HeapInv, HeapQueue!vars
<1>5. CASE Heap!pop
  BY <1>5, HeapPop DEF HeapQueue!Next
<1>6. CASE \E item \in Items : Heap!insert(item)
  BY <1>6, HeapInsert DEF HeapQueue!Next
<1> QED
  BY <1>2, <1>3, <1>4, <1>5, <1>6 DEF Heap!Next

(* The heap is a priority queue, whatever its size: what is popped is an   *)
(* element no other one precedes, and nothing inserted is lost.            *)
THEOREM HeapIsPriorityQueue == Heap!Spec => HeapQueue!Spec
<1>1. Heap!Init => HeapInv /\ HeapQueue!Init
  <2> SUFFICES ASSUME Heap!Init PROVE HeapInv /\ HeapQueue!Init
    OBVIOUS
  <2>1. 0 .. total_nodes - 1 = {}
    BY DEF Heap!Init
  <2>2. Heap!Contents = HeapQueue!Nothing
    BY <2>1, HeapContents DEF BagOn, HeapQueue!Nothing
  <2> QED
    BY <2>2 DEF Heap!Init, HeapInv, HeapQueue!Init
<1> QED
  BY <1>1, HeapStep, PTL DEF Heap!Spec, HeapQueue!Spec

(* Both priority queues keep what the abstract one promises.               *)
THEOREM QueuesKeepTheirPromise ==
  List!Spec /\ Heap!Spec => PriorityQueueImplemented
BY ListIsPriorityQueue, HeapIsPriorityQueue DEF PriorityQueueImplemented

-----------------------------------------------------------------------------
(* The copy loop, a character at a time.                                   *)
LEMMA CopyLoop ==
  ASSUME NEW len \in Nat, string_position \in Nat
  PROVE  \E at \in [0 .. len -> Nat \X SUBSET Nat] :
           /\ at[0] = <<string_position, {}>>
           /\ \A n \in 1 .. len : at[n] = String!Put(at[n - 1])
           /\ String!Copied(len) = at[len]
<1> DEFINE D == Nat \X SUBSET Nat
           start == <<string_position, {}>>
           step == [p \in Nat \X D |-> String!Put(p[2])]
           Loop(at) == at = [n \in 0 .. len |-> IF n = 0 THEN start
                                                ELSE String!Put(at[n - 1])]
<1>1. start \in D
  OBVIOUS
<1>2. \A a \in D : String!Put(a) \in D
  BY LengthAssumption DEF String!Put
<1> HIDE DEF D, start
<1>3. step \in [Nat \X D -> D]
  BY <1>2
<1>3a. \A n \in Nat, a \in D : step[<<n, a>>] = String!Put(a)
  OBVIOUS
<1> HIDE DEF step
<1>4. PICK f : IsLoop(f, D, start, step, len)
  BY <1>1, <1>3, StepByStep
<1>5. \A n \in 1 .. len : f[n] = String!Put(f[n - 1])
  <2>1. \A n \in 1 .. len : n \in Nat /\ f[n - 1] \in D
    BY <1>4 DEF IsLoop
  <2> QED
    BY <1>3a, <1>4, <2>1 DEF IsLoop
<1>6. Loop(f)
  <2>1. \A n \in 0 .. len : f[n] = IF n = 0 THEN start ELSE String!Put(f[n - 1])
    BY <1>4, <1>5 DEF IsLoop
  <2>2. f = [n \in 0 .. len |-> f[n]]
    BY <1>4 DEF IsLoop
  <2> QED
    BY <2>1, <2>2
<1> DEFINE at == CHOOSE g : Loop(g)
<1>7. Loop(at)
  <2> HIDE DEF Loop
  <2> QED
    BY <1>6
<1>8. String!Copied(len) = at[len]
  BY DEF String!Copied, start
<1> HIDE DEF at
<1>9. /\ at[0] = start
      /\ \A n \in 1 .. len : at[n] = String!Put(at[n - 1])
  BY <1>7
<1>9a. at = [n \in 0 .. len |-> at[n]]
  BY <1>7
<1>10. \A n \in 0 .. len : at[n] \in D
  <2> DEFINE S == {n \in 0 .. len : at[n] \in D}
  <2>1. 0 \in S
    BY <1>1, <1>9
  <2>2. \A n \in 1 .. len : n - 1 \in S => n \in S
    BY <1>2, <1>9
  <2> HIDE DEF S
  <2>3. \A n \in 0 .. len : n \in S
    BY <2>1, <2>2, EveryStep
  <2> QED
    BY <2>3 DEF S
<1>11. at \in [0 .. len -> D]
  BY <1>9a, <1>10
<1> QED
  BY <1>8, <1>9, <1>11 DEF D, start

(* The loop wraps at the end of the buffer, so inside it stays inside; from*)
(* beyond the end it never comes back.                                     *)
LEMMA CopyStays ==
  ASSUME NEW len \in Nat, string_position \in Nat
  PROVE  LET at == String!Copied(len)
         IN  /\ at[1] \in Nat /\ at[2] \in SUBSET Nat
             /\ IF string_position < buffer_length
                THEN at[1] < buffer_length /\ at[2] \subseteq 0 .. buffer_length - 1
                ELSE at[1] >= buffer_length
<1>1. PICK at \in [0 .. len -> Nat \X SUBSET Nat] :
        /\ at[0] = <<string_position, {}>>
        /\ \A n \in 1 .. len : at[n] = String!Put(at[n - 1])
        /\ String!Copied(len) = at[len]
  BY CopyLoop
<1> DEFINE Stays(a) ==
             IF string_position < buffer_length
             THEN a[1] < buffer_length /\ a[2] \subseteq 0 .. buffer_length - 1
             ELSE a[1] >= buffer_length
           S == {n \in 0 .. len : Stays(at[n])}
<1>2. 0 \in S
  <2>1. at[0][1] = string_position /\ at[0][2] = {}
    BY <1>1
  <2> QED
    BY <2>1, LengthAssumption
<1>3. ASSUME NEW n \in 1 .. len, n - 1 \in S PROVE n \in S
  <2>1. n - 1 \in 0 .. len /\ at[n - 1][1] \in Nat /\ at[n - 1][2] \in SUBSET Nat
    BY <1>1
  <2>2. /\ at[n][1] = IF at[n - 1][1] + 1 = buffer_length THEN 0 ELSE at[n - 1][1] + 1
        /\ at[n][2] = at[n - 1][2] \cup {at[n - 1][1]}
    BY <1>1 DEF String!Put
  <2>3. Stays(at[n - 1])
    BY <1>3
  <2>4. Stays(at[n])
    BY <2>1, <2>2, <2>3, LengthAssumption
  <2> QED
    BY <2>4
<1> HIDE DEF S
<1>4. \A n \in 0 .. len : n \in S
  BY <1>2, <1>3, EveryStep
<1>5. Stays(at[len]) /\ at[len] \in Nat \X SUBSET Nat
  BY <1>1, <1>4 DEF S
<1> QED
  BY <1>1, <1>5

(* The positions of a string and its NUL are inside the buffer exactly if  *)
(* the first one is, whatever was inserted before and however long it is.  *)
THEOREM StringsStayInside == String!Spec => InsertStaysInside
<1> DEFINE PositionInv == string_position \in Nat
           Inside == string_position < buffer_length
<1>1. String!Init => PositionInv
  BY DEF String!Init
<1>2. ASSUME PositionInv, NEW len \in 0 .. buffer_length + 1, String!insert(len)
      PROVE  /\ PositionInv'
             /\ string_written' \subseteq 0 .. buffer_length - 1 <=> Inside
  <2> DEFINE at == String!Copied(len)
  <2>1. len \in Nat
    BY LengthAssumption
  <2>2. /\ at[1] \in Nat /\ at[2] \in SUBSET Nat
        /\ IF Inside THEN at[1] < buffer_length /\ at[2] \subseteq 0 .. buffer_length - 1
           ELSE at[1] >= buffer_length
    BY <1>2, <2>1, CopyStays
  <2>3. string_written' = at[2] \cup {at[1]} /\ string_position' = at[1] + 1
    BY <1>2 DEF String!insert
  <2> HIDE DEF at
  <2> QED
    BY <2>2, <2>3, LengthAssumption
<1>3. PositionInv /\ [String!Next]_(String!vars) => PositionInv'
  BY <1>2 DEF String!Next, String!init, String!deinit, String!insert_refused, String!vars
<1>4. PositionInv /\ [String!Next]_(String!vars) =>
        [string_written' # string_written /\ string_written' # {} =>
          (string_written' \subseteq 0 .. buffer_length - 1 <=> Inside)]_(String!vars)
  BY <1>2 DEF String!Next, String!init, String!deinit, String!insert_refused, String!vars
<1> HIDE DEF PositionInv
<1> QED
  BY <1>1, <1>3, <1>4, PTL DEF String!Spec, InsertStaysInside, String!InsertStaysInside

-----------------------------------------------------------------------------
(* The allocator's blocks, and lists of them that go up through memory.    *)
Block == [addr : Nat, size : Nat, free : BOOLEAN]

Blocks == Seq(Block) \ {<<>>}

Rising(s) == \A i \in 1 .. Len(s) - 1 : Malloc!EndOf(s[i]) <= s[i + 1].addr

(* What size_t makes of a size is no more than the size.                   *)
LEMMA Wrapped ==
  ASSUME NEW n \in Nat
  PROVE  n % SIZE_MOD \in Nat /\ n % SIZE_MOD <= n
<1>1. CASE n < SIZE_MOD
  BY <1>1, PoolAssumption
<1>2. CASE n >= SIZE_MOD
  BY <1>2, PoolAssumption
<1> QED
  BY <1>1, <1>2, PoolAssumption

(* Counting headers instead of bytes never comes short.                    *)
LEMMA FarEnough ==
  ASSUME NEW bytes \in Nat
  PROVE  HEADER * (bytes + HEADER) \in Nat /\ HEADER + bytes <= HEADER * (bytes + HEADER)
<1>1. HEADER \in Nat /\ HEADER >= 1
  BY PoolAssumption
<1>2. HEADER * (bytes + HEADER) = HEADER * bytes + HEADER * HEADER
  BY <1>1
<1>3. HEADER * bytes >= bytes /\ HEADER * HEADER >= HEADER
  BY <1>1
<1>4. HEADER * bytes \in Nat /\ HEADER * HEADER \in Nat
  BY <1>1
<1> QED
  BY <1>1, <1>2, <1>3, <1>4

LEMMA BlockTypes ==
  ASSUME NEW b \in Block
  PROVE  /\ b.addr \in Nat /\ b.size \in Nat /\ b.free \in BOOLEAN
         /\ Malloc!EndOf(b) = b.addr + HEADER + b.size /\ Malloc!EndOf(b) \in Nat
         /\ b.addr < Malloc!EndOf(b)
<1>1. b.addr \in Nat /\ b.size \in Nat /\ b.free \in BOOLEAN
  BY DEF Block
<1> QED
  BY <1>1, PoolAssumption DEF Malloc!EndOf

LEMMA BlocksTypes ==
  ASSUME NEW s \in Blocks
  PROVE  /\ s \in Seq(Block) /\ Len(s) \in Nat /\ Len(s) >= 1
         /\ DOMAIN s = 1 .. Len(s)
         /\ \A i \in 1 .. Len(s) : s[i] \in Block
         /\ Malloc!Last(s) = s[Len(s)]
BY DEF Blocks, Malloc!Last

(* In such a list every block lies behind every earlier one.               *)
LEMMA RisingFar ==
  ASSUME NEW s \in Blocks, Rising(s), NEW i \in 1 .. Len(s), NEW j \in 1 .. Len(s), i < j
  PROVE  Malloc!EndOf(s[i]) <= s[j].addr
<1> DEFINE N == Len(s) - i - 1
           S == {n \in 0 .. N : Malloc!EndOf(s[i]) <= s[i + 1 + n].addr}
<1>0. Len(s) \in Nat /\ N \in Nat
  BY BlocksTypes
<1>1. 0 \in S
  BY <1>0 DEF Rising
<1>2. ASSUME NEW n \in 1 .. N, n - 1 \in S PROVE n \in S
  <2>1. i + n \in 1 .. Len(s) - 1 /\ i + 1 + (n - 1) = i + n /\ (i + n) + 1 = i + 1 + n
        /\ i + n \in 1 .. Len(s) /\ i + 1 + n \in 1 .. Len(s)
    BY <1>0
  <2>2. Malloc!EndOf(s[i]) <= s[i + n].addr
    BY <1>2, <2>1
  <2>3. Malloc!EndOf(s[i + n]) <= s[i + 1 + n].addr
    BY <2>1 DEF Rising
  <2>4. s[i + n] \in Block /\ s[i + 1 + n] \in Block /\ s[i] \in Block
    BY <2>1, BlocksTypes
  <2>5. Malloc!EndOf(s[i]) <= s[i + 1 + n].addr
    <3>1. s[i + n].addr < Malloc!EndOf(s[i + n]) /\ s[i + n].addr \in Nat
          /\ Malloc!EndOf(s[i + n]) \in Nat /\ Malloc!EndOf(s[i]) \in Nat
          /\ s[i + 1 + n].addr \in Nat
      BY <2>4, BlockTypes
    <3> QED
      BY <2>2, <2>3, <3>1
  <2> QED
    BY <2>5
<1> HIDE DEF S
<1>3. \A n \in 0 .. N : n \in S
  BY <1>0, <1>1, <1>2, EveryStep
<1>4. j - i - 1 \in 0 .. N /\ i + 1 + (j - i - 1) = j
  BY <1>0
<1> QED
  BY <1>3, <1>4 DEF S

-----------------------------------------------------------------------------
(* A block the list has, as it is.                                         *)
Taken(s, b) == \E i \in 1 .. Len(s) : s[i] = b

(* What is in front of a place stays.                                      *)
LEMMA FrontPlaces ==
  ASSUME NEW S, NEW s \in Seq(S), NEW n \in 0 .. Len(s)
  PROVE  LET t == SubSeq(s, 1, n)
         IN  t \in Seq(S) /\ Len(t) = n /\ \A i \in 1 .. n : t[i] = s[i]
OBVIOUS

(* A joined block ends no later than its second part did.                  *)
LEMMA JoinedEnd ==
  ASSUME NEW first \in Nat, NEW n \in Nat, NEW second \in Nat, NEW m \in Nat, NEW k \in Nat,
         first + HEADER + n <= second, k <= n + m + HEADER
  PROVE  first + HEADER + k <= second + HEADER + m
BY PoolAssumption

(* One step of a merge: its list ends where the block taken in does, as    *)
(* free as that, goes up, and has every taken block.                       *)
LEMMA MergeStep ==
  ASSUME NEW s \in Blocks, Rising(s), NEW b \in Block,
         Malloc!EndOf(s[Len(s)]) <= b.addr
  PROVE  LET t == Malloc!Merge(s, b)
         IN  /\ t \in Blocks /\ Rising(t)
             /\ Malloc!EndOf(t[Len(t)]) <= Malloc!EndOf(b)
             /\ t[Len(t)].free = b.free
             /\ \A x \in Block : ~x.free /\ (Taken(s, x) \/ x = b) => Taken(t, x)
<1> DEFINE last == s[Len(s)]
           t == Malloc!Merge(s, b)
<1>0. /\ s \in Seq(Block) /\ Len(s) \in Nat /\ Len(s) >= 1 /\ last \in Block
      /\ Malloc!Last(s) = last
      /\ \A i \in 1 .. Len(s) : s[i] \in Block
  BY BlocksTypes
<1>1. CASE last.free /\ b.free
  <2> DEFINE bytes == (last.size + b.size + HEADER) % SIZE_MOD
             joined == [last EXCEPT !.size = bytes]
             front == SubSeq(s, 1, Len(s) - 1)
  <2>1. t = Append(front, joined)
    BY <1>0, <1>1 DEF Malloc!Merge, Malloc!Front
  <2>2. /\ front \in Seq(Block) /\ Len(front) = Len(s) - 1
        /\ \A i \in 1 .. Len(s) - 1 : front[i] = s[i]
    <3>1. Len(s) - 1 \in 0 .. Len(s)
      BY <1>0
    <3> QED
      BY <1>0, <3>1, FrontPlaces
  <2>3. bytes \in Nat /\ bytes <= last.size + b.size + HEADER
    <3>1. last.size + b.size + HEADER \in Nat
      BY <1>0, BlockTypes, PoolAssumption
    <3> QED
      BY <3>1, Wrapped
  <2> HIDE DEF bytes
  <2>4. joined \in Block /\ joined.addr = last.addr /\ joined.size = bytes /\ joined.free = last.free
    BY <1>0, <2>3 DEF Block
  <2>5. Malloc!EndOf(joined) <= Malloc!EndOf(b)
    <3>1. Malloc!EndOf(joined) = last.addr + HEADER + bytes
      BY <2>4 DEF Malloc!EndOf
    <3>2. /\ Malloc!EndOf(last) = last.addr + HEADER + last.size
          /\ Malloc!EndOf(b) = b.addr + HEADER + b.size
          /\ last.addr \in Nat /\ last.size \in Nat /\ b.addr \in Nat /\ b.size \in Nat
      BY <1>0, BlockTypes
    <3>3. last.addr + HEADER + last.size <= b.addr
      BY <3>2
    <3> HIDE DEF last, joined
    <3>4. last.addr + HEADER + bytes <= b.addr + HEADER + b.size
      BY <2>3, <3>2, <3>3, JoinedEnd
    <3> QED
      BY <3>1, <3>2, <3>4
  <2> HIDE DEF joined, front
  <2>6. /\ t \in Seq(Block) /\ Len(t) = Len(s)
        /\ \A i \in 1 .. Len(s) - 1 : t[i] = s[i]
        /\ t[Len(s)] = joined
    BY <1>0, <2>1, <2>2, <2>4
  <2> HIDE DEF t, last
  <2>7. t \in Blocks
    BY <1>0, <2>6 DEF Blocks
  <2>8. Rising(t)
    <3> SUFFICES ASSUME NEW i \in 1 .. Len(s) - 1
                 PROVE  Malloc!EndOf(t[i]) <= t[i + 1].addr
      BY <2>6 DEF Rising
    <3>1. Malloc!EndOf(s[i]) <= s[i + 1].addr
      BY DEF Rising
    <3>2. t[i] = s[i] /\ t[i + 1].addr = s[i + 1].addr
      BY <1>0, <2>4, <2>6 DEF last
    <3> QED
      BY <3>1, <3>2
  <2>9. ASSUME NEW x \in Block, ~x.free, Taken(s, x) PROVE Taken(t, x)
    <3>1. PICK i \in 1 .. Len(s) : s[i] = x
      BY <2>9 DEF Taken
    <3>2. i # Len(s)
      BY <1>1, <2>9, <3>1 DEF last
    <3> QED
      BY <1>0, <2>6, <3>1, <3>2 DEF Taken
  <2> QED
    BY <1>1, <2>4, <2>5, <2>6, <2>7, <2>8, <2>9 DEF t
<1>2. CASE ~(last.free /\ b.free)
  <2>1. t = Append(s, b)
    BY <1>0, <1>2 DEF Malloc!Merge
  <2>2. /\ t \in Seq(Block) /\ Len(t) = Len(s) + 1
        /\ \A i \in 1 .. Len(s) : t[i] = s[i]
        /\ t[Len(s) + 1] = b
    BY <1>0, <2>1
  <2> HIDE DEF t
  <2>3. t \in Blocks
    BY <1>0, <2>2 DEF Blocks
  <2>4. Rising(t)
    <3> SUFFICES ASSUME NEW i \in 1 .. Len(s)
                 PROVE  Malloc!EndOf(t[i]) <= t[i + 1].addr
      BY <1>0, <2>2 DEF Rising
    <3>1. CASE i = Len(s)
      BY <2>2, <3>1
    <3>2. CASE i # Len(s)
      <4>1. i \in 1 .. Len(s) - 1 /\ i + 1 \in 1 .. Len(s)
        BY <1>0, <3>2
      <4> QED
        BY <2>2, <4>1 DEF Rising
    <3> QED
      BY <3>1, <3>2
  <2>5. ASSUME NEW x \in Block, Taken(s, x) \/ x = b PROVE Taken(t, x)
    BY <1>0, <2>2, <2>5 DEF Taken
  <2>6. Malloc!EndOf(t[Len(t)]) <= Malloc!EndOf(b) /\ t[Len(t)].free = b.free
    BY <1>0, <2>2, BlockTypes
  <2> QED
    BY <2>3, <2>4, <2>5, <2>6 DEF t
<1> QED
  BY <1>1, <1>2

(* The merge, a block at a time.                                           *)
LEMMA MergeLoop ==
  ASSUME NEW s \in Blocks, Rising(s)
  PROVE  LET t == Malloc!fast_malloc_merge(s)
         IN  /\ t \in Blocks /\ Rising(t)
             /\ t[Len(t)].free = s[Len(s)].free
             /\ \A x \in Block : ~x.free /\ Taken(s, x) => Taken(t, x)
<1> DEFINE N == Len(s) - 1
           step == [p \in Nat \X Blocks |->
                     IF p[1] \in 1 .. N /\ Malloc!Merge(p[2], s[p[1] + 1]) \in Blocks
                     THEN Malloc!Merge(p[2], s[p[1] + 1]) ELSE p[2]]
           Loop(m) == m = [n \in DOMAIN s |-> IF n = 1 THEN <<s[1]>>
                                              ELSE Malloc!Merge(m[n - 1], s[n])]
           Good(m, n) ==
             /\ m \in Blocks /\ Rising(m)
             /\ Malloc!EndOf(m[Len(m)]) <= Malloc!EndOf(s[n])
             /\ m[Len(m)].free = s[n].free
             /\ \A j \in 1 .. n : ~s[j].free => Taken(m, s[j])
<1>0. /\ s \in Seq(Block) /\ Len(s) \in Nat /\ N \in Nat /\ N + 1 = Len(s)
      /\ DOMAIN s = 1 .. Len(s)
      /\ \A i \in 1 .. Len(s) : s[i] \in Block
  BY BlocksTypes
<1>1. Good(<<s[1]>>, 1)
  <2>1. s[1] \in Block
    BY <1>0
  <2>2. /\ <<s[1]>> \in Seq(Block) /\ Len(<<s[1]>>) = 1 /\ <<s[1]>>[1] = s[1]
        /\ <<s[1]>> # <<>>
    BY <2>1
  <2>3. Malloc!EndOf(s[1]) \in Nat
    BY <2>1, BlockTypes
  <2> QED
    BY <2>2, <2>3 DEF Blocks, Rising, Taken
<1>2. ASSUME NEW n \in 1 .. N, NEW m, Good(m, n)
      PROVE  Good(Malloc!Merge(m, s[n + 1]), n + 1)
  <2>1. n \in 1 .. Len(s) /\ n + 1 \in 1 .. Len(s) /\ n \in 1 .. Len(s) - 1
    BY <1>0
  <2>2. Malloc!EndOf(m[Len(m)]) <= s[n + 1].addr
    <3>1. Malloc!EndOf(s[n]) <= s[n + 1].addr
      BY <2>1 DEF Rising
    <3>2. m[Len(m)] \in Block
      BY <1>2, BlocksTypes
    <3>3. Malloc!EndOf(m[Len(m)]) \in Nat /\ Malloc!EndOf(s[n]) \in Nat /\ s[n + 1].addr \in Nat
      BY <1>0, <2>1, <3>2, BlockTypes
    <3> QED
      BY <1>2, <3>1, <3>3
  <2> DEFINE b == s[n + 1]
             t == Malloc!Merge(m, b)
  <2>3. /\ t \in Blocks /\ Rising(t)
        /\ Malloc!EndOf(t[Len(t)]) <= Malloc!EndOf(b)
        /\ t[Len(t)].free = b.free
        /\ \A x \in Block : ~x.free /\ (Taken(m, x) \/ x = b) => Taken(t, x)
    <3>1. b \in Block
      BY <1>0, <2>1
    <3> HIDE DEF b
    <3> QED
      BY <1>2, <2>2, <3>1, MergeStep DEF b
  <2> HIDE DEF t
  <2>4. ASSUME NEW j \in 1 .. n + 1, ~s[j].free PROVE Taken(t, s[j])
    <3>1. s[j] \in Block /\ (j = n + 1 \/ j \in 1 .. n)
      BY <1>0, <2>1
    <3> QED
      BY <1>2, <2>3, <2>4, <3>1
  <2> QED
    BY <2>3, <2>4 DEF t
<1>3. PICK f : IsLoop(f, Blocks, <<s[1]>>, step, N)
  <2>1. step \in [Nat \X Blocks -> Blocks]
    OBVIOUS
  <2>2. <<s[1]>> \in Blocks
    BY <1>1
  <2> HIDE DEF step, N
  <2> QED
    BY <1>0, <2>1, <2>2, StepByStep
<1> HIDE DEF Good
<1>4. \A n \in 0 .. N : Good(f[n], n + 1)
  <2> DEFINE S == {n \in 0 .. N : Good(f[n], n + 1)}
  <2>1. 0 \in S
    BY <1>0, <1>1, <1>3 DEF IsLoop
  <2>2. ASSUME NEW n \in 1 .. N, n - 1 \in S PROVE n \in S
    <3>1. Good(f[n - 1], n) /\ n - 1 \in 0 .. N /\ n \in Nat /\ (n - 1) + 1 = n
      BY <1>0, <2>2
    <3>2. Good(Malloc!Merge(f[n - 1], s[n + 1]), n + 1)
      BY <1>2, <3>1
    <3>3. f[n] = Malloc!Merge(f[n - 1], s[n + 1])
      <4>1. f[n] = step[<<n, f[n - 1]>>] /\ f[n - 1] \in Blocks
        BY <1>3, <3>1 DEF IsLoop
      <4>2. Malloc!Merge(f[n - 1], s[n + 1]) \in Blocks
        BY <3>2 DEF Good
      <4> QED
        BY <3>1, <4>1, <4>2
    <3> QED
      BY <3>2, <3>3
  <2> HIDE DEF S
  <2>3. \A n \in 0 .. N : n \in S
    BY <1>0, <2>1, <2>2, EveryStep
  <2> QED
    BY <2>3 DEF S
<1>5. \E m : Loop(m)
  <2> DEFINE m == [n \in 1 .. Len(s) |-> f[n - 1]]
  <2>1. \A n \in 1 .. Len(s) : m[n] = IF n = 1 THEN <<s[1]>> ELSE Malloc!Merge(m[n - 1], s[n])
    <3> SUFFICES ASSUME NEW n \in 1 .. Len(s)
                 PROVE  m[n] = IF n = 1 THEN <<s[1]>> ELSE Malloc!Merge(m[n - 1], s[n])
      OBVIOUS
    <3>1. CASE n = 1
      BY <1>3, <3>1 DEF IsLoop
    <3>2. CASE n # 1
      <4>1. n - 1 \in 1 .. N /\ n - 1 \in Nat /\ n - 1 \in 1 .. Len(s) /\ (n - 1) + 1 = n
            /\ (n - 1) - 1 \in 0 .. N
        BY <1>0, <3>2
      <4>2. Good(f[(n - 1) - 1], n - 1)
        BY <1>4, <4>1
      <4>3. Malloc!Merge(f[(n - 1) - 1], s[n]) \in Blocks
        BY <1>2, <4>1, <4>2 DEF Good
      <4>4. f[n - 1] = step[<<n - 1, f[(n - 1) - 1]>>] /\ f[(n - 1) - 1] \in Blocks
        BY <1>3, <4>1 DEF IsLoop
      <4>5. f[n - 1] = Malloc!Merge(f[(n - 1) - 1], s[n])
        BY <4>1, <4>3, <4>4
      <4> QED
        BY <3>2, <4>1, <4>5
    <3> QED
      BY <3>1, <3>2
  <2>2. m = [n \in DOMAIN s |-> m[n]]
    BY <1>0
  <2> HIDE DEF m
  <2>3. Loop(m)
    BY <1>0, <2>1, <2>2
  <2> QED
    BY <2>3
<1> DEFINE merged == CHOOSE m : Loop(m)
<1>6. Loop(merged)
  <2> HIDE DEF Loop
  <2> QED
    BY <1>5
<1>7. Malloc!fast_malloc_merge(s) = merged[Len(s)]
  BY DEF Malloc!fast_malloc_merge
<1> HIDE DEF merged
<1>8. /\ merged[1] = <<s[1]>>
      /\ \A n \in 1 .. N : merged[n + 1] = Malloc!Merge(merged[n], s[n + 1])
  <2>1. \A n \in 1 .. Len(s) : merged[n] = IF n = 1 THEN <<s[1]>>
                                           ELSE Malloc!Merge(merged[n - 1], s[n])
    BY <1>0, <1>6
  <2>2. 1 \in 1 .. Len(s)
        /\ \A n \in 1 .. N : n + 1 \in 1 .. Len(s) /\ n + 1 # 1 /\ (n + 1) - 1 = n
    BY <1>0
  <2> QED
    BY <2>1, <2>2
<1>9. \A n \in 0 .. N : Good(merged[n + 1], n + 1)
  <2> DEFINE S == {n \in 0 .. N : Good(merged[n + 1], n + 1)}
  <2>1. 0 \in S
    BY <1>0, <1>1, <1>8
  <2>2. ASSUME NEW n \in 1 .. N, n - 1 \in S PROVE n \in S
    <3>1. Good(merged[n], n) /\ (n - 1) + 1 = n
      BY <2>2
    <3>2. Good(merged[n + 1], n + 1)
      BY <1>2, <1>8, <3>1
    <3> QED
      BY <1>0, <3>2
  <2> HIDE DEF S
  <2>3. \A n \in 0 .. N : n \in S
    BY <1>0, <2>1, <2>2, EveryStep
  <2> QED
    BY <2>3 DEF S
<1>10. Good(merged[Len(s)], Len(s))
  BY <1>0, <1>9
<1> HIDE DEF N
<1> QED
  BY <1>0, <1>7, <1>10 DEF Good, Taken

-----------------------------------------------------------------------------
(* The list is the unused array's, or goes up and ends in a free block.    *)
Area == [addr : Nat, size : Nat]

UnusedArray == <<Malloc!mem_block(0, 0, FALSE)>>

GoesUp(s) == s \in Blocks /\ Rising(s) /\ s[Len(s)].free

AllocatorInv ==
  /\ held \in [Owners -> Area \cup {nullptr}]
  /\ \/ blocks = UnusedArray /\ Malloc!Held = {}
     \/ GoesUp(blocks)

HeldApart(o, p) ==
  \/ Malloc!EndOf(held[o]) <= held[p].addr
  \/ Malloc!EndOf(held[p]) <= held[o].addr

LEMMA MemBlock ==
  ASSUME NEW addr \in Nat, NEW bytes \in Nat, NEW free \in BOOLEAN
  PROVE  LET b == Malloc!mem_block(addr, bytes, free)
         IN  b \in Block /\ b.addr = addr /\ b.size = bytes /\ b.free = free
BY DEF Malloc!mem_block, Block

(* The list that is walked always goes up.                                 *)
LEMMA ListedGoesUp ==
  ASSUME AllocatorInv
  PROVE  /\ GoesUp(Malloc!Listed)
         /\ Malloc!Reinitialized =>
              Malloc!Listed = <<Malloc!mem_block(0, POOL - HEADER, TRUE)>>
         /\ ~Malloc!Reinitialized => Malloc!Listed = blocks
<1>1. CASE Malloc!Reinitialized
  <2> DEFINE b == Malloc!mem_block(0, POOL - HEADER, TRUE)
  <2>1. b \in Block /\ b.free
    <3>1. POOL - HEADER \in Nat
      BY PoolAssumption
    <3> QED
      BY <3>1, MemBlock
  <2>2. Malloc!Listed = <<b>>
    BY <1>1 DEF Malloc!Listed
  <2> HIDE DEF b
  <2>3. <<b>> \in Seq(Block) /\ <<b>> # <<>> /\ Len(<<b>>) = 1 /\ <<b>>[1] = b
    BY <2>1
  <2>4. <<b>> \in Blocks
    BY <2>3 DEF Blocks
  <2>5. Rising(<<b>>)
    BY <2>3 DEF Rising
  <2>6. GoesUp(<<b>>)
    BY <2>1, <2>3, <2>4, <2>5 DEF GoesUp
  <2> QED
    BY <1>1, <2>2, <2>6 DEF b
<1>2. CASE ~Malloc!Reinitialized
  <2>1. Malloc!Listed = blocks
    BY <1>2 DEF Malloc!Listed
  <2>2. blocks # UnusedArray
    BY <1>2 DEF UnusedArray, Malloc!Reinitialized, Malloc!mem_block
  <2> QED
    BY <1>2, <2>1, <2>2 DEF AllocatorInv
<1> QED
  BY <1>1, <1>2

(* The walk stops at a block that is free.                                 *)
LEMMA FittingIsFree ==
  ASSUME AllocatorInv, NEW bytes \in Nat
  PROVE  LET i == Malloc!FittingSlot(bytes)
         IN  i \in 1 .. Len(Malloc!Listed)
             /\ Malloc!Listed[i] \in Block /\ Malloc!Listed[i].free
<1> DEFINE L == Malloc!Listed
           Stops(i) == i = Len(L) \/ Malloc!Fits(L[i], bytes)
           T == {i \in 1 .. Len(L) : Stops(i)}
           P(i) == Stops(i) /\ \A j \in 1 .. i - 1 : ~Malloc!Fits(L[j], bytes)
<1>0. /\ L \in Blocks /\ Len(L) \in Nat /\ Len(L) >= 1 /\ DOMAIN L = 1 .. Len(L)
      /\ L[Len(L)].free
      /\ \A i \in 1 .. Len(L) : L[i] \in Block
  BY ListedGoesUp, BlocksTypes DEF GoesUp
<1> HIDE DEF L
<1>1. PICK n \in T : \A m \in T : n <= m
  <2>1. T \in SUBSET Nat /\ Len(L) \in T
    BY <1>0
  <2> HIDE DEF T
  <2> QED
    BY <2>1, LeastNumber
<1>2. n \in DOMAIN L /\ P(n)
  <2>0. n \in 1 .. Len(L)
    OBVIOUS
  <2>1. Stops(n)
    OBVIOUS
  <2>2. ASSUME NEW j \in 1 .. n - 1 PROVE ~Malloc!Fits(L[j], bytes)
    <3>1. j \in 1 .. Len(L) /\ ~ (n <= j)
      <4>1. Len(L) \in Nat
        BY <1>0
      <4> HIDE DEF T, Stops, P
      <4> QED
        BY <2>0, <4>1
    <3> QED
      BY <1>1, <3>1
  <2> QED
    BY <1>0, <2>0, <2>1, <2>2
<1> DEFINE i == CHOOSE i \in DOMAIN L : P(i)
<1>3. i \in DOMAIN L /\ P(i)
  <2> HIDE DEF P
  <2> QED
    BY <1>2
<1>4. Malloc!FittingSlot(bytes) = i
  BY DEF Malloc!FittingSlot, L
<1> HIDE DEF i
<1>5. i \in 1 .. Len(L) /\ L[i].free
  BY <1>0, <1>3 DEF Malloc!Fits
<1> QED
  BY <1>0, <1>4, <1>5 DEF L

LEMMA JoinedPlaces ==
  ASSUME NEW a \in Seq(Block), NEW b \in Seq(Block)
  PROVE  LET t == a \o b
         IN  /\ t \in Seq(Block) /\ Len(t) = Len(a) + Len(b)
             /\ \A j \in 1 .. Len(a) : t[j] = a[j]
             /\ \A j \in 1 .. Len(b) : t[Len(a) + j] = b[j]
OBVIOUS

(* A split keeps what is in front and ends the list in a free remainder,   *)
(* behind what it gives away.                                              *)
Cut(s, i, given, rest) == SubSeq(s, 1, i - 1) \o <<given, rest>>

LEMMA CutPlaces ==
  ASSUME NEW s \in Seq(Block), NEW i \in 1 .. Len(s), NEW given \in Block, NEW rest \in Block
  PROVE  /\ Cut(s, i, given, rest) \in Seq(Block)
         /\ Len(Cut(s, i, given, rest)) = i + 1
         /\ \A j \in 1 .. i - 1 : Cut(s, i, given, rest)[j] = s[j]
         /\ Cut(s, i, given, rest)[i] = given
         /\ Cut(s, i, given, rest)[i + 1] = rest
<1> DEFINE front == SubSeq(s, 1, i - 1)
           back == <<given, rest>>
           t == front \o back
<1>1. /\ front \in Seq(Block) /\ Len(front) = i - 1
      /\ \A j \in 1 .. i - 1 : front[j] = s[j]
  <2>1. i - 1 \in 0 .. Len(s)
    OBVIOUS
  <2> QED
    BY <2>1, FrontPlaces
<1>2. back \in Seq(Block) /\ Len(back) = 2 /\ back[1] = given /\ back[2] = rest
  OBVIOUS
<1> HIDE DEF front, back
<1>3. /\ t \in Seq(Block) /\ Len(t) = Len(front) + Len(back)
      /\ \A j \in 1 .. Len(front) : t[j] = front[j]
      /\ \A j \in 1 .. Len(back) : t[Len(front) + j] = back[j]
  BY <1>1, <1>2, JoinedPlaces
<1> HIDE DEF t
<1>4. Len(t) = i + 1 /\ \A j \in 1 .. i - 1 : t[j] = s[j]
  BY <1>1, <1>2, <1>3
<1>5. t[i] = given /\ t[i + 1] = rest
  <2>1. 1 \in 1 .. 2 /\ 2 \in 1 .. 2 /\ (i - 1) + 1 = i /\ (i - 1) + 2 = i + 1
    OBVIOUS
  <2>2. t[(i - 1) + 1] = back[1] /\ t[(i - 1) + 2] = back[2]
    BY <1>1, <1>2, <1>3, <2>1
  <2> QED
    BY <1>2, <2>1, <2>2
<1>6. t = Cut(s, i, given, rest)
  BY DEF t, front, back, Cut
<1> QED
  BY <1>3, <1>4, <1>5, <1>6

(* The list t keeps of s what is in front of i, has given there, and then  *)
(* one block more.                                                         *)
Kept(s, i, given, t) ==
  /\ GoesUp(t) /\ Len(t) = i + 1
  /\ \A j \in 1 .. i - 1 : t[j] = s[j]
  /\ t[i] = given

LEMMA CutGoesUp ==
  ASSUME NEW s, GoesUp(s), NEW i \in 1 .. Len(s),
         NEW given \in Block, NEW rest \in Block,
         given.addr = s[i].addr, Malloc!EndOf(given) <= rest.addr, rest.free
  PROVE  Kept(s, i, given, Cut(s, i, given, rest))
<1> DEFINE t == Cut(s, i, given, rest)
<1>0. /\ s \in Seq(Block) /\ Len(s) \in Nat /\ i \in Nat /\ i \in 1 .. Len(s)
      /\ Rising(s)
  BY BlocksTypes DEF GoesUp
<1>1. /\ t \in Seq(Block) /\ Len(t) = i + 1
      /\ \A j \in 1 .. i - 1 : t[j] = s[j]
      /\ t[i] = given /\ t[i + 1] = rest
  BY <1>0, CutPlaces
<1> HIDE DEF t
<1>2. Rising(t)
  <2> SUFFICES ASSUME NEW j \in 1 .. i
               PROVE  Malloc!EndOf(t[j]) <= t[j + 1].addr
    BY <1>0, <1>1 DEF Rising
  <2>1. CASE j = i
    BY <1>1, <2>1
  <2>2. CASE j # i
    <3>1. j \in 1 .. i - 1 /\ j \in 1 .. Len(s) - 1 /\ j + 1 \in 1 .. i
      BY <1>0, <2>2
    <3>2. t[j] = s[j] /\ t[j + 1].addr = s[j + 1].addr
      <4>1. CASE j + 1 = i
        BY <1>1, <3>1, <4>1
      <4>2. CASE j + 1 # i
        <5>1. j + 1 \in 1 .. i - 1
          BY <1>0, <3>1, <4>2
        <5> QED
          BY <1>1, <3>1, <5>1
      <4> QED
        BY <4>1, <4>2
    <3> QED
      BY <1>0, <3>1, <3>2 DEF Rising
  <2> QED
    BY <2>1, <2>2
<1>3. t \in Blocks /\ t[Len(t)].free
  BY <1>0, <1>1 DEF Blocks
<1> QED
  BY <1>1, <1>2, <1>3 DEF GoesUp, Kept, t

LEMMA RemainderBehind ==
  ASSUME NEW b \in Block, NEW bytes \in Nat, bytes < b.size
  PROVE  LET given == Malloc!mem_block(b.addr, bytes, FALSE)
             rest == Malloc!Remainder(b, bytes)
         IN  /\ given \in Block /\ given.addr = b.addr /\ given.size = bytes
             /\ rest \in Block /\ rest.free
             /\ Malloc!EndOf(given) <= rest.addr
<1> DEFINE given == Malloc!mem_block(b.addr, bytes, FALSE)
           rest == Malloc!Remainder(b, bytes)
           gap == HEADER * (bytes + HEADER)
<1>0. b.addr \in Nat /\ b.size \in Nat /\ HEADER \in Nat
  BY BlockTypes, PoolAssumption
<1>1. given \in Block /\ given.addr = b.addr /\ given.size = bytes
  BY <1>0, MemBlock
<1>2. gap \in Nat /\ HEADER + bytes <= gap
  BY FarEnough
<1>3. rest \in Block /\ rest.free /\ rest.addr = b.addr + gap
  <2> HIDE DEF gap
  <2>1. b.addr + gap \in Nat
    BY <1>0, <1>2
  <2>2. (b.size - bytes - HEADER) % SIZE_MOD \in Nat
    BY <1>0, PoolAssumption
  <2>3. rest = Malloc!mem_block(b.addr + gap, (b.size - bytes - HEADER) % SIZE_MOD, TRUE)
    BY DEF Malloc!Remainder, gap
  <2> HIDE DEF rest
  <2> QED
    BY <2>1, <2>2, <2>3, MemBlock
<1> HIDE DEF given, rest, gap
<1>4. Malloc!EndOf(given) = b.addr + HEADER + bytes
  BY <1>1 DEF Malloc!EndOf
<1>5. Malloc!EndOf(given) <= rest.addr
  BY <1>0, <1>2, <1>3, <1>4
<1> QED
  BY <1>1, <1>3, <1>5 DEF given, rest

(* An area freed is marked in the list before the merge.                   *)
Freed(o) ==
  [i \in DOMAIN blocks |->
    [blocks[i] EXCEPT !.free = @ \/ blocks[i].addr = held[o].addr]]

LEMMA FreedGoesUp ==
  ASSUME GoesUp(blocks), NEW o
  PROVE  /\ GoesUp(Freed(o)) /\ Len(Freed(o)) = Len(blocks)
         /\ \A i \in 1 .. Len(blocks) :
              blocks[i].addr # held[o].addr => Freed(o)[i] = blocks[i]
<1> DEFINE t == Freed(o)
<1>0. /\ blocks \in Seq(Block) /\ Len(blocks) \in Nat /\ Len(blocks) >= 1
      /\ DOMAIN blocks = 1 .. Len(blocks)
      /\ \A i \in 1 .. Len(blocks) : blocks[i] \in Block
  BY BlocksTypes DEF GoesUp
<1>1. \A i \in 1 .. Len(blocks) :
        /\ t[i] \in Block
        /\ t[i].addr = blocks[i].addr /\ t[i].size = blocks[i].size
        /\ t[i].free = (blocks[i].free \/ blocks[i].addr = held[o].addr)
        /\ blocks[i].addr # held[o].addr => t[i] = blocks[i]
  BY <1>0 DEF Freed, Block
<1>2. t \in Seq(Block) /\ Len(t) = Len(blocks) /\ t # <<>>
  <2>1. t = [i \in 1 .. Len(blocks) |-> t[i]]
    BY <1>0 DEF Freed
  <2> HIDE DEF t
  <2>2. t \in [1 .. Len(blocks) -> Block]
    BY <1>1, <2>1
  <2> QED
    BY <1>0, <2>1, <2>2
<1> HIDE DEF t
<1>3. Rising(t)
  <2> SUFFICES ASSUME NEW i \in 1 .. Len(blocks) - 1
               PROVE  Malloc!EndOf(t[i]) <= t[i + 1].addr
    BY <1>2 DEF Rising
  <2>1. i \in 1 .. Len(blocks) /\ i + 1 \in 1 .. Len(blocks)
    BY <1>0
  <2>2. Malloc!EndOf(t[i]) = Malloc!EndOf(blocks[i]) /\ t[i + 1].addr = blocks[i + 1].addr
    BY <1>1, <2>1 DEF Malloc!EndOf
  <2> QED
    BY <2>2 DEF GoesUp, Rising
<1>4. t[Len(t)].free
  <2>1. Len(blocks) \in 1 .. Len(blocks)
    BY <1>0
  <2> QED
    BY <1>1, <1>2, <2>1 DEF GoesUp
<1> QED
  BY <1>1, <1>2, <1>3, <1>4 DEF GoesUp, Blocks, t

(* What giving an area changes.                                            *)
LEMMA Given ==
  ASSUME AllocatorInv, NEW o \in Owners, NEW addr \in Nat, NEW given \in Nat,
         Malloc!Give(o, addr, given)
  PROVE  /\ held' \in [Owners -> Area \cup {nullptr}]
         /\ held'[o] = [addr |-> addr, size |-> given]
         /\ \A p \in Owners \ {o} : held'[p] = held[p]
BY DEF AllocatorInv, Malloc!Give, Area

(* What the search finds is a free block of the list.                      *)
LEMMA Found ==
  ASSUME AllocatorInv, NEW wanted \in Requests
  PROVE  LET i == Malloc!FittingSlot(wanted)
         IN  /\ wanted \in Nat /\ i \in 1 .. Len(Malloc!Listed)
             /\ Malloc!Listed[i] \in Block /\ Malloc!Listed[i].free
             /\ Malloc!Listed[i].addr \in Nat /\ Malloc!Listed[i].size \in Nat
<1>1. wanted \in Nat
  BY PoolAssumption
<1> DEFINE i == Malloc!FittingSlot(wanted)
<1>2. /\ i \in 1 .. Len(Malloc!Listed)
      /\ Malloc!Listed[i] \in Block /\ Malloc!Listed[i].free
  BY <1>1, FittingIsFree
<1> HIDE DEF i
<1> QED
  BY <1>1, <1>2, BlockTypes DEF i

(* The list after a split.                                                 *)
LEMMA SplitList ==
  ASSUME AllocatorInv, NEW o \in Owners, NEW wanted \in Requests,
         Malloc!fast_malloc_split(o, wanted)
  PROVE  LET i == Malloc!FittingSlot(wanted)
             s == Malloc!Listed
             given == Malloc!mem_block(s[i].addr, wanted, FALSE)
         IN  /\ i \in 1 .. Len(s) /\ Kept(s, i, given, blocks') /\ given \in Block
             /\ Malloc!EndOf(given) <= Malloc!Remainder(s[i], wanted).addr
             /\ Malloc!Remainder(s[i], wanted) \in Block
             /\ Malloc!Give(o, s[i].addr, wanted)
<1> DEFINE i == Malloc!FittingSlot(wanted)
           s == Malloc!Listed
           given == Malloc!mem_block(s[i].addr, wanted, FALSE)
           rest == Malloc!Remainder(s[i], wanted)
<1>1. /\ wanted \in Nat /\ i \in 1 .. Len(s) /\ s[i] \in Block
      /\ s[i].addr \in Nat /\ s[i].size \in Nat
  BY Found
<1>2. GoesUp(s)
  BY ListedGoesUp
<1>3. /\ s[i].size > wanted
      /\ blocks' = Cut(s, i, given, rest)
      /\ Malloc!Give(o, s[i].addr, wanted)
  BY DEF Malloc!fast_malloc_split, Cut
<1> HIDE DEF i, s
<1>4. /\ given \in Block /\ given.addr = s[i].addr
      /\ rest \in Block /\ rest.free
      /\ Malloc!EndOf(given) <= rest.addr
  <2>1. wanted < s[i].size
    BY <1>1, <1>3
  <2> QED
    BY <1>1, <2>1, RemainderBehind
<1> HIDE DEF given, rest
<1>5. Kept(s, i, given, Cut(s, i, given, rest))
  BY <1>1, <1>2, <1>4, CutGoesUp
<1> QED
  BY <1>1, <1>3, <1>4, <1>5 DEF i, s, given, rest

(* An owner that frees memory has some: the array is in use.               *)
LEMMA InUse ==
  ASSUME AllocatorInv, NEW o \in Owners, held[o] # nullptr
  PROVE  GoesUp(blocks) /\ held[o] \in Area /\ Malloc!Held # {}
<1>1. Malloc!Held # {}
  BY DEF Malloc!Held
<1> QED
  BY <1>1 DEF AllocatorInv

LEMMA FreedList ==
  ASSUME AllocatorInv, NEW o \in Owners, Malloc!fast_malloc_free(o)
  PROVE  /\ GoesUp(blocks')
         /\ \A x \in Block : ~x.free /\ Taken(Freed(o), x) => Taken(blocks', x)
         /\ held' \in [Owners -> Area \cup {nullptr}]
         /\ held'[o] = nullptr
         /\ \A p \in Owners \ {o} : held'[p] = held[p]
<1> DEFINE t == Freed(o)
<1>1. GoesUp(blocks)
  BY InUse DEF Malloc!fast_malloc_free
<1>2. GoesUp(t)
  BY <1>1, FreedGoesUp
<1>3. blocks' = Malloc!fast_malloc_merge(t)
  BY DEF Malloc!fast_malloc_free, Freed
<1> HIDE DEF t
<1> DEFINE m == Malloc!fast_malloc_merge(t)
<1>4. /\ m \in Blocks /\ Rising(m) /\ m[Len(m)].free = t[Len(t)].free
      /\ \A x \in Block : ~x.free /\ Taken(t, x) => Taken(m, x)
  <2>1. t \in Blocks /\ Rising(t)
    BY <1>2 DEF GoesUp
  <2> QED
    BY <2>1, MergeLoop
<1> HIDE DEF m
<1>5. GoesUp(m)
  BY <1>2, <1>4 DEF GoesUp
<1>6. /\ held' \in [Owners -> Area \cup {nullptr}]
      /\ held'[o] = nullptr
      /\ \A p \in Owners \ {o} : held'[p] = held[p]
  BY DEF AllocatorInv, Malloc!fast_malloc_free
<1> QED
  BY <1>3, <1>4, <1>5, <1>6 DEF m, t

LEMMA AllocatorStarts == Malloc!Init => AllocatorInv
BY DEF Malloc!Init, AllocatorInv, UnusedArray, Malloc!Held

LEMMA AllocatorSteps == AllocatorInv /\ [Malloc!Next]_(Malloc!vars) => AllocatorInv'
<1> SUFFICES ASSUME AllocatorInv, [Malloc!Next]_(Malloc!vars) PROVE AllocatorInv'
  OBVIOUS
<1>1. ASSUME held' \in [Owners -> Area \cup {nullptr}], GoesUp(blocks')
      PROVE  AllocatorInv'
  BY <1>1 DEF AllocatorInv
<1>2. GoesUp(Malloc!Listed)
  BY ListedGoesUp
<1>3. ASSUME NEW o \in Owners, NEW wanted \in Requests, Malloc!fast_malloc_exact(o, wanted)
      PROVE  AllocatorInv'
  <2> DEFINE i == Malloc!FittingSlot(wanted)
  <2>1. wanted \in Nat /\ Malloc!Listed[i].addr \in Nat
    BY Found
  <2>2. Malloc!Give(o, Malloc!Listed[i].addr, wanted) /\ blocks' = Malloc!Listed
    BY <1>3 DEF Malloc!fast_malloc_exact
  <2> HIDE DEF i
  <2>3. held' \in [Owners -> Area \cup {nullptr}]
    BY <2>1, <2>2, Given
  <2> QED
    BY <1>1, <1>2, <2>2, <2>3
<1>4. ASSUME NEW o \in Owners, NEW wanted \in Requests, Malloc!fast_malloc_split(o, wanted)
      PROVE  AllocatorInv'
  <2> DEFINE i == Malloc!FittingSlot(wanted)
  <2>1. GoesUp(blocks') /\ Malloc!Give(o, Malloc!Listed[i].addr, wanted)
    BY <1>4, SplitList DEF Kept
  <2>2. wanted \in Nat /\ Malloc!Listed[i].addr \in Nat
    BY Found
  <2> HIDE DEF i
  <2>3. held' \in [Owners -> Area \cup {nullptr}]
    BY <2>1, <2>2, Given
  <2> QED
    BY <1>1, <2>1, <2>3
<1>5. ASSUME NEW wanted \in Requests, Malloc!fast_malloc_none(wanted)
      PROVE  AllocatorInv'
  BY <1>1, <1>2, <1>5 DEF Malloc!fast_malloc_none, AllocatorInv
<1>6. ASSUME NEW o \in Owners, Malloc!fast_malloc_free(o)
      PROVE  AllocatorInv'
  BY <1>1, <1>6, FreedList
<1>7. CASE UNCHANGED Malloc!vars
  BY <1>7 DEF AllocatorInv, Malloc!vars, Malloc!Held
<1> QED
  BY <1>3, <1>4, <1>5, <1>6, <1>7 DEF Malloc!Next

(* What an owner can rely on: its area is inside the array, a block of the *)
(* list marked TAKEN, and apart from every other owner's.                  *)
Listing(o) == Malloc!mem_block(held[o].addr, held[o].size, FALSE)

HasArea(o) ==
  held[o] # nullptr =>
    /\ Malloc!EndOf(held[o]) <= POOL
    /\ Taken(blocks, Listing(o))
    /\ \A p \in Owners \ {o} : held[p] # nullptr => HeldApart(o, p)

AreasInv ==
  /\ AllocatorInv
  /\ sound /\ ~corrupted => \A o \in Owners : HasArea(o)

LEMMA AreaTypes ==
  ASSUME AllocatorInv, NEW o \in Owners, held[o] # nullptr
  PROVE  /\ held[o].addr \in Nat /\ held[o].size \in Nat
         /\ Malloc!EndOf(held[o]) = held[o].addr + HEADER + held[o].size
         /\ Malloc!EndOf(held[o]) \in Nat /\ held[o].addr < Malloc!EndOf(held[o])
         /\ Listing(o) \in Block /\ ~Listing(o).free /\ Listing(o).addr = held[o].addr
         /\ Malloc!EndOf(Listing(o)) = Malloc!EndOf(held[o])
<1>1. held[o].addr \in Nat /\ held[o].size \in Nat
  BY InUse DEF Area
<1>2. Malloc!EndOf(held[o]) = held[o].addr + HEADER + held[o].size
  BY DEF Malloc!EndOf
<1>3. /\ Listing(o) \in Block /\ ~Listing(o).free /\ Listing(o).addr = held[o].addr
      /\ Listing(o).size = held[o].size
  BY <1>1, MemBlock DEF Listing
<1>4. Malloc!EndOf(Listing(o)) = Malloc!EndOf(held[o])
  BY <1>2, <1>3 DEF Malloc!EndOf
<1> QED
  BY <1>1, <1>2, <1>3, <1>4, PoolAssumption

(* An owner whose area is untouched and still listed keeps what it has.    *)
LEMMA UntouchedArea ==
  ASSUME NEW o \in Owners, HasArea(o), held'[o] = held[o],
         held[o] # nullptr => Taken(blocks', Listing(o)),
         \A p \in Owners \ {o} : held'[p] = held[p] \/ held'[p] = nullptr
  PROVE  HasArea(o)'
<1>1. ASSUME held'[o] # nullptr, NEW p \in Owners \ {o}, held'[p] # nullptr
      PROVE  HeldApart(o, p)'
  <2>1. HeldApart(o, p)
    BY <1>1 DEF HasArea
  <2> QED
    BY <1>1, <2>1 DEF HeldApart, Malloc!EndOf
<1> QED
  BY <1>1 DEF HasArea, Listing, Malloc!EndOf

LEMMA SplitKeepsAreas ==
  ASSUME AreasInv, NEW o \in Owners, NEW wanted \in Requests,
         Malloc!fast_malloc_split(o, wanted), sound', ~corrupted'
  PROVE  \A p \in Owners : HasArea(p)'
<1> DEFINE s == Malloc!Listed
           i == Malloc!FittingSlot(wanted)
           given == Malloc!mem_block(s[i].addr, wanted, FALSE)
           rest == Malloc!Remainder(s[i], wanted)
<1>1. AllocatorInv
  BY DEF AreasInv
<1>2. /\ GoesUp(s) /\ i \in 1 .. Len(s) /\ s[i] \in Block /\ s[i].free
      /\ wanted \in Nat /\ s[i].addr \in Nat /\ rest \in Block /\ rest.addr \in Nat
      /\ given \in Block /\ Malloc!EndOf(given) <= rest.addr
      /\ Kept(s, i, given, blocks')
      /\ Malloc!Give(o, s[i].addr, wanted)
  BY <1>1, ListedGoesUp, Found, SplitList, BlockTypes
<1>3. /\ i = Len(s) /\ sound /\ ~corrupted /\ held[o] = nullptr
      /\ Malloc!Reinitialized => Malloc!Held = {}
      /\ Malloc!HeaderFits(rest.addr)
  BY DEF Malloc!fast_malloc_split
<1>4. \A p \in Owners : HasArea(p)
  BY <1>3 DEF AreasInv
<1>5. ~Malloc!Reinitialized => s = blocks
  BY <1>1, ListedGoesUp
<1>6. /\ given.addr = s[i].addr /\ given.size = wanted
  BY <1>2, MemBlock
<1> HIDE DEF s, i
<1>7. /\ held'[o] = [addr |-> s[i].addr, size |-> wanted]
      /\ \A p \in Owners \ {o} : held'[p] = held[p]
      /\ held' \in [Owners -> Area \cup {nullptr}]
  BY <1>1, <1>2, Given
<1>8. Malloc!EndOf(held'[o]) = Malloc!EndOf(given)
  <2> HIDE DEF given
  <2> DEFINE a == s[i].addr
  <2>0. held'[o] = [addr |-> a, size |-> wanted] /\ given.addr = a /\ given.size = wanted
    BY <1>6, <1>7
  <2> HIDE DEF a
  <2>1. held'[o].addr = given.addr /\ held'[o].size = given.size
    BY <2>0
  <2> QED
    BY <2>1 DEF Malloc!EndOf
<1>9. Taken(blocks', given)
  <2>1. i \in 1 .. Len(blocks') /\ blocks'[i] = given
    BY <1>2 DEF Kept
  <2> QED
    BY <2>1 DEF Taken
(* The others' blocks are in front of the one that is split.               *)
<1>10. ASSUME NEW p \in Owners \ {o}, held[p] # nullptr
       PROVE  /\ Taken(blocks', Listing(p))
              /\ Malloc!EndOf(held[p]) <= s[i].addr
  <2>1. s = blocks
    BY <1>3, <1>5, <1>10 DEF Malloc!Held
  <2>2. PICK j \in 1 .. Len(s) : s[j] = Listing(p)
    BY <1>4, <1>10, <2>1 DEF HasArea, Taken
  <2>3. /\ ~Listing(p).free /\ Malloc!EndOf(Listing(p)) = Malloc!EndOf(held[p])
    BY <1>1, <1>10, AreaTypes
  <2>4. Len(s) \in Nat /\ s \in Blocks /\ Rising(s)
    BY <1>2, BlocksTypes DEF GoesUp
  <2>5. j \in 1 .. i - 1 /\ j < i /\ j \in 1 .. i + 1
    BY <1>2, <1>3, <2>2, <2>3, <2>4
  <2>6. Malloc!EndOf(s[j]) <= s[i].addr
    BY <1>2, <2>4, <2>5, RisingFar
  <2>7. blocks'[j] = Listing(p) /\ j \in 1 .. Len(blocks')
    BY <1>2, <2>2, <2>5 DEF Kept
  <2> QED
    BY <2>2, <2>3, <2>6, <2>7 DEF Taken
<1> HIDE DEF given, rest
<1>11. HasArea(o)'
  <2>1. Malloc!EndOf(held'[o]) <= POOL
    <3>1. rest.addr + HEADER <= POOL
      BY <1>3 DEF Malloc!HeaderFits
    <3>2. Malloc!EndOf(given) \in Nat
      BY <1>2, BlockTypes
    <3>3. Malloc!EndOf(given) <= POOL
      <4>1. rest.addr \in Nat /\ Malloc!EndOf(given) <= rest.addr
        BY <1>2
      <4> QED
        BY <3>1, <3>2, <4>1, PoolAssumption
    <3> QED
      BY <1>8, <3>3
  <2>2. Taken(blocks', Listing(o)')
    <3>1. Listing(o)' = given
      BY <1>7 DEF Listing, given
    <3> QED
      BY <1>9, <3>1
  <2>3. ASSUME NEW p \in Owners \ {o}, held'[p] # nullptr PROVE HeldApart(o, p)'
    <3>1. Malloc!EndOf(held[p]) <= s[i].addr
      BY <1>7, <1>10, <2>3
    <3>2. Malloc!EndOf(held'[p]) <= held'[o].addr
      BY <1>7, <3>1
    <3> QED
      BY <3>2 DEF HeldApart, Malloc!EndOf
  <2> QED
    BY <2>1, <2>2, <2>3 DEF HasArea, Malloc!EndOf
<1>12. ASSUME NEW p \in Owners \ {o} PROVE HasArea(p)'
  <2>1. ASSUME held'[p] # nullptr, NEW q \in Owners \ {p}, held'[q] # nullptr
        PROVE  HeldApart(p, q)'
    <3>1. CASE q = o
      <4>1. Malloc!EndOf(held'[p]) <= held'[o].addr
        BY <1>7, <1>10, <2>1
      <4> QED
        BY <3>1, <4>1 DEF HeldApart, Malloc!EndOf
    <3>2. CASE q # o
      <4>1. HeldApart(p, q) /\ held'[p] = held[p] /\ held'[q] = held[q]
        BY <1>4, <1>7, <2>1, <3>2 DEF HasArea
      <4> QED
        BY <4>1 DEF HeldApart, Malloc!EndOf
    <3> QED
      BY <3>1, <3>2
  <2>2. ASSUME held'[p] # nullptr
        PROVE  Malloc!EndOf(held'[p]) <= POOL /\ Taken(blocks', Listing(p)')
    BY <1>4, <1>7, <1>10, <2>2 DEF HasArea, Listing
  <2> QED
    BY <2>1, <2>2 DEF HasArea, Malloc!EndOf
<1> QED
  BY <1>11, <1>12

LEMMA FreeKeepsAreas ==
  ASSUME AreasInv, NEW o \in Owners, Malloc!fast_malloc_free(o), sound', ~corrupted'
  PROVE  \A p \in Owners : HasArea(p)'
<1>1. AllocatorInv /\ held[o] # nullptr /\ sound /\ ~corrupted
  BY DEF AreasInv, Malloc!fast_malloc_free
<1>2. \A p \in Owners : HasArea(p)
  BY <1>1 DEF AreasInv
<1>3. /\ \A x \in Block : ~x.free /\ Taken(Freed(o), x) => Taken(blocks', x)
      /\ held'[o] = nullptr
      /\ \A p \in Owners \ {o} : held'[p] = held[p]
  BY <1>1, FreedList
<1>4. HasArea(o)'
  BY <1>3 DEF HasArea
<1>5. ASSUME NEW p \in Owners \ {o}, held[p] # nullptr PROVE Taken(blocks', Listing(p))
  <2>1. PICK j \in 1 .. Len(blocks) : blocks[j] = Listing(p)
    BY <1>2, <1>5 DEF HasArea, Taken
  <2>2. HeldApart(p, o)
    BY <1>1, <1>2, <1>5 DEF HasArea
  <2>3. /\ held[p].addr \in Nat /\ held[p].addr < Malloc!EndOf(held[p])
        /\ Malloc!EndOf(held[p]) \in Nat
        /\ Listing(p) \in Block /\ ~Listing(p).free /\ Listing(p).addr = held[p].addr
    BY <1>1, <1>5, AreaTypes
  <2>4. /\ held[o].addr \in Nat /\ held[o].addr < Malloc!EndOf(held[o])
        /\ Malloc!EndOf(held[o]) \in Nat
    BY <1>1, AreaTypes
  <2>5. held[p].addr # held[o].addr
    BY <2>2, <2>3, <2>4 DEF HeldApart
  <2>6. Freed(o)[j] = blocks[j] /\ Len(Freed(o)) = Len(blocks)
    <3>1. GoesUp(blocks)
      BY <1>1, InUse
    <3>2. blocks[j].addr # held[o].addr
      BY <2>1, <2>3, <2>5
    <3> QED
      BY <3>1, <3>2, FreedGoesUp
  <2>7. Taken(Freed(o), Listing(p))
    BY <2>1, <2>6 DEF Taken
  <2> QED
    BY <1>3, <2>3, <2>7
<1>6. ASSUME NEW p \in Owners \ {o} PROVE HasArea(p)'
  <2>1. HasArea(p) /\ held'[p] = held[p]
    BY <1>2, <1>3
  <2>2. \A q \in Owners \ {p} : held'[q] = held[q] \/ held'[q] = nullptr
    BY <1>3
  <2> QED
    BY <1>5, <1>6, <2>1, <2>2, UntouchedArea
<1> QED
  BY <1>4, <1>6

LEMMA AreasStart == Malloc!Init => AreasInv
<1> SUFFICES ASSUME Malloc!Init PROVE AreasInv
  OBVIOUS
<1>1. AllocatorInv
  BY AllocatorStarts
<1> QED
  BY <1>1 DEF Malloc!Init, AreasInv, HasArea

LEMMA AreasStep == AreasInv /\ [Malloc!Next]_(Malloc!vars) => AreasInv'
<1> SUFFICES ASSUME AreasInv, [Malloc!Next]_(Malloc!vars) PROVE AreasInv'
  OBVIOUS
<1>1. AllocatorInv /\ AllocatorInv'
  BY AllocatorSteps DEF AreasInv
<1> SUFFICES ASSUME sound', ~corrupted' PROVE \A p \in Owners : HasArea(p)'
  BY <1>1 DEF AreasInv
<1>2. ASSUME NEW o \in Owners, NEW wanted \in Requests, Malloc!fast_malloc_exact(o, wanted)
      PROVE  FALSE
  BY <1>2 DEF Malloc!fast_malloc_exact
<1>3. ASSUME NEW o \in Owners, NEW wanted \in Requests, Malloc!fast_malloc_split(o, wanted)
      PROVE  \A p \in Owners : HasArea(p)'
  BY <1>3, SplitKeepsAreas
<1>4. ASSUME NEW wanted \in Requests, Malloc!fast_malloc_none(wanted)
      PROVE  \A p \in Owners : HasArea(p)'
  <2>1. /\ sound /\ ~corrupted /\ held' = held /\ blocks' = Malloc!Listed
        /\ Malloc!Reinitialized => Malloc!Held = {}
    BY <1>4 DEF Malloc!fast_malloc_none
  <2>2. ASSUME NEW p \in Owners PROVE HasArea(p)'
    <3>1. HasArea(p)
      BY <2>1 DEF AreasInv
    <3>2. ASSUME held[p] # nullptr PROVE blocks' = blocks
      BY <1>1, <2>1, <3>2, ListedGoesUp DEF Malloc!Held
    <3>3. ASSUME held[p] # nullptr PROVE Taken(blocks', Listing(p))
      BY <3>1, <3>2, <3>3 DEF HasArea
    <3> QED
      BY <2>1, <3>1, <3>3, UntouchedArea
  <2> QED
    BY <2>2
<1>5. ASSUME NEW o \in Owners, Malloc!fast_malloc_free(o)
      PROVE  \A p \in Owners : HasArea(p)'
  BY <1>5, FreeKeepsAreas
<1>6. CASE UNCHANGED Malloc!vars
  <2>1. held' = held /\ blocks' = blocks /\ sound /\ ~corrupted
    BY <1>6 DEF Malloc!vars
  <2>2. ASSUME NEW p \in Owners PROVE HasArea(p)'
    <3>1. HasArea(p)
      BY <2>1 DEF AreasInv
    <3>2. held[p] # nullptr => Taken(blocks', Listing(p))
      BY <2>1, <3>1 DEF HasArea
    <3> QED
      BY <2>1, <3>1, <3>2, UntouchedArea
  <2> QED
    BY <2>2
<1> QED
  BY <1>2, <1>3, <1>4, <1>5, <1>6 DEF Malloc!Next

(* whatever is allocated, freed and merged, fast_malloc's list   *)
(* goes up through the array and ends in a free block.                     *)
THEOREM BlocksInOrder == Malloc!Spec => []ListedBlocksApart
<1>1. AllocatorInv => ListedBlocksApart
  <2> SUFFICES ASSUME AllocatorInv PROVE ListedBlocksApart
    OBVIOUS
  <2>1. CASE blocks = UnusedArray
    BY <2>1 DEF UnusedArray, ListedBlocksApart, Malloc!ListedBlocksApart
  <2>2. CASE GoesUp(blocks)
    BY <2>2, BlocksTypes DEF GoesUp, Rising, ListedBlocksApart, Malloc!ListedBlocksApart
  <2> QED
    BY <2>1, <2>2 DEF AllocatorInv
<1> QED
  BY <1>1, AllocatorStarts, AllocatorSteps, PTL DEF Malloc!Spec

(* until an exact fit, a lost follower or a re-initialisation,  *)
(* what fast_malloc gave a user is a listed block marked TAKEN, inside the *)
(* array and apart from every other user's.                                *)
THEOREM UsersApart == Malloc!Spec => []LiveAreasApart
<1>1. AreasInv => LiveAreasApart
  <2> SUFFICES ASSUME AreasInv, sound, ~corrupted, NEW o \in Owners, held[o] # nullptr
               PROVE  /\ Malloc!EndOf(held[o]) <= POOL
                      /\ \E i \in DOMAIN blocks :
                           blocks[i] = Malloc!mem_block(held[o].addr, held[o].size, FALSE)
                      /\ \A p \in Owners \ {o} : held[p] # nullptr =>
                           \/ Malloc!EndOf(held[o]) <= held[p].addr
                           \/ Malloc!EndOf(held[p]) <= held[o].addr
    BY DEF LiveAreasApart, Malloc!LiveAreasApart
  <2>1. HasArea(o)
    BY DEF AreasInv
  <2>2. DOMAIN blocks = 1 .. Len(blocks)
    BY InUse, BlocksTypes DEF AreasInv, GoesUp
  <2> QED
    BY <2>1, <2>2 DEF HasArea, HeldApart, Taken, Listing
<1> QED
  BY <1>1, AreasStart, AreasStep, PTL DEF Malloc!Spec
-----------------------------------------------------------------------------
(* A node made for a number; one without children; a tree of at most a head*)
(* and a child on each side of it.                                         *)
Made == [ptr : Pointers \cup {nullptr}, red : BOOLEAN,
         left : Numbers \cup {nullptr}, right : Numbers \cup {nullptr}]

Side(nodes, h, k) == IF h < k THEN nodes[h].right ELSE nodes[h].left

Leaf(nodes, c) == nodes[c] \in Made /\ nodes[c].left = nullptr /\ nodes[c].right = nullptr

Shaped(nodes, h) ==
  /\ nodes \in [Numbers -> Made \cup {nullptr}]
  /\ nodes[h] \in Made
  /\ nodes[h].left # nullptr => nodes[h].left < h /\ Leaf(nodes, nodes[h].left)
  /\ nodes[h].right # nullptr => nodes[h].right > h /\ Leaf(nodes, nodes[h].right)

TreeInv ==
  /\ root \in Numbers \cup {nullptr}
  /\ tree \in [Numbers -> Made \cup {nullptr}]
  /\ root # nullptr => Shaped(tree, root)

(* A search for a number in a tree of that shape.                          *)
Towards(nodes, n, k) == IF n \in {nullptr, k} THEN n ELSE Side(nodes, n, k)

Walk(nodes, h, k, at) ==
  at = [d \in 0 .. Cardinality(Numbers) |->
          IF d = 0 THEN h ELSE Towards(nodes, at[d - 1], k)]

Searched(nodes, h, k) == (CHOOSE at : Walk(nodes, h, k, at))[Cardinality(Numbers)]

LEMMA SearchIs ==
  /\ \A k : /\ Tree!search(k) = Searched(tree, root, k)
           /\ Tree!search(k)' = Searched(tree', root', k)
  /\ Tree!search(root)' = Searched(tree', root', root')
<1>1. \A A : Tree!Cardinality(A) = Cardinality(A)
  BY DEF Tree!Cardinality, Cardinality
<1>2. \A k : Tree!search(k) = Searched(tree, root, k)
  BY <1>1 DEF Tree!search, Tree!search_helper, Tree!Below, Tree!Depth, Searched, Walk,
              Towards, Side
<1>3. \A k : Tree!search(k)' = Searched(tree', root', k)
  BY <1>1 DEF Tree!search, Tree!search_helper, Tree!Below, Tree!Depth, Searched, Walk,
              Towards, Side
<1>4. Tree!search(root)' = Searched(tree', root', root')
  BY <1>1 DEF Tree!search, Tree!search_helper, Tree!Below, Tree!Depth, Searched, Walk,
              Towards, Side
<1> QED
  BY <1>2, <1>3, <1>4

(* How many numbers there are: one at least, and two if two differ.        *)
LEMMA NumbersCounted ==
  ASSUME NEW h \in Numbers
  PROVE  /\ Cardinality(Numbers) \in Nat \ {0}
         /\ \A k \in Numbers : k # h => Cardinality(Numbers) - 1 \in Nat \ {0}
<1>1. IsFiniteSet(Numbers) /\ Cardinality(Numbers) \in Nat
  BY NumbersAssumption, FS_CardinalityType
<1>2. Cardinality(Numbers) # 0
  BY <1>1, FS_EmptySet
<1>3. ASSUME NEW k \in Numbers, k # h PROVE Cardinality(Numbers) # 1
  BY <1>1, <1>3, FS_Singleton
<1> QED
  BY <1>1, <1>2, <1>3

(* A walk that stands still after two steps ends there.                    *)
LEMMA WalkEnds ==
  ASSUME NEW N \in Nat \ {0}, NEW nodes, NEW h, NEW k, NEW a, NEW b,
         N = Cardinality(Numbers),
         a = Towards(nodes, h, k), b = Towards(nodes, a, k), b = Towards(nodes, b, k),
         N = 1 => a = b
  PROVE  Searched(nodes, h, k) = b
<1> DEFINE f == [d \in 0 .. N |-> IF d = 0 THEN h ELSE IF d = 1 THEN a ELSE b]
<1>1. Walk(nodes, h, k, f)
  <2>1. ASSUME NEW d \in 1 .. N PROVE f[d] = Towards(nodes, f[d - 1], k)
    <3>1. CASE d = 1
      BY <3>1
    <3>2. CASE d = 2
      BY <3>2
    <3>3. CASE d # 1 /\ d # 2
      <4>1. d - 1 \in 0 .. N /\ d - 1 # 0 /\ d - 1 # 1
        BY <3>3
      <4> QED
        BY <3>3, <4>1
    <3> QED
      BY <3>1, <3>2, <3>3
  <2>2. \A d \in 0 .. N : d = 0 \/ d \in 1 .. N
    OBVIOUS
  <2>3. f[0] = h /\ f = [d \in 0 .. N |-> f[d]]
    OBVIOUS
  <2> HIDE DEF f
  <2>4. \A d \in 0 .. N : f[d] = IF d = 0 THEN h ELSE Towards(nodes, f[d - 1], k)
    BY <2>1, <2>2, <2>3
  <2> QED
    BY <2>3, <2>4 DEF Walk
<1> DEFINE at == CHOOSE g : Walk(nodes, h, k, g)
<1>2. Walk(nodes, h, k, at)
  <2> HIDE DEF f
  <2> QED
    BY <1>1
<1>3. Searched(nodes, h, k) = at[N]
  BY DEF Searched
<1> HIDE DEF at, f
<1>4. at[0] = h /\ \A d \in 1 .. N : at[d] = Towards(nodes, at[d - 1], k)
  BY <1>2 DEF Walk
<1>5. at[1] = a
  BY <1>4
<1>6. CASE N = 1
  BY <1>3, <1>5, <1>6
<1>7. CASE N # 1
  <2> DEFINE S == {d \in 0 .. N : d >= 2 => at[d] = b}
  <2>1. 0 \in S
    OBVIOUS
  <2>2. ASSUME NEW d \in 1 .. N, d - 1 \in S PROVE d \in S
    <3>1. CASE d < 2
      BY <3>1
    <3>2. CASE d = 2
      BY <1>4, <1>5, <3>2
    <3>3. CASE d > 2
      BY <1>4, <2>2, <3>3
    <3> QED
      BY <3>1, <3>2, <3>3
  <2>3. \A d \in 0 .. N : d \in S
    <3> HIDE DEF S
    <3> QED
      BY <2>1, <2>2, EveryStep
  <2> QED
    BY <1>3, <1>7, <2>3
<1> QED
  BY <1>6, <1>7

(* A search finds the head and the child on the number's side, no others.  *)
LEMMA SearchFinds ==
  ASSUME NEW nodes, NEW h \in Numbers, Shaped(nodes, h), NEW k \in Numbers
  PROVE  Searched(nodes, h, k) =
           IF k = h THEN h ELSE IF Side(nodes, h, k) = k THEN k ELSE nullptr
<1> DEFINE N == Cardinality(Numbers)
           a == Towards(nodes, h, k)
           b == Towards(nodes, a, k)
<1>1. N \in Nat \ {0} /\ (k # h => N # 1)
  BY NumbersCounted
<1>2. nullptr \notin Numbers
  BY NodesAssumption
<1>3. CASE k = h
  <2>1. a = h /\ b = h
    BY <1>3 DEF Towards
  <2> QED
    BY <1>1, <1>3, <2>1, WalkEnds
<1>4. CASE k # h
  <2>1. a = Side(nodes, h, k)
    BY <1>2, <1>4 DEF Towards
  <2>2. a = nullptr \/ Leaf(nodes, a)
    BY <2>1 DEF Side, Shaped
  <2>3. b = IF a = k THEN k ELSE nullptr
    BY <1>2, <2>2 DEF Towards, Side, Leaf
  <2>4. b = Towards(nodes, b, k)
    BY <2>3 DEF Towards
  <2> HIDE DEF N, a, b
  <2>5. Searched(nodes, h, k) = b
    BY <1>1, <1>4, <2>4, WalkEnds DEF N, a, b
  <2> QED
    BY <1>4, <2>1, <2>3, <2>5
<1> QED
  BY <1>3, <1>4

-----------------------------------------------------------------------------
(* The calls of insertion_helper, and that there are any.                  *)
Calls(frames, N, k) ==
  frames = [d \in 0 .. N |-> IF d = 0 THEN [n \in Numbers |-> <<tree, n>>]
                           ELSE [n \in Numbers |-> Tree!Called(n, k, frames[d - 1])]]

LEMMA CallsExist ==
  ASSUME NEW N \in Nat, NEW k
  PROVE  \E frames : Calls(frames, N, k)
<1> DEFINE first == [n \in Numbers |-> <<tree, n>>]
           Turn(below) == [n \in Numbers |-> Tree!Called(n, k, below)]
           Good(frames, m) ==
             frames = [d \in 0 .. m |-> IF d = 0 THEN first ELSE Turn(frames[d - 1])]
           S == {m \in 0 .. N : \E frames : Good(frames, m)}
<1>1. 0 \in S
  <2> DEFINE frames == [d \in 0 .. 0 |-> first]
  <2> HIDE DEF first, Turn
  <2>1. \A d \in 0 .. 0 : frames[d] = IF d = 0 THEN first ELSE Turn(frames[d - 1])
    OBVIOUS
  <2>2. frames = [d \in 0 .. 0 |-> frames[d]]
    OBVIOUS
  <2> HIDE DEF frames
  <2>3. Good(frames, 0)
    BY <2>1, <2>2
  <2> QED
    BY <2>3
<1>2. ASSUME NEW m \in 1 .. N, m - 1 \in S PROVE m \in S
  <2>1. PICK c : Good(c, m - 1)
    BY <1>2
  <2> DEFINE frames == [d \in 0 .. m |-> IF d = m THEN Turn(c[m - 1]) ELSE c[d]]
  <2> HIDE DEF first, Turn
  <2>2. \A d \in 0 .. m - 1 : c[d] = IF d = 0 THEN first ELSE Turn(c[d - 1])
    BY <2>1
  <2>3. ASSUME NEW d \in 0 .. m
        PROVE  frames[d] = IF d = 0 THEN first ELSE Turn(frames[d - 1])
    <3>1. CASE d = m
      <4>1. frames[d] = Turn(c[m - 1]) /\ d # 0 /\ d - 1 \in 0 .. m /\ d - 1 # m
        BY <3>1
      <4> QED
        BY <3>1, <4>1
    <3>2. CASE d # m /\ d # 0
      <4>1. d \in 0 .. m - 1 /\ d - 1 \in 0 .. m /\ d - 1 # m /\ frames[d] = c[d]
        BY <3>2
      <4>2. frames[d - 1] = c[d - 1]
        BY <4>1
      <4> QED
        BY <2>2, <3>2, <4>1, <4>2
    <3>3. CASE d # m /\ d = 0
      <4>1. d \in 0 .. m - 1 /\ frames[d] = c[d]
        BY <3>3
      <4> QED
        BY <2>2, <3>3, <4>1
    <3> QED
      BY <3>1, <3>2, <3>3
  <2>4. frames = [d \in 0 .. m |-> frames[d]]
    OBVIOUS
  <2> HIDE DEF frames
  <2>5. Good(frames, m)
    BY <2>3, <2>4
  <2>6. m \in 0 .. N
    OBVIOUS
  <2> QED
    BY <2>5, <2>6
<1>3. N \in S
  <2> HIDE DEF S
  <2> QED
    BY <1>1, <1>2, EveryStep
<1> QED
  BY <1>3 DEF Calls

(* A call for the head, and those for the nodes below it.                  *)
LEMMA HelperCalls ==
  ASSUME NEW h \in Numbers, NEW k \in Numbers
  PROVE  \E below :
           /\ Tree!insertion_helper(h, k) = Tree!Called(h, k, below)
           /\ h # k => \A c \in Numbers : \E deeper : below[c] = Tree!Called(c, k, deeper)
<1> DEFINE N == Cardinality(Numbers)
           frames == CHOOSE f : Calls(f, N, k)
<1>1. N \in Nat \ {0} /\ (k # h => N - 1 \in Nat \ {0})
  BY NumbersCounted
<1>2. Calls(frames, N, k)
  <2> HIDE DEF N
  <2>1. \E f : Calls(f, N, k)
    BY <1>1, CallsExist
  <2> QED
    BY <2>1
<1>3. Tree!insertion_helper(h, k) = frames[N][h]
  <2>1. \A A : Tree!Cardinality(A) = Cardinality(A)
    BY DEF Tree!Cardinality, Cardinality
  <2> QED
    BY <2>1 DEF Tree!insertion_helper, Tree!Depth, Calls
<1> HIDE DEF N, frames
<1>4. ASSUME NEW d \in 0 .. N, d # 0, NEW n \in Numbers
      PROVE  frames[d][n] = Tree!Called(n, k, frames[d - 1])
  <2>1. frames[d] = [m \in Numbers |-> Tree!Called(m, k, frames[d - 1])]
    BY <1>2, <1>4 DEF Calls
  <2> QED
    BY <2>1
<1>5. Tree!insertion_helper(h, k) = Tree!Called(h, k, frames[N - 1])
  <2>1. N \in 0 .. N /\ N # 0
    BY <1>1
  <2> QED
    BY <1>3, <1>4, <2>1
<1>6. ASSUME h # k, NEW c \in Numbers
      PROVE  frames[N - 1][c] = Tree!Called(c, k, frames[(N - 1) - 1])
  <2>1. N - 1 \in 0 .. N /\ N - 1 # 0
    BY <1>1, <1>6
  <2> QED
    BY <1>4, <2>1
<1> QED
  BY <1>5, <1>6

Planted(k) == [tree EXCEPT ![k] = Tree!RedBlackTreePointerNode(nullptr, TRUE)]

(* The four cases of an insertion into a tree of that shape: the number is *)
(* the head's, its side is free, it is there, or its node takes the place  *)
(* of the one that is.                                                     *)
LEMMA HelperResult ==
  ASSUME NEW h \in Numbers, NEW k \in Numbers, Shaped(tree, h)
  PROVE  LET c == Side(tree, h, k)
         IN Tree!insertion_helper(h, k) =
              IF k = h THEN <<tree, h>>
              ELSE IF c = nullptr THEN <<Tree!Linked(Planted(k), h, k, k), k>>
              ELSE IF c = k THEN <<Tree!Linked(tree, h, k, k), h>>
              ELSE <<Tree!Linked(Tree!Linked(Planted(k), c, k, k), h, k, k), h>>
<1> DEFINE c == Side(tree, h, k)
<1>1. PICK below :
        /\ Tree!insertion_helper(h, k) = Tree!Called(h, k, below)
        /\ h # k => \A n \in Numbers : \E deeper : below[n] = Tree!Called(n, k, deeper)
  BY HelperCalls
<1>2. \A n : Tree!Below(n, k) = Side(tree, n, k)
  BY DEF Tree!Below, Side
<1>3. CASE k = h
  BY <1>1, <1>3 DEF Tree!Called
<1>4. CASE k # h /\ c = nullptr
  BY <1>1, <1>2, <1>4 DEF Tree!Called, Planted
<1>5. CASE k # h /\ c # nullptr
  <2>1. c \in Numbers /\ Leaf(tree, c)
    BY <1>5 DEF Shaped, Side, Made
  <2>2. PICK deeper : below[c] = Tree!Called(c, k, deeper)
    BY <1>1, <1>5, <2>1
  <2>3. Tree!Below(c, k) = nullptr
    BY <1>2, <2>1 DEF Leaf, Side
  <2>4. below[c] = IF c = k THEN <<tree, k>> ELSE <<Tree!Linked(Planted(k), c, k, k), k>>
    BY <2>2, <2>3 DEF Tree!Called, Planted
  <2>5. Tree!insertion_helper(h, k) = <<Tree!Linked(below[c][1], h, k, below[c][2]), h>>
    BY <1>1, <1>2, <1>5 DEF Tree!Called
  <2> HIDE DEF c
  <2>6. CASE c = k
    <3>1. below[c][1] = tree /\ below[c][2] = k
      BY <2>4, <2>6
    <3>2. Tree!insertion_helper(h, k) = <<Tree!Linked(tree, h, k, k), h>>
      BY <2>5, <3>1
    <3> QED
      BY <1>5, <2>6, <3>2 DEF c
  <2>7. CASE c # k
    <3>1. below[c][1] = Tree!Linked(Planted(k), c, k, k) /\ below[c][2] = k
      BY <2>4, <2>7
    <3>2. Tree!insertion_helper(h, k)
            = <<Tree!Linked(Tree!Linked(Planted(k), c, k, k), h, k, k), h>>
      BY <2>5, <3>1
    <3> QED
      BY <1>5, <2>7, <3>2 DEF c
  <2> QED
    BY <2>6, <2>7
<1> QED
  BY <1>3, <1>4, <1>5

(* What the three updates of the nodes change, and what they do not.       *)
Records == [Numbers -> Made \cup {nullptr}]

Others(nodes, t, n) == \A j \in Numbers : j # n => t[j] = nodes[j]

LinkedTo(nodes, t, n, k) ==
  /\ t \in Records /\ t[n] \in Made /\ Others(nodes, t, n)
  /\ t[n].left = IF k < n THEN k ELSE nodes[n].left
  /\ t[n].right = IF k < n THEN nodes[n].right ELSE k

LEMMA LinkedIs ==
  ASSUME NEW nodes \in Records, NEW n \in Numbers, NEW k \in Numbers, nodes[n] \in Made
  PROVE  LinkedTo(nodes, Tree!Linked(nodes, n, k, k), n, k)
<1>1. CASE k < n
  <2> DEFINE node == [nodes[n] EXCEPT !.left = k]
             t == [nodes EXCEPT ![n] = node]
  <2>1. node \in Made /\ node.left = k /\ node.right = nodes[n].right
    BY DEF Made
  <2>2. Tree!Linked(nodes, n, k, k) = t
    BY <1>1 DEF Tree!Linked
  <2> HIDE DEF node
  <2>3. t \in Records /\ t[n] = node /\ Others(nodes, t, n)
    BY <2>1 DEF Records, Others
  <2> QED
    BY <1>1, <2>1, <2>2, <2>3 DEF LinkedTo
<1>2. CASE ~(k < n)
  <2> DEFINE node == [nodes[n] EXCEPT !.right = k]
             t == [nodes EXCEPT ![n] = node]
  <2>1. node \in Made /\ node.right = k /\ node.left = nodes[n].left
    BY DEF Made
  <2>2. Tree!Linked(nodes, n, k, k) = t
    BY <1>2 DEF Tree!Linked
  <2> HIDE DEF node
  <2>3. t \in Records /\ t[n] = node /\ Others(nodes, t, n)
    BY <2>1 DEF Records, Others
  <2> QED
    BY <1>2, <2>1, <2>2, <2>3 DEF LinkedTo
<1> QED
  BY <1>1, <1>2

LEMMA PlantedIs ==
  ASSUME NEW k \in Numbers, tree \in Records
  PROVE  Planted(k) \in Records /\ Leaf(Planted(k), k) /\ Others(tree, Planted(k), k)
<1> DEFINE node == Tree!RedBlackTreePointerNode(nullptr, TRUE)
<1>1. node \in Made /\ node.left = nullptr /\ node.right = nullptr
  BY DEF Tree!RedBlackTreePointerNode, Made
<1> HIDE DEF node
<1>2. Planted(k) = [tree EXCEPT ![k] = node]
  BY DEF Planted, node
<1> QED
  BY <1>1, <1>2 DEF Records, Leaf, Others

Marked(nodes, t, n) ==
  /\ t \in Records /\ t[n] \in Made /\ Others(nodes, t, n)
  /\ t[n].left = nodes[n].left /\ t[n].right = nodes[n].right

LEMMA PointerIs ==
  ASSUME NEW nodes \in Records, NEW n \in Numbers, NEW p \in Pointers, nodes[n] \in Made
  PROVE  Marked(nodes, [nodes EXCEPT ![n].ptr = p, ![n].red = TRUE], n)
<1> DEFINE node == [nodes[n] EXCEPT !.ptr = p, !.red = TRUE]
           t == [nodes EXCEPT ![n] = node]
<1>1. node \in Made /\ node.left = nodes[n].left /\ node.right = nodes[n].right
  BY DEF Made
<1>2. [nodes EXCEPT ![n].ptr = p, ![n].red = TRUE] = t
  BY DEF Records
<1> HIDE DEF node
<1>3. t \in Records /\ t[n] = node /\ Others(nodes, t, n)
  BY <1>1 DEF Records, Others
<1> QED
  BY <1>1, <1>2, <1>3 DEF Marked

(* An insertion leaves the number's node on its side and the other side as *)
(* it was.                                                                 *)
Grown(nodes, t, h, k) ==
  /\ Shaped(t, h)
  /\ k # h => Side(t, h, k) = k
  /\ \A j \in Numbers : j # h /\ (j < h <=> k > h) => Side(t, h, j) = Side(nodes, h, j)

LEMMA Grows ==
  ASSUME NEW h \in Numbers, NEW k \in Numbers, k # h, Shaped(tree, h),
         NEW t \in Records, t[h] \in Made, Leaf(t, k),
         t[h].left = IF k < h THEN k ELSE tree[h].left,
         t[h].right = IF k < h THEN tree[h].right ELSE k,
         \A o \in Numbers : o # h /\ (o < h <=> k > h) => t[o] = tree[o]
  PROVE  Grown(tree, t, h, k)
<1>1. /\ h \in Int /\ k \in Int /\ \A j \in Numbers : j \in Int
      /\ nullptr \notin Numbers
  BY NumbersAssumption, NodesAssumption
<1>2. /\ tree[h].left \in Numbers \cup {nullptr} /\ tree[h].right \in Numbers \cup {nullptr}
      /\ tree[h].left # nullptr => tree[h].left < h /\ Leaf(tree, tree[h].left)
      /\ tree[h].right # nullptr => tree[h].right > h /\ Leaf(tree, tree[h].right)
  BY DEF Shaped, Made
<1>3. CASE k < h
  <2>1. t[h].left = k /\ t[h].right = tree[h].right
    BY <1>3
  <2>2. t[h].right # nullptr => t[h].right > h /\ Leaf(t, t[h].right)
    <3> SUFFICES ASSUME t[h].right # nullptr
                 PROVE  t[h].right > h /\ Leaf(t, t[h].right)
      OBVIOUS
    <3> DEFINE o == t[h].right
    <3>1. o \in Numbers /\ o > h /\ Leaf(tree, o)
      BY <1>2, <2>1
    <3>2. o # h /\ ~(o < h) /\ ~(k > h)
      BY <1>1, <1>3, <3>1
    <3>3. t[o] = tree[o]
      BY <3>1, <3>2
    <3> QED
      BY <3>1, <3>3 DEF Leaf
  <2>3. Shaped(t, h)
    BY <1>3, <2>1, <2>2 DEF Shaped, Records
  <2>4. \A j \in Numbers : j # h /\ (j < h <=> k > h) => Side(t, h, j) = Side(tree, h, j)
    BY <1>1, <1>3, <2>1 DEF Side
  <2>5. Side(t, h, k) = k
    BY <1>1, <1>3, <2>1 DEF Side
  <2> QED
    BY <2>3, <2>4, <2>5 DEF Grown
<1>4. CASE ~(k < h)
  <2>0. k > h
    BY <1>1, <1>4
  <2>1. t[h].right = k /\ t[h].left = tree[h].left
    BY <1>4
  <2>2. t[h].left # nullptr => t[h].left < h /\ Leaf(t, t[h].left)
    <3> SUFFICES ASSUME t[h].left # nullptr
                 PROVE  t[h].left < h /\ Leaf(t, t[h].left)
      OBVIOUS
    <3> DEFINE o == t[h].left
    <3>1. o \in Numbers /\ o < h /\ Leaf(tree, o)
      BY <1>2, <2>1
    <3>2. o # h
      BY <1>1, <3>1
    <3>3. t[o] = tree[o]
      BY <2>0, <3>1, <3>2
    <3> QED
      BY <3>1, <3>3 DEF Leaf
  <2>3. Shaped(t, h)
    BY <2>0, <2>1, <2>2 DEF Shaped, Records
  <2>4. \A j \in Numbers : j # h /\ (j < h <=> k > h) => Side(t, h, j) = Side(tree, h, j)
    BY <1>1, <2>0, <2>1 DEF Side
  <2>5. Side(t, h, k) = k
    BY <1>1, <2>0, <2>1 DEF Side
  <2> QED
    BY <2>3, <2>4, <2>5 DEF Grown
<1> QED
  BY <1>3, <1>4

LEMMA TreeGrows ==
  ASSUME TreeInv, NEW p \in Pointers, NEW k \in Numbers, Tree!insert(p, k)
  PROVE  root \in Numbers /\ root' = root /\ Shaped(tree, root) /\ Grown(tree, tree', root, k)
<1> DEFINE h == root
           c == Side(tree, h, k)
           linked == Tree!insertion_helper(h, k)[1]
           marked == Tree!insertion_helper(h, k)[2]
<1>1. /\ h \in Numbers /\ root' = h /\ Shaped(tree, h)
      /\ tree' = [linked EXCEPT ![marked].ptr = p, ![marked].red = TRUE]
  BY DEF TreeInv, Tree!insert
<1>2. /\ tree \in Records /\ tree[h] \in Made
      /\ h \in Int /\ k \in Int /\ nullptr \notin Numbers /\ \A j \in Numbers : j \in Int
  BY <1>1, NumbersAssumption, NodesAssumption DEF Shaped, Records
<1>3. Tree!insertion_helper(h, k) =
              IF k = h THEN <<tree, h>>
              ELSE IF c = nullptr THEN <<Tree!Linked(Planted(k), h, k, k), k>>
              ELSE IF c = k THEN <<Tree!Linked(tree, h, k, k), h>>
              ELSE <<Tree!Linked(Tree!Linked(Planted(k), c, k, k), h, k, k), h>>
  BY <1>1, HelperResult
<1>4. Planted(k) \in Records /\ Leaf(Planted(k), k) /\ Others(tree, Planted(k), k)
  BY <1>2, PlantedIs
<1>5. /\ c \in Numbers \cup {nullptr}
      /\ c # nullptr => Leaf(tree, c) /\ c # h /\ (c < h <=> k < h \/ k = h)
  BY <1>1, <1>2 DEF Shaped, Side, Made
<1> HIDE DEF h, c
<1>6. CASE k = h
  <2>1. linked = tree /\ marked = h
    BY <1>3, <1>6
  <2>2. Marked(tree, tree', h)
    BY <1>1, <1>2, <2>1, PointerIs
  <2>3. /\ tree' \in Records /\ tree'[h] \in Made
        /\ tree'[h].left = tree[h].left /\ tree'[h].right = tree[h].right
        /\ \A j \in Numbers : j # h => tree'[j] = tree[j]
    BY <2>2 DEF Marked, Others
  <2> HIDE DEF linked, marked
  <2>4. Shaped(tree', h)
    <3>1. ASSUME NEW o \in {tree[h].left, tree[h].right}, o # nullptr
          PROVE  Leaf(tree, o) /\ tree'[o] = tree[o]
      <4>1. Leaf(tree, o) /\ o \in Numbers /\ (o < h \/ o > h)
        BY <1>1, <1>2, <3>1 DEF Shaped, Made
      <4>2. o # h
        BY <1>2, <4>1
      <4> QED
        BY <2>3, <4>1, <4>2
    <3>2. \A o \in {tree[h].left, tree[h].right} : o # nullptr => Leaf(tree', o)
      BY <3>1 DEF Leaf
    <3> QED
      BY <1>1, <2>3, <3>2 DEF Shaped, Records
  <2>5. \A j : Side(tree', h, j) = Side(tree, h, j)
    BY <2>3 DEF Side
  <2>6. Grown(tree, tree', h, k)
    BY <1>6, <2>4, <2>5 DEF Grown
  <2> QED
    BY <1>1, <2>6 DEF h
<1>7. CASE k # h /\ c = nullptr
  <2> DEFINE t == Tree!Linked(Planted(k), h, k, k)
  <2>1. linked = t /\ marked = k
    BY <1>3, <1>7
  <2>2. Planted(k)[h] = tree[h]
    BY <1>1, <1>4, <1>7 DEF Others
  <2>3. LinkedTo(Planted(k), t, h, k)
    BY <1>1, <1>2, <1>4, <2>2, LinkedIs
  <2> HIDE DEF t
  <2>4. t \in Records /\ t[k] = Planted(k)[k] /\ t[k] \in Made
    BY <1>4, <1>7, <2>3 DEF LinkedTo, Others, Leaf
  <2>5. Marked(t, tree', k)
    BY <1>1, <2>1, <2>4, PointerIs
  <2>6. Leaf(tree', k) /\ tree'[h] = t[h]
    BY <1>1, <1>4, <1>7, <2>4, <2>5 DEF Marked, Others, Leaf
  <2>7. \A o \in Numbers : o # h /\ o # k => tree'[o] = tree[o]
    BY <1>4, <2>3, <2>5 DEF Marked, LinkedTo, Others
  <2>7a. \A o \in Numbers : o # h /\ (o < h <=> k > h) => o # k
    BY <1>1, <1>2, <1>7
  <2>8. \A o \in Numbers : o # h /\ (o < h <=> k > h) => tree'[o] = tree[o]
    BY <2>7, <2>7a
  <2>9. /\ tree' \in Records /\ tree'[h] \in Made
        /\ tree'[h].left = IF k < h THEN k ELSE tree[h].left
        /\ tree'[h].right = IF k < h THEN tree[h].right ELSE k
    BY <2>2, <2>3, <2>5, <2>6 DEF Marked, LinkedTo
  <2>10. Grown(tree, tree', h, k)
    BY <1>1, <1>7, <2>6, <2>8, <2>9, Grows
  <2> QED
    BY <1>1, <2>10 DEF h
<1>8. CASE k # h /\ c = k
  <2> DEFINE t == Tree!Linked(tree, h, k, k)
  <2>1. linked = t /\ marked = h
    BY <1>2, <1>3, <1>8
  <2>2. LinkedTo(tree, t, h, k)
    BY <1>1, <1>2, LinkedIs
  <2> HIDE DEF t
  <2>3. Marked(t, tree', h)
    BY <1>1, <2>1, <2>2, PointerIs DEF LinkedTo
  <2>4. \A o \in Numbers : o # h => tree'[o] = tree[o]
    BY <2>2, <2>3 DEF Marked, LinkedTo, Others
  <2>5. Leaf(tree', k)
    BY <1>2, <1>5, <1>8, <2>4 DEF Leaf
  <2>6. /\ tree' \in Records /\ tree'[h] \in Made
        /\ tree'[h].left = IF k < h THEN k ELSE tree[h].left
        /\ tree'[h].right = IF k < h THEN tree[h].right ELSE k
    BY <2>2, <2>3 DEF Marked, LinkedTo
  <2>7. Grown(tree, tree', h, k)
    BY <1>1, <1>8, <2>4, <2>5, <2>6, Grows
  <2> QED
    BY <1>1, <2>7 DEF h
<1>9. CASE k # h /\ c # nullptr /\ c # k
  <2> DEFINE s == Tree!Linked(Planted(k), c, k, k)
             t == Tree!Linked(s, h, k, k)
  <2>1. linked = t /\ marked = h
    BY <1>3, <1>9
  <2>2. c \in Numbers /\ c # h /\ Planted(k)[c] = tree[c] /\ tree[c] \in Made
    BY <1>4, <1>5, <1>9 DEF Others, Leaf
  <2>3. LinkedTo(Planted(k), s, c, k)
    BY <1>4, <2>2, LinkedIs
  <2> HIDE DEF s
  <2>4. s \in Records /\ s[h] = tree[h] /\ s[k] = Planted(k)[k]
    BY <1>1, <1>4, <1>9, <2>2, <2>3 DEF LinkedTo, Others
  <2>5. LinkedTo(s, t, h, k)
    BY <1>1, <1>2, <2>4, LinkedIs
  <2> HIDE DEF t
  <2>6. Marked(t, tree', h)
    BY <1>1, <2>1, <2>5, PointerIs DEF LinkedTo
  <2>7. Leaf(tree', k)
    BY <1>4, <1>9, <2>4, <2>5, <2>6 DEF Marked, LinkedTo, Others, Leaf
  <2>8. \A o \in Numbers : o # h /\ o # k /\ o # c => tree'[o] = tree[o]
    BY <1>4, <2>3, <2>5, <2>6 DEF Marked, LinkedTo, Others
  <2>9. \A o \in Numbers : o # h /\ (o < h <=> k > h) => o # k /\ o # c
    BY <1>1, <1>2, <1>5, <1>9
  <2>10. /\ tree' \in Records /\ tree'[h] \in Made
         /\ tree'[h].left = IF k < h THEN k ELSE tree[h].left
         /\ tree'[h].right = IF k < h THEN tree[h].right ELSE k
    BY <2>4, <2>5, <2>6 DEF Marked, LinkedTo
  <2>11. Grown(tree, tree', h, k)
    BY <1>1, <1>9, <2>7, <2>8, <2>9, <2>10, Grows
  <2> QED
    BY <1>1, <2>11 DEF h
<1> QED
  BY <1>6, <1>7, <1>8, <1>9

LEMMA TreeStarts == Tree!Init => TreeInv
BY NodesAssumption DEF Tree!Init, TreeInv

LEMMA TreeSteps == TreeInv /\ [Tree!Next]_(Tree!vars) => TreeInv'
<1> SUFFICES ASSUME TreeInv, [Tree!Next]_(Tree!vars) PROVE TreeInv'
  OBVIOUS
<1>1. ASSUME NEW p \in Pointers, NEW k \in Numbers, Tree!insert_first(p, k)
      PROVE  TreeInv'
  <2> DEFINE node == Tree!RedBlackTreePointerNode(p, FALSE)
  <2>1. node \in Made /\ node.left = nullptr /\ node.right = nullptr
    BY DEF Tree!RedBlackTreePointerNode, Made
  <2>2. root' = k /\ tree' = [tree EXCEPT ![k] = node]
    BY <1>1 DEF Tree!insert_first
  <2> HIDE DEF node
  <2>3. tree' \in [Numbers -> Made \cup {nullptr}] /\ tree'[k] = node
    BY <2>1, <2>2 DEF TreeInv
  <2> QED
    BY <2>1, <2>2, <2>3 DEF TreeInv, Shaped
<1>2. ASSUME NEW p \in Pointers, NEW k \in Numbers, Tree!insert(p, k)
      PROVE  TreeInv'
  <2>1. root \in Numbers /\ root' = root /\ Shaped(tree', root)
    BY <1>2, TreeGrows DEF Grown
  <2> QED
    BY <2>1 DEF TreeInv, Shaped
<1>3. CASE UNCHANGED Tree!vars
  BY <1>3 DEF Tree!vars, TreeInv, Shaped, Leaf
<1> QED
  BY <1>1, <1>2, <1>3 DEF Tree!Next

LEMMA SearchesAfter ==
  ASSUME TreeInv, NEW p \in Pointers, NEW k \in Numbers, Tree!insert(p, k)
  PROVE  /\ Tree!search(k)' = k /\ Tree!search(root)' = root
         /\ \A j \in Numbers : (j < root <=> k > root) /\ j # root =>
              Tree!search(j)' = Tree!search(j)
<1>1. /\ root \in Numbers /\ root' = root /\ Shaped(tree, root)
      /\ Shaped(tree', root)
      /\ k # root => Side(tree', root, k) = k
      /\ \A j \in Numbers : j # root /\ (j < root <=> k > root) =>
           Side(tree', root, j) = Side(tree, root, j)
  BY TreeGrows DEF Grown
<1>2. \A j \in Numbers :
        Tree!search(j)' = IF j = root THEN root
                          ELSE IF Side(tree', root, j) = j THEN j ELSE nullptr
  <2>1. \A j \in Numbers : Tree!search(j)' = Searched(tree', root, j)
    BY <1>1, SearchIs
  <2> QED
    BY <1>1, <2>1, SearchFinds
<1>3. \A j \in Numbers :
        Tree!search(j) = IF j = root THEN root
                         ELSE IF Side(tree, root, j) = j THEN j ELSE nullptr
  <2>1. \A j \in Numbers : Tree!search(j) = Searched(tree, root, j)
    BY SearchIs
  <2> QED
    BY <1>1, <2>1, SearchFinds
<1>4. Tree!search(root)' = root
  <2>1. Searched(tree', root, root) = root
    BY <1>1, SearchFinds
  <2> QED
    BY <1>1, <2>1, SearchIs
<1> QED
  BY <1>1, <1>2, <1>3, <1>4

(* An insert is found, and so is the head; what is on the other side of the*)
(* head is found if it was before (red_black_tree.cpp:79).                  *)
THEOREM InsertsAreFound == Tree!Spec => InsertedIsFound
<1>1. TreeInv /\ [Tree!Next]_(Tree!vars)
        => [\A p \in Pointers, k \in Numbers : Tree!insert(p, k) =>
              /\ Tree!search(k)' = k /\ Tree!search(root)' = root
              /\ \A j \in Numbers : (j < root <=> k > root) /\ j # root =>
                   Tree!search(j)' = Tree!search(j)]_(Tree!vars)
  BY SearchesAfter
<1> QED
  BY <1>1, TreeStarts, TreeSteps, PTL DEF Tree!Spec, InsertedIsFound, Tree!InsertedIsFound
=============================================================================
