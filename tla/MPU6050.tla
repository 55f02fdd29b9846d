-------------------------------- MODULE MPU6050 --------------------------------
(***************************************************************************)
(* The motion sensor driver (HAL/MPU6050/mpu6050_imu.cpp) and the sensor.  *)
(*                                                                         *)
(* Threads switch only where the driver yields, which is while it polls    *)
(* INT_STATUS; the sensor takes samples at any time, also between two bus  *)
(* transactions of the driver.  Nobody tests whether a transaction worked: *)
(* a read that fails leaves what was on the stack, a write is lost.        *)
(*                                                                         *)
(* One axis stands for the six: get_mpu6050_gyro_data reads the registers  *)
(* of the accelerometer too.  One range, a set of register bits, stands    *)
(* for the accelerometer's and the gyroscope's.                            *)
(***************************************************************************)
EXTENDS Integers, Sequences

CONSTANTS
  Threads,
  HALF,         \* int16_t holds -HALF .. HALF-1 (2^15 in the code)
  Readings,     \* bound: what two bytes read may be
  Counts,       \* bound: values of `samples'
  Ranges,       \* measuring ranges
  Addresses,    \* bus addresses the application tries
  OWN,          \* the sensor's
  MAX_NUMBER,   \* bound: samples the sensor takes
  NULL

Raw == 0 .. 2 * HALF - 1
Int16 == -HALF .. HALF - 1
Int32 == -(2 * HALF * HALF) .. 2 * HALF * HALF - 1

ASSUME HalfAssumption == HALF \in Nat \ {0}
ASSUME ReadingsAssumption == Readings \subseteq Raw
ASSUME CountsAssumption == Counts \subseteq Raw  \* uint16_t as well
ASSUME NullAssumption == NULL \notin Threads

VARIABLES
  device,          \* the sensor's registers and the number of its last sample
  device_address,
  range,           \* accelerometer_range, gyroscope_range
  written,         \* whether the last init_mpu6050 wrote it to the sensor
  running,         \* thread between two yields, or NULL
  stage,           \* what it does next
  call             \* thread -> its call and that call's locals

vars == <<device, device_address, range, written, running, stage, call>>

(* `taken' are the numbers of the samples read; `garbled': a read failed.  *)
Call(kind, samples) ==
  [kind |-> kind, n |-> 0, samples |-> samples, sum |-> 0, taken |-> <<>>,
   garbled |-> FALSE]

Idle == Call("none", 0)

Init ==
  /\ device = [ready |-> FALSE, number |-> 0, reading |-> 0, enabled |-> FALSE,
               range |-> {}]
  /\ device_address = NULL /\ range = {} /\ written = FALSE
  /\ running = NULL /\ stage = "status"
  /\ call = [t \in Threads |-> Idle]

(* The sensor, once its interrupt is enabled.                              *)
Sample(raw) ==
  /\ device.enabled /\ device.number < MAX_NUMBER
  /\ device' = [device EXCEPT !.ready = TRUE, !.number = @ + 1, !.reading = raw]
  /\ UNCHANGED <<device_address, range, written, running, stage, call>>

-----------------------------------------------------------------------------
(* i2c_setup_gyroscope and i2c_setup_accelerometer: the range field is     *)
(* cleared, whatever was read, and set.                                    *)
RangeBits == {3, 4}

ASSUME RangesAssumption == Ranges \subseteq SUBSET RangeBits

WithRange_Kept(register, bits) == register \cup bits  \* mutant: not cleared

WithRange(register, bits) == (register \ RangeBits) \cup bits

(* device_address and the range are kept before anything is tested.  A     *)
(* WHO_AM_I read that fails may leave 0x68 all the same, and any of the    *)
(* writes that follow may be lost.                                         *)
init_mpu6050(address, a_range) ==
  /\ running = NULL
  /\ device_address' = address
  /\ range' = a_range
  /\ written' \in BOOLEAN
  /\ \E interrupt \in BOOLEAN :
       /\ address # OWN => ~interrupt /\ ~written'
       /\ device' = [device EXCEPT
                       !.enabled = @ \/ interrupt,
                       !.range = IF written' THEN WithRange(@, a_range) ELSE @]
  /\ UNCHANGED <<running, stage, call>>

init_mpu6050_not_found(address, a_range) ==
  /\ running = NULL
  /\ device_address' = address
  /\ range' = a_range
  /\ written' = FALSE
  /\ UNCHANGED <<device, running, stage, call>>

-----------------------------------------------------------------------------
Start(t, kind, samples, first) ==
  /\ running = NULL /\ call[t].kind = "none"
  /\ running' = t /\ stage' = first
  /\ call' = [call EXCEPT ![t] = Call(kind, samples)]
  /\ UNCHANGED <<device, device_address, range, written>>

get_latest_mpu6050_data(t, blocking) ==
  Start(t, IF blocking THEN "blocking" ELSE "once", 1, "status")

get_latest_mpu6050_data_sampled(t, samples) ==
  Start(t, "sampled", samples, IF samples = 0 THEN "average" ELSE "status")

(* _os_yield in the poll returns.                                          *)
resume(t) ==
  /\ running = NULL /\ call[t].kind \in {"blocking", "sampled"}
  /\ running' = t
  /\ UNCHANGED <<device, device_address, range, written, stage, call>>

At(t, what) ==
  /\ running = t /\ stage = what
  /\ UNCHANGED <<device_address, range, written>>

Leave == running' = NULL /\ stage' = "status"

Return(t) == Leave /\ call' = [call EXCEPT ![t] = Idle]

(* The test of INT_STATUS: without data the call returns or yields.        *)
StatusTested_Ignored(t, ready, locals) ==  \* mutant
  stage' = "data" /\ call' = [call EXCEPT ![t] = locals] /\ UNCHANGED running

StatusTested(t, ready, locals) ==
  CASE ready -> stage' = "data" /\ call' = [call EXCEPT ![t] = locals]
                  /\ UNCHANGED running
    [] ~ready /\ locals.kind = "once" -> Return(t)
    [] OTHER -> Leave /\ call' = [call EXCEPT ![t] = locals]

(* Reading the bit clears it.                                              *)
status_answered(t) ==
  /\ At(t, "status") /\ device_address = OWN
  /\ StatusTested(t, device.ready, call[t])
  /\ device' = [device EXCEPT !.ready = FALSE]

status_garbled(t) ==
  /\ At(t, "status")
  /\ \E ready \in BOOLEAN :
       StatusTested(t, ready, [call[t] EXCEPT !.garbled = TRUE])
  /\ UNCHANGED device

(* Two bytes, high one first, as an int16_t, added to the sum.             *)
Signed(raw) == IF raw < HALF THEN raw ELSE raw - 2 * HALF

Added_Twice(sum, raw) == sum + 2 * Signed(raw)  \* mutant

Added(sum, raw) == sum + Signed(raw)

(* get_mpu6050_accelerometer_data and get_mpu6050_gyro_data.               *)
DataRead(t, raw, numbers, garbled) ==
  /\ IF call[t].kind = "sampled"
     THEN /\ call' = [call EXCEPT ![t].n = @ + 1,
                                  ![t].sum = Added(@, raw),
                                  ![t].taken = @ \o numbers,
                                  ![t].garbled = @ \/ garbled]
          /\ stage' = IF call[t].n + 1 < call[t].samples THEN "status" ELSE "average"
          /\ UNCHANGED running
     ELSE Return(t)
  /\ UNCHANGED device

data_answered(t) ==
  /\ At(t, "data") /\ device_address = OWN
  /\ DataRead(t, device.reading, <<device.number>>, FALSE)

data_garbled(t) ==
  /\ At(t, "data")
  /\ \E raw \in Readings : DataRead(t, raw, <<>>, TRUE)

(* With no samples it divides by zero, and dat was never filled in.        *)
average(t) == At(t, "average") /\ Return(t) /\ UNCHANGED device

Next ==
  \/ \E raw \in Readings : Sample(raw)
  \/ \E address \in Addresses, a_range \in Ranges :
       init_mpu6050(address, a_range) \/ init_mpu6050_not_found(address, a_range)
  \/ \E t \in Threads :
       \/ \E blocking \in BOOLEAN : get_latest_mpu6050_data(t, blocking)
       \/ \E samples \in Counts : get_latest_mpu6050_data_sampled(t, samples)
       \/ resume(t)
       \/ status_answered(t) \/ status_garbled(t)
       \/ data_answered(t) \/ data_garbled(t)
       \/ average(t)

Spec == Init /\ [][Next]_vars

-----------------------------------------------------------------------------
(* a_x / samples in C rounds towards zero.                                 *)
Quotient(sum, samples) == IF sum >= 0 THEN sum \div samples ELSE -((-sum) \div samples)

(* No sum of a sampled call leaves int32_t, and its mean fits the int16_t  *)
(* of imu_data_raw, for every number of samples a uint16_t can ask for.    *)
SumFits ==
  \A t \in Threads :
    /\ call[t].sum \in Int32
    /\ call[t].n > 0 => Quotient(call[t].sum, call[t].n) \in Int16

(* Unless a read failed, a sampled call counts no sample of the sensor     *)
(* three times: a sample that arrives between the status and the data is   *)
(* read twice, and one thread's poll takes the sample from the others.     *)
SampleCountedAtMostTwice ==
  \A t \in Threads : ~call[t].garbled =>
    LET taken == call[t].taken
    IN \A i \in 1 .. Len(taken) - 2 : taken[i] < taken[i + 2]

(* After an init whose writes arrived, the conversions use the range the   *)
(* sensor measures in, whatever earlier calls left behind.                 *)
RangesAgree == written => range = device.range
=============================================================================
