--------------------------- MODULE OSThreadSignals ---------------------------
(***************************************************************************)
(* The signal bits of the threads (end of OS/OSThreadKernel.cpp): each     *)
(* slot has a word of bits that threads set, clear and wait for.           *)
(*                                                                         *)
(* A wait polls: the thread stays RUNNING and yields between two looks.    *)
(* What a thread signals to itself, clears and waits for is looked up      *)
(* under current_thread_id, hence in slot 0 whichever thread calls.        *)
(* A thread whose wait was answered clears the bit, as the example in      *)
(* OS/README.MD does.  The checkbits functions only read.                  *)
(***************************************************************************)
EXTENDS OSApplication

AllCalls == {"os_thread_signal", "os_thread_clear", "os_signal_thread",
             "os_signal_thread_clear", "os_thread_waitbits",
             "os_thread_waitbits_notimeout", "sleep", "yield", "suspend", "resume"}

ASSUME CallsAssumption == Calls \subseteq AllCalls

VARIABLES
  thread_set_flags,  \* slot -> the bits that are set
  thread_signal,     \* slot -> the bit its thread waits for; NULL outside a wait
  patience           \* slot -> milliseconds until the wait times out; NULL: never

signalVars == <<thread_set_flags, thread_signal, patience>>

vars == <<threadVars, signalVars>>

(* "polls": in the loop of a wait; "takes": the wait was answered.         *)
Labels == {"user", "polls", "takes"}

TypeOK ==
  /\ ApplicationTypeOK(Labels)
  /\ thread_set_flags \in [Slots -> SUBSET Bits]
  /\ thread_signal \in [Slots -> Bits \cup {NULL}]
  /\ patience \in [Slots -> 0 .. MAX_INTERVAL + 1 \cup {NULL}]

Init ==
  /\ ApplicationInit
  /\ thread_set_flags = [t \in Slots |-> {}]
  /\ thread_signal = [t \in Slots |-> NULL]
  /\ patience = [t \in Slots |-> NULL]

-----------------------------------------------------------------------------
(* The main thread may call these functions too.                           *)
CallsSignals(t, call) == call \in Calls /\ t # Idle /\ At(t, "user")

SetBit(target, bit) ==
  thread_set_flags' = [thread_set_flags EXCEPT ![target] = @ \cup {bit}]

ClearBit(target, bit) ==
  thread_set_flags' = [thread_set_flags EXCEPT ![target] = @ \ {bit}]

os_thread_signal(t, bit) ==
  /\ CallsSignals(t, "os_thread_signal")
  /\ SetBit(current_thread_id, bit)
  /\ UNCHANGED <<threadVars, thread_signal, patience>>

os_thread_clear(t, bit) ==
  /\ CallsSignals(t, "os_thread_clear")
  /\ ClearBit(current_thread_id, bit)
  /\ UNCHANGED <<threadVars, thread_signal, patience>>

(* The functions with a target return false for an id that is not below    *)
(* thread_count.                                                           *)
os_signal_thread(t, bit, target_thread_id) ==
  /\ CallsSignals(t, "os_signal_thread")
  /\ Exists(target_thread_id)
  /\ SetBit(target_thread_id, bit)
  /\ UNCHANGED <<threadVars, thread_signal, patience>>

os_signal_thread_clear(t, bit, target_thread_id) ==
  /\ CallsSignals(t, "os_signal_thread_clear")
  /\ Exists(target_thread_id)
  /\ ClearBit(target_thread_id, bit)
  /\ UNCHANGED <<threadVars, thread_signal, patience>>

os_thread_checkbits(bit) == bit \in thread_set_flags[current_thread_id]

(* os_thread_waitbits times out once millis() - start > timeout_ms, one    *)
(* millisecond later than the waits the scheduler ends by >=; a timeout of *)
(* 0 means none.                                                           *)
Patience(timeout_ms) == IF timeout_ms = 0 THEN NULL ELSE timeout_ms + 1

TimedOut_NoTimeout(t) == FALSE  \* mutant: !timeout_ms for timeout_ms

TimedOut(t) == patience[t] = 0

(* Both waits up to their loop; the notimeout one is the wait without end. *)
(* The first look of the other is that of its loop.                        *)
waitbits(t, bit) ==
  /\ \/ /\ CallsSignals(t, "os_thread_waitbits")
        /\ \E timeout_ms \in 0 .. MAX_INTERVAL :
             patience' = [patience EXCEPT ![t] = Patience(timeout_ms)]
     \/ /\ CallsSignals(t, "os_thread_waitbits_notimeout")
        /\ patience' = [patience EXCEPT ![t] = NULL]
  /\ thread_signal' = [thread_signal EXCEPT ![t] = bit]
  /\ Goto(t, "polls")
  /\ UNCHANGED <<kernelVars, thread_set_flags>>

Return(t) ==
  /\ Goto(t, "user")
  /\ thread_signal' = [thread_signal EXCEPT ![t] = NULL]
  /\ patience' = [patience EXCEPT ![t] = NULL]

(* Mutant: the loop yields after its look and returns what it saw before.  *)
poll_set_YieldsFirst(t) ==
  /\ At(t, "polls")
  /\ os_thread_checkbits(thread_signal[t])
  /\ YieldThen(t, "takes")
  /\ UNCHANGED <<kernelVars, signalVars>>

poll_set(t) ==
  /\ At(t, "polls")
  /\ os_thread_checkbits(thread_signal[t])
  /\ Goto(t, "takes")
  /\ patience' = [patience EXCEPT ![t] = NULL]
  /\ UNCHANGED <<kernelVars, thread_set_flags, thread_signal>>

poll_timeout(t) ==
  /\ At(t, "polls")
  /\ ~os_thread_checkbits(thread_signal[t])
  /\ TimedOut(t)
  /\ Return(t)
  /\ UNCHANGED <<kernelVars, thread_set_flags>>

poll_again(t) ==
  /\ At(t, "polls")
  /\ ~os_thread_checkbits(thread_signal[t])
  /\ ~TimedOut(t)
  /\ YieldThen(t, "polls")
  /\ UNCHANGED <<kernelVars, signalVars>>

take(t) ==
  /\ At(t, "takes")
  /\ ClearBit(current_thread_id, thread_signal[t])
  /\ Return(t)
  /\ UNCHANGED kernelVars

WaitStep(t) == poll_set(t) \/ poll_timeout(t) \/ poll_again(t) \/ take(t)

SignalOperation(t) ==
  \/ \E bit \in Bits :
       \/ os_thread_signal(t, bit)
       \/ os_thread_clear(t, bit)
       \/ \E target \in Slots :
            \/ os_signal_thread(t, bit, target)
            \/ os_signal_thread_clear(t, bit, target)
       \/ waitbits(t, bit)
  \/ WaitStep(t)

(* A millisecond passes for the kernel's waits and for the polling ones.   *)
Impatient == {t \in Slots : patience[t] \notin {NULL, 0}}

millisecond ==
  /\ IF \E t \in Slots : system_threads[t].remaining > 0
     THEN systick
     ELSE Impatient # {} /\ UNCHANGED threadVars
  /\ patience' = [t \in Slots |-> IF t \in Impatient THEN patience[t] - 1
                                                     ELSE patience[t]]
  /\ UNCHANGED <<thread_set_flags, thread_signal>>

Next ==
  \/ /\ setup \/ idle_thread_handler \/ context_switch_pit_isr
          \/ \E t \in Slots : KernelOperation(t)
     /\ UNCHANGED signalVars
  \/ \E t \in Slots : SignalOperation(t)
  \/ millisecond

Spec == Init /\ [][Next]_vars

(* Time passes, a running thread executes the kernel call it is in, and a  *)
(* thread that runs again and again comes to sleep.                        *)
Fairness ==
  /\ WF_vars(millisecond)
  /\ \A t \in Slots :
       /\ WF_vars(os_yield_in_call(t) /\ UNCHANGED signalVars)
       /\ WF_vars(WaitStep(t))
       /\ SF_vars(os_thread_sleep_ms(t) /\ UNCHANGED signalVars)

FairSpec == Spec /\ Fairness

-----------------------------------------------------------------------------
Polls(t) == pc[t] = "polls" /\ flags(t) # "SUSPENDED"

AtHead(t) == thread_priorities[1].ptr = t

(* One signal has one taker: the bit a thread waited for is still set when *)
(* the thread clears it, although all threads wait on the same slot.       *)
TakerFindsBit ==
  \A t \in Slots : pc[t] = "takes" => os_thread_checkbits(thread_signal[t])

(* A wait with a timeout comes back at the head of the scheduler's list,   *)
(* as long as no thread is put in front of it.                             *)
HeadPollReturns ==
  \A t \in Slots :
    (AtHead(t) /\ Polls(t) /\ patience[t] # NULL)
      ~> (pc[t] # "polls" \/ ~AtHead(t))

-----------------------------------------------------------------------------
(* What documentation says and the code does not do.                       *)

(* "There are control bits that we can use to signal a thread. 32 per      *)
(* thread in fact": a thread that waits for a bit, and has the processor   *)
(* whenever it is ready, comes back when that bit of its own is set.       *)
SignalledWaitEnds ==
  \A t \in Slots :
    (AtHead(t) /\ Polls(t) /\ thread_signal[t] \in thread_set_flags[t])
      ~> (~Polls(t) \/ ~AtHead(t) \/ thread_signal[t] \notin thread_set_flags[t])
=============================================================================
