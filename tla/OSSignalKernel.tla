---------------------------- MODULE OSSignalKernel ----------------------------
(***************************************************************************)
(* OSSignal (OS/OSSignalKernel.cpp): words of event bits that application  *)
(* threads set, clear and wait for.                                        *)
(*                                                                         *)
(* Each way to wait looks at the bit first, without stopping the kernel,   *)
(* then marks the thread blocked and yields; two of them look again.       *)
(* check and bits_return only read.                                        *)
(***************************************************************************)
EXTENDS OSApplication

AllCalls == {"signal", "clear", "wait", "wait_n_clear", "wait_notimeout",
             "sleep", "yield", "suspend", "resume"}

ASSUME CallsAssumption == Calls \subseteq AllCalls

VARIABLE awaits  \* slot -> the bit its thread's call is about

vars == <<threadVars, awaits>>

Waits == {"wait", "wait_n_clear", "wait_notimeout"}

(* "... blocks": the bit was seen clear; "wait" ...: the thread is back    *)
(* from its yield; "wait_n_clear clears": it saw the bit set.              *)
Blocks(call) == CASE call = "wait" -> "wait blocks"
                  [] call = "wait_n_clear" -> "wait_n_clear blocks"
                  [] call = "wait_notimeout" -> "wait_notimeout blocks"

Labels == {"user", "wait_n_clear clears"} \cup Waits \cup {Blocks(c) : c \in Waits}

thread_signals == [signal : Signals, bit : Bits]

TypeOK ==
  /\ ApplicationTypeOK(Labels)
  /\ awaits \in [Slots -> thread_signals \cup {NULL}]

Init ==
  /\ ApplicationInit
  /\ awaits = [t \in Slots |-> NULL]

-----------------------------------------------------------------------------
IsSet(b) == b.bit \in bits[b.signal]

SetBit(b) == bits' = [bits EXCEPT ![b.signal] = @ \cup {b.bit}]

ClearBit(b) == bits' = [bits EXCEPT ![b.signal] = @ \ {b.bit}]

Unscheduled == UNCHANGED <<system_threads, thread_priorities, current_thread,
                           current_active_state, thread_count, word>>

signal(t, b) ==
  /\ Calling(t, "signal")
  /\ SetBit(b)
  /\ Unscheduled /\ UNCHANGED <<pc, yielding, awaits>>

clear(t, b) ==
  /\ Calling(t, "clear")
  /\ ClearBit(b)
  /\ Unscheduled /\ UNCHANGED <<pc, yielding, awaits>>

(* "Checking case immediatly."                                             *)
firstCheck(t, call, b) ==
  /\ Calling(t, call)
  /\ awaits' = [awaits EXCEPT ![t] = b]
  /\ Goto(t, IF ~IsSet(b) THEN Blocks(call)
             ELSE IF call = "wait_n_clear" THEN "wait_n_clear clears"
             ELSE "user")
  /\ UNCHANGED kernelVars

(* wait(), and wait_n_clear() through it: blocked with a timeout.          *)
wait_block(t, call) ==
  /\ call \in {"wait", "wait_n_clear"}
  /\ At(t, Blocks(call))
  /\ \E timeout_ms \in 0 .. MAX_INTERVAL :
       system_threads' = [system_threads EXCEPT
                            ![t].signal_bit = awaits[t].signal,
                            ![t].signal_bits_compare = {awaits[t].bit},
                            ![t].remaining = timeout_ms,
                            ![t].flags = "BLOCKED_SIGNAL_TIMEOUT"]
  /\ YieldThen(t, call)
  /\ UNCHANGED <<thread_priorities, current_thread, current_active_state,
                 thread_count, word, bits, awaits>>

wait_notimeout_block(t) ==
  /\ At(t, "wait_notimeout blocks")
  /\ system_threads' = [system_threads EXCEPT
                          ![t].signal_bit = awaits[t].signal,
                          ![t].signal_bits_compare = {awaits[t].bit},
                          ![t].flags = "BLOCKED_SIGNAL"]
  /\ YieldThen(t, "wait_notimeout")
  /\ UNCHANGED <<thread_priorities, current_thread, current_active_state,
                 thread_count, word, bits, awaits>>

(* wait() answers whether the bit is set now; wait_n_clear() goes on to    *)
(* clear it when it is.                                                    *)
wait_check_Ignored(t) ==  \* mutant: wait_n_clear clears whatever wait says
  /\ \/ At(t, "wait") /\ Goto(t, "user")
     \/ At(t, "wait_n_clear") /\ Goto(t, "wait_n_clear clears")
  /\ UNCHANGED <<kernelVars, awaits>>

wait_check(t) ==
  /\ \/ At(t, "wait") /\ Goto(t, "user")
     \/ At(t, "wait_n_clear")
          /\ Goto(t, IF IsSet(awaits[t]) THEN "wait_n_clear clears" ELSE "user")
  /\ UNCHANGED <<kernelVars, awaits>>

wait_n_clear_clear(t) ==
  /\ At(t, "wait_n_clear clears")
  /\ ClearBit(awaits[t])
  /\ Goto(t, "user")
  /\ Unscheduled /\ UNCHANGED awaits

(* wait_notimeout() does not look at the bit again.                        *)
wait_notimeout_return(t) ==
  /\ At(t, "wait_notimeout")
  /\ Goto(t, "user")
  /\ UNCHANGED <<kernelVars, awaits>>

WaitStep(t) ==
  \/ \E call \in Waits : wait_block(t, call)
  \/ wait_notimeout_block(t)
  \/ wait_check(t)
  \/ wait_n_clear_clear(t)
  \/ wait_notimeout_return(t)

SignalOperation(t) ==
  \/ \E b \in thread_signals :
       \/ signal(t, b)
       \/ clear(t, b)
       \/ \E call \in Waits : firstCheck(t, call, b)
  \/ WaitStep(t)

Next ==
  \/ ApplicationNext /\ UNCHANGED awaits
  \/ \E t \in Slots : SignalOperation(t)

Spec == Init /\ [][Next]_vars

(* The clock runs and a running thread executes its kernel call; of the    *)
(* application: a thread that runs again and again comes to sleep.         *)
Fairness ==
  /\ WF_vars(systick /\ UNCHANGED awaits)
  /\ WF_vars(idle_thread_handler /\ UNCHANGED awaits)
  /\ \A t \in Slots :
       /\ WF_vars(os_yield_in_call(t) /\ UNCHANGED awaits)
       /\ WF_vars(WaitStep(t))
       /\ SF_vars(os_thread_sleep_ms(t) /\ UNCHANGED awaits)

FairSpec == Spec /\ Fairness

-----------------------------------------------------------------------------
Blocked(t) == flags(t) \in {"BLOCKED_SIGNAL", "BLOCKED_SIGNAL_TIMEOUT"}

(* No signal is lost on a waiter: a thread blocked for a bit that is set   *)
(* is one the scheduler may choose, although the bit may have been set     *)
(* between its look and its blocking.                                      *)
SignalWakesWaiter ==
  \A t \in Slots : Blocked(t) /\ IsSet(awaits[t]) => Ready(t)

(* A signal is delivered to one wait_n_clear only: what a thread is about  *)
(* to clear is still set, nobody has taken it since the thread saw it.     *)
ClearerFindsBit ==
  \A t \in Slots : pc[t] = "wait_n_clear clears" => IsSet(awaits[t])

(* A blocked wait with a timeout at the head of the scheduler's list comes *)
(* back, signal or not, as long as no thread is put in front of it.        *)
HeadTimedWaitReturns ==
  \A t \in Slots :
    (thread_priorities[1].ptr = t /\ flags(t) = "BLOCKED_SIGNAL_TIMEOUT")
      ~> (pc[t] = "user" \/ thread_priorities[1].ptr # t)
=============================================================================
