------------------------------ MODULE PowerHal ------------------------------
(***************************************************************************)
(* The power HAL: power_dragon.cpp and the thread that ends a boost of the *)
(* GPU, timed_qos_manager.cpp.                                             *)
(*                                                                         *)
(* Time is counted in ticks.  A caller is a thread of the power service    *)
(* inside power_set_interactive or dragon_power_hint; every write to sysfs *)
(* is a step of its own.                                                   *)
(***************************************************************************)
EXTENDS Naturals, FiniteSets

CONSTANTS
  PowerCallers,    \* the threads that call the HAL
  BoostTicks,      \* GPU_BOOST_DURATION_MS
  MaxTime,         \* bound on the time at which hints arrive
  MaxHints,        \* bound on the calls
  FirstTargets,    \* what mTargetTime may hold before it is first written
  PowerEnv         \* "boostpulse": the boostpulse file may not open

VARIABLES
  now,             \* systemTime()
  target_time,          \* mTargetTime
  qos,             \* the thread: "check", "asleep", "entered", "timed"
  gpu,             \* the GPU's pstate: "auto" or "boost"
  low_power_mode, screen_on,
  cpu_max, gpu_cap,   \* the limits in sysfs
  low_power_lock,  \* its owner, or "free"
  caller,          \* caller[c]: [at, arg]
  boostpulse,      \* boostpulse_fd >= 0
  hints

powervars == <<now, target_time, qos, gpu, low_power_mode, screen_on, cpu_max, gpu_cap,
               low_power_lock, caller, boostpulse, hints>>

AtRest == [at |-> "rest", arg |-> FALSE]

PowerInit ==
  /\ now = 1
  /\ target_time \in FirstTargets
  /\ qos = "check"
  /\ gpu = "auto"
  /\ low_power_mode = FALSE
  /\ screen_on = TRUE
  /\ cpu_max = "normal" /\ gpu_cap = "normal"
  /\ low_power_lock = "free"
  /\ caller = [c \in PowerCallers |-> AtRest]
  /\ boostpulse = FALSE
  /\ hints = 0

Quiet == \A c \in PowerCallers : caller[c] = AtRest
qosvars == <<target_time, qos, gpu>>
sysvars == <<low_power_mode, screen_on, cpu_max, gpu_cap, low_power_lock>>

-----------------------------------------------------------------------------
(* TimedQosManager.  mLock is held except in the two waits, so a step      *)
(* leads from one wait to the next look at the clock.                      *)

\* Nothing to do: wait for a request.
QosIdle ==
  /\ qos = "check" /\ target_time = 0
  /\ qos' = "asleep"
  /\ UNCHANGED <<now, target_time, gpu, sysvars, caller, boostpulse, hints>>

\* The boost begins, or goes on; the thread waits for the target.
QosEnter ==
  /\ qos = "check" /\ target_time # 0
  /\ gpu' = "boost"
  /\ qos' = "timed"
  /\ UNCHANGED <<now, target_time, sysvars, caller, boostpulse, hints>>

\* The wait ends at the target, and the boost with it unless the target
\* has been moved.
QosExpire ==
  /\ qos = "timed" /\ now >= target_time
  /\ gpu' = "auto"
  /\ target_time' = 0
  /\ qos' = "check"
  /\ UNCHANGED <<now, sysvars, caller, boostpulse, hints>>

threadLoop == QosIdle \/ QosEnter \/ QosExpire

\* Mutant: the condition is not signalled.
MutantNoSignal ==
  /\ target_time' = now + BoostTicks
  /\ UNCHANGED <<qos, gpu>>

\* The condition wakes the thread from either wait.  The assertion that the
\* target only moves ahead is a precondition on FirstTargets.
requestTimedQos ==
  /\ target_time' = now + BoostTicks
  /\ qos' = "check"
  /\ UNCHANGED gpu

Tick ==
  /\ now < MaxTime \/ (qos = "timed" /\ now < target_time)
  /\ now' = now + 1
  /\ UNCHANGED <<qosvars, sysvars, caller, boostpulse, hints>>

-----------------------------------------------------------------------------
(* The calls.                                                              *)

Call(c) == caller[c] = AtRest /\ hints < MaxHints /\ hints' = hints + 1
Goto(c, at, arg) == caller' = [caller EXCEPT ![c] = [at |-> at, arg |-> arg]]

\* POWER_HINT_INTERACTION; boostpulse_open keeps the file open once it is.
HintInteraction(c) ==
  /\ Call(c)
  /\ \/ boostpulse' = TRUE
     \/ "boostpulse" \in PowerEnv /\ UNCHANGED boostpulse
  /\ requestTimedQos
  /\ UNCHANGED <<now, sysvars, caller>>

\* power_set_interactive looks at low_power_mode without the lock ...
SetInteractive(c, on) ==
  /\ Call(c)
  /\ screen_on' = on
  /\ Goto(c, "interactive", ~on \/ low_power_mode)
  /\ UNCHANGED <<now, qosvars, low_power_mode, cpu_max, gpu_cap, low_power_lock, boostpulse>>

\* ... and writes the limit it chose.
WriteLimit(c) ==
  /\ caller[c].at = "interactive"
  /\ cpu_max' = IF caller[c].arg THEN "low" ELSE "normal"
  /\ caller' = [caller EXCEPT ![c] = AtRest]
  /\ UNCHANGED <<now, qosvars, low_power_mode, screen_on, gpu_cap, low_power_lock, boostpulse,
                 hints>>

\* POWER_HINT_LOW_POWER
HintLowPower(c, low) ==
  /\ Call(c)
  /\ low_power_lock = "free"
  /\ low_power_lock' = c
  /\ Goto(c, "lowpower", low)
  /\ UNCHANGED <<now, qosvars, low_power_mode, screen_on, cpu_max, gpu_cap, boostpulse>>

LowPowerStep(c) ==
  \/ /\ caller[c].at = "lowpower"
     /\ cpu_max' = IF caller[c].arg THEN "low" ELSE "normal"
     /\ Goto(c, "lowpower cap", caller[c].arg)
     /\ UNCHANGED <<now, qosvars, low_power_mode, screen_on, gpu_cap, low_power_lock, boostpulse,
                    hints>>
  \/ /\ caller[c].at = "lowpower cap"
     /\ gpu_cap' = IF caller[c].arg THEN "low" ELSE "normal"
     /\ low_power_mode' = caller[c].arg
     /\ low_power_lock' = "free"
     /\ caller' = [caller EXCEPT ![c] = AtRest]
     /\ UNCHANGED <<now, qosvars, screen_on, cpu_max, boostpulse, hints>>

PowerCall == \E c \in PowerCallers :
  \/ HintInteraction(c)
  \/ \E b \in BOOLEAN : SetInteractive(c, b) \/ HintLowPower(c, b)
  \/ WriteLimit(c)
  \/ LowPowerStep(c)

PowerNext == threadLoop \/ Tick \/ PowerCall
PowerFairness == WF_powervars(threadLoop) /\ WF_powervars(Tick)
PowerSpec == PowerInit /\ [][PowerNext]_powervars /\ PowerFairness

-----------------------------------------------------------------------------
\* A boost of the GPU ends, whatever hints extend it, and a hint given while
\* the thread sleeps without a timeout still leads to a boost: the thread
\* misses no request and forgets none.
BoostEnds == /\ gpu = "boost" ~> gpu = "auto"
             /\ target_time # 0 /\ now < target_time ~> gpu = "boost"

\* With the screen off and no call in progress the CPU has its low limit:
\* what the comment of power_set_interactive says.
ScreenOffLow == Quiet /\ ~screen_on => cpu_max = "low"

=============================================================================
