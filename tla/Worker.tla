------------------------------- MODULE Worker -------------------------------
(***************************************************************************)
(* The thread object every drm_hwcomposer thread is built on               *)
(* (drm_hwcomposer/worker.h, worker.cpp): a std::thread that runs          *)
(* InternalRoutine, which calls the subclass's Routine() until exit_ is    *)
(* set, and a mutex_/cond_ pair on which Routine() sleeps.                 *)
(*                                                                         *)
(* mutex_ itself is not a variable: no thread blocks inside a mutex_       *)
(* section other than in cond_.wait, so each section is one action, and    *)
(* WaitForSignalOrExitLocked splits the section it is called from into the *)
(* part before the wait and the part after the mutex is reacquired.        *)
(* Modules that model a subclass EXTEND this one, add the subclass's state *)
(* and define its Routine() with the operators below.                      *)
(*                                                                         *)
(* Here and in the other modules a definition whose name begins with       *)
(* Mutant is a wrong version of the definition that follows it; it is not  *)
(* part of the model but shows that a property notices the mistake.        *)
(***************************************************************************)
CONSTANT Workers    \* the Worker objects of the component

VARIABLES
  exit_,            \* exit_[w]: Exit() has been requested
  initialized_,     \* initialized_[w]: InitWorker succeeded, Exit not finished
  thread,           \* thread[w]: where w's std::thread is, see ThreadStates
  exiting           \* exiting[w]: how far a call of Exit() has come

workerVars == <<exit_, initialized_, thread, exiting>>

Asleep == {"waiting",     \* in cond_.wait, no timeout
           "timedwait"}   \* in cond_.wait_for
Awake  == {"woken",       \* notified (or woken spuriously), mutex not yet back
           "expired"}     \* wait_for timed out, mutex not yet back

ThreadStates ==
  {"none",          \* no thread yet
   "top",           \* at the head of InternalRoutine's loop
   "running",       \* inside Routine()
   "done"}          \* InternalRoutine returned
  \cup Asleep \cup Awake

WorkerTypeOK ==
  /\ exit_ \in [Workers -> BOOLEAN]
  /\ initialized_ \in [Workers -> BOOLEAN]
  /\ thread \in [Workers -> ThreadStates]
  /\ exiting \in [Workers -> {"no", "notify", "join"}]

WorkerInit ==
  /\ exit_ = [w \in Workers |-> FALSE]
  /\ initialized_ = [w \in Workers |-> FALSE]
  /\ thread = [w \in Workers |-> "none"]
  /\ exiting = [w \in Workers |-> "no"]

-----------------------------------------------------------------------------
(* Start and stop, called by the thread that owns the object *)

InitWorker(w) ==
  /\ ~initialized_[w] /\ exiting[w] = "no"
  /\ thread' = [thread EXCEPT ![w] = "top"]
  /\ initialized_' = [initialized_ EXCEPT ![w] = TRUE]
  /\ exit_' = [exit_ EXCEPT ![w] = FALSE]
  /\ UNCHANGED exiting

\* The locked part of Exit(): the flag, and whether there is a thread to stop.
ExitRequest(w) ==
  /\ exiting[w] = "no"
  /\ exit_' = [exit_ EXCEPT ![w] = TRUE]
  /\ exiting' = [exiting EXCEPT ![w] = IF initialized_[w] THEN "notify" ELSE @]
  /\ UNCHANGED <<initialized_, thread>>

\* Signal(): notify_all moves a sleeping thread on; nobody else is affected.
MutantNotifyOnlyTimed(state) == IF state = "timedwait" THEN "woken" ELSE state
Notified(state) == IF state \in Asleep THEN "woken" ELSE state

Signal(w) == thread' = [thread EXCEPT ![w] = Notified(@)]

ExitNotify(w) ==
  /\ exiting[w] = "notify"
  /\ Signal(w)
  /\ exiting' = [exiting EXCEPT ![w] = "join"]
  /\ UNCHANGED <<exit_, initialized_>>

ExitJoin(w) ==
  /\ exiting[w] = "join" /\ thread[w] = "done"
  /\ initialized_' = [initialized_ EXCEPT ![w] = FALSE]
  /\ exiting' = [exiting EXCEPT ![w] = "no"]
  /\ UNCHANGED <<exit_, thread>>

-----------------------------------------------------------------------------
(* The thread *)

\* The head of the loop: leave when asked to, else call Routine().
InternalRoutine(w) ==
  /\ thread[w] = "top"
  /\ thread' = [thread EXCEPT ![w] = IF exit_[w] THEN "done" ELSE "running"]
  /\ UNCHANGED <<exit_, initialized_, exiting>>

MutantWaitThoughExiting(w, timed) ==
  thread' = [thread EXCEPT ![w] = IF timed THEN "timedwait" ELSE "waiting"]

\* WaitForSignalOrExitLocked up to the wait: with exit_ set it does not wait
\* but returns -EINTR, which every Routine() answers by returning.
WaitForSignalOrExitLocked(w, timed) ==
  thread' = [thread EXCEPT ![w] = IF exit_[w] THEN "top"
                                  ELSE IF timed THEN "timedwait" ELSE "waiting"]

\* What it returns once the mutex is back: exit takes precedence on timeout.
WaitResult(w) ==
  IF exit_[w] THEN "EINTR" ELSE IF thread[w] = "expired" THEN "ETIMEDOUT" ELSE "OK"

Return(w) == thread' = [thread EXCEPT ![w] = "top"]

\* std::condition_variable may wake a waiter that nobody notified.
SpuriousWakeup(w) ==
  /\ thread[w] \in Asleep
  /\ thread' = [thread EXCEPT ![w] = "woken"]
  /\ UNCHANGED <<exit_, initialized_, exiting>>

WaitTimeout(w) ==
  /\ thread[w] = "timedwait"
  /\ thread' = [thread EXCEPT ![w] = "expired"]
  /\ UNCHANGED <<exit_, initialized_, exiting>>
=============================================================================
