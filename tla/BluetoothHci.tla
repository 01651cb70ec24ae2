---------------------------- MODULE BluetoothHci ----------------------------
(***************************************************************************)
(* The Bluetooth HAL: bluetooth_hci.cc (the calls of the stack) and        *)
(* vendor_interface.cc (start-up, low power mode and the commands that the *)
(* vendor library sends by itself).                                        *)
(*                                                                         *)
(* Two threads: the stack's calls, and the watcher of the UART, which      *)
(* reads events and runs the timeout.  The controller answers a command    *)
(* with one event, in order; uart holds the events not read yet.  The      *)
(* vendor library (external) configures the firmware with FwCommands       *)
(* commands and may send one more to switch the low power mode.            *)
(***************************************************************************)
EXTENDS Naturals, Sequences

CONSTANTS
  FwCommands,      \* commands of the vendor library to configure the firmware
  MaxOpens, MaxSends,   \* bounds on the calls of the stack
  BtEnv            \* "open", "fd", "firmware": may fail; "lpm", "close": the vendor
                   \* library sends a command; "overlap": Send beside OnTimeout

\* The library sends at least one command to configure the firmware.
ASSUME BtAssumption == FwCommands \in Nat \ {0}

VARIABLES
  iface,           \* g_vendor_interface: "none", "open", "broken", "closing"
  complete_cb,     \* initialize_complete_cb_ # nullptr
  completions,     \* initializationComplete calls since initialize
  internal_command,   \* [cb, opcode]
  configured,      \* commands of the configuration answered so far
  uart,            \* the events the watcher has not read
  to_stack,        \* the events handed to the stack
  lpm,             \* whether the controller may sleep without wake
  lpm_wake_deasserted, recent_activity_flag, lpm_timeout_ms,
  lpm_wake,        \* the wake signal
  timer,           \* whether the watcher's timeout is armed
  stack,           \* the stack's thread in Send: "rest", "check", "write"
  watcher,         \* the watcher's thread: "rest", "enable", "deassert", "disarm"
  opens, sends

btvars == <<iface, complete_cb, completions, internal_command, configured, uart, to_stack, lpm,
            lpm_wake_deasserted, recent_activity_flag, lpm_timeout_ms, lpm_wake, timer, stack,
            watcher, opens, sends>>

\* Opcodes: the configuration uses 1 to FwCommands.
SleepMode == FwCommands + 1
HostCommand == FwCommands + 2
NoCommand == [cb |-> "none", opcode |-> 0]

BtInit ==
  /\ iface = "none"
  /\ complete_cb = FALSE /\ completions = 0
  /\ internal_command = NoCommand
  /\ configured = 0
  /\ uart = <<>> /\ to_stack = {}
  /\ lpm = FALSE
  /\ lpm_wake_deasserted = FALSE /\ recent_activity_flag = FALSE /\ lpm_timeout_ms = FALSE
  /\ lpm_wake = FALSE /\ timer = FALSE
  /\ stack = "rest" /\ watcher = "rest"
  /\ opens = 0 /\ sends = 0

power == <<lpm_wake_deasserted, recent_activity_flag, lpm_wake, timer>>

\* What Send does before the write, on a thread that nothing interrupts: if
\* wake is not asserted, the timer is restarted and wake asserted.
AssertWake ==
  /\ recent_activity_flag' = TRUE
  /\ lpm_wake_deasserted' = FALSE
  /\ lpm_wake' = (lpm_wake \/ lpm_wake_deasserted)
  /\ timer' = IF lpm_wake_deasserted THEN lpm_timeout_ms ELSE timer

\* transmit_cb: the callback is registered, then the command is sent; read is
\* what is left on the UART.
transmit_cb(cb, opcode, read) ==
  /\ internal_command' = [cb |-> cb, opcode |-> opcode]
  /\ AssertWake
  /\ uart' = Append(read, opcode)

-----------------------------------------------------------------------------
(* The calls of the stack.                                                 *)

\* Open fails before the UART is watched, or at an invalid descriptor.
InitializeFails ==
  /\ iface = "none" /\ opens < MaxOpens
  /\ BtEnv \cap {"open", "fd"} # {}
  /\ opens' = opens + 1
  /\ iface' = "broken"
  /\ complete_cb' = TRUE /\ completions' = 1
  /\ to_stack' = {}
  /\ UNCHANGED <<internal_command, configured, uart, lpm, power, lpm_timeout_ms, stack, watcher,
                 sends>>

\* Open: power management is off, and the library starts to configure.
initialize ==
  /\ iface = "none" /\ opens < MaxOpens
  /\ opens' = opens + 1
  /\ iface' = "open"
  /\ complete_cb' = TRUE /\ completions' = 0
  /\ configured' = 0
  /\ uart' = <<1>> /\ to_stack' = {}
  /\ lpm' = FALSE
  /\ lpm_wake_deasserted' = FALSE /\ recent_activity_flag' = TRUE
  /\ lpm_wake' = TRUE /\ timer' = lpm_timeout_ms
  /\ internal_command' = [cb |-> "config", opcode |-> 1]
  /\ UNCHANGED <<lpm_timeout_ms, stack, watcher, sends>>

Ready == iface = "open" /\ completions > 0

\* sendDataToController on the stack's thread, in the steps of Send.
Send ==
  \/ /\ stack = "rest" /\ Ready /\ sends < MaxSends
     /\ "overlap" \in BtEnv \/ watcher = "rest"
     /\ recent_activity_flag' = TRUE
     /\ stack' = "check" /\ sends' = sends + 1
     /\ UNCHANGED <<lpm_wake_deasserted, lpm_wake, timer, uart>>
  \/ /\ stack = "check"
     /\ timer' = IF lpm_wake_deasserted THEN lpm_timeout_ms ELSE timer
     /\ lpm_wake' = IF lpm_wake_deasserted THEN TRUE ELSE lpm_wake
     /\ lpm_wake_deasserted' = FALSE
     /\ stack' = "write"
     /\ UNCHANGED <<recent_activity_flag, uart, sends>>
  \/ /\ stack = "write"
     /\ uart' = Append(uart, HostCommand)
     /\ stack' = "rest"
     /\ UNCHANGED <<power, sends>>

StackSends ==
  /\ Send
  /\ UNCHANGED <<iface, complete_cb, completions, internal_command, configured, to_stack, lpm,
                 lpm_timeout_ms, watcher, opens>>

\* close(), or serviceDied when the stack is gone: the low power mode is
\* switched off first, which may send a command whose answer is still read.
close ==
  /\ stack = "rest"
  /\ \/ iface = "broken" /\ iface' = "none" /\ UNCHANGED <<internal_command, uart, power, lpm>>
     \/ /\ iface = "open"
        /\ iface' = "closing"
        /\ lpm' = FALSE
        /\ IF "close" \in BtEnv THEN transmit_cb("lpm", SleepMode, uart)
           ELSE UNCHANGED <<internal_command, uart, power>>
  /\ UNCHANGED <<complete_cb, completions, configured, to_stack, lpm_timeout_ms, stack, watcher,
                 opens, sends>>

\* StopWatchingFileDescriptors waits for the watcher; the rest is torn down.
StopWatching ==
  /\ iface = "closing" /\ watcher = "rest"
  /\ iface' = "none"
  /\ uart' = <<>>
  /\ timer' = FALSE /\ lpm_wake' = FALSE
  /\ UNCHANGED <<complete_cb, completions, internal_command, configured, to_stack, lpm,
                 lpm_wake_deasserted, recent_activity_flag, lpm_timeout_ms, stack, watcher,
                 opens, sends>>

-----------------------------------------------------------------------------
(* The watcher.                                                            *)

Watching == iface \in {"open", "closing"} /\ watcher = "rest"

internal_command_event_match(event) == event = internal_command.opcode

\* The callback of the vendor library: the next command, or the end of the
\* configuration (OnFirmwareConfigured up to its callback).
LibraryCallback(cb) ==
  \/ /\ cb = "config" /\ configured + 1 < FwCommands
     /\ configured' = configured + 1
     /\ transmit_cb("config", configured + 2, Tail(uart))
     /\ UNCHANGED <<watcher, complete_cb, completions>>
  \/ /\ cb = "config" /\ (configured + 1 = FwCommands \/ "firmware" \in BtEnv)
     /\ configured' = FwCommands
     /\ internal_command' = [internal_command EXCEPT !.cb = "none"]
     /\ uart' = Tail(uart)
     /\ completions' = IF complete_cb THEN completions + 1 ELSE completions
     /\ complete_cb' = FALSE
     /\ watcher' = "enable"
     /\ UNCHANGED power
  \/ /\ cb = "lpm"
     /\ internal_command' = [internal_command EXCEPT !.cb = "none"]
     /\ uart' = Tail(uart)
     /\ UNCHANGED <<configured, watcher, complete_cb, completions, power>>

\* Mutant: the callback is cleared after it has run.
MutantZeroAfter ==
  /\ Watching /\ uart # <<>>
  /\ IF internal_command.cb # "none" /\ internal_command_event_match(Head(uart))
       THEN /\ internal_command' = [internal_command EXCEPT !.cb = "none"]
            /\ uart' = IF configured + 1 < FwCommands THEN Append(Tail(uart), configured + 2)
                       ELSE Tail(uart)
            /\ configured' = configured + 1
            /\ UNCHANGED <<to_stack, watcher, complete_cb, completions, power>>
       ELSE /\ to_stack' = to_stack \cup {Head(uart)}
            /\ uart' = Tail(uart)
            /\ UNCHANGED <<configured, internal_command, watcher, complete_cb, completions, power>>
  /\ UNCHANGED <<iface, lpm, lpm_timeout_ms, stack, opens, sends>>

HandleIncomingEvent ==
  /\ Watching /\ uart # <<>>
  /\ IF internal_command.cb # "none" /\ internal_command_event_match(Head(uart))
       THEN LibraryCallback(internal_command.cb) /\ UNCHANGED to_stack
       ELSE /\ to_stack' = to_stack \cup {Head(uart)}
            /\ uart' = Tail(uart)
            /\ UNCHANGED <<configured, internal_command, watcher, complete_cb, completions, power>>
  /\ UNCHANGED <<iface, lpm, lpm_timeout_ms, stack, opens, sends>>

\* The rest of OnFirmwareConfigured.
EnableLowPower ==
  /\ watcher = "enable"
  /\ lpm_timeout_ms' = TRUE
  /\ lpm' = TRUE
  /\ IF "lpm" \in BtEnv
       THEN /\ internal_command' = [cb |-> "lpm", opcode |-> SleepMode]
            /\ uart' = Append(uart, SleepMode)
            /\ recent_activity_flag' = TRUE /\ lpm_wake_deasserted' = FALSE
            /\ lpm_wake' = IF lpm_wake_deasserted THEN TRUE ELSE lpm_wake
       ELSE UNCHANGED <<internal_command, uart, recent_activity_flag, lpm_wake_deasserted, lpm_wake>>
  /\ timer' = TRUE
  /\ watcher' = "rest"
  /\ UNCHANGED <<iface, complete_cb, completions, configured, to_stack, stack, opens, sends>>

\* Mutant: the timer is not armed again after activity.
MutantDisarm ==
  /\ \/ /\ Watching /\ timer
        /\ "overlap" \in BtEnv \/ stack = "rest"
        /\ watcher' = IF recent_activity_flag THEN "rest" ELSE "deassert"
        /\ recent_activity_flag' = FALSE
        /\ timer' = FALSE
        /\ UNCHANGED <<lpm_wake_deasserted, lpm_wake>>
     \/ /\ watcher = "deassert"
        /\ lpm_wake_deasserted' = TRUE /\ lpm_wake' = FALSE
        /\ watcher' = "disarm"
        /\ UNCHANGED <<recent_activity_flag, timer>>
     \/ /\ watcher = "disarm"
        /\ timer' = FALSE /\ recent_activity_flag' = FALSE
        /\ watcher' = "rest"
        /\ UNCHANGED <<lpm_wake_deasserted, lpm_wake>>
  /\ UNCHANGED <<iface, complete_cb, completions, internal_command, configured, uart, to_stack,
                 lpm, lpm_timeout_ms, stack, opens, sends>>

\* Its three effects are seen by a Send on the other thread.
OnTimeout ==
  /\ \/ /\ Watching /\ timer
        /\ "overlap" \in BtEnv \/ stack = "rest"
        /\ watcher' = IF recent_activity_flag THEN "rest" ELSE "deassert"
        /\ recent_activity_flag' = FALSE
        /\ UNCHANGED <<lpm_wake_deasserted, lpm_wake, timer>>
     \/ /\ watcher = "deassert"
        /\ lpm_wake_deasserted' = TRUE /\ lpm_wake' = FALSE
        /\ watcher' = "disarm"
        /\ UNCHANGED <<recent_activity_flag, timer>>
     \/ /\ watcher = "disarm"
        /\ timer' = FALSE /\ recent_activity_flag' = FALSE
        /\ watcher' = "rest"
        /\ UNCHANGED <<lpm_wake_deasserted, lpm_wake>>
  /\ UNCHANGED <<iface, complete_cb, completions, internal_command, configured, uart, to_stack,
                 lpm, lpm_timeout_ms, stack, opens, sends>>

BtNext == \/ InitializeFails \/ initialize \/ StackSends \/ close \/ StopWatching
          \/ HandleIncomingEvent \/ EnableLowPower \/ OnTimeout
BtSpec == BtInit /\ [][BtNext]_btvars

-----------------------------------------------------------------------------
\* The answer to a command of the vendor library reaches the library only,
\* through any chain of commands sent from callbacks, and the stack is told
\* once that initialization is over.
EventsApart == to_stack \subseteq {HostCommand} /\ completions <= 1

\* With the low power mode on and both threads at rest, the flag, the wake
\* signal and the timer agree: wake is asserted exactly while the timer that
\* will take it back runs, and no packet leaves with wake deasserted.
AwakeTimed ==
  /\ iface = "open" /\ lpm /\ watcher = "rest" /\ stack = "rest"
       => lpm_wake = ~lpm_wake_deasserted /\ timer = lpm_wake
  /\ stack = "write" => lpm_wake

=============================================================================
