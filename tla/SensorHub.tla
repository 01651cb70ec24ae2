------------------------------ MODULE SensorHub ------------------------------
(***************************************************************************)
(* The sensor HAL (sensor_hub/sensors.cpp, cros_ec_sensors.cpp): finding   *)
(* the sensors of the embedded controller (EC) under /sys, enabling them,  *)
(* and the poll thread that takes their events from the IIO ring while     *)
(* other threads enable, batch and flush.  No lock protects any of it.     *)
(***************************************************************************)
EXTENDS Integers, Sequences, FiniteSets

CONSTANTS
  IioDevices,     \* what may be in /sys/bus/iio/devices
  EventBufferSize,\* `count' of the caller of poll
  RingSize,       \* bound on the events in the ring
  MaxHubCalls,    \* bound on the calls that are made
  MaxEcEvents,    \* bound on the events the EC sends
  IntHalf,        \* 2^31 in the model's unit of time
  HubEnv          \* "write": sysfs writes fail, "read": reads of the ring fail

VARIABLES
  hub,            \* "closed" or "open"
  sensor_info,    \* Ssensor_info_ of the handles that have a device
  gesture_info,   \* Sgesture_info_: [found, enabled]
  ec,             \* period and report rate the EC runs a sensor at, armed gesture
  ring,           \* events in the IIO ring
  wake,           \* bytes in the wake pipe
  poll,           \* the poll thread: see Polling
  unreported,     \* gestures armed by activate and not reported since
  hub_calls, ec_events

hubvars == <<hub, sensor_info, gesture_info, ec, ring, wake, poll, unreported,
             hub_calls, ec_events>>

HubMay(kind) == kind \in HubEnv
\* Handles of gestures come after those of sensors.
CROS_EC_MAX_PHYSICAL_SENSOR == 256
Sigmo == CROS_EC_MAX_PHYSICAL_SENSOR + 1

\* The EC numbers its sensors from 0; the ids are below the handles of gestures.
ASSUME HubAssumption ==
  /\ EventBufferSize \in Nat
  /\ \A d \in IioDevices : d.id \in 0..(CROS_EC_MAX_PHYSICAL_SENSOR - 1)

-----------------------------------------------------------------------------
(* Opening: what is found under /sys *)

\* sSensorListTemplate: shortest and longest sampling period.
Template == [accel |-> [minDelay |-> 1, maxDelay |-> 2],
             light |-> [minDelay |-> 1, maxDelay |-> 3 * IntHalf]]

Zeros == <<0, 0, 0>>

\* Bias values from the VPD, none of them if one is missing or, for the
\* accelerometer, implausible (more than 208).
cros_ec_calibrate_3d_sensor(name, calib) ==
  IF /\ calib # <<>>
     /\ name = "accel" => \A i \in 1..3 : calib[i] \in -208..208
  THEN calib ELSE Zeros

\* Devices in the lid with an id and a scale; the activity device stands for
\* the gestures.
IsSensor(d) == d.name \in DOMAIN Template /\ d.location = "lid"

cros_ec_get_sensors_names(found) ==
  [id \in {d.id : d \in {e \in found : IsSensor(e)}} |->
     LET d == CHOOSE d \in found : IsSensor(d) /\ d.id = id IN
     [type |-> d.name, period |-> 0, latency |-> 0, enabled |-> FALSE,
      bias |-> cros_ec_calibrate_3d_sensor(d.name, d.calib)]]

cros_ec_get_gesture_names(found) ==
  [found |-> \E d \in found : d.name = "activity" /\ d.location = "lid",
   enabled |-> FALSE]

HasRing(found) == \E d \in found : d.name = "ring"

NotPolling == [pc |-> "none", revents |-> FALSE]

SensorInit ==
  /\ hub = "closed" /\ sensor_info = <<>> /\ ec = <<>>
  /\ gesture_info = [found |-> FALSE, enabled |-> FALSE]
  /\ ring = <<>> /\ wake = 0 /\ poll = NotPolling /\ unreported = 0
  /\ hub_calls = 0 /\ ec_events = 0

\* One open, one close: the list is static and not rebuilt.
cros_ec_open_sensors ==
  /\ hub = "closed" /\ hub_calls = 0 /\ hub_calls' = 1
  /\ \E found \in SUBSET IioDevices :
       /\ HasRing(found) /\ \E d \in found : IsSensor(d)
       /\ sensor_info' = cros_ec_get_sensors_names(found)
       /\ gesture_info' = cros_ec_get_gesture_names(found)
       /\ ec' = [h \in DOMAIN sensor_info' \cup {Sigmo} |-> [period |-> 0, rate |-> 0]]
  /\ hub' = "open"
  /\ UNCHANGED <<ring, wake, poll, unreported, ec_events>>

-----------------------------------------------------------------------------
(* Calls of the sensor service *)

HubCall == hub = "open" /\ hub_calls < MaxHubCalls /\ hub_calls' = hub_calls + 1

\* The parameters are `int': what is passed is cut to 32 bits.
ToInt(x) == ((x + IntHalf) % (2 * IntHalf)) - IntHalf
max(a, b) == IF ToInt(a) > ToInt(b) THEN ToInt(a) ELSE ToInt(b)

\* CrosECSensor::activate of a sensor: the frequency, then the report rate.
\* A failed write leaves the rest as it was.  The cap on the report rate,
\* CROS_EC_MAX_SAMPLING_PERIOD, lies above every latency of the model.
Activated(h, info, enabled, message) ==
  LET period == IF enabled THEN info.period ELSE 0
      rate == IF enabled THEN info.latency ELSE 0
  IN
  \/ /\ ec' = [ec EXCEPT ![h] = [period |-> period, rate |-> rate]]
     /\ sensor_info' = [sensor_info EXCEPT ![h] = [info EXCEPT !.enabled = enabled]]
     /\ wake' = wake + message
  \/ /\ HubMay("write")
     /\ ec' \in {ec, [ec EXCEPT ![h].period = period]}
     /\ sensor_info' = [sensor_info EXCEPT ![h] = info]
     /\ UNCHANGED wake

\* A sensor has been batched before it is enabled.
ActivateSensor ==
  /\ HubCall
  /\ \E h \in DOMAIN sensor_info, enabled \in BOOLEAN :
       /\ sensor_info[h].period # 0
       /\ Activated(h, sensor_info[h], enabled, IF enabled THEN 1 ELSE 0)
  /\ UNCHANGED <<hub, gesture_info, ring, poll, unreported, ec_events>>

ActivateGesture ==
  /\ HubCall /\ gesture_info.found
  /\ \E enabled \in BOOLEAN :
       \/ /\ ec' = [ec EXCEPT ![Sigmo].period = IF enabled THEN 1 ELSE 0]
          /\ gesture_info' = [gesture_info EXCEPT !.enabled = enabled]
          /\ wake' = IF enabled THEN wake + 1 ELSE wake
          /\ unreported' = IF enabled THEN unreported + 1 ELSE unreported
       \/ HubMay("write") /\ UNCHANGED <<ec, gesture_info, wake, unreported>>
  /\ UNCHANGED <<hub, sensor_info, ring, poll, ec_events>>

\* CrosECSensor::batch: clamp the period, report no more often than that.  The
\* call of activate that ends it sends no wake message.
Batched(info, period, latency) ==
  LET t == Template[info.type]
      p == CASE period > t.maxDelay -> t.maxDelay
             [] period < t.minDelay -> t.minDelay
             [] OTHER -> period
      floor == max(period, p)
  IN [info EXCEPT !.period = p, !.latency = IF latency < floor THEN floor ELSE latency]

Batch ==
  /\ HubCall
  /\ \E h \in DOMAIN sensor_info :
       \E period \in {1, 2, Template[sensor_info[h].type].maxDelay}, latency \in {0, 3} :
         Activated(h, Batched(sensor_info[h], period, latency), sensor_info[h].enabled, 0)
  /\ UNCHANGED <<hub, gesture_info, ring, poll, unreported, ec_events>>

\* The EC answers a flush with an event in the ring; one-shot gestures and
\* disabled sensors are refused.
Flush ==
  /\ HubCall /\ Len(ring) < RingSize
  /\ \E h \in DOMAIN sensor_info :
       /\ sensor_info[h].enabled
       /\ ring' = Append(ring, [what |-> "flush", sensor |-> h])
  /\ UNCHANGED <<hub, sensor_info, gesture_info, ec, wake, poll, unreported, ec_events>>

\* CrosECSensor::~CrosECSensor, from wrapper_close, when nobody polls.
wrapper_close ==
  /\ hub = "open" /\ poll.pc = "none"
  /\ hub' = "closed"
  /\ ec' = [h \in DOMAIN ec |-> [period |-> 0, rate |-> 0]]
  /\ sensor_info' = <<>> /\ gesture_info' = [gesture_info EXCEPT !.enabled = FALSE]
  /\ ring' = <<>>
  /\ UNCHANGED <<wake, poll, unreported, hub_calls, ec_events>>

-----------------------------------------------------------------------------
(* The EC: external *)

\* It may send data of a sensor that is not set up, and of one without a handle.
EcEvent ==
  /\ hub = "open" /\ Len(ring) < RingSize
  /\ ec_events < MaxEcEvents /\ ec_events' = ec_events + 1
  /\ \E h \in DOMAIN sensor_info \cup {Sigmo, CROS_EC_MAX_PHYSICAL_SENSOR - 1} :
       ring' = Append(ring, [what |-> "data", sensor |-> h])
  /\ UNCHANGED <<hub, sensor_info, gesture_info, ec, wake, poll, unreported, hub_calls>>

-----------------------------------------------------------------------------
(* The poll thread *)

\* pollEvents: `at' is data, `count' the room left, n what poll returned;
\* events, got and written are readEvents' mEvents, data_events and the slots
\* it has filled.
Polling(pc, at, count, n, revents) ==
  [pc |-> pc, at |-> at, count |-> count, nbEvents |-> 0, n |-> n,
   revents |-> revents, events |-> <<>>, got |-> 0, written |-> {}]

PollCall ==
  /\ hub = "open" /\ poll.pc = "none"
  /\ poll' = Polling("loop", 0, EventBufferSize, 0, poll.revents)
  /\ UNCHANGED <<hub, sensor_info, gesture_info, ec, ring, wake, unreported,
                 hub_calls, ec_events>>

\* The read of readEvents.  It waits for an event.
ReadRing ==
  LET k == IF poll.count < Len(ring) THEN poll.count ELSE Len(ring) IN
  /\ poll.pc = "loop" /\ poll.revents
  /\ \/ /\ ring # <<>>
        /\ poll' = [poll EXCEPT !.pc = "events", !.events = SubSeq(ring, 1, k), !.got = 0]
        /\ ring' = SubSeq(ring, k + 1, Len(ring))
     \/ /\ HubMay("read")
        /\ poll' = [poll EXCEPT !.pc = "got", !.got = -1]
        /\ UNCHANGED ring
  /\ UNCHANGED <<hub, sensor_info, gesture_info, ec, wake, unreported, hub_calls, ec_events>>

\* processEvent returns 0.
Reported(e) ==
  \/ e.what = "flush"
  \/ e.sensor \in DOMAIN sensor_info /\ sensor_info[e.sensor].enabled
  \/ e.sensor = Sigmo /\ gesture_info.found /\ gesture_info.enabled

\* One event.  A gesture is disabled in a step of its own.
ProcessEvent ==
  LET e == Head(poll.events)
      slot == poll.at + poll.got
  IN
  /\ poll.pc = "events" /\ poll.events # <<>>
  /\ poll' = IF Reported(e)
             THEN [poll EXCEPT !.events = Tail(@), !.got = @ + 1,
                     !.written = @ \cup {slot},
                     !.pc = IF e.sensor = Sigmo THEN "one_shot" ELSE "events"]
             ELSE [poll EXCEPT !.events = Tail(@)]
  /\ unreported' = IF Reported(e) /\ e.sensor = Sigmo THEN unreported - 1 ELSE unreported
  /\ UNCHANGED <<hub, sensor_info, gesture_info, ec, ring, wake, hub_calls, ec_events>>

\* Mutant: a one-shot sensor stays enabled after its event.
MutantKeepArmed ==
  /\ poll.pc = "one_shot" /\ poll' = [poll EXCEPT !.pc = "events"]
  /\ UNCHANGED <<hub, sensor_info, gesture_info, ec, ring, wake, unreported,
                 hub_calls, ec_events>>

DisableOneShot ==
  /\ poll.pc = "one_shot" /\ poll' = [poll EXCEPT !.pc = "events"]
  /\ gesture_info' = [gesture_info EXCEPT !.enabled = FALSE]
  /\ UNCHANGED <<hub, sensor_info, ec, ring, wake, unreported, hub_calls, ec_events>>

\* readEvents has returned got, or an error.
AfterRead ==
  /\ \/ poll.pc = "events" /\ poll.events = <<>>
     \/ poll.pc = "got"
  /\ poll' = [poll EXCEPT !.pc = "wait",
                !.revents = poll.got >= poll.count, !.got = 0,
                !.count = @ - poll.got, !.nbEvents = @ + poll.got, !.at = @ + poll.got]
  /\ UNCHANGED <<hub, sensor_info, gesture_info, ec, ring, wake, unreported,
                 hub_calls, ec_events>>

\* poll(): it waits unless there are events to return.  Then round again, or
\* return.
PollWait ==
  LET readable == ring # <<>>
      ready == readable \/ wake > 0
  IN
  /\ \/ poll.pc = "wait"
     \/ poll.pc = "loop" /\ ~ poll.revents
  /\ \/ /\ poll.count = 0
        /\ poll' = [NotPolling EXCEPT !.revents = poll.revents] /\ UNCHANGED wake
     \/ /\ poll.count # 0 /\ ready
        /\ poll' = [poll EXCEPT !.pc = "loop", !.revents = readable]
        /\ wake' = IF wake > 0 THEN wake - 1 ELSE 0
     \/ /\ poll.count # 0 /\ ~ ready /\ poll.nbEvents # 0
        /\ poll' = NotPolling /\ UNCHANGED wake
  /\ UNCHANGED <<hub, sensor_info, gesture_info, ec, ring, unreported, hub_calls, ec_events>>

PollStep == ReadRing \/ ProcessEvent \/ DisableOneShot \/ AfterRead \/ PollWait

SensorNext ==
  \/ cros_ec_open_sensors \/ wrapper_close
  \/ ActivateSensor \/ ActivateGesture \/ Batch \/ Flush
  \/ EcEvent
  \/ PollCall \/ PollStep

SensorSpec == SensorInit /\ [][SensorNext]_hubvars

-----------------------------------------------------------------------------
(* Properties *)

\* "count: maximal number of events": pollEvents writes the caller's buffer from
\* its beginning, without a gap and not past its end, over any number of short
\* reads, dropped events and wake messages.
BufferRespected ==
  poll.pc # "none" =>
    /\ poll.got >= 0 => poll.written = 0..(poll.at + poll.got - 1)
    /\ poll.written \subseteq 0..(EventBufferSize - 1)
    /\ poll.at + poll.count = EventBufferSize

\* A one-shot gesture is reported at most once for every time it was armed,
\* although it may be armed again between its report and the reset.
OneShotOnce == unreported >= 0

\* What the sensor service may rely on in poll: its buffer and its one-shot
\* events.
PollDelivers == BufferRespected /\ OneShotOnce

=============================================================================
