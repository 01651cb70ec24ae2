---------------------------- MODULE DrmResources ----------------------------
(***************************************************************************)
(* The displays of the hwcomposer: the discovery of CRTCs, encoders and    *)
(* connectors (drmresources.cpp), the numbering of displays and the CRTC   *)
(* each one gets, the mode lists of connectors (drmconnector.cpp), the     *)
(* configurations SurfaceFlinger is shown and picks from (hwcomposer.cpp)  *)
(* and the hotplug thread (drmeventlistener.cpp, DrmHotplugHandler).       *)
(*                                                                         *)
(* Two threads meet here: SurfaceFlinger's calls and the event listener.   *)
(* A mode list is read or replaced in one step; what the compositor does   *)
(* with a mode or a DPMS change that is queued is DrmDisplayCompositor's   *)
(* business, so only the last one queued for a display is kept.            *)
(***************************************************************************)
EXTENDS Integers, Sequences, FiniteSets, SequencesExt

CONSTANTS
  Topologies,      \* the cards: [conns, encs, crtcs], see NumberDisplays
  ModeLists,       \* the mode lists a connected connector may report
  Preferred,       \* the modes with DRM_MODE_TYPE_PREFERRED
  MaxPlugs,        \* bound on the changes of a connection
  MaxUEvents,      \* bound on other uevents, and on SurfaceFlinger's calls
  DrmEnv           \* "get": a get call of libdrm may fail

\* There is a connector, the kernel names encoders and CRTCs that exist, and
\* what it has bound is among what it allows.
ASSUME DrmAssumption ==
  /\ \A t \in Topologies :
       /\ t.crtcs \in Nat
       /\ t.encs \in Seq([crtcs : Seq(1..t.crtcs), cur : 0..t.crtcs])
       /\ t.conns \in Seq([type : {"internal", "external", "other"},
                           encs : Seq(DOMAIN t.encs), cur : 0..Len(t.encs)])
       /\ t.conns # <<>>
       /\ \A e \in DOMAIN t.encs : t.encs[e].cur \in {0} \cup Range(t.encs[e].crtcs)
       /\ \A c \in DOMAIN t.conns : t.conns[c].cur \in {0} \cup Range(t.conns[c].encs)
  /\ \A list \in ModeLists : list \in Seq(Range(list))

None == "none"
Unbound == -1      \* display_ of what has no display

VARIABLES
  card,            \* the topology of this device
  kernel,          \* kernel[c]: the modes connector c reports, <<>> unplugged
  conn,            \* DrmConnector: [display, state, modes, encoder]
  encoder,         \* DrmEncoder: the current CRTC, or None
  crtc,            \* DrmCrtc: display_
  mode_id,         \* mode_id_, the last mode id given out
  opening,         \* hwc_device_open: where it is
  config_ids,      \* config_ids[c] of the display of connector c
  shown,           \* shown[c]: the configurations SurfaceFlinger has seen, [id, mode]
  told,            \* told[c]: whether SurfaceFlinger believes c is connected
  queued,          \* queued[c]: [mode, dpms] queued last for the display of c
  picked,          \* set_active_config between its look-up and its queueing
  uevents,         \* the uevents the listener has not read
  handler,         \* the listener: waiting, or at connector handler.k
  plugs, calls     \* the counters of the bounds

drmvars == <<card, kernel, conn, encoder, crtc, mode_id, opening, config_ids, shown, told,
             queued, picked, uevents, handler, plugs, calls>>

C == DOMAIN card.conns
Wait == [k |-> 0, todo |-> "wait", cur_state |-> FALSE]
NoPick == [c |-> 0, seen |-> None, mode |-> None]

-----------------------------------------------------------------------------
(* Discovery.  card.conns is a sequence of [type, encs, cur], card.encs a  *)
(* sequence of [crtcs, cur], card.crtcs a number; encs, crtcs and cur name *)
(* encoders and CRTCs, cur is the one the kernel has bound or 0.           *)

DrmInit ==
  /\ card \in Topologies
  /\ kernel \in [C -> {<<>>} \cup ModeLists]
  /\ conn = [c \in C |-> [display |-> Unbound, state |-> kernel[c] # <<>>, modes |-> <<>>,
                          encoder |-> card.conns[c].cur]]
  /\ encoder = [e \in DOMAIN card.encs |-> card.encs[e].cur]
  /\ crtc = [x \in 1..card.crtcs |-> Unbound]
  /\ mode_id = 0 /\ opening = [at |-> "discover", k |-> 1]
  /\ config_ids = [c \in C |-> <<>>]
  /\ shown = [c \in C |-> <<>>] /\ told = [c \in C |-> FALSE]
  /\ queued = [c \in C |-> [mode |-> None, dpms |-> None]]
  /\ picked = NoPick /\ uevents = <<>> /\ handler = Wait /\ plugs = 0 /\ calls = 0

Internal(c) == card.conns[c].type = "internal"
External(c) == card.conns[c].type = "external"

\* Mutant: the external primary display gets its number before the others are
\* counted, and display_num starts at the same value.
MutantNumber(c) == Cardinality({b \in 1..c - 1 : ~Internal(b)})

\* The first internal connector is display 0, the others count from 1; without
\* an internal one the first external connector becomes display 0.
NumberOf(c) ==
  LET internals == {b \in C : Internal(b)}
      externals == {b \in C : External(b)}
      First(S) == CHOOSE b \in S : \A a \in S : b <= a
  IN  IF internals # {}
      THEN IF c = First(internals) THEN 0
           ELSE Cardinality({b \in 1..c : b # First(internals)})
      ELSE IF externals # {} /\ c = First(externals) THEN 0 ELSE c

\* Every object is fetched in turn; a failure ends Init.
Discover ==
  /\ opening.at = "discover"
  /\ \/ /\ conn' = [c \in C |-> [conn[c] EXCEPT !.display = NumberOf(c)]]
        /\ opening' = [at |-> "pipe", k |-> 1]
     \/ /\ "get" \in DrmEnv
        /\ opening' = [at |-> "failed", k |-> 0] /\ UNCHANGED conn
  /\ UNCHANGED <<card, kernel, encoder, crtc, mode_id, config_ids, shown, told, queued, picked,
                 uevents, handler, plugs, calls>>

can_bind(x, display) == crtc[x] \in {Unbound, display}

\* The first CRTC or encoder of a list that serves, 0 for none.
FirstOf(order, good) ==
  IF good = {} THEN 0 ELSE order[CHOOSE i \in good : \A j \in good : i <= j]

\* TryEncoderForDisplay: the CRTC encoder e would get, the bound one first.
TryEncoderForDisplay(display, e) ==
  LET order == (IF encoder[e] = 0 THEN <<>> ELSE <<encoder[e]>>) \o card.encs[e].crtcs
  IN  FirstOf(order, {i \in DOMAIN order : can_bind(order[i], display)})

\* The first encoder of connector c that finds a CRTC, the current one first.
EncoderFor(c) ==
  LET order == (IF conn[c].encoder = 0 THEN <<>> ELSE <<conn[c].encoder>>) \o card.conns[c].encs
  IN  FirstOf(order, {i \in DOMAIN order : TryEncoderForDisplay(conn[c].display, order[i]) # 0})

CreateDisplayPipe ==
  /\ opening.at = "pipe" /\ opening.k \in C
  /\ LET c == opening.k
         e == EncoderFor(c)
         x == TryEncoderForDisplay(conn[c].display, e)
     IN  IF e = 0
         THEN opening' = [at |-> "failed", k |-> 0] /\ UNCHANGED <<conn, encoder, crtc>>
         ELSE /\ encoder' = [encoder EXCEPT ![e] = x]
              /\ crtc' = [crtc EXCEPT ![x] = conn[c].display]
              /\ conn' = [conn EXCEPT ![c].encoder = e]
              /\ opening' = IF c = Len(card.conns) THEN [at |-> "config", k |-> 1]
                            ELSE [opening EXCEPT !.k = c + 1]
  /\ UNCHANGED <<card, kernel, mode_id, config_ids, shown, told, queued, picked, uevents,
                 handler, plugs, calls>>

-----------------------------------------------------------------------------
(* Modes *)

\* Mutant: every list is numbered from the start.
MutantRenumber(old, list, from) == [i \in DOMAIN list |-> [mode |-> list[i], id |-> i]]

\* UpdateModes: a mode the connector had keeps its id, a new one gets the next.
NewModes(old, list, from) ==
  LET Known(m) == \E i \in DOMAIN old : old[i].mode = m
      Fresh(i) == Cardinality({j \in 1..i : ~Known(list[j])})
  IN  [i \in DOMAIN list |->
        [mode |-> list[i],
         id |-> IF Known(list[i]) THEN old[CHOOSE j \in DOMAIN old : old[j].mode = list[i]].id
                ELSE from + Fresh(i)]]

UpdateModes(c) ==
  LET modes == NewModes(conn[c].modes, kernel[c], mode_id)
      new   == {i \in DOMAIN modes : modes[i].id > mode_id}
  IN  /\ conn' = [conn EXCEPT ![c].state = kernel[c] # <<>>, ![c].modes = modes]
      /\ mode_id' = mode_id + Cardinality(new)

FirstIds(modes, n) == [i \in 1..(IF Len(modes) < n THEN Len(modes) ELSE n) |-> modes[i].id]

\* hwc_initialize_display: the first configuration of a connected display is
\* set; the display's vsync thread is VSyncWorker's business.
InitializeDisplay ==
  /\ opening.at = "config" /\ opening.k \in C
  /\ LET c == opening.k
     IN  /\ UpdateModes(c)
         /\ config_ids' = [config_ids EXCEPT ![c] = FirstIds(conn'[c].modes, 1)]
         /\ queued' = IF kernel[c] = <<>> THEN queued
                      ELSE [queued EXCEPT ![c] = [mode |-> kernel[c][1], dpms |-> "on"]]
         /\ opening' = IF c = Len(card.conns) THEN [at |-> "opened", k |-> 0]
                       ELSE [opening EXCEPT !.k = c + 1]
  /\ UNCHANGED <<card, kernel, encoder, crtc, shown, told, picked, uevents, handler, plugs, calls>>

-----------------------------------------------------------------------------
(* SurfaceFlinger.  It registers its procs, queries the displays, and later *)
(* queries a display again only from the hotplug callback.                  *)

register_procs ==
  /\ opening.at = "opened"
  /\ opening' = [at |-> "registered", k |-> 1]
  /\ UNCHANGED <<card, kernel, conn, encoder, crtc, mode_id, config_ids, shown, told, queued,
                 picked, uevents, handler, plugs, calls>>

\* get_display_configs and get_display_attributes, called by one thread.
GetDisplayConfigs(c) ==
  /\ UpdateModes(c)
  /\ config_ids' = [config_ids EXCEPT ![c] = FirstIds(conn'[c].modes, Len(conn'[c].modes))]
  /\ shown' = [shown EXCEPT ![c] = conn'[c].modes]

QueryDisplay ==
  /\ opening.at = "registered" /\ opening.k \in C
  /\ GetDisplayConfigs(opening.k)
  /\ told' = [told EXCEPT ![opening.k] = kernel[opening.k] # <<>>]
  /\ opening' = [opening EXCEPT !.k = @ + 1]
  /\ UNCHANGED <<card, kernel, encoder, crtc, queued, picked, uevents, handler, plugs, calls>>

Running == opening.at = "registered" /\ opening.k > Len(card.conns)

\* set_active_config looks the mode up by the id it gave out for the index ...
set_active_config(c, index) ==
  /\ Running /\ picked = NoPick /\ calls < MaxUEvents
  /\ index \in DOMAIN config_ids[c] /\ index \in DOMAIN shown[c] /\ conn[c].state
  /\ \E i \in DOMAIN conn[c].modes :
       /\ conn[c].modes[i].id = config_ids[c][index]
       /\ picked' = [c |-> c, seen |-> shown[c][index].mode, mode |-> conn[c].modes[i].mode]
  /\ calls' = calls + 1
  /\ UNCHANGED <<card, kernel, conn, encoder, crtc, mode_id, opening, config_ids, shown, told,
                 queued, uevents, handler, plugs>>

\* ... and queues it, and then DPMS on.
QueueActiveConfig ==
  /\ picked # NoPick
  /\ queued' = [queued EXCEPT ![picked.c] = [mode |-> picked.mode, dpms |-> "on"]]
  /\ picked' = NoPick
  /\ UNCHANGED <<card, kernel, conn, encoder, crtc, mode_id, opening, config_ids, shown, told,
                 uevents, handler, plugs, calls>>

set_power_mode(c, dpms) ==
  /\ Running /\ picked = NoPick /\ calls < MaxUEvents
  /\ queued' = [queued EXCEPT ![c].dpms = dpms]
  /\ calls' = calls + 1
  /\ UNCHANGED <<card, kernel, conn, encoder, crtc, mode_id, opening, config_ids, shown, told,
                 picked, uevents, handler, plugs>>

-----------------------------------------------------------------------------
(* The kernel and the event listener *)

\* The strings of a uevent that the listener looks at.
PlugEvent == {"DEVTYPE=drm_minor", "HOTPLUG=1", "ACTION=change"}

Plug(c, list) ==
  /\ plugs < MaxPlugs /\ External(c) /\ list # kernel[c]
  /\ opening.at = "opened" \/ Running
  /\ kernel' = [kernel EXCEPT ![c] = list]
  /\ uevents' = Append(uevents, PlugEvent) /\ plugs' = plugs + 1
  /\ UNCHANGED <<card, conn, encoder, crtc, mode_id, opening, config_ids, shown, told, queued,
                 picked, handler, calls>>

OtherUEvent(strings) ==
  /\ Running /\ calls < MaxUEvents
  /\ uevents' = Append(uevents, strings) /\ calls' = calls + 1
  /\ UNCHANGED <<card, kernel, conn, encoder, crtc, mode_id, opening, config_ids, shown, told,
                 queued, picked, handler, plugs>>

\* strcmp is true for the strings that differ: any other string makes it a drm
\* event, and DEVTYPE=drm_minor itself a hotplug event.
IsHotplug(strings) ==
  /\ \E s \in strings : s # "DEVTYPE=drm_minor"
  /\ \E s \in strings : s = "DEVTYPE=drm_minor"

UEventHandler ==
  /\ handler = Wait /\ uevents # <<>>
  /\ uevents' = Tail(uevents)
  /\ handler' = IF opening.at = "registered" /\ IsHotplug(Head(uevents))
                THEN [k |-> 1, todo |-> "update", cur_state |-> FALSE] ELSE Wait
  /\ UNCHANGED <<card, kernel, conn, encoder, crtc, mode_id, opening, config_ids, shown, told,
                 queued, picked, plugs, calls>>

NextConnector(k) == IF k = Len(card.conns) THEN Wait ELSE [k |-> k + 1, todo |-> "update", cur_state |-> FALSE]

\* Mutant: break, in place of continue, at a connector that has not changed.
MutantBreak ==
  /\ handler.todo = "update"
  /\ UpdateModes(handler.k)
  /\ handler' = IF conn'[handler.k].state = conn[handler.k].state THEN Wait
                ELSE [handler EXCEPT !.todo = "queue", !.cur_state = conn'[handler.k].state]
  /\ UNCHANGED <<card, kernel, encoder, crtc, opening, config_ids, shown, told, queued, picked,
                 uevents, plugs, calls>>

\* HandleEvent for one connector: nothing more unless its state has changed.
HandleUpdate ==
  /\ handler.todo = "update"
  /\ UpdateModes(handler.k)
  /\ handler' = IF conn'[handler.k].state = conn[handler.k].state THEN NextConnector(handler.k)
                ELSE [handler EXCEPT !.todo = "queue", !.cur_state = conn'[handler.k].state]
  /\ UNCHANGED <<card, kernel, encoder, crtc, opening, config_ids, shown, told, queued, picked,
                 uevents, plugs, calls>>

\* The preferred mode of the list, or its first.
PreferredMode(modes) ==
  LET good == {i \in DOMAIN modes : modes[i].mode \in Preferred}
  IN  modes[IF good = {} THEN 1 ELSE CHOOSE i \in good : \A j \in good : i <= j].mode

HandleQueue ==
  /\ handler.todo = "queue"
  /\ queued' = [queued EXCEPT ![handler.k] =
        IF handler.cur_state THEN [mode |-> PreferredMode(conn[handler.k].modes), dpms |-> "on"]
        ELSE [@ EXCEPT !.dpms = "off"]]
  /\ handler' = [handler EXCEPT !.todo = "callback"]
  /\ UNCHANGED <<card, kernel, conn, encoder, crtc, mode_id, opening, config_ids, shown, told,
                 picked, uevents, plugs, calls>>

\* procs->hotplug with the state read before: SurfaceFlinger queries a display
\* that is said to be connected, and believes the answer.
HandleCallback ==
  /\ handler.todo = "callback"
  /\ told' = [told EXCEPT ![handler.k] = handler.cur_state /\ kernel[handler.k] # <<>>]
  /\ IF handler.cur_state THEN GetDisplayConfigs(handler.k)
     ELSE UNCHANGED <<conn, mode_id, config_ids, shown>>
  /\ handler' = NextConnector(handler.k)
  /\ UNCHANGED <<card, kernel, encoder, crtc, opening, queued, picked, uevents, plugs, calls>>

-----------------------------------------------------------------------------
ListenerStep == UEventHandler \/ HandleUpdate \/ HandleQueue \/ HandleCallback

DrmNext ==
  \/ Discover \/ CreateDisplayPipe \/ InitializeDisplay \/ register_procs \/ QueryDisplay
  \/ \E c \in C : \E i \in 1..2 : set_active_config(c, i)
  \/ QueueActiveConfig
  \/ \E c \in C : \E dpms \in {"on", "off"} : set_power_mode(c, dpms)
  \/ \E c \in C : \E list \in {<<>>} \cup ModeLists : Plug(c, list)
  \/ OtherUEvent({"DEVTYPE=drm_minor", "ACTION=change"}) \/ OtherUEvent({"ACTION=change"})
  \/ ListenerStep

\* The listener's thread and SurfaceFlinger's start-up keep running.
DrmFairness == WF_drmvars(ListenerStep) /\ WF_drmvars(QueryDisplay)

DrmSpec == DrmInit /\ [][DrmNext]_drmvars /\ DrmFairness

-----------------------------------------------------------------------------
(* Properties *)

(***************************************************************************)
(* Once Init has found a pipe for every connector, the displays have       *)
(* different numbers, one of them is the primary display, and each has a   *)
(* CRTC of its own that an encoder of its connector can drive.             *)
(***************************************************************************)
PipesRight ==
  opening.at \in {"config", "opened", "registered"} =>
    /\ \A b, c \in C : conn[b].display = conn[c].display => b = c
    /\ (\E c \in C : Internal(c) \/ External(c)) => \E c \in C : conn[c].display = 0
    /\ \A c \in C :
         LET mine == {x \in DOMAIN crtc : crtc[x] = conn[c].display}
         IN  /\ Cardinality(mine) = 1
             /\ \A x \in mine : \E i \in DOMAIN card.conns[c].encs :
                  x \in Range(card.encs[card.conns[c].encs[i]].crtcs)

(***************************************************************************)
(* The mode set_active_config queues for an index is the one whose         *)
(* attributes SurfaceFlinger read for it, whatever the hotplug thread did  *)
(* to the mode list in between: an id never changes its mode.              *)
(***************************************************************************)
ModeAsChosen == picked # NoPick => picked.mode = picked.seen

(***************************************************************************)
(* Hotplug settles: in the end SurfaceFlinger believes of every connector  *)
(* what the kernel reports, with events before registerProcs dropped and   *)
(* several changes behind one uevent.  Connections do not change while     *)
(* SurfaceFlinger makes its first queries: get_display_configs on one      *)
(* thread would take the change of state away from the handler on the      *)
(* other.                                                                  *)
(***************************************************************************)
HotplugSettles == <>[](Running => \A c \in C : told[c] = (kernel[c] # <<>>))
=============================================================================
