------------------------------ MODULE BootSlots ------------------------------
(***************************************************************************)
(* What updating the firmware (recovery/updater) promises: two slots, of   *)
(* which the active one is left alone.                                     *)
(***************************************************************************)
CONSTANTS Versions, Installed

VARIABLES content, active

Slots == {"A", "B"}

Init == content = [s \in Slots |-> Installed] /\ active = "off"

\* A slot that is not running is erased, damaged or made whole; in recovery
\* mode that may be either.
Change ==
  /\ active # "off"
  /\ \E s \in Slots \ {active}, c \in Versions \cup {"damaged"} :
       content' = [content EXCEPT ![s] = c]
  /\ UNCHANGED active

\* Power is lost, possibly in the middle of a change.
Stop ==
  /\ active # "off" /\ active' = "off"
  /\ \/ UNCHANGED content
     \/ \E s \in Slots \ {active} : content' = [content EXCEPT ![s] = "damaged"]

\* The device starts from an intact slot, in recovery mode if there is none or
\* somebody asks for it.
Start ==
  /\ active = "off"
  /\ active' \in {s \in Slots : content[s] # "damaged"} \cup {"R"}
  /\ UNCHANGED content

Next == Change \/ Stop \/ Start

Spec == Init /\ [][Next]_<<content, active>>
=============================================================================
