-------------------------- MODULE MCFirmwareUpdater --------------------------
(* Instances of FirmwareUpdater for TLC. *)
EXTENDS FirmwareUpdater

AllCommands == {"ota", "update", "mark_boot", "vbnv", "post_wipe_data"}

Image(v, compatible, sections) ==
  [version |-> v, compatible |-> compatible, sections |-> sections]

\* A good image of each version, one with another root key and one that lacks
\* a section.
SomeImages == {Image(v, TRUE, Parts) : v \in Versions}
              \cup {Image("v2", FALSE, Parts), Image("v2", TRUE, {"A", "SHARED"})}
=============================================================================
