--------------------------- MODULE FirmwareUpdater ---------------------------
(***************************************************************************)
(* The firmware updater and fwtool (recovery/updater): updating a slot of  *)
(* the SPI flash, the flags in its NVRAM that tell the bootloader which    *)
(* slot to try, and the copy of a good slot over the other one, with power *)
(* lost between or in the middle of any two flash operations.              *)
(*                                                                         *)
(* A command is turned into the flash operations it will do, `todo', and   *)
(* every action does the first of them.  The bootloader is external: it is *)
(* modelled from the flags the code sets for it.                           *)
(***************************************************************************)
EXTENDS Integers, Sequences

CONSTANTS
  NBlocks,      \* erase blocks of a section; the version (FWID) is in the last
  NvBlocks,     \* entries of RW_NVRAM
  Versions,     \* of firmware images
  Installed,    \* the version in the flash at the beginning
  Images,       \* version, root key and sections of the images there are
  MaxRuns,      \* bound on the commands that are run
  Commands,     \* what is run: "ota", "update", "mark_boot", "vbnv", "post_wipe_data"
  Env           \* "power", "flash", "recovery", "recovery_flash", "fdt", "open"

ASSUME UpdaterAssumption ==
  /\ NBlocks \in Nat \ {0} /\ NvBlocks \in Nat \ {0} /\ MaxRuns \in Nat
  /\ Installed \in Versions
  /\ Versions \cap {"erased", "torn", "ro", "damaged"} = {}
  /\ Images \subseteq [version : Versions, compatible : BOOLEAN,
                       sections : SUBSET {"A", "B", "SHARED"}]

VARIABLES
  section,      \* blocks of RW_SECTION_A, RW_SECTION_B and RW_SHARED
  nvram,        \* entries of RW_NVRAM
  running,      \* vboot_get_mainfw_act, or "off"
  todo,         \* flash operations of the command that runs
  report,       \* result of the last firmware_update
  intent,       \* flags as the commands since the last boot have set them
  runs          \* number of commands so far

vars == <<section, nvram, running, todo, report, intent, runs>>

Slots == {"A", "B"}
Parts == Slots \cup {"SHARED"}
Other(s) == IF s = "A" THEN "B" ELSE "A"
Whole(v) == [i \in 1..NBlocks |-> v]
Intact(s) == \E v \in Versions : section[s] = Whole(v)
FWID(s) == section[s][NBlocks]

-----------------------------------------------------------------------------
(* NVRAM.  A flag has the bits of its mask; flash cells go from 1 to 0 only. *)

Mask == [try_count |-> 15, fw_try_next |-> 1, boot_result |-> 3,
         dev_boot_fastboot_full_cap |-> 1]
Flags == DOMAIN Mask
VB2_FW_RESULT_TRYING == 1
VB2_FW_RESULT_SUCCESS == 2

Bits(n) == {b \in {1, 2, 4, 8} : (n \div b) % 2 = 1}
And(m, n) == CHOOSE k \in 0..15 : Bits(k) = Bits(m) \cap Bits(n)

Defaults == [f \in Flags |-> 0]
Empty == [flags |-> Mask, crc |-> "erased"]
Entry(flags, crc) == [flags |-> flags, crc |-> crc]

\* The last used entry: the one before the first empty entry, the last one if
\* there is none, the first one if all are empty.
FirstEmpty ==
  LET free == {i \in 1..NvBlocks : nvram[i] = Empty}
  IN IF free = {} THEN 0 ELSE CHOOSE i \in free : \A j \in free : i <= j
LastUsed == CASE FirstEmpty = 0 -> NvBlocks
              [] FirstEmpty = 1 -> 1
              [] OTHER -> FirstEmpty - 1

vbnv_get_flag(flag) == nvram[LastUsed].flags[flag]

can_overwrite(current, new) ==
  \A f \in Flags : Bits(new[f]) \subseteq Bits(current[f])

-----------------------------------------------------------------------------
(* Calls that may fail: the set of their outcomes *)

May(kind) == kind \in Env
Outcomes(kind) == {TRUE} \cup (IF May(kind) THEN {FALSE} ELSE {})

fdt_read_string == Outcomes("open")
vboot_get_mainfw_act == {running} \cup (IF May("fdt") THEN {"E"} ELSE {})
mtd_open == Outcomes("open")
ec_open == Outcomes("open")
file_open == Outcomes("open")
flash_open(name) == CASE name = "spi" -> mtd_open
                      [] name = "ec" -> ec_open
                      [] name = "file" -> file_open
fmap_load == Outcomes("open")
fmap_read_section(name, sections) == IF name \in sections THEN fmap_load ELSE {FALSE}

\* The image's root key is the one in the flash.
gbb_get_rootkey == fmap_load
check_compatible_keys(img) == IF img.compatible THEN gbb_get_rootkey ELSE {FALSE}

FlashMayFail == May("flash") /\ (running # "R" \/ May("recovery_flash"))

-----------------------------------------------------------------------------
(* Flash operations of a command *)

Op(op, part, at, data) == [op |-> op, part |-> part, at |-> at, data |-> data]
SetFlag(flag, value) == Op("flag", "NVRAM", flag, value)
Done(res) == Op("done", "none", 0, res)
Sync == Op("sync", "none", 0, 0)

\* update_partition, and the end of sync_slots: erase all, then write.
update_partition(part, content) ==
  [i \in 1..NBlocks |-> Op("erase", part, i, "erased")]
  \o [i \in 1..NBlocks |-> Op("write", part, i, content[i])]

\* Mutant: the slot that runs is written.
MutantSameSlot(img, cur_part) ==
  LET slot == IF cur_part = "B" THEN "B" ELSE "A"
  IN update_partition(slot, Whole(img.version)) \o
     <<SetFlag("fw_try_next", IF slot = "B" THEN 1 ELSE 0), SetFlag("try_count", 6),
       Done("UPDATED")>>

\* update_rw_fw: the slot that is not running, B if that is not known.
update_rw_fw(img, cur_part) ==
  LET slot == IF cur_part = "B" THEN "A" ELSE "B" IN
  IF slot \notin img.sections THEN <<Done("error")>>
  ELSE update_partition(slot, Whole(img.version)) \o
       <<SetFlag("fw_try_next", IF slot = "B" THEN 1 ELSE 0),
         SetFlag("try_count", 6), Done("UPDATED")>>

\* Mutant: A is erased before B is written.
MutantBothAtOnce(img) ==
  [i \in 1..NBlocks |-> Op("erase", "A", i, "erased")]
  \o update_partition("B", Whole(img.version))
  \o [i \in 1..NBlocks |-> Op("write", "A", i, img.version)]
  \o <<Done("UPDATED")>>

\* update_recovery_fw with write protection: all sections the image has.
update_recovery_fw(img) ==
  LET update(part) == IF part \in img.sections
                      THEN update_partition(part, Whole(img.version)) ELSE <<>>
  IN update("A") \o update("B") \o update("SHARED")
     \o <<Done(IF Parts \subseteq img.sections THEN "UPDATED" ELSE "error")>>

\* An error in a partition ends the work on it; update_partition returns 0
\* all the same, and the command goes on with what comes after it.
SkipTo(i, part) ==
  /\ i <= Len(todo) => todo[i].part # part
  /\ \A j \in 1..(i - 1) : todo[j].part = part

Init ==
  /\ section = [s \in Parts |-> Whole(Installed)]
  /\ nvram = [i \in 1..NvBlocks |-> IF i = 1 THEN Entry(Defaults, "ok") ELSE Empty]
  /\ running = "off" /\ todo = <<>> /\ report = "none" /\ intent = Defaults
  /\ runs = 0

-----------------------------------------------------------------------------
(* Commands *)

Run == running # "off" /\ todo = <<>> /\ runs < MaxRuns /\ runs' = runs + 1

\* update_fw: its early returns (the device tree, the image, the EC or the SPI
\* flash cannot be read; the version is the same; another root key), then the
\* update of the other slot or, in recovery mode, of everything.
update_fw(img, force) ==
  LET version == IF running = "R" THEN "ro" ELSE FWID(running) IN
  \E read \in fdt_read_string \cup flash_open("file"),
     opened \in flash_open("ec") \cup flash_open("spi"),
     keys \in check_compatible_keys(img), cur_part \in vboot_get_mainfw_act :
    IF read /\ version = img.version /\ ~ force
    THEN report' = "" /\ UNCHANGED todo
    ELSE IF ~ (read /\ opened /\ keys)
    THEN report' = "error" /\ UNCHANGED todo
    ELSE /\ todo' = IF cur_part = "R" THEN update_recovery_fw(img)
                    ELSE update_rw_fw(img, cur_part)
         /\ report' = "none"

\* `fwtool update'.
cmd_update == "update" \in Commands /\ \E img \in Images : update_fw(img, TRUE)

\* dragon.firmware_update of an OTA package.
firmware_update == "ota" \in Commands /\ \E img \in Images : update_fw(img, FALSE)

Update ==
  /\ Run
  /\ cmd_update \/ firmware_update
  /\ UNCHANGED <<section, nvram, running, intent>>

\* `fwtool mark_boot success', run after every good boot.
MarkBoot ==
  /\ "mark_boot" \in Commands
  /\ Run
  /\ todo' = <<SetFlag("boot_result", VB2_FW_RESULT_SUCCESS),
               SetFlag("try_count", 0), Sync>>
  /\ UNCHANGED <<section, nvram, running, report, intent>>

\* `fwtool vbnv write': any flag, any value.
VbnvWrite ==
  /\ "vbnv" \in Commands
  /\ Run
  /\ \E flag \in Flags : \E val \in {0, Mask[flag]} : todo' = <<SetFlag(flag, val)>>
  /\ UNCHANGED <<section, nvram, running, report, intent>>

\* DragonDevice::PostWipeData.  fastboot_cap is an int of -1 of which the read
\* changes one byte: it is never 1, and the flag is always written.
PostWipeData ==
  /\ "post_wipe_data" \in Commands
  /\ Run
  /\ todo' = <<SetFlag("dev_boot_fastboot_full_cap", 1)>>
  /\ UNCHANGED <<section, nvram, running, report, intent>>

-----------------------------------------------------------------------------
(* Steps of a command *)

Next1(op) == todo # <<>> /\ Head(todo).op = op

\* sync_slots: unless the versions agree, copy the running slot to the other.
SyncSlots ==
  /\ Next1("sync")
  /\ \E cur_part \in vboot_get_mainfw_act :
       todo' = IF cur_part \notin Slots \/ FWID("A") = FWID("B") THEN Tail(todo)
               ELSE update_partition(Other(cur_part), section[cur_part])
  /\ UNCHANGED <<section, nvram, running, report, intent, runs>>

\* One block of flash_erase or flash_write on the MTD device.
FlashBlock ==
  LET o == Head(todo) IN
  /\ Next1("erase") \/ Next1("write")
  /\ \/ /\ section' = [section EXCEPT ![o.part][o.at] = o.data]
        /\ todo' = Tail(todo)
     \/ /\ FlashMayFail
        /\ \E i \in 1..(Len(todo) + 1) :
             SkipTo(i, o.part) /\ todo' = SubSeq(todo, i, Len(todo))
        /\ UNCHANGED section
  /\ UNCHANGED <<nvram, running, report, intent, runs>>

\* Mutant: the last used entry is always overwritten.
MutantAlwaysInPlace ==
  LET o == Head(todo)
      block == LastUsed
      dummy == [nvram[block].flags EXCEPT ![o.at] = And(o.data, Mask[o.at])]
  IN
  /\ Next1("flag")
  /\ intent' = IF intent = <<>> THEN intent ELSE [intent EXCEPT ![o.at] = o.data]
  /\ todo' = <<Op("put", "NVRAM", block, dummy)>> \o Tail(todo)
  /\ UNCHANGED <<section, nvram, running, report, runs>>

\* vbnv_readwrite up to its first flash operation: the last used entry with
\* the flag changed goes over that entry if only 1s become 0s, else to the
\* first empty one, else to the front of the erased NVRAM.  Whether the new
\* checksum fits over the old one is left open.
VbnvReadWrite ==
  LET o == Head(todo)
      block == LastUsed
      curr == FirstEmpty
      dummy == [nvram[block].flags EXCEPT ![o.at] = And(o.data, Mask[o.at])]
      put(at) == Op("put", "NVRAM", at, dummy)
  IN
  /\ Next1("flag")
  /\ intent' = IF intent = <<>> THEN intent ELSE [intent EXCEPT ![o.at] = o.data]
  /\ \/ /\ can_overwrite(nvram[block].flags, dummy)
        /\ todo' = <<put(block)>> \o Tail(todo)
     \/ /\ nvram[block] # Empty
        /\ todo' = (IF curr # 0 THEN <<put(curr)>>
                    ELSE <<Op("wipe", "NVRAM", 1, 0), put(1)>>) \o Tail(todo)
  /\ UNCHANGED <<section, nvram, running, report, runs>>

\* flash_erase of RW_NVRAM.  After an error the flags are what they are.
NvErase ==
  /\ Next1("wipe")
  /\ \/ /\ nvram' = [i \in 1..NvBlocks |-> Empty]
        /\ todo' = Tail(todo)
        /\ UNCHANGED intent
     \/ /\ FlashMayFail
        /\ todo' = Tail(Tail(todo)) /\ intent' = <<>>
        /\ UNCHANGED nvram
  /\ UNCHANGED <<section, running, report, runs>>

\* flash_write of an entry: bits are only cleared.
NvPut ==
  LET o == Head(todo)
      old == nvram[o.at]
      flags == [f \in Flags |-> And(old.flags[f], o.data[f])]
  IN
  /\ Next1("put")
  /\ todo' = Tail(todo)
  /\ \/ /\ nvram' = [nvram EXCEPT ![o.at] =
                      Entry(flags, IF flags = o.data THEN "ok" ELSE "bad")]
        /\ UNCHANGED intent
     \/ FlashMayFail /\ intent' = <<>> /\ UNCHANGED nvram
  /\ UNCHANGED <<section, running, report, runs>>

\* update_fw returns.
Finish ==
  /\ Next1("done")
  /\ todo' = <<>> /\ report' = Head(todo).data
  /\ UNCHANGED <<section, nvram, running, intent, runs>>

Step == SyncSlots \/ FlashBlock \/ VbnvReadWrite \/ NvErase \/ NvPut \/ Finish

-----------------------------------------------------------------------------
(* Power and the bootloader *)

\* A reboot, or power lost in the middle of the next flash operation.
PowerLoss ==
  /\ running # "off"
  /\ todo = <<>> \/ May("power")
  /\ running' = "off" /\ todo' = <<>> /\ report' = "none" /\ intent' = <<>>
  /\ UNCHANGED runs
  /\ \/ UNCHANGED <<section, nvram>>
     \/ /\ Next1("erase") \/ Next1("write")
        /\ section' = [section EXCEPT ![Head(todo).part][Head(todo).at] = "torn"]
        /\ UNCHANGED nvram
     \/ /\ Next1("put")
        /\ nvram' = [nvram EXCEPT ![Head(todo).at].crc = "bad"]
        /\ UNCHANGED section
     \/ /\ Next1("wipe")
        /\ nvram' = [i \in 1..NvBlocks |-> [nvram[i] EXCEPT !.crc = "bad"]]
        /\ UNCHANGED section

\* The bootloader takes defaults for a damaged entry, tries fw_try_next (the
\* other slot when its tries are used up), falls back from a slot that is not
\* intact, and notes the try.
Boot ==
  LET last == nvram[LastUsed]
      nv == IF last.crc = "ok" THEN last.flags ELSE Defaults
      next == IF nv.fw_try_next = 0 THEN "A" ELSE "B"
      spent == nv.try_count = 0 /\ nv.boot_result = VB2_FW_RESULT_TRYING
      want == IF spent THEN Other(next) ELSE next
      slot == CASE Intact(want) -> want
                [] Intact(Other(want)) -> Other(want)
                [] OTHER -> "R"
      new == [nv EXCEPT !.try_count = IF @ = 0 THEN 0 ELSE @ - 1,
                        !.fw_try_next = IF want = "A" THEN 0 ELSE 1,
                        !.boot_result = IF nv.try_count > 0
                                        THEN VB2_FW_RESULT_TRYING ELSE 0]
  IN
  /\ running = "off"
  /\ running' \in {slot} \cup (IF May("recovery") THEN {"R"} ELSE {})
  /\ intent' = new
  /\ nvram' = CASE new = nv /\ last.crc = "ok" -> nvram
                [] FirstEmpty # 0 -> [nvram EXCEPT ![FirstEmpty] = Entry(new, "ok")]
                [] OTHER -> [i \in 1..NvBlocks |-> IF i = 1 THEN Entry(new, "ok") ELSE Empty]
  /\ UNCHANGED <<section, todo, report, runs>>

Next == Update \/ MarkBoot \/ VbnvWrite \/ PostWipeData \/ Step \/ PowerLoss \/ Boot

Spec == Init /\ [][Next]_vars

-----------------------------------------------------------------------------
(* Properties *)

\* What the updater promises, whatever the power does: see BootSlots.
Abstract == INSTANCE BootSlots WITH
  content <- [s \in Slots |-> IF Intact(s) THEN FWID(s) ELSE "damaged"],
  active <- running

\* The updater never touches the slot that runs, changes a slot to nothing but
\* the whole of a version or a damaged slot, and the device starts from an
\* intact slot: FirmwareUpdater implements BootSlots.
UpdatesAreSafe == Abstract!Spec

\* In recovery mode both slots are rewritten, one after the other: B is not
\* erased before A holds a whole image again, so that power lost at any moment
\* costs one slot at most if both were good.
RecoveryInTurn ==
  running = "R" /\ Next1("erase") /\ Head(todo).part = "B" => Intact("A")

\* A flag that was set reads back, and no other flag changed with it, over
\* entries written in place, appended, and moved to the front of a full NVRAM.
FlagsReadBack ==
  running # "off" /\ intent # <<>> /\ ~ Next1("put") /\ ~ Next1("wipe") =>
    nvram[LastUsed] = Entry(intent, "ok")

\* "We have updated the SPI flash": firmware_update reports an update, and the
\* bootloader is told to try the slot, only when the slot holds the whole image.
UpdatedMeansWritten ==
  report = "UPDATED" /\ running \in Slots => Intact(Other(running))

=============================================================================
