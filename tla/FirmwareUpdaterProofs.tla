----------------------- MODULE FirmwareUpdaterProofs ------------------------
(***************************************************************************)
(* FirmwareUpdater implements BootSlots for any number of blocks, versions *)
(* and images and any sequence of commands, flash errors and power losses, *)
(* as long as the device tree tells which slot runs.                       *)
(*                                                                         *)
(* The refinement needs an invariant on what a command is still going to   *)
(* do: none of the flash operations in todo is for the slot that runs.     *)
(* todo mixes operations of several kinds, so its elements are not typed;  *)
(* SafeOps speaks of those that erase or write.                            *)
(***************************************************************************)
EXTENDS FirmwareUpdater, TLAPS

\* What a block of a section may hold.
Blocks == Versions \cup {"erased", "torn"}

\* An operation that erases or writes a block keeps away from the slot r.
SafeOp(o, r) ==
  o.op \in {"erase", "write"} => /\ o.part \in Parts \ {r}
                                 /\ o.at \in 1..NBlocks
                                 /\ o.data \in Blocks

OpsOf(t) == {t[i] : i \in DOMAIN t}

\* The wipe of the NVRAM is never the last operation: an entry follows it.
SafeOps(t, r) ==
  /\ t \in Seq(OpsOf(t))
  /\ \A i \in 1..Len(t) : SafeOp(t[i], r) /\ (t[i].op = "wipe" => i < Len(t))

UpdaterInv ==
  /\ section \in [Parts -> [1..NBlocks -> Blocks]]
  /\ running \in Slots \cup {"R", "off"}
  /\ running = "off" => todo = <<>>
  /\ SafeOps(todo, running)

-----------------------------------------------------------------------------
(* Sequences of operations *)

\* A sequence over some set is one over the set of its own elements.
LEMMA SeqOfOps ==
  ASSUME NEW S, NEW t \in Seq(S)
  PROVE  t \in Seq(OpsOf(t)) /\ DOMAIN t = 1..Len(t) /\ Len(t) \in Nat
<1>1. Len(t) \in Nat /\ DOMAIN t = 1..Len(t) /\ t = [i \in 1..Len(t) |-> t[i]]
  OBVIOUS
<1>2. \A i \in 1..Len(t) : t[i] \in OpsOf(t)
  BY <1>1 DEF OpsOf
<1>3. t \in [1..Len(t) -> OpsOf(t)]
  BY <1>1, <1>2
<1> QED
  BY <1>1, <1>3

\* A function on an initial segment is a sequence.
LEMMA SegmentIsSeq ==
  ASSUME NEW S, NEW n \in Nat, NEW f \in [1..n -> S]
  PROVE  f \in Seq(S) /\ Len(f) = n
OBVIOUS

LEMMA SafeEmpty == ASSUME NEW r PROVE SafeOps(<<>>, r)
<1>1. <<>> \in Seq({})
  OBVIOUS
<1> QED
  BY <1>1, SeqOfOps DEF SafeOps

LEMMA SafeOne ==
  ASSUME NEW o, NEW r, SafeOp(o, r), o.op # "wipe"
  PROVE  SafeOps(<<o>>, r)
<1>1. <<o>> \in Seq({o}) /\ Len(<<o>>) = 1 /\ <<o>>[1] = o
  OBVIOUS
<1>2. <<o>> \in Seq(OpsOf(<<o>>))
  BY <1>1, SeqOfOps
<1> QED
  BY <1>1, <1>2 DEF SafeOps

LEMMA SafePair ==
  ASSUME NEW o, NEW p, NEW r, SafeOp(o, r), SafeOp(p, r), p.op # "wipe"
  PROVE  SafeOps(<<o, p>>, r)
<1>1. <<o, p>> \in Seq({o, p}) /\ Len(<<o, p>>) = 2 /\ <<o, p>>[1] = o /\ <<o, p>>[2] = p
  OBVIOUS
<1>2. <<o, p>> \in Seq(OpsOf(<<o, p>>))
  BY <1>1, SeqOfOps
<1> QED
  BY <1>1, <1>2 DEF SafeOps

LEMMA SafeTriple ==
  ASSUME NEW o, NEW p, NEW q, NEW r, SafeOp(o, r), SafeOp(p, r), SafeOp(q, r),
         q.op # "wipe"
  PROVE  SafeOps(<<o, p, q>>, r)
<1> DEFINE t == <<o, p, q>>
<1>1. t \in Seq({o, p, q}) /\ Len(t) = 3 /\ t[1] = o /\ t[2] = p /\ t[3] = q
  OBVIOUS
<1>2. t \in Seq(OpsOf(t))
  BY <1>1, SeqOfOps
<1> QED
  BY <1>1, <1>2 DEF SafeOps

LEMMA SafeTail ==
  ASSUME NEW t, NEW r, SafeOps(t, r), t # <<>>
  PROVE  SafeOps(Tail(t), r)
<1> DEFINE S == OpsOf(t)
<1>1. t \in Seq(S) /\ Len(t) \in Nat
  BY DEF SafeOps
<1> HIDE DEF S
<1>2. /\ Tail(t) \in Seq(S) /\ Len(Tail(t)) = Len(t) - 1
      /\ \A i \in 1..Len(Tail(t)) : Tail(t)[i] = t[i + 1]
  BY <1>1
<1>3. Tail(t) \in Seq(OpsOf(Tail(t)))
  BY <1>2, SeqOfOps
<1>4. ASSUME NEW i \in 1..Len(Tail(t))
      PROVE  SafeOp(Tail(t)[i], r) /\ (Tail(t)[i].op = "wipe" => i < Len(Tail(t)))
  <2>1. i + 1 \in 1..Len(t) /\ Tail(t)[i] = t[i + 1]
    BY <1>1, <1>2
  <2>2. SafeOp(t[i + 1], r) /\ (t[i + 1].op = "wipe" => i + 1 < Len(t))
    BY <2>1 DEF SafeOps
  <2> QED
    BY <1>1, <1>2, <2>1, <2>2
<1> QED
  BY <1>3, <1>4 DEF SafeOps

LEMMA SafeConcat ==
  ASSUME NEW s, NEW t, NEW r, SafeOps(s, r), SafeOps(t, r)
  PROVE  SafeOps(s \o t, r)
<1> DEFINE S == OpsOf(s) \cup OpsOf(t)
<1>1. s \in Seq(OpsOf(s)) /\ t \in Seq(OpsOf(t)) /\ Len(s) \in Nat /\ Len(t) \in Nat
  BY DEF SafeOps
<1>2. s \in Seq(S) /\ t \in Seq(S)
  BY <1>1
<1> HIDE DEF S
<1>3. /\ s \o t \in Seq(S) /\ Len(s \o t) = Len(s) + Len(t)
      /\ \A i \in 1..Len(s \o t) : (s \o t)[i] = IF i <= Len(s) THEN s[i] ELSE t[i - Len(s)]
  BY <1>2
<1>4. s \o t \in Seq(OpsOf(s \o t))
  BY <1>3, SeqOfOps
<1>5. ASSUME NEW i \in 1..Len(s \o t)
      PROVE  SafeOp((s \o t)[i], r) /\ ((s \o t)[i].op = "wipe" => i < Len(s \o t))
  <2>1. CASE i <= Len(s)
    BY <1>1, <1>3, <2>1 DEF SafeOps
  <2>2. CASE i > Len(s)
    <3>1. i - Len(s) \in 1..Len(t) /\ (s \o t)[i] = t[i - Len(s)]
      BY <1>1, <1>3, <2>2
    <3>2. SafeOp(t[i - Len(s)], r) /\ (t[i - Len(s)].op = "wipe" => i - Len(s) < Len(t))
      BY <3>1 DEF SafeOps
    <3> QED
      BY <1>1, <1>3, <3>1, <3>2
  <2> QED
    BY <1>1, <1>3, <2>1, <2>2
<1> QED
  BY <1>4, <1>5 DEF SafeOps

LEMMA SafeSuffix ==
  ASSUME NEW t, NEW r, SafeOps(t, r), NEW i \in 1..(Len(t) + 1)
  PROVE  SafeOps(SubSeq(t, i, Len(t)), r)
<1> DEFINE S == OpsOf(t)
<1> DEFINE u == SubSeq(t, i, Len(t))
<1>1. t \in Seq(S) /\ Len(t) \in Nat
  BY DEF SafeOps
<1> HIDE DEF S
<1>2. /\ u \in Seq(S) /\ Len(u) = Len(t) - i + 1
      /\ \A j \in 1..Len(u) : u[j] = t[i + j - 1]
  BY <1>1
<1>3. u \in Seq(OpsOf(u))
  BY <1>2, SeqOfOps
<1> HIDE DEF u
<1>4. ASSUME NEW j \in 1..Len(u)
      PROVE  SafeOp(u[j], r) /\ (u[j].op = "wipe" => j < Len(u))
  <2>1. i + j - 1 \in 1..Len(t) /\ u[j] = t[i + j - 1]
    BY <1>1, <1>2
  <2>2. SafeOp(t[i + j - 1], r) /\ (t[i + j - 1].op = "wipe" => i + j - 1 < Len(t))
    BY <2>1 DEF SafeOps
  <2> QED
    BY <1>1, <1>2, <2>1, <2>2
<1>5. SafeOps(u, r)
  BY <1>3, <1>4 DEF SafeOps
<1> QED
  BY <1>5 DEF u

\* update_partition keeps to its partition.
LEMMA SafePartition ==
  ASSUME NEW r, NEW part \in Parts \ {r}, NEW content \in [1..NBlocks -> Blocks]
  PROVE  SafeOps(update_partition(part, content), r)
<1> USE UpdaterAssumption
<1> DEFINE e == [i \in 1..NBlocks |-> Op("erase", part, i, "erased")]
<1> DEFINE w == [i \in 1..NBlocks |-> Op("write", part, i, content[i])]
<1>1. NBlocks \in Nat
  OBVIOUS
<1>2. SafeOps(e, r)
  <2> DEFINE S == {Op("erase", part, i, "erased") : i \in 1..NBlocks}
  <2>1. e \in [1..NBlocks -> S]
    OBVIOUS
  <2> HIDE DEF e, S
  <2>2. e \in Seq(S) /\ Len(e) = NBlocks
    BY <1>1, <2>1, SegmentIsSeq
  <2>3. e \in Seq(OpsOf(e))
    BY <2>2, SeqOfOps
  <2>4. \A i \in 1..NBlocks : e[i] = Op("erase", part, i, "erased")
    BY DEF e
  <2>5. ASSUME NEW i \in 1..NBlocks
        PROVE  SafeOp(e[i], r) /\ e[i].op # "wipe"
    <3>1. SafeOp(Op("erase", part, i, "erased"), r) /\ Op("erase", part, i, "erased").op # "wipe"
      BY DEF SafeOp, Op, Blocks
    <3> QED
      BY <2>4, <3>1
  <2> QED
    BY <2>2, <2>3, <2>5 DEF SafeOps
<1>3. SafeOps(w, r)
  <2> DEFINE S == {Op("write", part, i, content[i]) : i \in 1..NBlocks}
  <2>1. w \in [1..NBlocks -> S]
    OBVIOUS
  <2> HIDE DEF w, S
  <2>2. w \in Seq(S) /\ Len(w) = NBlocks
    BY <1>1, <2>1, SegmentIsSeq
  <2>3. w \in Seq(OpsOf(w))
    BY <2>2, SeqOfOps
  <2>4. \A i \in 1..NBlocks : w[i] = Op("write", part, i, content[i])
    BY DEF w
  <2>5. ASSUME NEW i \in 1..NBlocks
        PROVE  SafeOp(w[i], r) /\ w[i].op # "wipe"
    <3>1. SafeOp(Op("write", part, i, content[i]), r) /\ Op("write", part, i, content[i]).op # "wipe"
      BY DEF SafeOp, Op
    <3> QED
      BY <2>4, <3>1
  <2> QED
    BY <2>2, <2>3, <2>5 DEF SafeOps
<1>4. SafeOps(e \o w, r)
  BY <1>2, <1>3, SafeConcat
<1> QED
  BY <1>4 DEF update_partition

\* So do the updates of one slot and of everything.
LEMMA SafeUpdateRw ==
  ASSUME NEW img \in Images, NEW r \in Slots
  PROVE  SafeOps(update_rw_fw(img, r), r)
<1> DEFINE slot == IF r = "B" THEN "A" ELSE "B"
<1> DEFINE try == SetFlag("fw_try_next", IF slot = "B" THEN 1 ELSE 0)
<1> DEFINE end == <<try, SetFlag("try_count", 6), Done("UPDATED")>>
<1>1. slot \in Parts \ {r}
  BY DEF Slots, Parts
<1>2. Whole(img.version) \in [1..NBlocks -> Blocks]
  BY UpdaterAssumption DEF Whole, Blocks
<1>3. SafeOps(update_partition(slot, Whole(img.version)), r)
  BY <1>1, <1>2, SafePartition
<1>4. SafeOps(end, r)
  <2>1. SafeOp(try, r) /\ SafeOp(SetFlag("try_count", 6), r)
    BY DEF SafeOp, SetFlag, Op
  <2>2. SafeOp(Done("UPDATED"), r) /\ Done("UPDATED").op # "wipe"
    BY DEF SafeOp, Done, Op
  <2> HIDE DEF try
  <2> QED
    BY <2>1, <2>2, SafeTriple
<1>5. SafeOps(<<Done("error")>>, r)
  BY SafeOne DEF SafeOp, Done, Op
<1> QED
  BY <1>3, <1>4, <1>5, SafeConcat DEF update_rw_fw

LEMMA SafeUpdateRecovery ==
  ASSUME NEW img \in Images
  PROVE  SafeOps(update_recovery_fw(img), "R")
<1> DEFINE update(part) == IF part \in img.sections
                           THEN update_partition(part, Whole(img.version)) ELSE <<>>
<1> DEFINE end == <<Done(IF Parts \subseteq img.sections THEN "UPDATED" ELSE "error")>>
<1>1. Whole(img.version) \in [1..NBlocks -> Blocks]
  BY UpdaterAssumption DEF Whole, Blocks
<1>2. ASSUME NEW part \in Parts
      PROVE  SafeOps(update(part), "R")
  <2>1. part \in Parts \ {"R"}
    BY DEF Parts, Slots
  <2> QED
    BY <1>1, <2>1, SafePartition, SafeEmpty
<1>3. SafeOps(end, "R")
  BY SafeOne DEF SafeOp, Done, Op
<1>4. SafeOps(update("A"), "R") /\ SafeOps(update("B"), "R") /\ SafeOps(update("SHARED"), "R")
  BY <1>2 DEF Parts, Slots
<1> HIDE DEF update, end
<1>5. SafeOps(update("A") \o update("B") \o update("SHARED") \o end, "R")
  BY <1>3, <1>4, SafeConcat
<1> QED
  BY <1>5 DEF update_recovery_fw, update, end

-----------------------------------------------------------------------------
(* The invariant *)

LEMMA UpdaterInit == Init => UpdaterInv
<1> SUFFICES ASSUME Init PROVE UpdaterInv
  OBVIOUS
<1>1. Whole(Installed) \in [1..NBlocks -> Blocks]
  BY UpdaterAssumption DEF Whole, Blocks
<1> QED
  BY <1>1, SafeEmpty DEF Init, UpdaterInv, Parts, Slots

\* A new command that is safe keeps the invariant.
LEMMA CommandKeepsInv ==
  ASSUME UpdaterInv, running # "off", UNCHANGED <<section, running>>,
         SafeOps(todo', running)
  PROVE  UpdaterInv'
BY DEF UpdaterInv, SafeOps, SafeOp, OpsOf, Blocks, Parts, Slots

LEMMA UpdateKeepsInv ==
  ASSUME "fdt" \notin Env, UpdaterInv, Update
  PROVE  UpdaterInv'
<1>1. running # "off" /\ UNCHANGED <<section, running>>
  BY DEF Update, Run
<1>2. PICK img \in Images, force \in BOOLEAN : update_fw(img, force)
  BY DEF Update, cmd_update, firmware_update
<1>3. vboot_get_mainfw_act = {running}
  BY DEF vboot_get_mainfw_act, May
<1>4. CASE UNCHANGED todo
  BY <1>1, <1>4, CommandKeepsInv DEF UpdaterInv
<1>5. CASE todo' = IF running = "R" THEN update_recovery_fw(img)
                   ELSE update_rw_fw(img, running)
  <2>1. running \in Slots \cup {"R"}
    BY <1>1 DEF UpdaterInv
  <2>2. SafeOps(todo', running)
    BY <1>5, <2>1, SafeUpdateRecovery, SafeUpdateRw
  <2> QED
    BY <1>1, <2>2, CommandKeepsInv
<1>6. UNCHANGED todo \/ todo' = IF running = "R" THEN update_recovery_fw(img)
                                ELSE update_rw_fw(img, running)
  BY <1>2, <1>3, Zenon DEF update_fw
<1> QED
  BY <1>4, <1>5, <1>6

LEMMA FlagCommandKeepsInv ==
  ASSUME UpdaterInv, MarkBoot \/ VbnvWrite \/ PostWipeData
  PROVE  UpdaterInv'
<1>1. running # "off" /\ UNCHANGED <<section, running>>
  BY DEF MarkBoot, VbnvWrite, PostWipeData, Run
<1>2. ASSUME NEW f, NEW v
      PROVE  SafeOp(SetFlag(f, v), running) /\ SetFlag(f, v).op # "wipe"
  BY DEF SafeOp, SetFlag, Op
<1>3. SafeOp(Sync, running) /\ Sync.op # "wipe"
  BY DEF SafeOp, Sync, Op
<1>4. CASE MarkBoot
  <2>1. SafeOps(todo', running)
    BY <1>2, <1>3, <1>4, SafeTriple DEF MarkBoot
  <2> QED
    BY <1>1, <2>1, CommandKeepsInv
<1>5. CASE VbnvWrite \/ PostWipeData
  <2>1. \E f, v : todo' = <<SetFlag(f, v)>>
    BY <1>5 DEF VbnvWrite, PostWipeData
  <2>2. SafeOps(todo', running)
    BY <1>2, <2>1, SafeOne
  <2> QED
    BY <1>1, <2>2, CommandKeepsInv
<1> QED
  BY <1>4, <1>5

\* A command that has operations left is running.
LEMMA BusyIsOn ==
  ASSUME UpdaterInv, NEW op, Next1(op)
  PROVE  running # "off" /\ todo # <<>> /\ todo[1] = Head(todo) /\ 1 \in 1..Len(todo)
<1>1. todo \in Seq(OpsOf(todo)) /\ todo # <<>> /\ running # "off"
  BY DEF UpdaterInv, SafeOps, Next1
<1> QED
  BY <1>1

LEMMA SyncKeepsInv ==
  ASSUME "fdt" \notin Env, UpdaterInv, SyncSlots
  PROVE  UpdaterInv'
<1>1. running # "off" /\ todo # <<>> /\ UNCHANGED <<section, running>>
  BY BusyIsOn DEF SyncSlots
<1>2. vboot_get_mainfw_act = {running}
  BY DEF vboot_get_mainfw_act, May
<1>3. SafeOps(todo, running)
  BY DEF UpdaterInv
<1>4. CASE todo' = Tail(todo)
  BY <1>1, <1>3, <1>4, SafeTail, CommandKeepsInv
<1>5. CASE running \in Slots /\ todo' = update_partition(Other(running), section[running])
  <2>1. Other(running) \in Parts \ {running}
    BY <1>5 DEF Other, Parts, Slots
  <2>2. section[running] \in [1..NBlocks -> Blocks]
    BY <1>5 DEF UpdaterInv, Parts
  <2>3. SafeOps(todo', running)
    BY <1>5, <2>1, <2>2, SafePartition
  <2> QED
    BY <1>1, <2>3, CommandKeepsInv
<1> QED
  BY <1>2, <1>4, <1>5 DEF SyncSlots

\* The operation that is next is safe.
LEMMA NextIsSafe ==
  ASSUME UpdaterInv, Next1("erase") \/ Next1("write")
  PROVE  /\ Head(todo).part \in Parts \ {running}
         /\ Head(todo).at \in 1..NBlocks
         /\ Head(todo).data \in Blocks
<1>1. todo[1] = Head(todo) /\ 1 \in 1..Len(todo)
  BY BusyIsOn
<1>2. SafeOp(todo[1], running)
  BY <1>1 DEF UpdaterInv, SafeOps
<1> QED
  BY <1>1, <1>2 DEF SafeOp, Next1

LEMMA FlashKeepsInv ==
  ASSUME UpdaterInv, FlashBlock
  PROVE  UpdaterInv'
<1> DEFINE o == Head(todo)
<1>1. /\ running # "off" /\ todo # <<>> /\ UNCHANGED running
      /\ Next1("erase") \/ Next1("write")
  BY BusyIsOn DEF FlashBlock
<1>2. o.part \in Parts \ {running} /\ o.at \in 1..NBlocks /\ o.data \in Blocks
  BY <1>1, NextIsSafe
<1>3. SafeOps(todo, running)
  BY DEF UpdaterInv
<1>4. CASE section' = [section EXCEPT ![o.part][o.at] = o.data] /\ todo' = Tail(todo)
  <2>1. SafeOps(todo', running)
    BY <1>1, <1>3, <1>4, SafeTail
  <2>2. section' \in [Parts -> [1..NBlocks -> Blocks]]
    <3>1. section \in [Parts -> [1..NBlocks -> Blocks]]
      BY DEF UpdaterInv
    <3> HIDE DEF o
    <3> QED
      BY <1>2, <1>4, <3>1
  <2> QED
    BY <1>1, <2>1, <2>2 DEF UpdaterInv, SafeOps, SafeOp, OpsOf, Blocks, Parts, Slots
<1>5. CASE /\ \E i \in 1..(Len(todo) + 1) : todo' = SubSeq(todo, i, Len(todo))
           /\ UNCHANGED section
  <2>1. SafeOps(todo', running)
    BY <1>3, <1>5, SafeSuffix
  <2> QED
    BY <1>1, <1>5, <2>1, CommandKeepsInv
<1> QED
  BY <1>4, <1>5 DEF FlashBlock

LEMMA FlagKeepsInv ==
  ASSUME UpdaterInv, VbnvReadWrite
  PROVE  UpdaterInv'
<1> DEFINE put(at, d) == Op("put", "NVRAM", at, d)
<1> DEFINE wipe == Op("wipe", "NVRAM", 1, 0)
<1>1. running # "off" /\ todo # <<>> /\ UNCHANGED <<section, running>>
  BY BusyIsOn DEF VbnvReadWrite
<1>2. SafeOps(Tail(todo), running)
  BY <1>1, SafeTail DEF UpdaterInv
<1>3. ASSUME NEW at, NEW d
      PROVE  SafeOp(put(at, d), running) /\ put(at, d).op # "wipe"
  BY DEF SafeOp, Op
<1>4. SafeOp(wipe, running)
  BY DEF SafeOp, Op
<1>5. \E at, d : \/ todo' = <<put(at, d)>> \o Tail(todo)
                 \/ todo' = <<wipe, put(at, d)>> \o Tail(todo)
  BY Zenon DEF VbnvReadWrite
<1> HIDE DEF put, wipe
<1>6. SafeOps(todo', running)
  BY <1>2, <1>3, <1>4, <1>5, SafeOne, SafePair, SafeConcat
<1> QED
  BY <1>1, <1>6, CommandKeepsInv

LEMMA NvKeepsInv ==
  ASSUME UpdaterInv, NvErase \/ NvPut \/ Finish
  PROVE  UpdaterInv'
<1>1. running # "off" /\ todo # <<>> /\ UNCHANGED <<section, running>>
  BY BusyIsOn DEF NvErase, NvPut, Finish
<1>2. SafeOps(todo, running) /\ SafeOps(Tail(todo), running)
  BY <1>1, SafeTail DEF UpdaterInv
<1>3. CASE todo' = Tail(todo)
  BY <1>1, <1>2, <1>3, CommandKeepsInv
<1>4. CASE todo' = <<>>
  BY <1>1, <1>4, SafeEmpty, CommandKeepsInv
<1>5. CASE NvErase /\ todo' = Tail(Tail(todo))
  <2>1. todo[1] = Head(todo) /\ 1 \in 1..Len(todo) /\ Head(todo).op = "wipe"
    BY <1>5, BusyIsOn DEF NvErase, Next1
  <2>2. 1 < Len(todo)
    BY <1>2, <2>1 DEF SafeOps
  <2>3. todo \in Seq(OpsOf(todo))
    BY <1>2 DEF SafeOps
  <2>4. Len(Tail(todo)) = Len(todo) - 1 /\ Len(todo) \in Nat
    BY <1>1, <2>3
  <2>5. Tail(todo) # <<>>
    <3>1. SUFFICES ASSUME Tail(todo) = <<>> PROVE FALSE
      OBVIOUS
    <3> QED
      BY <2>2, <2>4, <3>1
  <2>6. SafeOps(todo', running)
    BY <1>2, <1>5, <2>5, SafeTail
  <2> QED
    BY <1>1, <2>6, CommandKeepsInv
<1> QED
  BY <1>3, <1>4, <1>5 DEF NvErase, NvPut, Finish

LEMMA PowerKeepsInv ==
  ASSUME UpdaterInv, PowerLoss \/ Boot
  PROVE  UpdaterInv'
<1>1. CASE PowerLoss
  <2>1. running' = "off" /\ todo' = <<>>
    BY <1>1 DEF PowerLoss
  <2>2. section' \in [Parts -> [1..NBlocks -> Blocks]]
    <3>1. section \in [Parts -> [1..NBlocks -> Blocks]]
      BY DEF UpdaterInv
    <3>2. CASE UNCHANGED section
      BY <3>1, <3>2
    <3>3. CASE /\ Next1("erase") \/ Next1("write")
               /\ section' = [section EXCEPT ![Head(todo).part][Head(todo).at] = "torn"]
      <4> DEFINE o == Head(todo)
      <4>1. o.part \in Parts /\ o.at \in 1..NBlocks /\ "torn" \in Blocks
        BY <3>3, NextIsSafe DEF Blocks
      <4> HIDE DEF o
      <4>2. section' = [section EXCEPT ![o.part][o.at] = "torn"]
        BY <3>3 DEF o
      <4> QED
        BY <3>1, <4>1, <4>2
    <3> QED
      BY <1>1, <3>2, <3>3 DEF PowerLoss
  <2>3. SafeOps(<<>>, "off")
    BY SafeEmpty
  <2>4. SafeOps(todo, running)'
    BY <2>1, <2>3 DEF SafeOps, SafeOp, OpsOf, Blocks, Parts, Slots
  <2> QED
    BY <2>1, <2>2, <2>4 DEF UpdaterInv, Parts, Slots, Blocks
<1>2. CASE Boot
  <2>1. running = "off" /\ todo = <<>> /\ UNCHANGED <<section, todo>>
    BY <1>2 DEF Boot, UpdaterInv
  <2>2. running' \in Slots \cup {"R"}
    BY <1>2 DEF Boot, Slots, Other
  <2>3. SafeOps(<<>>, running')
    BY SafeEmpty
  <2>4. SafeOps(todo, running)'
    BY <2>1, <2>3 DEF SafeOps, SafeOp, OpsOf, Blocks, Parts, Slots
  <2> QED
    BY <2>1, <2>2, <2>4 DEF UpdaterInv, Parts, Slots, Blocks
<1> QED
  BY <1>1, <1>2

LEMMA UpdaterStep ==
  ASSUME "fdt" \notin Env, UpdaterInv, [Next]_vars
  PROVE  UpdaterInv'
<1>1. CASE UNCHANGED vars
  BY <1>1 DEF vars, UpdaterInv, SafeOps, SafeOp, OpsOf, Blocks, Parts, Slots
<1> QED
  BY <1>1, UpdateKeepsInv, FlagCommandKeepsInv, SyncKeepsInv, FlashKeepsInv,
     FlagKeepsInv, NvKeepsInv, PowerKeepsInv DEF Next, Step

\* What a command is going to do never concerns the slot that runs.
THEOREM OtherSlotOnly == ASSUME "fdt" \notin Env PROVE Spec => []UpdaterInv
<1>1. Init => UpdaterInv
  BY UpdaterInit
<1>2. UpdaterInv /\ [Next]_vars => UpdaterInv'
  BY UpdaterStep
<1> QED
  BY <1>1, <1>2, PTL DEF Spec

-----------------------------------------------------------------------------
(* The refinement *)

\* What BootSlots sees of a slot whose blocks are b.
Seen(b) == IF \E v \in Versions : b = Whole(v) THEN b[NBlocks] ELSE "damaged"
Contents == [s \in Slots |-> IF Intact(s) THEN FWID(s) ELSE "damaged"]

LEMMA ContentsSeen == Contents = [s \in Slots |-> Seen(section[s])]
BY DEF Contents, Seen, Intact, FWID

LEMMA ContentsSeenNext == Contents' = [s \in Slots |-> Seen(section'[s])]
BY DEF Contents, Seen, Intact, FWID, Slots, Whole

LEMMA SeenWhole ==
  ASSUME NEW v \in Versions
  PROVE  Seen(Whole(v)) = v /\ v # "damaged"
<1>1. Whole(v)[NBlocks] = v /\ v # "damaged"
  BY UpdaterAssumption DEF Whole
<1> QED
  BY <1>1 DEF Seen

LEMMA SeenTypes ==
  ASSUME NEW b
  PROVE  /\ Seen(b) \in Versions \cup {"damaged"}
         /\ Seen(b) # "damaged" <=> \E v \in Versions : b = Whole(v)
<1>1. CASE \E v \in Versions : b = Whole(v)
  BY <1>1, SeenWhole
<1>2. CASE ~ \E v \in Versions : b = Whole(v)
  BY <1>2 DEF Seen
<1> QED
  BY <1>1, <1>2

LEMMA InitImplements == Init => Abstract!Init
<1> SUFFICES ASSUME Init PROVE Abstract!Init
  OBVIOUS
<1>1. \A s \in Slots : Seen(section[s]) = Installed
  <2>1. Seen(Whole(Installed)) = Installed
    BY SeenWhole, UpdaterAssumption
  <2>2. \A s \in Slots : section[s] = Whole(Installed)
    BY DEF Init, Slots, Parts
  <2> QED
    BY <2>1, <2>2
<1>2. running = "off"
  BY DEF Init
<1>3. Contents = [s \in Slots |-> Installed]
  BY <1>1, ContentsSeen
<1> QED
  BY <1>2, <1>3 DEF Abstract!Init, Abstract!Slots, Slots, Contents

LEMMA StepImplements ==
  ASSUME UpdaterInv, [Next]_vars
  PROVE  [Abstract!Next]_<<Contents, running>>
<1>1. CASE UNCHANGED <<section, running>>
  BY <1>1, ContentsSeen, ContentsSeenNext
<1>2. CASE /\ UNCHANGED running /\ running # "off"
           /\ \E p \in Parts \ {running}, i \in 1..NBlocks, d \in Blocks :
                section' = [section EXCEPT ![p][i] = d]
  <2>1. PICK p \in Parts \ {running}, i \in 1..NBlocks, d \in Blocks :
               section' = [section EXCEPT ![p][i] = d]
    BY <1>2
  <2>2. \A q \in Parts \ {p} : section'[q] = section[q]
    BY <2>1 DEF UpdaterInv
  <2>3. CASE p \notin Slots
    BY <1>2, <2>2, <2>3, ContentsSeen, ContentsSeenNext DEF Parts
  <2>4. CASE p \in Slots
    <3>1. \A s \in Slots \ {p} : section'[s] = section[s]
      BY <2>2 DEF Parts
    <3>2. Contents' = [Contents EXCEPT ![p] = Seen(section'[p])]
      BY <3>1, <2>4, ContentsSeen, ContentsSeenNext
    <3>3. Seen(section'[p]) \in Versions \cup {"damaged"}
      BY SeenTypes
    <3>4. Abstract!Change
      BY <1>2, <2>1, <2>4, <3>2, <3>3 DEF Abstract!Change, Abstract!Slots, Slots, Contents
    <3> QED
      BY <3>4 DEF Abstract!Next
  <2> QED
    BY <2>3, <2>4
<1>3. CASE PowerLoss
  <2>1. running # "off" /\ running' = "off"
    BY <1>3 DEF PowerLoss
  <2>2. CASE UNCHANGED section
    <3>1. Contents' = Contents
      BY <2>2, ContentsSeen, ContentsSeenNext
    <3>2. Abstract!Stop
      BY <2>1, <3>1 DEF Abstract!Stop, Contents
    <3> QED
      BY <3>2 DEF Abstract!Next
  <2>3. CASE /\ Next1("erase") \/ Next1("write")
             /\ section' = [section EXCEPT ![Head(todo).part][Head(todo).at] = "torn"]
    <3>1. PICK p \in Parts \ {running}, i \in 1..NBlocks :
                 section' = [section EXCEPT ![p][i] = "torn"]
      BY <2>3, NextIsSafe
    <3>2. section' = [section EXCEPT ![p][i] = "torn"]
      BY <3>1
    <3>3. section \in [Parts -> [1..NBlocks -> Blocks]]
      BY DEF UpdaterInv
    <3>4. \A q \in Parts \ {p} : section'[q] = section[q]
      BY <3>2, <3>3
    <3>5. section'[p][i] = "torn"
      BY <3>1, <3>2, <3>3
    <3>6. CASE p \notin Slots
      <4>1. Contents' = Contents
        BY <3>4, <3>6, ContentsSeen, ContentsSeenNext DEF Parts
      <4>2. Abstract!Stop
        BY <2>1, <4>1 DEF Abstract!Stop, Contents
      <4> QED
        BY <4>2 DEF Abstract!Next
    <3>7. CASE p \in Slots
      <4>1. \A s \in Slots \ {p} : section'[s] = section[s]
        BY <3>4 DEF Parts
      <4>2. ASSUME NEW v \in Versions PROVE section'[p] # Whole(v)
        <5>1. Whole(v)[i] = v /\ v # "torn"
          BY UpdaterAssumption DEF Whole
        <5> QED
          BY <3>5, <5>1
      <4>3. Seen(section'[p]) = "damaged"
        BY <4>2, SeenTypes
      <4>4. Contents' = [Contents EXCEPT ![p] = "damaged"]
        BY <3>7, <4>1, <4>3, ContentsSeen, ContentsSeenNext
      <4>5. Abstract!Stop
        BY <2>1, <3>1, <3>7, <4>4 DEF Abstract!Stop, Abstract!Slots, Slots, Contents
      <4> QED
        BY <4>5 DEF Abstract!Next
    <3> QED
      BY <3>6, <3>7
  <2> QED
    BY <1>3, <2>2, <2>3 DEF PowerLoss
<1>4. CASE Boot
  <2>1. running = "off" /\ UNCHANGED section
    BY <1>4 DEF Boot
  <2>2. Contents' = Contents
    BY <2>1, ContentsSeen, ContentsSeenNext
  <2>3. running' \in {s \in Slots : Intact(s)} \cup {"R"}
    BY <1>4 DEF Boot, Slots, Other
  <2>4. running' \in {s \in Slots : Contents[s] # "damaged"} \cup {"R"}
    BY <2>3, SeenTypes, ContentsSeen DEF Intact
  <2>5. Abstract!Start
    BY <2>1, <2>2, <2>4 DEF Abstract!Start, Abstract!Slots, Slots, Contents
  <2> QED
    BY <2>5 DEF Abstract!Next
<1>5. CASE FlashBlock
  <2>1. running # "off" /\ UNCHANGED running /\ (Next1("erase") \/ Next1("write"))
    BY <1>5, BusyIsOn DEF FlashBlock
  <2>2. /\ Head(todo).part \in Parts \ {running} /\ Head(todo).at \in 1..NBlocks
        /\ Head(todo).data \in Blocks
    BY <2>1, NextIsSafe
  <2> QED
    BY <1>1, <1>2, <1>5, <2>1, <2>2 DEF FlashBlock
<1>6. CASE Update \/ MarkBoot \/ VbnvWrite \/ PostWipeData
  BY <1>1, <1>6 DEF Update, MarkBoot, VbnvWrite, PostWipeData
<1>7. CASE SyncSlots \/ VbnvReadWrite \/ NvErase \/ NvPut \/ Finish
  BY <1>1, <1>7 DEF SyncSlots, VbnvReadWrite, NvErase, NvPut, Finish
<1>8. CASE UNCHANGED vars
  BY <1>1, <1>8 DEF vars
<1> QED
  BY <1>3, <1>4, <1>5, <1>6, <1>7, <1>8 DEF Next, Step

\* The updater keeps its promise for every device, image and power loss.
THEOREM ImplementsBootSlots ==
  ASSUME "fdt" \notin Env
  PROVE  Spec => UpdatesAreSafe
<1>1. Init => Abstract!Init
  BY InitImplements
<1>2. UpdaterInv /\ [Next]_vars => [Abstract!Next]_<<Contents, running>>
  BY StepImplements
<1>3. Spec => []UpdaterInv
  BY OtherSlotOnly
<1> QED
  BY <1>1, <1>2, <1>3, PTL DEF Spec, UpdatesAreSafe, Abstract!Spec, Contents

-----------------------------------------------------------------------------
(* Recovery.  As long as a block of B is to be erased, every block of A holds *)
(* the version of the image, or its write comes before that and nothing after *)
(* the write disturbs it.                                                     *)

ErasesB(o) == o.op = "erase" /\ o.part = "B"
ChangesA(o, i) == o.op \in {"erase", "write"} /\ o.part = "A" /\ o.at = i

Settled(t, i, v) == section["A"][i] = v /\ \A l \in 1..Len(t) : ~ ChangesA(t[l], i)
Planned(t, i, v) ==
  \E j \in 1..Len(t) :
    /\ t[j] = Op("write", "A", i, v)
    /\ \A l \in 1..Len(t) : ErasesB(t[l]) => j < l
    /\ \A l \in 1..Len(t) : j < l => ~ ChangesA(t[l], i)
HoldsFirst(t, v) == \A i \in 1..NBlocks : Settled(t, i, v) \/ Planned(t, i, v)

NoErase(t) == \A l \in 1..Len(t) : ~ ErasesB(t[l])
AFirst(t) ==
  \/ NoErase(t)
  \/ /\ \A l \in 1..Len(t) : t[l].op \in {"erase", "write", "done"}
     /\ \E v \in Versions : HoldsFirst(t, v)

RecoveryInv == running = "R" => AFirst(todo)

LEMMA TailOps ==
  ASSUME NEW t, t \in Seq(OpsOf(t)), t # <<>>
  PROVE  /\ Len(t) \in Nat \ {0} /\ Head(t) = t[1] /\ 1 \in 1..Len(t) /\ Len(Tail(t)) = Len(t) - 1
         /\ \A i \in 1..Len(Tail(t)) : i + 1 \in 1..Len(t) /\ Tail(t)[i] = t[i + 1]
         /\ \A j \in 1..Len(t) : j # 1 => j - 1 \in 1..Len(Tail(t)) /\ Tail(t)[j - 1] = t[j]
<1> DEFINE S == OpsOf(t)
<1>1. t \in Seq(S) OBVIOUS
<1> HIDE DEF S
<1>2. Len(t) \in Nat /\ Head(t) = t[1] /\ Len(t) # 0 /\ Len(Tail(t)) = Len(t) - 1
      /\ \A i \in 1..Len(Tail(t)) : Tail(t)[i] = t[i + 1]
  BY <1>1
<1>3. \A j \in 1..Len(t) : j # 1 => j - 1 \in 1..Len(Tail(t)) /\ (j - 1) + 1 = j
  BY <1>2
<1>4. \A j \in 1..Len(t) : j # 1 => Tail(t)[j - 1] = t[j]
  BY <1>2, <1>3
<1>5. \A i \in 1..Len(Tail(t)) : i + 1 \in 1..Len(t) BY <1>2
<1> QED BY <1>2, <1>3, <1>4, <1>5

LEMMA ConcatOps ==
  ASSUME NEW s, NEW t, s \in Seq(OpsOf(s)), t \in Seq(OpsOf(t))
  PROVE  /\ Len(s) \in Nat /\ Len(t) \in Nat /\ Len(s \o t) = Len(s) + Len(t)
         /\ \A i \in 1..Len(s) : i \in 1..Len(s \o t) /\ (s \o t)[i] = s[i]
         /\ \A i \in 1..Len(s \o t) : i \notin 1..Len(s) => i > Len(s) /\ i - Len(s) \in 1..Len(t) /\ (s \o t)[i] = t[i - Len(s)]
         /\ s \o t \in Seq(OpsOf(s \o t))
<1> DEFINE S == OpsOf(s) \cup OpsOf(t)
<1>1. s \in Seq(S) /\ t \in Seq(S) OBVIOUS
<1> HIDE DEF S
<1>2. s \o t \in Seq(S) /\ Len(s \o t) = Len(s) + Len(t) /\ Len(s) \in Nat /\ Len(t) \in Nat
      /\ \A i \in 1..Len(s \o t) : (s \o t)[i] = IF i <= Len(s) THEN s[i] ELSE t[i - Len(s)]
  BY <1>1
<1>3. s \o t \in Seq(OpsOf(s \o t)) BY <1>2, SeqOfOps
<1>4. \A i \in 1..Len(s) : i \in 1..Len(s \o t) /\ (s \o t)[i] = s[i] BY <1>2
<1>5. ASSUME NEW i \in 1..Len(s \o t), i \notin 1..Len(s)
      PROVE  i > Len(s) /\ i - Len(s) \in 1..Len(t) /\ (s \o t)[i] = t[i - Len(s)]
  BY <1>2, <1>5
<1> QED BY <1>2, <1>3, <1>4, <1>5

LEMMA NoEraseConcat ==
  ASSUME NEW s, NEW t, s \in Seq(OpsOf(s)), t \in Seq(OpsOf(t)), NoErase(s), NoErase(t)
  PROVE  NoErase(s \o t)
<1> SUFFICES ASSUME NEW l \in 1..Len(s \o t) PROVE ~ ErasesB((s \o t)[l])
  BY DEF NoErase
<1>1. CASE l \in 1..Len(s) BY <1>1, ConcatOps DEF NoErase
<1>2. CASE l \notin 1..Len(s)
  <2>1. l - Len(s) \in 1..Len(t) /\ (s \o t)[l] = t[l - Len(s)] BY <1>2, ConcatOps
  <2> QED BY <2>1 DEF NoErase
<1> QED BY <1>1, <1>2

LEMMA NoEraseTail ==
  ASSUME NEW t, t \in Seq(OpsOf(t)), t # <<>>, NoErase(t)
  PROVE  NoErase(Tail(t))
BY TailOps DEF NoErase

\* What update_partition does, by position.
LEMMA PartitionOps ==
  ASSUME NEW part, NEW v
  PROVE  LET t == update_partition(part, Whole(v)) IN
         /\ t \in Seq(OpsOf(t)) /\ Len(t) = NBlocks + NBlocks
         /\ \A i \in 1..NBlocks : t[i] = Op("erase", part, i, "erased")
         /\ \A i \in 1..NBlocks : NBlocks + i \in 1..Len(t) /\ t[NBlocks + i] = Op("write", part, i, v)
         /\ \A l \in 1..Len(t) : l \notin 1..NBlocks => /\ l - NBlocks \in 1..NBlocks
                                                        /\ t[l] = Op("write", part, l - NBlocks, v)
<1> DEFINE e == [i \in 1..NBlocks |-> Op("erase", part, i, "erased")]
<1> DEFINE w == [i \in 1..NBlocks |-> Op("write", part, i, Whole(v)[i])]
<1> DEFINE S == {Op("erase", part, i, "erased") : i \in 1..NBlocks}
<1> DEFINE W == {Op("write", part, i, Whole(v)[i]) : i \in 1..NBlocks}
<1>1. NBlocks \in Nat BY UpdaterAssumption
<1>2. e \in [1..NBlocks -> S] /\ w \in [1..NBlocks -> W] OBVIOUS
<1>3. \A i \in 1..NBlocks : e[i] = Op("erase", part, i, "erased") /\ w[i] = Op("write", part, i, v)
  BY DEF Whole
<1>4. update_partition(part, Whole(v)) = e \o w BY DEF update_partition
<1> HIDE DEF e, w, S, W
<1>5. e \in Seq(OpsOf(e)) /\ Len(e) = NBlocks /\ w \in Seq(OpsOf(w)) /\ Len(w) = NBlocks
  BY <1>1, <1>2, SegmentIsSeq, SeqOfOps
<1>6. /\ Len(e \o w) = NBlocks + NBlocks /\ e \o w \in Seq(OpsOf(e \o w))
      /\ \A i \in 1..NBlocks : (e \o w)[i] = Op("erase", part, i, "erased")
  BY <1>3, <1>5, ConcatOps
<1>7. ASSUME NEW l \in 1..Len(e \o w), l \notin 1..NBlocks
      PROVE  l - NBlocks \in 1..NBlocks /\ (e \o w)[l] = Op("write", part, l - NBlocks, v)
  BY <1>3, <1>5, <1>7, ConcatOps
<1>8. ASSUME NEW i \in 1..NBlocks
      PROVE  NBlocks + i \in 1..Len(e \o w) /\ (e \o w)[NBlocks + i] = Op("write", part, i, v)
  <2>1. NBlocks + i \in 1..Len(e \o w) /\ NBlocks + i \notin 1..NBlocks /\ (NBlocks + i) - NBlocks = i
    BY <1>1, <1>6
  <2> QED BY <1>7, <2>1
<1> QED BY <1>4, <1>6, <1>7, <1>8

\* The writes of A come before what comes after them, which leaves A alone.
LEMMA PartitionAFirst ==
  ASSUME NEW v \in Versions, NEW u, u \in Seq(OpsOf(u)),
         \A l \in 1..Len(u) : u[l].op \in {"erase", "write", "done"} /\ u[l].part # "A"
  PROVE  AFirst(update_partition("A", Whole(v)) \o u)
<1> DEFINE a == update_partition("A", Whole(v))
<1> DEFINE t == a \o u
<1>0. NBlocks \in Nat \ {0} BY UpdaterAssumption
<1>1. /\ a \in Seq(OpsOf(a)) /\ Len(a) = NBlocks + NBlocks
      /\ \A i \in 1..NBlocks : a[i] = Op("erase", "A", i, "erased")
      /\ \A i \in 1..NBlocks : NBlocks + i \in 1..Len(a) /\ a[NBlocks + i] = Op("write", "A", i, v)
      /\ \A l \in 1..Len(a) : l \notin 1..NBlocks => /\ l - NBlocks \in 1..NBlocks
                                                     /\ a[l] = Op("write", "A", l - NBlocks, v)
  BY PartitionOps
<1>2. /\ Len(a) \in Nat
      /\ \A i \in 1..Len(a) : i \in 1..Len(t) /\ t[i] = a[i]
      /\ \A i \in 1..Len(t) : i \notin 1..Len(a) => i > Len(a) /\ i - Len(a) \in 1..Len(u) /\ t[i] = u[i - Len(a)]
  BY <1>1, ConcatOps
<1> HIDE DEF a, t
<1>3. \A l \in 1..Len(t) : l \notin 1..Len(a) => t[l].op \in {"erase", "write", "done"} /\ t[l].part # "A"
  BY <1>2
<1>4. ASSUME NEW l \in 1..Len(a) PROVE t[l].op \in {"erase", "write"} /\ t[l].part = "A"
  <2>1. t[l] = a[l] BY <1>2
  <2>2. CASE l \in 1..NBlocks
    <3>1. t[l] = Op("erase", "A", l, "erased") BY <1>1, <2>1, <2>2
    <3> QED BY <3>1 DEF Op
  <2>3. CASE l \notin 1..NBlocks BY <1>1, <2>1, <2>3 DEF Op
  <2> QED BY <2>2, <2>3
<1>5. \A l \in 1..Len(t) : t[l].op \in {"erase", "write", "done"} BY <1>3, <1>4
<1>6. ASSUME NEW i \in 1..NBlocks PROVE Planned(t, i, v)
  <2>1. NBlocks + i \in 1..Len(a) /\ NBlocks + i \in 1..Len(t) /\ t[NBlocks + i] = Op("write", "A", i, v)
    BY <1>1, <1>2
  <2>2. ASSUME NEW l \in 1..Len(t), ErasesB(t[l]) PROVE NBlocks + i < l
    <3>1. l > Len(a) BY <1>2, <1>4, <2>2 DEF ErasesB
    <3> QED BY <1>0, <1>1, <3>1
  <2>3. ASSUME NEW l \in 1..Len(t), NBlocks + i < l, ChangesA(t[l], i) PROVE FALSE
    <3>1. l \in 1..Len(a) /\ t[l] = a[l] BY <1>2, <1>3, <2>3 DEF ChangesA
    <3>2. l \notin 1..NBlocks /\ l - NBlocks # i BY <1>0, <2>3
    <3>3. a[l] = Op("write", "A", l - NBlocks, v) BY <1>1, <3>1, <3>2
    <3> QED BY <2>3, <3>1, <3>2, <3>3 DEF ChangesA, Op
  <2> QED BY <2>1, <2>2, <2>3 DEF Planned
<1>7. AFirst(t) BY <1>5, <1>6 DEF AFirst, HoldsFirst
<1> QED BY <1>7 DEF t, a

LEMMA RecoveryAFirst ==
  ASSUME NEW img \in Images, "B" \in img.sections => "A" \in img.sections
  PROVE  AFirst(update_recovery_fw(img))
<1> DEFINE update(part) == IF part \in img.sections
                           THEN update_partition(part, Whole(img.version)) ELSE <<>>
<1> DEFINE end == <<Done(IF Parts \subseteq img.sections THEN "UPDATED" ELSE "error")>>
<1> DEFINE LeavesA(o) == o.op \in {"erase", "write", "done"} /\ o.part # "A"
<1>0. img.version \in Versions BY UpdaterAssumption
<1>1. ASSUME NEW part \in {"B", "SHARED"}
      PROVE  /\ update(part) \in Seq(OpsOf(update(part)))
             /\ \A l \in 1..Len(update(part)) : LeavesA(update(part)[l]) /\ (part = "SHARED" => ~ ErasesB(update(part)[l]))
  <2>1. CASE part \notin img.sections
    <3>1. update(part) = <<>> BY <2>1
    <3>2. <<>> \in Seq({}) /\ Len(<<>>) = 0 OBVIOUS
    <3>3. <<>> \in Seq(OpsOf(<<>>)) BY <3>2, SeqOfOps
    <3> HIDE DEF update
    <3> QED BY <3>1, <3>2, <3>3
  <2>2. CASE part \in img.sections
    <3> DEFINE u == update_partition(part, Whole(img.version))
    <3>1. update(part) = u BY <2>2
    <3>2. /\ u \in Seq(OpsOf(u)) /\ Len(u) = NBlocks + NBlocks
          /\ \A i \in 1..NBlocks : u[i] = Op("erase", part, i, "erased")
          /\ \A l \in 1..Len(u) : l \notin 1..NBlocks => u[l] = Op("write", part, l - NBlocks, img.version)
      BY PartitionOps
    <3>3. /\ \A i : LeavesA(Op("erase", part, i, "erased")) /\ (part = "SHARED" => ~ ErasesB(Op("erase", part, i, "erased")))
          /\ \A i : LeavesA(Op("write", part, i, img.version)) /\ ~ ErasesB(Op("write", part, i, img.version))
      BY DEF Op, ErasesB
    <3> HIDE DEF u, update, LeavesA
    <3> QED BY <3>1, <3>2, <3>3
  <2> QED BY <2>1, <2>2
<1>2. end \in Seq(OpsOf(end)) /\ \A l \in 1..Len(end) : LeavesA(end[l]) /\ ~ ErasesB(end[l])
  <2>1. ASSUME NEW o PROVE <<o>> \in Seq(OpsOf(<<o>>)) /\ Len(<<o>>) = 1 /\ <<o>>[1] = o
    <3>1. <<o>> \in Seq({o}) /\ Len(<<o>>) = 1 /\ <<o>>[1] = o OBVIOUS
    <3> QED BY <3>1, SeqOfOps
  <2>2. \A r : LeavesA(Done(r)) /\ ~ ErasesB(Done(r)) BY DEF Done, Op, ErasesB
  <2> HIDE DEF LeavesA
  <2> QED BY <2>1, <2>2
<1>3. update("A") \in Seq(OpsOf(update("A")))
  <2>1. <<>> \in Seq({}) OBVIOUS
  <2>2. <<>> \in Seq(OpsOf(<<>>)) BY <2>1, SeqOfOps
  <2> QED BY <2>2, PartitionOps
<1>4. update_recovery_fw(img) = update("A") \o update("B") \o update("SHARED") \o end
  BY DEF update_recovery_fw
<1>5. "A" \in img.sections => update("A") = update_partition("A", Whole(img.version)) OBVIOUS
<1>6. "A" \notin img.sections => update("A") = <<>> /\ update("B") = <<>> OBVIOUS
<1> DEFINE rest == update("B") \o (update("SHARED") \o end)
<1> DEFINE tail == update("SHARED") \o end
<1> HIDE DEF update, end, LeavesA
<1>7. ASSUME NEW s, NEW t, s \in Seq(OpsOf(s)), t \in Seq(OpsOf(t)),
             \A l \in 1..Len(s) : LeavesA(s[l]), \A l \in 1..Len(t) : LeavesA(t[l])
      PROVE  s \o t \in Seq(OpsOf(s \o t)) /\ \A l \in 1..Len(s \o t) : LeavesA((s \o t)[l])
  BY <1>7, ConcatOps
<1>8. tail \in Seq(OpsOf(tail)) /\ (\A l \in 1..Len(tail) : LeavesA(tail[l])) /\ NoErase(tail)
  <2>1. tail \in Seq(OpsOf(tail)) /\ (\A l \in 1..Len(tail) : LeavesA(tail[l])) BY <1>1, <1>2, <1>7
  <2>2. NoErase(update("SHARED")) /\ NoErase(end) BY <1>1, <1>2 DEF NoErase
  <2>3. NoErase(tail) BY <1>1, <1>2, <2>2, NoEraseConcat
  <2> QED BY <2>1, <2>3
<1>9. rest \in Seq(OpsOf(rest)) /\ \A l \in 1..Len(rest) : LeavesA(rest[l])
  <2> HIDE DEF tail
  <2>1. rest = update("B") \o tail BY DEF tail
  <2> HIDE DEF rest
  <2> QED BY <1>1, <1>7, <1>8, <2>1
<1>10. update("A") \o update("B") \o update("SHARED") \o end = update("A") \o rest
  <2>1. update("B") \in Seq(OpsOf(update("B"))) /\ update("SHARED") \in Seq(OpsOf(update("SHARED")))
    BY <1>1
  <2>2. PICK a, b, c, x : a = update("A") /\ b = update("B") /\ c = update("SHARED") /\ x = end
    OBVIOUS
  <2>3. a \in Seq(OpsOf(a)) /\ b \in Seq(OpsOf(b)) /\ c \in Seq(OpsOf(c)) /\ x \in Seq(OpsOf(x))
    BY <1>2, <1>3, <2>1, <2>2
  <2>4. a \o b \o c \o x = a \o (b \o (c \o x))
    <3> DEFINE S == OpsOf(a) \cup OpsOf(b) \cup OpsOf(c) \cup OpsOf(x)
    <3>1. a \in Seq(S) /\ b \in Seq(S) /\ c \in Seq(S) /\ x \in Seq(S) BY <2>3
    <3> HIDE DEF S
    <3> QED BY <3>1
  <2> QED BY <2>2, <2>4
<1> HIDE DEF rest
<1>11. CASE "A" \in img.sections
  <2>1. \A l \in 1..Len(rest) : rest[l].op \in {"erase", "write", "done"} /\ rest[l].part # "A"
    BY <1>9 DEF LeavesA
  <2> QED BY <1>0, <1>4, <1>5, <1>9, <1>10, <1>11, <2>1, PartitionAFirst
<1>12. CASE "A" \notin img.sections
  <2>1. rest = <<>> \o tail /\ update("A") \o rest = <<>> \o rest BY <1>6, <1>12 DEF rest
  <2>2. ASSUME NEW s, s \in Seq(OpsOf(s)) PROVE <<>> \o s = s
    BY <2>2
  <2>3. update("A") \o rest = tail BY <1>8, <1>9, <2>1, <2>2
  <2> QED BY <1>4, <1>8, <1>10, <2>3 DEF AFirst
<1> QED BY <1>11, <1>12

\* An operation on a block leaves the rest to be done, in the same order.
LEMMA FlashAFirst ==
  ASSUME UpdaterInv, AFirst(todo), todo # <<>>, Next1("erase") \/ Next1("write"),
         section' = [section EXCEPT ![Head(todo).part][Head(todo).at] = Head(todo).data],
         todo' = Tail(todo)
  PROVE  AFirst(todo)'
<1> DEFINE t == todo
<1> DEFINE u == Tail(todo)
<1>1. t \in Seq(OpsOf(t)) BY DEF UpdaterInv, SafeOps
<1>2. /\ Len(t) \in Nat \ {0} /\ Head(t) = t[1] /\ 1 \in 1..Len(t) /\ Len(u) = Len(t) - 1
      /\ \A i \in 1..Len(u) : i + 1 \in 1..Len(t) /\ u[i] = t[i + 1]
      /\ \A j \in 1..Len(t) : j # 1 => j - 1 \in 1..Len(u) /\ u[j - 1] = t[j]
  BY <1>1, TailOps
<1>3. /\ t[1].part \in Parts /\ t[1].at \in 1..NBlocks /\ t[1].op \in {"erase", "write"}
  BY <1>2, NextIsSafe DEF Next1
<1>4. section \in [Parts -> [1..NBlocks -> Blocks]] BY DEF UpdaterInv
<1>5. section' = [section EXCEPT ![t[1].part][t[1].at] = t[1].data] BY <1>2
<1>6. todo' = u OBVIOUS
<1> HIDE DEF t, u
<1>7. CASE NoErase(t)
  <2>1. NoErase(u) BY <1>2, <1>7 DEF NoErase
  <2> QED BY <1>6, <2>1 DEF AFirst, NoErase, ErasesB
<1>8. ASSUME \A l \in 1..Len(t) : t[l].op \in {"erase", "write", "done"},
             NEW v \in Versions, HoldsFirst(t, v)
      PROVE  AFirst(todo)'
  <2>1. \A l \in 1..Len(u) : u[l].op \in {"erase", "write", "done"} BY <1>2, <1>8
  <2>2. ASSUME NEW i \in 1..NBlocks
        PROVE  \/ section'["A"][i] = v /\ \A l \in 1..Len(u) : ~ ChangesA(u[l], i)
               \/ Planned(u, i, v)
    <3>1. "A" \in Parts BY DEF Parts, Slots
    <3>2. CASE Settled(t, i, v)
      <4>1. ~ ChangesA(t[1], i) BY <1>2, <3>2 DEF Settled
      <4>2. section'["A"][i] = section["A"][i]
        BY <1>3, <1>4, <1>5, <3>1, <4>1 DEF ChangesA
      <4>3. \A l \in 1..Len(u) : ~ ChangesA(u[l], i) BY <1>2, <3>2 DEF Settled
      <4> QED BY <3>2, <4>2, <4>3 DEF Settled
    <3>3. CASE Planned(t, i, v)
      <4>1. PICK j \in 1..Len(t) :
              /\ t[j] = Op("write", "A", i, v)
              /\ \A l \in 1..Len(t) : ErasesB(t[l]) => j < l
              /\ \A l \in 1..Len(t) : j < l => ~ ChangesA(t[l], i)
        BY <3>3 DEF Planned
      <4>2. CASE j = 1
        <5>1. t[1].part = "A" /\ t[1].at = i /\ t[1].data = v BY <4>1, <4>2 DEF Op
        <5>2. section'["A"][i] = v
          <6>1. section' = [section EXCEPT !["A"][i] = v] BY <1>5, <5>1
          <6> QED BY <1>4, <3>1, <6>1
        <5>3. \A l \in 1..Len(u) : ~ ChangesA(u[l], i)
          <6> TAKE l \in 1..Len(u)
          <6>1. l + 1 \in 1..Len(t) /\ 1 < l + 1 /\ u[l] = t[l + 1] BY <1>2
          <6> QED BY <4>1, <4>2, <6>1
        <5> QED BY <5>2, <5>3
      <4>3. CASE j # 1
        <5>1. j - 1 \in 1..Len(u) /\ u[j - 1] = Op("write", "A", i, v) BY <1>2, <4>1, <4>3
        <5>2. ASSUME NEW l \in 1..Len(u)
              PROVE  /\ ErasesB(u[l]) => j - 1 < l
                     /\ j - 1 < l => ~ ChangesA(u[l], i)
          <6>1. l + 1 \in 1..Len(t) /\ u[l] = t[l + 1] BY <1>2
          <6>2. j - 1 < l <=> j < l + 1 BY <1>2
          <6> QED BY <4>1, <6>1, <6>2
        <5>3. PICK m \in 1..Len(u) : m = j - 1 BY <5>1
        <5> QED BY <5>1, <5>2, <5>3 DEF Planned
      <4> QED BY <4>2, <4>3
    <3> QED BY <1>8, <3>2, <3>3 DEF HoldsFirst
  <2>3. ASSUME NEW i \in 1..NBlocks PROVE Settled(todo, i, v)' \/ Planned(todo, i, v)'
    <3>1. Planned(u, i, v) => Planned(todo, i, v)'
      BY Zenon, <1>6 DEF Planned, ErasesB, ChangesA, Op
    <3>2. section'["A"][i] = v /\ (\A l \in 1..Len(u) : ~ ChangesA(u[l], i)) => Settled(todo, i, v)'
      BY Zenon, <1>6 DEF Settled, ChangesA
    <3> QED BY <2>2, <3>1, <3>2
  <2>4. HoldsFirst(todo, v)' BY <2>3 DEF HoldsFirst
  <2>5. \A l \in 1..Len(todo') : todo'[l].op \in {"erase", "write", "done"} BY <1>6, <2>1
  <2> QED BY <2>4, <2>5 DEF AFirst
<1>9. NoErase(t) \/ /\ \A l \in 1..Len(t) : t[l].op \in {"erase", "write", "done"}
                    /\ \E v \in Versions : HoldsFirst(t, v)
  BY DEF AFirst, t
<1> QED BY <1>7, <1>8, <1>9

\* A sequence of operations none of which erases a block of B.
LEMMA CalmAFirst ==
  ASSUME NEW t, NoErase(t), todo' = t
  PROVE  AFirst(todo)'
BY DEF AFirst, NoErase, ErasesB

LEMMA SingleNoErase ==
  ASSUME NEW o, NEW p, NEW q, o.op # "erase", p.op # "erase", q.op # "erase"
  PROVE  /\ <<o>> \in Seq(OpsOf(<<o>>)) /\ NoErase(<<o>>)
         /\ <<o, p>> \in Seq(OpsOf(<<o, p>>)) /\ NoErase(<<o, p>>)
         /\ NoErase(<<o, p, q>>)
<1>1. <<o>> \in Seq({o}) /\ Len(<<o>>) = 1 /\ <<o>>[1] = o OBVIOUS
<1>2. <<o, p>> \in Seq({o, p}) /\ Len(<<o, p>>) = 2 /\ <<o, p>>[1] = o /\ <<o, p>>[2] = p OBVIOUS
<1>3. Len(<<o, p, q>>) = 3 /\ <<o, p, q>>[1] = o /\ <<o, p, q>>[2] = p /\ <<o, p, q>>[3] = q OBVIOUS
<1>4. NoErase(<<o>>) BY <1>1 DEF NoErase, ErasesB
<1>5. NoErase(<<o, p>>) BY <1>2 DEF NoErase, ErasesB
<1>6. NoErase(<<o, p, q>>) BY <1>3 DEF NoErase, ErasesB
<1> QED BY <1>1, <1>2, <1>4, <1>5, <1>6, SeqOfOps

LEMMA RecoveryStep ==
  ASSUME "fdt" \notin Env, "recovery_flash" \notin Env,
         \A img \in Images : "B" \in img.sections => "A" \in img.sections,
         UpdaterInv, RecoveryInv, [Next]_vars
  PROVE  RecoveryInv'
<1> SUFFICES ASSUME running' = "R" PROVE AFirst(todo)'
  BY DEF RecoveryInv
<1>0. todo \in Seq(OpsOf(todo)) BY DEF UpdaterInv, SafeOps
<1>1. CASE Boot
  <2>1. todo' = <<>> /\ Len(<<>>) = 0 BY <1>1 DEF Boot, UpdaterInv
  <2>2. NoErase(<<>>) BY <2>1 DEF NoErase
  <2> QED BY <2>1, <2>2, CalmAFirst
<1>2. ~ PowerLoss BY DEF PowerLoss
<1>3. CASE UNCHANGED running /\ running = "R"
  <2>0. AFirst(todo) BY <1>3 DEF RecoveryInv
  <2>1. CASE UNCHANGED <<todo, section>>
    BY <2>0, <2>1 DEF AFirst, NoErase, HoldsFirst, Settled, Planned, ErasesB, ChangesA, Op
  <2>2. CASE Update
    <3>1. PICK img \in Images, force \in BOOLEAN : update_fw(img, force)
      BY <2>2 DEF Update, cmd_update, firmware_update
    <3>2. vboot_get_mainfw_act = {running} BY DEF vboot_get_mainfw_act, May
    <3>3. UNCHANGED todo \/ todo' = IF running = "R" THEN update_recovery_fw(img)
                                    ELSE update_rw_fw(img, running)
      BY <3>1, <3>2, Zenon DEF update_fw
    <3>4. UNCHANGED section BY <2>2 DEF Update
    <3>5. CASE todo' = update_recovery_fw(img)
      <4>1. AFirst(update_recovery_fw(img)) BY RecoveryAFirst
      <4>2. PICK t : t = update_recovery_fw(img) OBVIOUS
      <4>3. AFirst(t) /\ todo' = t BY <3>5, <4>1, <4>2
      <4> QED BY <3>4, <4>3 DEF AFirst, NoErase, HoldsFirst, Settled, Planned, ErasesB, ChangesA, Op
    <3> QED BY <1>3, <2>1, <3>3, <3>4, <3>5
  <2>3. CASE MarkBoot \/ VbnvWrite \/ PostWipeData
    <3>1. Sync.op # "erase" /\ \A f, v : SetFlag(f, v).op # "erase" BY DEF Sync, SetFlag, Op
    <3>2. \/ \E f, v : todo' = <<SetFlag(f, v)>>
          \/ \E f, v, g, w : todo' = <<SetFlag(f, v), SetFlag(g, w), Sync>>
      BY <2>3 DEF MarkBoot, VbnvWrite, PostWipeData
    <3> QED BY <3>1, <3>2, SingleNoErase, CalmAFirst
  <2>4. CASE FlashBlock
    <3>1. ~ FlashMayFail BY <1>3 DEF FlashMayFail, May
    <3> QED BY <2>0, <2>4, <3>1, FlashAFirst DEF FlashBlock, Next1
  <2>5. CASE SyncSlots \/ VbnvReadWrite \/ NvErase \/ NvPut \/ Finish
    <3>1. todo # <<>> /\ Head(todo).op \in {"sync", "flag", "wipe", "put", "done"}
      BY <2>5 DEF SyncSlots, VbnvReadWrite, NvErase, NvPut, Finish, Next1
    <3>2. CASE Finish
      <4>1. todo' = <<>> /\ Len(<<>>) = 0 BY <3>2 DEF Finish
      <4>2. NoErase(<<>>) BY <4>1 DEF NoErase
      <4> QED BY <4>1, <4>2, CalmAFirst
    <3>3. CASE ~ Finish
      <4>1. Head(todo).op \in {"sync", "flag", "wipe", "put"}
        BY <2>5, <3>3 DEF SyncSlots, VbnvReadWrite, NvErase, NvPut, Next1
      <4>2. Head(todo) = todo[1] /\ 1 \in 1..Len(todo) BY <1>0, <3>1, TailOps
      <4>3. NoErase(todo) BY <2>0, <4>1, <4>2 DEF AFirst
      <4>4. NoErase(Tail(todo)) /\ Tail(todo) \in Seq(OpsOf(Tail(todo)))
        <5>1. SafeOps(Tail(todo), running) BY <3>1, SafeTail DEF UpdaterInv
        <5> QED BY <1>0, <3>1, <4>3, <5>1, NoEraseTail DEF SafeOps
      <4>5. CASE todo' = Tail(todo) BY <4>4, <4>5, CalmAFirst
      <4>6. CASE NvErase /\ todo' = Tail(Tail(todo))
        <5>1. 1 < Len(todo)
          BY <1>0, <3>1, <4>2, <4>6 DEF NvErase, Next1, UpdaterInv, SafeOps
        <5>2. Tail(todo) # <<>>
          <6>1. Len(Tail(todo)) = Len(todo) - 1 /\ Len(todo) \in Nat BY <1>0, <3>1, TailOps
          <6>2. SUFFICES ASSUME Tail(todo) = <<>> PROVE FALSE OBVIOUS
          <6> QED BY <5>1, <6>1, <6>2
        <5>3. NoErase(Tail(Tail(todo))) BY <4>4, <5>2, NoEraseTail
        <5> QED BY <4>6, <5>3, CalmAFirst
      <4>7. CASE VbnvReadWrite
        <5> DEFINE put(at, d) == Op("put", "NVRAM", at, d)
        <5> DEFINE wipe == Op("wipe", "NVRAM", 1, 0)
        <5>1. \E at, d : \/ todo' = <<put(at, d)>> \o Tail(todo)
                         \/ todo' = <<wipe, put(at, d)>> \o Tail(todo)
          BY <4>7, Zenon DEF VbnvReadWrite
        <5>2. wipe.op # "erase" /\ \A at, d : put(at, d).op # "erase" BY DEF Op
        <5> HIDE DEF put, wipe
        <5>3. PICK at, d : \/ todo' = <<put(at, d)>> \o Tail(todo)
                           \/ todo' = <<wipe, put(at, d)>> \o Tail(todo)
          BY <5>1
        <5>4. NoErase(<<put(at, d)>> \o Tail(todo)) /\ NoErase(<<wipe, put(at, d)>> \o Tail(todo))
          BY <4>4, <5>2, SingleNoErase, NoEraseConcat
        <5> QED BY <5>3, <5>4, CalmAFirst
      <4>8. SyncSlots => todo' = Tail(todo)
        BY <1>3 DEF SyncSlots, vboot_get_mainfw_act, May, Slots
      <4> QED BY <2>5, <3>3, <4>5, <4>6, <4>7, <4>8 DEF NvErase, NvPut
    <3> QED BY <3>2, <3>3
  <2>6. CASE UNCHANGED vars BY <2>1, <2>6 DEF vars
  <2> QED BY <1>1, <1>2, <2>2, <2>3, <2>4, <2>5, <2>6 DEF Next, Step
<1>4. Boot \/ UNCHANGED running
  BY <1>2 DEF Next, Step, vars, Update, MarkBoot, VbnvWrite, PostWipeData, SyncSlots, FlashBlock,
     VbnvReadWrite, NvErase, NvPut, Finish
<1> QED BY <1>1, <1>3, <1>4

\* In recovery mode (update_recovery_fw) no block of slot B is erased before
\* slot A holds a whole image, for any number of blocks, versions and images
\* and wherever the power fails.  It takes images that have section A if they
\* have B, a device tree that tells recovery mode, and flash that can be
\* written then.
THEOREM RecoverOneByOne ==
  ASSUME "fdt" \notin Env, "recovery_flash" \notin Env,
         \A img \in Images : "B" \in img.sections => "A" \in img.sections
  PROVE  Spec => []RecoveryInTurn
<1>1. Init => UpdaterInv /\ RecoveryInv
  BY UpdaterInit DEF Init, RecoveryInv
<1>2. UpdaterInv /\ RecoveryInv /\ [Next]_vars => (UpdaterInv /\ RecoveryInv)'
  BY UpdaterStep, RecoveryStep
<1>3. UpdaterInv /\ RecoveryInv => RecoveryInTurn
  <2> SUFFICES ASSUME UpdaterInv, RecoveryInv, running = "R", Next1("erase"), Head(todo).part = "B"
               PROVE  Intact("A")
    BY DEF RecoveryInTurn
  <2>1. todo[1] = Head(todo) /\ 1 \in 1..Len(todo) BY BusyIsOn
  <2>2. ErasesB(todo[1]) BY <2>1 DEF ErasesB, Next1
  <2>3. PICK v \in Versions : HoldsFirst(todo, v)
    BY <2>1, <2>2 DEF RecoveryInv, AFirst, NoErase
  <2>4. \A i \in 1..NBlocks : ~ Planned(todo, i, v)
    BY <2>1, <2>2 DEF Planned
  <2>5. \A i \in 1..NBlocks : section["A"][i] = v BY <2>3, <2>4 DEF HoldsFirst, Settled
  <2>6. section["A"] \in [1..NBlocks -> Blocks] BY DEF UpdaterInv, Parts, Slots
  <2>7. section["A"] = Whole(v) BY <2>5, <2>6 DEF Whole
  <2> QED BY <2>7 DEF Intact
<1> QED BY <1>1, <1>2, <1>3, PTL DEF Spec

-----------------------------------------------------------------------------
(* The flags.  A value within the mask of its flag survives the conversion    *)
(* to bits, and clearing bits gives the value that is wanted when it has no   *)
(* other bits than the old one.                                               *)

LEMMA BitsDiffer ==
  ASSUME NEW m \in 0..15, NEW n \in 0..15, Bits(m) = Bits(n)
  PROVE  m = n
<1>1. \A b \in {1, 2, 4, 8} : (m \div b) % 2 = 1 <=> (n \div b) % 2 = 1
  BY DEF Bits
<1>2. /\ (m \div 1) % 2 = 1 <=> (n \div 1) % 2 = 1
      /\ (m \div 2) % 2 = 1 <=> (n \div 2) % 2 = 1
      /\ (m \div 4) % 2 = 1 <=> (n \div 4) % 2 = 1
      /\ (m \div 8) % 2 = 1 <=> (n \div 8) % 2 = 1
  BY <1>1
<1> QED BY <1>2

LEMMA AndClears ==
  ASSUME NEW m \in 0..15, NEW n \in 0..15, Bits(n) \subseteq Bits(m)
  PROVE  And(m, n) = n
<1>1. And(m, n) \in 0..15 /\ Bits(And(m, n)) = Bits(n)
  BY DEF And
<1> QED BY <1>1, BitsDiffer

LEMMA WithinMask ==
  ASSUME NEW M \in {1, 3, 15}, NEW v \in 0..M
  PROVE  Bits(v) \subseteq Bits(M)
<1>1. \A b \in {1, 2, 4, 8} : (v \div b) % 2 = 1 => (M \div b) % 2 = 1
  <2>1. (v \div 2) % 2 = 1 => (M \div 2) % 2 = 1 OBVIOUS
  <2>2. (v \div 4) % 2 = 1 => (M \div 4) % 2 = 1 OBVIOUS
  <2>3. (v \div 8) % 2 = 1 => (M \div 8) % 2 = 1 OBVIOUS
  <2>4. (v \div 1) % 2 = 1 => (M \div 1) % 2 = 1 OBVIOUS
  <2> QED BY <2>1, <2>2, <2>3, <2>4
<1> QED BY <1>1 DEF Bits

LEMMA MaskValues ==
  /\ Flags = {"try_count", "fw_try_next", "boot_result", "dev_boot_fastboot_full_cap"}
  /\ Mask = [f \in Flags |-> Mask[f]]
  /\ \A f \in Flags : Mask[f] \in {1, 3, 15}
  /\ Mask["try_count"] = 15 /\ Mask["fw_try_next"] = 1 /\ Mask["boot_result"] = 3
  /\ Mask["dev_boot_fastboot_full_cap"] = 1
<1>1. Flags = {"try_count", "fw_try_next", "boot_result", "dev_boot_fastboot_full_cap"}
  BY DEF Flags, Mask
<1>2. Mask = [f \in Flags |-> Mask[f]] BY DEF Mask, Flags
<1>3. /\ Mask["try_count"] = 15 /\ Mask["fw_try_next"] = 1 /\ Mask["boot_result"] = 3
      /\ Mask["dev_boot_fastboot_full_cap"] = 1
  BY DEF Mask
<1> QED BY <1>1, <1>2, <1>3

\* Values of the flags, entries, and NVRAM.
Values == {g \in [Flags -> 0..15] : \A f \in Flags : g[f] \in 0..Mask[f]}
Entries == [flags : Values, crc : {"ok", "bad"}]

LEMMA ValueTypes ==
  /\ Mask \in Values /\ Defaults \in Values
  /\ \A g \in Values, f \in Flags, v \in 0..15 : v \in 0..Mask[f] => [g EXCEPT ![f] = v] \in Values
  /\ \A f \in Flags : \A v \in 0..Mask[f] : v \in 0..15 /\ And(v, Mask[f]) = v
  /\ \A g \in Values, f \in Flags : And(Mask[f], g[f]) = g[f]
<1>1. \A f \in Flags : Mask[f] \in 0..15 /\ Mask[f] \in {1, 3, 15} BY MaskValues
<1>2. Mask \in [Flags -> 0..15] BY <1>1, MaskValues
<1>3. Mask \in Values BY <1>1, <1>2 DEF Values
<1>4. Defaults \in Values BY <1>1 DEF Values, Defaults
<1>5. \A g \in Values, f \in Flags, v \in 0..15 : v \in 0..Mask[f] => [g EXCEPT ![f] = v] \in Values
  BY DEF Values
<1>6. ASSUME NEW f \in Flags, NEW v \in 0..Mask[f]
      PROVE  v \in 0..15 /\ Bits(v) \subseteq Bits(Mask[f])
  BY <1>1, WithinMask
<1>7. ASSUME NEW f \in Flags, NEW v \in 0..Mask[f] PROVE And(Mask[f], v) = v
  BY <1>1, <1>6, AndClears
<1>8. ASSUME NEW f \in Flags, NEW v \in 0..Mask[f] PROVE And(v, Mask[f]) = v
  <2>1. And(v, Mask[f]) = And(Mask[f], v)
    <3>1. Bits(v) \cap Bits(Mask[f]) = Bits(Mask[f]) \cap Bits(v) OBVIOUS
    <3> QED BY <3>1 DEF And
  <2> QED BY <1>7, <2>1
<1> QED BY <1>3, <1>4, <1>5, <1>6, <1>7, <1>8 DEF Values

-----------------------------------------------------------------------------
(* The entries of the NVRAM.  The used ones come first, so that the entry     *)
(* before the first empty one is the last one that was written.               *)

FirstFree(n) ==
  LET free == {i \in 1..NvBlocks : n[i] = Empty}
  IN IF free = {} THEN 0 ELSE CHOOSE i \in free : \A j \in free : i <= j
LastOf(n) == CASE FirstFree(n) = 0 -> NvBlocks
               [] FirstFree(n) = 1 -> 1
               [] OTHER -> FirstFree(n) - 1

\* All before the entry `at' are used, and all after it are empty.
Top(n, at) ==
  /\ at \in 1..NvBlocks
  /\ \A i \in 1..NvBlocks : (i < at => n[i] # Empty) /\ (i > at => n[i] = Empty)
Used(n, at) == Top(n, at) /\ (n[at] # Empty \/ at = 1)

LEMMA UsedIsLast ==
  ASSUME NEW n, NEW at, Used(n, at)
  PROVE  /\ LastOf(n) = at
         /\ FirstFree(n) # 0 => Top(n, FirstFree(n)) /\ n[FirstFree(n)] = Empty
         /\ FirstFree(n) \in Nat
<1> USE UpdaterAssumption
<1> DEFINE free == {i \in 1..NvBlocks : n[i] = Empty}
<1>0. NvBlocks \in Nat \ {0} /\ at \in 1..NvBlocks BY DEF Used, Top
<1>1. CASE n[at] = Empty
  <2>1. at = 1 /\ 1 \in free BY <1>0, <1>1 DEF Used
  <2>2. \A i \in free : (\A j \in free : i <= j) => i = 1 BY <1>0, <2>1
  <2>3. \A j \in free : 1 <= j BY <1>0
  <2>4. FirstFree(n) = 1 BY <2>1, <2>2, <2>3 DEF FirstFree
  <2> QED BY <1>1, <2>1, <2>4 DEF Used, LastOf
<1>2. CASE n[at] # Empty /\ at = NvBlocks
  <2>1. free = {} BY <1>0, <1>2 DEF Used, Top
  <2>2. FirstFree(n) = 0 BY <2>1 DEF FirstFree
  <2> QED BY <1>2, <2>2 DEF LastOf
<1>3. CASE n[at] # Empty /\ at # NvBlocks
  <2>1. at + 1 \in 1..NvBlocks /\ at + 1 > at BY <1>0, <1>3
  <2>2. at + 1 \in free BY <2>1 DEF Used, Top
  <2>3. \A j \in free : at + 1 <= j BY <1>0, <1>3 DEF Used, Top
  <2>4. \A i \in free : (\A j \in free : i <= j) => i = at + 1 BY <1>0, <2>2, <2>3
  <2>5. FirstFree(n) = at + 1 BY <2>2, <2>3, <2>4 DEF FirstFree
  <2>6. LastOf(n) = at BY <1>0, <2>5 DEF LastOf
  <2>7. Top(n, at + 1)
    <3>1. ASSUME NEW i \in 1..NvBlocks PROVE (i < at + 1 => n[i] # Empty) /\ (i > at + 1 => n[i] = Empty)
      BY <1>0, <1>3 DEF Used, Top
    <3> QED BY <2>1, <3>1 DEF Top
  <2> QED BY <1>0, <2>2, <2>5, <2>6, <2>7
<1> QED BY <1>1, <1>2, <1>3

\* An entry that is written where all before it are used becomes the last one.
LEMMA WrittenIsUsed ==
  ASSUME NEW n, NEW at, Top(n, at), NEW e, e # Empty, n = [i \in 1..NvBlocks |-> n[i]]
  PROVE  Used([n EXCEPT ![at] = e], at) /\ [n EXCEPT ![at] = e][at] = e
<1> DEFINE m == [n EXCEPT ![at] = e]
<1>0. at \in 1..NvBlocks /\ NvBlocks \in Nat BY UpdaterAssumption DEF Top
<1>1. m[at] = e /\ \A i \in 1..NvBlocks : i # at => m[i] = n[i] BY <1>0
<1> HIDE DEF m
<1>2. Top(m, at) BY <1>0, <1>1 DEF Top
<1>3. Used(m, at) BY <1>1, <1>2 DEF Used
<1> QED BY <1>1, <1>3 DEF m

LEMMA LastRead ==
  /\ FirstEmpty = FirstFree(nvram) /\ LastUsed = LastOf(nvram)
  /\ FirstEmpty' = FirstFree(nvram') /\ LastUsed' = LastOf(nvram')
<1>1. FirstEmpty = FirstFree(nvram) BY DEF FirstEmpty, FirstFree
<1>2. FirstEmpty' = FirstFree(nvram') BY DEF FirstEmpty, FirstFree, Empty, Mask
<1>3. LastUsed = LastOf(nvram) BY <1>1 DEF LastUsed, LastOf
<1>4. LastUsed' = LastOf(nvram') BY <1>2 DEF LastUsed, LastOf
<1> QED BY <1>1, <1>2, <1>3, <1>4

-----------------------------------------------------------------------------
(* What is to be done to the flags: entries are written one at a time, and    *)
(* the one that is next holds what was intended and fits where it goes.       *)

CleanOp(o) ==
  /\ o.op \notin {"put", "wipe"}
  /\ o.op = "flag" => o.at \in Flags /\ o.data \in 0..Mask[o.at]
Clean(t) == t \in Seq(OpsOf(t)) /\ \A l \in 1..Len(t) : CleanOp(t[l])

Wanted(o, i) == o.op = "put" /\ o.data \in Values /\ (i # <<>> => i = o.data)
Fits(o, n) ==
  Top(n, o.at) /\ \A f \in Flags : And(n[o.at].flags[f], o.data[f]) = o.data[f]

NvPlan(t, n, i) ==
  \/ Clean(t)
  \/ \E o, u : t = <<o>> \o u /\ Clean(u) /\ Wanted(o, i) /\ Fits(o, n)
  \/ \E w, o, u : t = <<w, o>> \o u /\ Clean(u) /\ w.op = "wipe" /\ Wanted(o, i) /\ o.at = 1

NvTyped(n) == n \in [1..NvBlocks -> Entries \cup {Empty}]
ReadsBack(n, i) == i # <<>> => n[LastOf(n)] = Entry(i, "ok")

FlagInv ==
  /\ NvTyped(nvram) /\ \E at : Used(nvram, at)
  /\ NvPlan(todo, nvram, intent)
  /\ running = "off" => todo = <<>>
  /\ running # "off" /\ ~ Next1("put") /\ ~ Next1("wipe") => ReadsBack(nvram, intent)

LEMMA PlanHead ==
  ASSUME NEW w, NEW o, NEW u, u \in Seq(OpsOf(u))
  PROVE  /\ <<o>> \o u # <<>> /\ Head(<<o>> \o u) = o /\ Tail(<<o>> \o u) = u
         /\ <<w, o>> \o u # <<>> /\ Head(<<w, o>> \o u) = w /\ Tail(<<w, o>> \o u) = <<o>> \o u
<1>1. PICK S : u \in Seq(S) /\ o \in S /\ w \in S
  <2>1. u \in Seq(OpsOf(u) \cup {o, w}) OBVIOUS
  <2> QED BY <2>1
<1> QED BY <1>1

LEMMA CleanEmpty == Clean(<<>>)
<1>1. <<>> \in Seq({}) /\ Len(<<>>) = 0 OBVIOUS
<1> QED BY <1>1, SeqOfOps DEF Clean

LEMMA CleanTail == ASSUME NEW t, Clean(t), t # <<>> PROVE Clean(Tail(t))
<1>1. t \in Seq(OpsOf(t)) BY DEF Clean
<1>2. Tail(t) \in Seq(OpsOf(Tail(t)))
  <2>1. PICK S : t \in Seq(S) BY <1>1
  <2>2. Tail(t) \in Seq(S) BY <2>1
  <2> QED BY <2>2, SeqOfOps
<1>3. \A l \in 1..Len(Tail(t)) : CleanOp(Tail(t)[l]) BY <1>1, TailOps DEF Clean
<1> QED BY <1>2, <1>3 DEF Clean

LEMMA CleanSuffix ==
  ASSUME NEW t, Clean(t), NEW i \in 1..(Len(t) + 1)
  PROVE  Clean(SubSeq(t, i, Len(t)))
<1> DEFINE u == SubSeq(t, i, Len(t))
<1>1. PICK S : t \in Seq(S) BY DEF Clean
<1>2. u \in Seq(S) /\ Len(u) = Len(t) - i + 1 /\ Len(t) \in Nat /\ \A j \in 1..Len(u) : u[j] = t[i + j - 1]
  BY <1>1
<1> HIDE DEF u
<1>3. u \in Seq(OpsOf(u)) BY <1>2, SeqOfOps
<1>4. ASSUME NEW j \in 1..Len(u) PROVE CleanOp(u[j])
  <2>1. i + j - 1 \in 1..Len(t) /\ u[j] = t[i + j - 1] BY <1>2
  <2> QED BY <2>1 DEF Clean
<1>5. Clean(u) BY <1>3, <1>4 DEF Clean
<1> QED BY <1>5 DEF u

LEMMA CleanConcat == ASSUME NEW s, NEW t, Clean(s), Clean(t) PROVE Clean(s \o t)
<1>1. s \in Seq(OpsOf(s)) /\ t \in Seq(OpsOf(t)) BY DEF Clean
<1>2. ASSUME NEW l \in 1..Len(s \o t) PROVE CleanOp((s \o t)[l])
  <2>1. CASE l \in 1..Len(s) BY <1>1, <2>1, ConcatOps DEF Clean
  <2>2. CASE l \notin 1..Len(s)
    <3>1. l - Len(s) \in 1..Len(t) /\ (s \o t)[l] = t[l - Len(s)] BY <1>1, <2>2, ConcatOps
    <3> QED BY <3>1 DEF Clean
  <2> QED BY <2>1, <2>2
<1> QED BY <1>1, <1>2, ConcatOps DEF Clean

LEMMA CleanFew ==
  ASSUME NEW o, NEW p, NEW q, CleanOp(o), CleanOp(p), CleanOp(q)
  PROVE  Clean(<<o>>) /\ Clean(<<o, p, q>>)
<1>1. <<o>> \in Seq({o}) /\ Len(<<o>>) = 1 /\ <<o>>[1] = o OBVIOUS
<1>2. /\ <<o, p, q>> \in Seq({o, p, q}) /\ Len(<<o, p, q>>) = 3
      /\ <<o, p, q>>[1] = o /\ <<o, p, q>>[2] = p /\ <<o, p, q>>[3] = q
  OBVIOUS
<1>3. <<o>> \in Seq(OpsOf(<<o>>)) /\ <<o, p, q>> \in Seq(OpsOf(<<o, p, q>>)) BY <1>1, <1>2, SeqOfOps
<1>4. Clean(<<o>>) BY <1>1, <1>3 DEF Clean
<1>5. Clean(<<o, p, q>>) BY <1>2, <1>3 DEF Clean
<1> QED BY <1>4, <1>5

LEMMA CleanPartition == ASSUME NEW part, NEW content PROVE Clean(update_partition(part, content))
<1> DEFINE e == [i \in 1..NBlocks |-> Op("erase", part, i, "erased")]
<1> DEFINE w == [i \in 1..NBlocks |-> Op("write", part, i, content[i])]
<1> DEFINE S == {Op("erase", part, i, "erased") : i \in 1..NBlocks}
<1> DEFINE W == {Op("write", part, i, content[i]) : i \in 1..NBlocks}
<1>1. NBlocks \in Nat BY UpdaterAssumption
<1>2. e \in [1..NBlocks -> S] /\ w \in [1..NBlocks -> W] OBVIOUS
<1>3. \A i \in 1..NBlocks : CleanOp(e[i]) /\ CleanOp(w[i]) BY DEF CleanOp, Op
<1>4. update_partition(part, content) = e \o w BY DEF update_partition
<1> HIDE DEF e, w, S, W
<1>5. e \in Seq(OpsOf(e)) /\ Len(e) = NBlocks /\ w \in Seq(OpsOf(w)) /\ Len(w) = NBlocks
  BY <1>1, <1>2, SegmentIsSeq, SeqOfOps
<1>6. Clean(e) /\ Clean(w) BY <1>3, <1>5 DEF Clean
<1> QED BY <1>4, <1>6, CleanConcat

LEMMA CleanUpdates ==
  ASSUME NEW img, NEW cur_part
  PROVE  Clean(update_rw_fw(img, cur_part)) /\ Clean(update_recovery_fw(img))
<1>0. \A r : CleanOp(Done(r)) BY DEF CleanOp, Done, Op
<1>1. Clean(update_rw_fw(img, cur_part))
  <2> DEFINE slot == IF cur_part = "B" THEN "A" ELSE "B"
  <2> DEFINE try == SetFlag("fw_try_next", IF slot = "B" THEN 1 ELSE 0)
  <2>1. CleanOp(try) /\ CleanOp(SetFlag("try_count", 6)) BY MaskValues DEF CleanOp, SetFlag, Op
  <2> HIDE DEF try
  <2>2. Clean(<<try, SetFlag("try_count", 6), Done("UPDATED")>>) BY <1>0, <2>1, CleanFew
  <2>3. Clean(<<Done("error")>>) BY <1>0, CleanFew
  <2>4. Clean(update_partition(slot, Whole(img.version))) BY CleanPartition
  <2>5. Clean(update_partition(slot, Whole(img.version)) \o <<try, SetFlag("try_count", 6), Done("UPDATED")>>)
    BY <2>2, <2>4, CleanConcat
  <2> QED BY <2>3, <2>5 DEF update_rw_fw, try
<1>2. Clean(update_recovery_fw(img))
  <2> DEFINE update(part) == IF part \in img.sections
                             THEN update_partition(part, Whole(img.version)) ELSE <<>>
  <2> DEFINE end == <<Done(IF Parts \subseteq img.sections THEN "UPDATED" ELSE "error")>>
  <2>1. Clean(update("A")) /\ Clean(update("B")) /\ Clean(update("SHARED")) BY CleanPartition, CleanEmpty
  <2>2. Clean(end) BY <1>0, CleanFew
  <2>3. update_recovery_fw(img) = update("A") \o update("B") \o update("SHARED") \o end
    BY DEF update_recovery_fw
  <2> HIDE DEF update, end
  <2> QED BY <2>1, <2>2, <2>3, CleanConcat
<1> QED BY <1>1, <1>2

\* What the operation that is next says about the plan.
LEMMA PlanNext ==
  ASSUME FlagInv
  PROVE  /\ ~ Next1("put") /\ ~ Next1("wipe") => Clean(todo)
         /\ Next1("put") => /\ Wanted(Head(todo), intent) /\ Fits(Head(todo), nvram)
                            /\ Clean(Tail(todo))
         /\ Next1("wipe") => \E o, u : /\ Tail(todo) = <<o>> \o u /\ Clean(u)
                                       /\ Wanted(o, intent) /\ o.at = 1
<1>1. CASE Clean(todo)
  <2>1. todo # <<>> => Head(todo) = todo[1] /\ 1 \in 1..Len(todo) BY <1>1, TailOps DEF Clean
  <2>2. ~ Next1("put") /\ ~ Next1("wipe") BY <1>1, <2>1 DEF Clean, CleanOp, Next1
  <2> QED BY <1>1, <2>2
<1>2. ASSUME NEW o, NEW u, todo = <<o>> \o u, Clean(u), Wanted(o, intent), Fits(o, nvram)
      PROVE  Next1("put") /\ ~ Next1("wipe") /\ Head(todo) = o /\ Tail(todo) = u
  <2>1. todo # <<>> /\ Head(todo) = o /\ Tail(todo) = u BY <1>2, PlanHead DEF Clean
  <2> QED BY <1>2, <2>1 DEF Next1, Wanted
<1>3. ASSUME NEW w, NEW o, NEW u, todo = <<w, o>> \o u, Clean(u), w.op = "wipe", Wanted(o, intent), o.at = 1
      PROVE  Next1("wipe") /\ ~ Next1("put") /\ Tail(todo) = <<o>> \o u
  <2>1. todo # <<>> /\ Head(todo) = w /\ Tail(todo) = <<o>> \o u BY <1>3, PlanHead DEF Clean
  <2> QED BY <1>3, <2>1 DEF Next1
<1>4. CASE \E o, u : todo = <<o>> \o u /\ Clean(u) /\ Wanted(o, intent) /\ Fits(o, nvram)
  BY <1>2, <1>4
<1>5. CASE \E w, o, u : todo = <<w, o>> \o u /\ Clean(u) /\ w.op = "wipe" /\ Wanted(o, intent) /\ o.at = 1
  <2>1. PICK w, o, u : todo = <<w, o>> \o u /\ Clean(u) /\ w.op = "wipe" /\ Wanted(o, intent) /\ o.at = 1
    BY <1>5
  <2>2. Next1("wipe") /\ ~ Next1("put") /\ Tail(todo) = <<o>> \o u BY <1>3, <2>1
  <2> QED BY <2>1, <2>2
<1> QED BY <1>1, <1>4, <1>5 DEF FlagInv, NvPlan

\* A step that leaves the flags alone.
LEMMA CleanStep ==
  ASSUME FlagInv, running # "off", UNCHANGED <<nvram, intent, running>>,
         ~ Next1("put"), ~ Next1("wipe"), Clean(todo')
  PROVE  FlagInv'
<1>1. NvTyped(nvram') /\ \E at : Used(nvram', at) BY DEF FlagInv
<1>2. NvPlan(todo', nvram', intent') BY DEF NvPlan
<1>3. ReadsBack(nvram', intent') BY DEF FlagInv
<1>4. running' # "off" OBVIOUS
<1> QED BY <1>1, <1>2, <1>3, <1>4 DEF FlagInv

LEMMA CommandKeepsFlags ==
  ASSUME FlagInv, Update \/ MarkBoot \/ VbnvWrite \/ PostWipeData
  PROVE  FlagInv'
<1>1. running # "off" /\ todo = <<>> /\ UNCHANGED <<nvram, intent, running>>
  BY DEF Update, MarkBoot, VbnvWrite, PostWipeData, Run
<1>2. ~ Next1("put") /\ ~ Next1("wipe") BY <1>1 DEF Next1
<1>3. CASE Update
  <2>1. UNCHANGED todo \/ \E img, cur_part : \/ todo' = update_recovery_fw(img)
                                             \/ todo' = update_rw_fw(img, cur_part)
    <3>1. PICK img \in Images, force \in BOOLEAN : update_fw(img, force)
      BY <1>3 DEF Update, cmd_update, firmware_update
    <3> QED BY <3>1, Zenon DEF update_fw
  <2>2. Clean(todo') BY <1>1, <2>1, CleanUpdates, CleanEmpty
  <2> QED BY <1>1, <1>2, <2>2, CleanStep
<1>4. CASE MarkBoot
  <2>1. CleanOp(SetFlag("boot_result", VB2_FW_RESULT_SUCCESS)) /\ CleanOp(SetFlag("try_count", 0)) /\ CleanOp(Sync)
    BY MaskValues DEF CleanOp, SetFlag, Sync, Op, VB2_FW_RESULT_SUCCESS
  <2>2. Clean(todo') BY <1>4, <2>1, CleanFew DEF MarkBoot
  <2> QED BY <1>1, <1>2, <2>2, CleanStep
<1>5. CASE VbnvWrite \/ PostWipeData
  <2>1. ASSUME NEW f \in Flags, NEW v \in 0..Mask[f] PROVE CleanOp(SetFlag(f, v))
    BY DEF CleanOp, SetFlag, Op
  <2>2. \E f \in Flags : \E v \in 0..Mask[f] : todo' = <<SetFlag(f, v)>>
    <3>1. \A f \in Flags : 0 \in 0..Mask[f] /\ Mask[f] \in 0..Mask[f] BY MaskValues
    <3>2. VbnvWrite => \E f \in Flags : \E v \in {0, Mask[f]} : todo' = <<SetFlag(f, v)>>
      BY DEF VbnvWrite
    <3>3. PostWipeData => todo' = <<SetFlag("dev_boot_fastboot_full_cap", 1)>> BY DEF PostWipeData
    <3>4. "dev_boot_fastboot_full_cap" \in Flags /\ 1 \in 0..Mask["dev_boot_fastboot_full_cap"] BY MaskValues
    <3> QED BY <1>5, <3>1, <3>2, <3>3, <3>4
  <2>3. Clean(todo') BY <2>1, <2>2, CleanFew
  <2> QED BY <1>1, <1>2, <2>3, CleanStep
<1> QED BY <1>3, <1>4, <1>5

LEMMA BlocksKeepFlags ==
  ASSUME FlagInv, SyncSlots \/ FlashBlock \/ Finish
  PROVE  FlagInv'
<1>1. running # "off" /\ todo # <<>> /\ UNCHANGED <<nvram, intent, running>>
  BY DEF SyncSlots, FlashBlock, Finish, Next1, FlagInv
<1>2. ~ Next1("put") /\ ~ Next1("wipe") BY DEF SyncSlots, FlashBlock, Finish, Next1
<1>3. Clean(todo) BY <1>2, PlanNext
<1>4. \/ todo' = Tail(todo) \/ todo' = <<>>
      \/ \E part, content : todo' = update_partition(part, content)
      \/ \E i \in 1..(Len(todo) + 1) : todo' = SubSeq(todo, i, Len(todo))
  BY DEF SyncSlots, FlashBlock, Finish
<1>5. Clean(todo') BY <1>1, <1>3, <1>4, CleanTail, CleanEmpty, CleanPartition, CleanSuffix
<1> QED BY <1>1, <1>2, <1>5, CleanStep

\* vbnv_readwrite: what is to be written is what is there with the flag set.
LEMMA FlagKeepsFlags ==
  ASSUME FlagInv, VbnvReadWrite
  PROVE  FlagInv'
<1> DEFINE o == Head(todo)
<1> DEFINE block == LastUsed
<1> DEFINE curr == FirstEmpty
<1> DEFINE dummy == [nvram[block].flags EXCEPT ![o.at] = And(o.data, Mask[o.at])]
<1> DEFINE put(at) == Op("put", "NVRAM", at, dummy)
<1> DEFINE wipe == Op("wipe", "NVRAM", 1, 0)
<1>1. Next1("flag") /\ todo # <<>> /\ running # "off" /\ UNCHANGED <<nvram, running>>
  BY DEF VbnvReadWrite, Next1, FlagInv
<1>2. ~ Next1("put") /\ ~ Next1("wipe") BY <1>1 DEF Next1
<1>3. Clean(todo) /\ Clean(Tail(todo)) BY <1>1, <1>2, PlanNext, CleanTail
<1>4. o.at \in Flags /\ o.data \in 0..Mask[o.at]
  <2>1. todo[1] = o /\ 1 \in 1..Len(todo) BY <1>1, <1>3, TailOps DEF Clean
  <2> QED BY <1>1, <1>3, <2>1 DEF Clean, CleanOp, Next1
<1>5. And(o.data, Mask[o.at]) = o.data /\ o.data \in 0..15 BY <1>4, ValueTypes
<1>6. PICK at : Used(nvram, at) BY DEF FlagInv
<1>7. /\ block = at /\ at \in 1..NvBlocks /\ Top(nvram, block)
      /\ curr # 0 => Top(nvram, curr) /\ nvram[curr] = Empty
  BY <1>6, UsedIsLast, LastRead DEF Used, Top
<1>8. nvram[block].flags \in Values
  <2>1. nvram[block] \in Entries \cup {Empty} BY <1>7 DEF FlagInv, NvTyped
  <2>2. Empty.flags = Mask BY DEF Empty
  <2>3. \A e \in Entries : e.flags \in Values BY DEF Entries
  <2> QED BY <2>1, <2>2, <2>3, ValueTypes
<1>9. dummy \in Values /\ dummy = [nvram[block].flags EXCEPT ![o.at] = o.data]
  BY <1>4, <1>5, <1>8, ValueTypes
<1>10. intent' # <<>> => intent' = dummy
  <2>1. intent' = IF intent = <<>> THEN intent ELSE [intent EXCEPT ![o.at] = o.data]
    BY DEF VbnvReadWrite
  <2>2. intent # <<>> => nvram[block] = Entry(intent, "ok")
    BY <1>1, <1>2, LastRead DEF FlagInv, ReadsBack
  <2> QED BY <1>9, <2>1, <2>2 DEF Entry
<1>11. \/ can_overwrite(nvram[block].flags, dummy) /\ todo' = <<put(block)>> \o Tail(todo)
       \/ curr # 0 /\ todo' = <<put(curr)>> \o Tail(todo)
       \/ todo' = <<wipe, put(1)>> \o Tail(todo)
  <2>1. \/ can_overwrite(nvram[block].flags, dummy) /\ todo' = <<put(block)>> \o Tail(todo)
        \/ todo' = (IF curr # 0 THEN <<put(curr)>> ELSE <<wipe, put(1)>>) \o Tail(todo)
    BY Zenon DEF VbnvReadWrite
  <2> QED BY <2>1
<1> HIDE DEF o, block, curr, dummy
<1>12. \A a : put(a).op = "put" /\ put(a).at = a /\ put(a).data = dummy BY DEF Op
<1>13. \A a : Wanted(put(a), intent') BY <1>9, <1>10, <1>12 DEF Wanted
<1>14. wipe.op = "wipe" BY DEF Op
<1> HIDE DEF put, wipe
<1>15. NvPlan(todo', nvram', intent') /\ (Next1("put") \/ Next1("wipe"))'
  <2>1. CASE can_overwrite(nvram[block].flags, dummy) /\ todo' = <<put(block)>> \o Tail(todo)
    <3>1. \A f \in Flags : And(nvram[block].flags[f], dummy[f]) = dummy[f]
      BY <1>8, <1>9, <2>1, AndClears DEF can_overwrite, Values
    <3>2. Fits(put(block), nvram) BY <1>7, <1>12, <3>1 DEF Fits
    <3>3. todo' # <<>> /\ Head(todo') = put(block) BY <1>3, <2>1, PlanHead DEF Clean
    <3>4. NvPlan(todo', nvram', intent') BY <1>1, <1>3, <1>13, <2>1, <3>2 DEF NvPlan
    <3> QED BY <1>12, <3>3, <3>4 DEF Next1
  <2>2. CASE curr # 0 /\ todo' = <<put(curr)>> \o Tail(todo)
    <3>1. \A f \in Flags : And(nvram[curr].flags[f], dummy[f]) = dummy[f]
      <4>1. nvram[curr].flags = Mask BY <1>7, <2>2 DEF Empty
      <4> QED BY <1>9, <4>1, ValueTypes
    <3>2. Fits(put(curr), nvram) BY <1>7, <1>12, <2>2, <3>1 DEF Fits
    <3>3. todo' # <<>> /\ Head(todo') = put(curr) BY <1>3, <2>2, PlanHead DEF Clean
    <3>4. NvPlan(todo', nvram', intent') BY <1>1, <1>3, <1>13, <2>2, <3>2 DEF NvPlan
    <3> QED BY <1>12, <3>3, <3>4 DEF Next1
  <2>3. CASE todo' = <<wipe, put(1)>> \o Tail(todo)
    <3>1. todo' # <<>> /\ Head(todo') = wipe BY <1>3, <2>3, PlanHead DEF Clean
    <3>2. NvPlan(todo', nvram', intent') BY <1>3, <1>12, <1>13, <1>14, <2>3 DEF NvPlan
    <3> QED BY <1>14, <3>1, <3>2 DEF Next1
  <2> QED BY <1>11, <2>1, <2>2, <2>3
<1> QED BY <1>1, <1>15 DEF FlagInv

\* Writing the entry makes it the last one, and it reads as it was intended.
LEMMA PutKeepsFlags ==
  ASSUME FlagInv, NvPut
  PROVE  FlagInv'
<1> DEFINE o == Head(todo)
<1> DEFINE flags == [f \in Flags |-> And(nvram[o.at].flags[f], o.data[f])]
<1>1. Next1("put") /\ running # "off" /\ UNCHANGED running /\ todo' = Tail(todo)
  BY DEF NvPut, Next1, FlagInv
<1>2. Wanted(o, intent) /\ Fits(o, nvram) /\ Clean(Tail(todo)) BY <1>1, PlanNext
<1>3. flags = o.data
  <2>1. \A f \in Flags : flags[f] = o.data[f] BY <1>2 DEF Fits
  <2>2. o.data = [f \in Flags |-> o.data[f]] BY <1>2 DEF Wanted, Values
  <2> QED BY <2>1, <2>2
<1>4. \/ nvram' = [nvram EXCEPT ![o.at] = Entry(flags, IF flags = o.data THEN "ok" ELSE "bad")] /\ UNCHANGED intent
      \/ intent' = <<>> /\ UNCHANGED nvram
  BY Zenon DEF NvPut
<1> HIDE DEF o, flags
<1>5. NvPlan(todo', nvram', intent') BY <1>1, <1>2 DEF NvPlan
<1>6. CASE intent' = <<>> /\ UNCHANGED nvram
  <2>1. ReadsBack(nvram', intent') BY <1>6 DEF ReadsBack
  <2> QED BY <1>1, <1>5, <1>6, <2>1 DEF FlagInv
<1>7. CASE nvram' = [nvram EXCEPT ![o.at] = Entry(o.data, "ok")] /\ UNCHANGED intent
  <2> DEFINE e == Entry(o.data, "ok")
  <2>1. e # Empty BY DEF Entry, Empty
  <2>2. e \in Entries BY <1>2 DEF Entry, Entries, Wanted
  <2> HIDE DEF e
  <2>3. nvram' = [nvram EXCEPT ![o.at] = e] BY <1>7 DEF e
  <2>4. nvram = [i \in 1..NvBlocks |-> nvram[i]] BY DEF FlagInv, NvTyped
  <2>5. Used(nvram', o.at) /\ nvram'[o.at] = e
    <3>1. PICK at, r : at = o.at /\ r = e OBVIOUS
    <3>2. Top(nvram, at) /\ r # Empty BY <1>2, <2>1, <3>1 DEF Fits
    <3>3. Used([nvram EXCEPT ![at] = r], at) /\ [nvram EXCEPT ![at] = r][at] = r
      BY <2>4, <3>2, WrittenIsUsed
    <3> QED BY <2>3, <3>1, <3>3
  <2>6. NvTyped(nvram') BY <1>2, <2>2, <2>3 DEF FlagInv, NvTyped, Fits, Top
  <2>7. ReadsBack(nvram', intent')
    <3>1. LastOf(nvram') = o.at BY <2>5, UsedIsLast
    <3> QED BY <1>2, <1>7, <2>5, <3>1 DEF ReadsBack, Wanted, e
  <2> QED BY <1>1, <1>5, <2>5, <2>6, <2>7 DEF FlagInv
<1> QED BY <1>3, <1>4, <1>6, <1>7

LEMMA WipedNvram ==
  LET n == [i \in 1..NvBlocks |-> Empty] IN NvTyped(n) /\ Used(n, 1) /\ Top(n, 1) /\ n[1] = Empty
<1> DEFINE n == [i \in 1..NvBlocks |-> Empty]
<1>1. 1 \in 1..NvBlocks /\ NvBlocks \in Nat BY UpdaterAssumption
<1>2. \A i \in 1..NvBlocks : n[i] = Empty OBVIOUS
<1>3. NvTyped(n) BY DEF NvTyped
<1> HIDE DEF n
<1>4. Top(n, 1) BY <1>1, <1>2 DEF Top
<1> QED BY <1>1, <1>2, <1>3, <1>4 DEF Used, n

LEMMA WipeKeepsFlags ==
  ASSUME FlagInv, NvErase
  PROVE  FlagInv'
<1>1. Next1("wipe") /\ running # "off" /\ UNCHANGED running BY DEF NvErase, Next1, FlagInv
<1>2. PICK o, u : Tail(todo) = <<o>> \o u /\ Clean(u) /\ Wanted(o, intent) /\ o.at = 1
  BY <1>1, PlanNext
<1>3. Tail(Tail(todo)) = u /\ Tail(todo) # <<>> /\ Head(Tail(todo)) = o BY <1>2, PlanHead DEF Clean
<1>4. CASE todo' = Tail(Tail(todo)) /\ intent' = <<>> /\ UNCHANGED nvram
  <2>1. NvPlan(todo', nvram', intent') BY <1>2, <1>3, <1>4 DEF NvPlan
  <2>2. ReadsBack(nvram', intent') BY <1>4 DEF ReadsBack
  <2> QED BY <1>1, <1>4, <2>1, <2>2 DEF FlagInv
<1>5. CASE nvram' = [i \in 1..NvBlocks |-> Empty] /\ todo' = Tail(todo) /\ UNCHANGED intent
  <2>1. NvTyped(nvram') /\ Used(nvram', 1) /\ Top(nvram', 1) /\ nvram'[1] = Empty
    BY <1>5, WipedNvram
  <2>2. \A f \in Flags : And(nvram'[1].flags[f], o.data[f]) = o.data[f]
    <3>1. nvram'[1].flags = Mask BY <2>1 DEF Empty
    <3> QED BY <1>2, <3>1, ValueTypes DEF Wanted
  <2>3. Fits(o, nvram') BY <1>2, <2>1, <2>2 DEF Fits
  <2>4. NvPlan(todo', nvram', intent') BY <1>2, <1>5, <2>3 DEF NvPlan
  <2>5. Next1("put")' BY <1>2, <1>3, <1>5 DEF Next1, Wanted
  <2> QED BY <1>1, <2>1, <2>4, <2>5 DEF FlagInv
<1> QED BY <1>4, <1>5 DEF NvErase

LEMMA PowerKeepsFlags ==
  ASSUME FlagInv, PowerLoss
  PROVE  FlagInv'
<1>1. running' = "off" /\ todo' = <<>> /\ intent' = <<>> BY DEF PowerLoss
<1>2. NvPlan(todo', nvram', intent') BY <1>1, CleanEmpty DEF NvPlan
<1>3. nvram = [i \in 1..NvBlocks |-> nvram[i]] /\ NvTyped(nvram) BY DEF FlagInv, NvTyped
<1>4. \A e \in Entries \cup {Empty} : [e EXCEPT !.crc = "bad"] \in Entries /\ [e EXCEPT !.crc = "bad"] # Empty
  <2>1. [Empty EXCEPT !.crc = "bad"] = [flags |-> Mask, crc |-> "bad"] BY DEF Empty
  <2>2. [flags |-> Mask, crc |-> "bad"] \in Entries BY ValueTypes DEF Entries
  <2>3. \A e \in Entries : [e EXCEPT !.crc = "bad"] \in Entries /\ [e EXCEPT !.crc = "bad"].crc = "bad" BY DEF Entries
  <2>4. Empty.crc = "erased" BY DEF Empty
  <2> QED BY <2>1, <2>2, <2>3, <2>4
<1>5. NvTyped(nvram') /\ \E at : Used(nvram', at)
  <2>1. CASE UNCHANGED nvram BY <2>1 DEF FlagInv
  <2>2. CASE Next1("put") /\ nvram' = [nvram EXCEPT ![Head(todo).at].crc = "bad"]
    <3>1. Top(nvram, Head(todo).at) BY <2>2, PlanNext DEF Fits
    <3>2. PICK at, e : at = Head(todo).at /\ e = [nvram[at] EXCEPT !.crc = "bad"] OBVIOUS
    <3>3. at \in 1..NvBlocks /\ Top(nvram, at) BY <3>1, <3>2 DEF Top
    <3>4. e \in Entries /\ e # Empty BY <1>3, <1>4, <3>2, <3>3 DEF NvTyped
    <3>5. nvram' = [nvram EXCEPT ![at] = e] BY <2>2, <3>2
    <3>6. NvTyped(nvram') BY <1>3, <3>3, <3>4, <3>5 DEF NvTyped
    <3> QED BY <1>3, <3>3, <3>4, <3>5, <3>6, WrittenIsUsed
  <2>3. CASE nvram' = [i \in 1..NvBlocks |-> [nvram[i] EXCEPT !.crc = "bad"]]
    <3>1. \A i \in 1..NvBlocks : nvram'[i] \in Entries /\ nvram'[i] # Empty
      BY <1>3, <1>4, <2>3 DEF NvTyped
    <3>2. NvTyped(nvram') BY <2>3, <3>1 DEF NvTyped
    <3>3. NvBlocks \in 1..NvBlocks /\ NvBlocks \in Nat BY UpdaterAssumption
    <3>4. Used(nvram', NvBlocks) BY <3>1, <3>3 DEF Used, Top
    <3> QED BY <3>2, <3>4
  <2> QED BY <2>1, <2>2, <2>3 DEF PowerLoss
<1> QED BY <1>1, <1>2, <1>5 DEF FlagInv

\* The bootloader notes the try in an entry of its own.
LEMMA BootKeepsFlags ==
  ASSUME FlagInv, Boot
  PROVE  FlagInv'
<1> DEFINE last == nvram[LastUsed]
<1> DEFINE nv == IF last.crc = "ok" THEN last.flags ELSE Defaults
<1> DEFINE next == IF nv.fw_try_next = 0 THEN "A" ELSE "B"
<1> DEFINE spent == nv.try_count = 0 /\ nv.boot_result = VB2_FW_RESULT_TRYING
<1> DEFINE want == IF spent THEN Other(next) ELSE next
<1> DEFINE new == [nv EXCEPT !.try_count = IF @ = 0 THEN 0 ELSE @ - 1,
                             !.fw_try_next = IF want = "A" THEN 0 ELSE 1,
                             !.boot_result = IF nv.try_count > 0
                                             THEN VB2_FW_RESULT_TRYING ELSE 0]
<1>1. /\ running = "off" /\ todo = <<>> /\ UNCHANGED todo /\ intent' = new
      /\ nvram' = CASE new = nv /\ last.crc = "ok" -> nvram
                    [] FirstEmpty # 0 -> [nvram EXCEPT ![FirstEmpty] = Entry(new, "ok")]
                    [] OTHER -> [i \in 1..NvBlocks |-> IF i = 1 THEN Entry(new, "ok") ELSE Empty]
  BY DEF Boot, FlagInv
<1>2. PICK at : Used(nvram, at) BY DEF FlagInv
<1>3. /\ LastUsed = at /\ at \in 1..NvBlocks /\ LastOf(nvram) = at
      /\ FirstEmpty # 0 => Top(nvram, FirstEmpty)
  BY <1>2, UsedIsLast, LastRead DEF Used, Top
<1>4. last \in Entries \cup {Empty} BY <1>3 DEF FlagInv, NvTyped
<1>5. nv \in Values
  <2>1. Empty.crc # "ok" BY DEF Empty
  <2> HIDE DEF last
  <2> QED BY <1>4, <2>1, ValueTypes DEF Entries
<1>6. new \in Values
  <2> HIDE DEF nv, want
  <2> DEFINE a == IF nv.try_count = 0 THEN 0 ELSE nv.try_count - 1
  <2> DEFINE b == IF want = "A" THEN 0 ELSE 1
  <2> DEFINE c == IF nv.try_count > 0 THEN VB2_FW_RESULT_TRYING ELSE 0
  <2>1. nv.try_count \in 0..15 BY <1>5, MaskValues DEF Values
  <2>2. a \in 0..15 BY <2>1
  <2>3. b \in 0..1 /\ c \in 0..1 BY DEF VB2_FW_RESULT_TRYING
  <2>4. new = [[[nv EXCEPT !["try_count"] = a] EXCEPT !["fw_try_next"] = b] EXCEPT !["boot_result"] = c]
    BY <1>5 DEF Values
  <2> HIDE DEF a, b, c, new
  <2>5. [nv EXCEPT !["try_count"] = a] \in Values BY <1>5, <2>2, MaskValues, ValueTypes
  <2>6. [[nv EXCEPT !["try_count"] = a] EXCEPT !["fw_try_next"] = b] \in Values
    BY <2>3, <2>5, MaskValues, ValueTypes
  <2>7. PICK g \in Values : g = [[nv EXCEPT !["try_count"] = a] EXCEPT !["fw_try_next"] = b]
    BY <2>6
  <2>8. [g EXCEPT !["boot_result"] = c] \in Values
    <3>1. "boot_result" \in Flags /\ c \in 0..15 /\ c \in 0..Mask["boot_result"] BY <2>3, MaskValues
    <3> QED BY <3>1, ValueTypes
  <2> QED BY <2>4, <2>7, <2>8
<1>7. new = nv /\ last.crc = "ok" => last = Entry(new, "ok")
  <2>1. last.crc = "ok" => last \in Entries BY <1>4 DEF Empty
  <2> HIDE DEF last, new
  <2> QED BY <2>1 DEF Entries, Entry
<1> DEFINE e == Entry(new, "ok")
<1>8. e # Empty BY DEF Entry, Empty
<1>9. e \in Entries
  <2> HIDE DEF new
  <2> QED BY <1>6 DEF Entry, Entries
<1>10. nvram = [i \in 1..NvBlocks |-> nvram[i]] /\ NvTyped(nvram) BY DEF FlagInv, NvTyped
<1> HIDE DEF new, nv, last
<1>11. \/ nvram' = nvram /\ last = e
       \/ FirstEmpty # 0 /\ nvram' = [nvram EXCEPT ![FirstEmpty] = e]
       \/ nvram' = [i \in 1..NvBlocks |-> IF i = 1 THEN e ELSE Empty]
  BY <1>1, <1>7
<1>12. ReadsBack(nvram', intent') /\ NvTyped(nvram') /\ \E k : Used(nvram', k)
  <2>1. ASSUME NEW k, Used(nvram', k), nvram'[k] = e PROVE ReadsBack(nvram', intent')
    BY <1>1, <2>1, UsedIsLast DEF ReadsBack
  <2> HIDE DEF e
  <2>2. CASE nvram' = nvram /\ last = e
    <3>1. Used(nvram', at) /\ nvram'[at] = e BY <1>2, <1>3, <2>2 DEF last
    <3> QED BY <1>10, <2>1, <2>2, <3>1
  <2>3. CASE FirstEmpty # 0 /\ nvram' = [nvram EXCEPT ![FirstEmpty] = e]
    <3>1. PICK k, r : k = FirstEmpty /\ r = e OBVIOUS
    <3>2. Top(nvram, k) /\ r # Empty BY <1>3, <1>8, <2>3, <3>1
    <3>3. Used([nvram EXCEPT ![k] = r], k) /\ [nvram EXCEPT ![k] = r][k] = r
      BY <1>10, <3>2, WrittenIsUsed
    <3>4. Used(nvram', k) /\ nvram'[k] = e BY <2>3, <3>1, <3>3
    <3>5. NvTyped(nvram') BY <1>9, <1>10, <2>3, <3>1, <3>2 DEF NvTyped, Top
    <3> QED BY <2>1, <3>4, <3>5
  <2>4. CASE nvram' = [i \in 1..NvBlocks |-> IF i = 1 THEN e ELSE Empty]
    <3>1. 1 \in 1..NvBlocks /\ NvBlocks \in Nat BY UpdaterAssumption
    <3>2. nvram'[1] = e /\ \A i \in 1..NvBlocks : i # 1 => nvram'[i] = Empty BY <2>4, <3>1
    <3>3. Used(nvram', 1) BY <3>1, <3>2 DEF Used, Top
    <3>4. NvTyped(nvram') BY <1>9, <2>4 DEF NvTyped
    <3> QED BY <2>1, <3>2, <3>3, <3>4
  <2> QED BY <1>11, <2>2, <2>3, <2>4
<1>13. NvPlan(todo', nvram', intent') BY <1>1, CleanEmpty DEF NvPlan
<1>14. todo' = <<>> BY <1>1
<1> QED BY <1>12, <1>13, <1>14 DEF FlagInv

LEMMA FlagStep ==
  ASSUME FlagInv, [Next]_vars
  PROVE  FlagInv'
<1>1. CASE UNCHANGED vars
  <2>1. UNCHANGED <<nvram, todo, intent, running>> BY <1>1 DEF vars
  <2>2. NvTyped(nvram') /\ (\E at : Used(nvram', at)) /\ NvPlan(todo', nvram', intent')
    BY <2>1 DEF FlagInv
  <2> QED BY <2>1, <2>2 DEF FlagInv, Next1
<1> QED
  BY <1>1, CommandKeepsFlags, BlocksKeepFlags, FlagKeepsFlags, PutKeepsFlags, WipeKeepsFlags,
     PowerKeepsFlags, BootKeepsFlags DEF Next, Step

LEMMA FlagInit == Init => FlagInv
<1> SUFFICES ASSUME Init PROVE FlagInv OBVIOUS
<1>1. nvram = [i \in 1..NvBlocks |-> IF i = 1 THEN Entry(Defaults, "ok") ELSE Empty]
      /\ running = "off" /\ todo = <<>> /\ intent = Defaults
  BY DEF Init
<1>2. 1 \in 1..NvBlocks /\ NvBlocks \in Nat BY UpdaterAssumption
<1>3. Entry(Defaults, "ok") \in Entries /\ Entry(Defaults, "ok") # Empty
  BY ValueTypes DEF Entry, Entries, Empty
<1>4. NvTyped(nvram) BY <1>1, <1>3 DEF NvTyped
<1>5. nvram[1] # Empty /\ \A i \in 1..NvBlocks : i # 1 => nvram[i] = Empty BY <1>1, <1>2, <1>3
<1>6. Used(nvram, 1) BY <1>2, <1>5 DEF Used, Top
<1>7. NvPlan(todo, nvram, intent) BY <1>1, CleanEmpty DEF NvPlan
<1> QED BY <1>1, <1>4, <1>6, <1>7 DEF FlagInv

\* A flag that was set reads back and no other flag changed with it
\* (vbnv_readwrite), for any number of NVRAM entries, any
\* sequence of commands and boots, and whatever fails in the flash or the
\* device tree and wherever the power does.  The entry that is read is the one
\* before the first empty one, so the proof needs that the used entries come
\* first, and that an entry about to be written has no bit to set.
THEOREM FlagsKept == Spec => []FlagsReadBack
<1>1. Init => FlagInv BY FlagInit
<1>2. FlagInv /\ [Next]_vars => FlagInv' BY FlagStep
<1>3. FlagInv => FlagsReadBack
  BY LastRead DEF FlagInv, FlagsReadBack, ReadsBack
<1> QED BY <1>1, <1>2, <1>3, PTL DEF Spec
=============================================================================
