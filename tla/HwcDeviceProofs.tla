--------------------------- MODULE HwcDeviceProofs ---------------------------
(***************************************************************************)
(* BoLive, FrameAnswered (HwcDevice), ModeAsChosen, PipesRight             *)
(* (DrmResources) and LayersDrawn (GLWorker) for any number of handles,    *)
(* objects, displays, connectors, modes and layers, whatever frames are    *)
(* asked for and whichever calls fail.                                     *)
(*                                                                         *)
(* BoLive follows from the meaning of the reference count: for an object   *)
(* that is not just being made, it is the number of layers that hold the   *)
(* object, plus one while gralloc's slot does.  ModeAsChosen and PipesRight *)
(* follow from what each step of DrmResources::Init leaves behind, and     *)
(* FrameAnswered from what each phase of hwc_set does to the fences.       *)
(* LayersDrawn needs that no two slots have buffers at one address, and    *)
(* that the texture coordinates of the shaders and the ones SurfaceFlinger *)
(* asks for are the same quotients.                                        *)
(*                                                                         *)
(* What FlattenSeq returns is shown by the least place at which a sequence *)
(* would go wrong, since it is defined by a recursive function.            *)
(***************************************************************************)
EXTENDS HwcDevice, DrmResources, GLWorker, FiniteSetTheorems, WellFoundedInduction, TLAPS

Slotted(n) == \E h \in Handles : priv[h] = n
Held(n) == IF Slotted(n) THEN 1 ELSE 0

\* The object that ImportBuffer is making
Creating(n) == imp.n = n /\ imp.at \in {"import", "addfb", "priv"}

NvType ==
  /\ priv \in [Handles -> NvBufs \cup {NoBuf}]
  /\ ref \in [NvBufs -> Nat]
  /\ live \subseteq NvBufs /\ fb \subseteq NvBufs /\ doomed \subseteq NvBufs
  /\ taken \in [NvBufs -> Nat]
  /\ frames \in [NvBufs -> Nat]
  /\ imp \in [at : {"none", "found", "import", "addfb", "priv", "ok", "failed"},
              n : NvBufs \cup {NoBuf}, h : Handles \cup {NoBuf}]

\* What ImportBuffer knows about its handle and object
ImportInv ==
  /\ imp.at \in {"found", "import", "addfb", "priv"} => imp.n \in NvBufs /\ imp.h \in Handles
  /\ imp.at = "ok" => imp.n \in NvBufs
  /\ imp.at = "found" => priv[imp.h] = imp.n
  /\ imp.at \in {"import", "addfb", "priv"} => priv[imp.h] = NoBuf

OneSlot == \A g, h \in Handles : priv[g] = priv[h] /\ priv[h] # NoBuf => g = h

Gone(n) ==
  n \notin fb \cup doomed /\ taken[n] = 0 /\ frames[n] = 0 /\ ~ Slotted(n)

InMaking(n) ==
  /\ n \in live /\ n \notin doomed /\ ref[n] = 2
  /\ taken[n] = 0 /\ frames[n] = 0 /\ ~ Slotted(n)
  /\ n \in fb <=> imp.at = "priv"

Counted(n) ==
  /\ n \in fb
  /\ ref[n] = taken[n] + frames[n] + Held(n)
  /\ n \in doomed <=> ref[n] = 0

ObjectInv(n) ==
  /\ n \notin live => Gone(n)
  /\ Creating(n) => InMaking(n)
  /\ n \in live /\ ~ Creating(n) => Counted(n)

NvInv == NvType /\ ImportInv /\ OneSlot /\ \A n \in NvBufs : ObjectInv(n)

-----------------------------------------------------------------------------
(* The reference counts *)

LEMMA NvInitInv == NvInit => NvInv
BY NoBufAssumption
   DEF NvInit, NvInv, NvType, ImportInv, OneSlot, ObjectInv, Gone, InMaking, Counted,
       Creating, Slotted, Held, NoImport

LEMMA InvImpliesBoLive == NvInv => BoLive
<1> SUFFICES ASSUME NvInv, NEW n \in NvBufs
             PROVE  /\ taken[n] + frames[n] > 0 => n \in fb \cap live
                    /\ Slotted(n) => n \in fb \cap live
                    /\ n \in live => \/ n \in doomed \/ imp.n = n
                                     \/ taken[n] + frames[n] > 0 \/ Slotted(n)
  BY DEF BoLive, Slotted
<1>1. taken[n] \in Nat /\ frames[n] \in Nat
  BY DEF NvInv, NvType
<1>2. ObjectInv(n)
  BY DEF NvInv
<1>3. CASE n \notin live
  BY <1>1, <1>2, <1>3 DEF ObjectInv, Gone
<1>4. CASE Creating(n)
  BY <1>1, <1>2, <1>4 DEF ObjectInv, InMaking, Creating
<1>5. CASE n \in live /\ ~ Creating(n)
  BY <1>1, <1>2, <1>5 DEF ObjectInv, Counted, Held
<1> QED
  BY <1>3, <1>4, <1>5

\* An object whose variables and whose making stay as they are
LEMMA SameObject ==
  ASSUME NEW n \in NvBufs, ObjectInv(n),
         ref'[n] = ref[n], taken'[n] = taken[n], frames'[n] = frames[n],
         n \in live' <=> n \in live, n \in fb' <=> n \in fb,
         n \in doomed' <=> n \in doomed,
         Slotted(n)' <=> Slotted(n),
         Creating(n)' <=> Creating(n),
         Creating(n) => (imp'.at = "priv" <=> imp.at = "priv")
  PROVE  ObjectInv(n)'
BY DEF ObjectInv, Gone, InMaking, Counted, Held

LEMMA ImportBufferInv ==
  ASSUME NvInv, NEW h \in Handles, ImportBuffer(h)
  PROVE  NvInv'
<1> USE NoBufAssumption
<1>1. CASE priv[h] # NoBuf
  <2>1. /\ imp' = [at |-> "found", n |-> priv[h], h |-> h] /\ imp.at = "none"
        /\ UNCHANGED <<priv, ref, live, fb, taken, frames, doomed>>
    BY <1>1 DEF ImportBuffer, Importing
  <2>2. priv[h] \in NvBufs
    BY <1>1 DEF NvInv, NvType
  <2>3. NvType' /\ ImportInv' /\ OneSlot'
    BY <2>1, <2>2 DEF NvInv, NvType, ImportInv, OneSlot
  <2>4. ASSUME NEW n \in NvBufs PROVE ObjectInv(n)'
    <3>1. ObjectInv(n) /\ ~ Creating(n) /\ ~ Creating(n)' /\ (Slotted(n)' <=> Slotted(n))
      BY <2>1 DEF NvInv, Creating, Slotted
    <3> QED
      BY <2>1, <3>1, SameObject
  <2> QED
    BY <2>3, <2>4 DEF NvInv
<1>2. CASE priv[h] = NoBuf
  <2>1. PICK m \in NvBufs \ live :
          /\ live' = live \cup {m} /\ ref' = [ref EXCEPT ![m] = 2]
          /\ imp' = [at |-> "import", n |-> m, h |-> h] /\ imp.at = "none"
          /\ UNCHANGED <<priv, fb, taken, frames, doomed>>
    BY <1>2 DEF ImportBuffer, Importing
  <2>2. NvType' /\ ImportInv' /\ OneSlot'
    BY <1>2, <2>1 DEF NvInv, NvType, ImportInv, OneSlot
  <2>3. ASSUME NEW n \in NvBufs PROVE ObjectInv(n)'
    <3>1. ObjectInv(n) /\ ~ Creating(n) /\ (Slotted(n)' <=> Slotted(n))
      BY <2>1 DEF NvInv, Creating, Slotted
    <3>2. CASE n = m
      <4>1. Gone(n)
        BY <2>1, <3>1, <3>2 DEF ObjectInv
      <4>2. Creating(n)' /\ InMaking(n)'
        BY <2>1, <3>1, <3>2, <4>1 DEF Gone, InMaking, Creating, NvInv, NvType
      <4> QED
        BY <4>2 DEF ObjectInv, InMaking
    <3>3. CASE n # m
      <4>1. ~ Creating(n)' /\ ref'[n] = ref[n]
        BY <2>1, <3>3 DEF Creating, NvInv, NvType
      <4> QED
        BY <2>1, <3>1, <3>3, <4>1, SameObject
    <3> QED
      BY <3>2, <3>3
  <2> QED
    BY <2>2, <2>3 DEF NvInv
<1> QED
  BY <1>1, <1>2

LEMMA AddReferenceInv ==
  ASSUME NvInv, AddReference
  PROVE  NvInv'
<1> USE NoBufAssumption
<1>1. PICK m \in NvBufs : m = imp.n /\ priv[imp.h] = m /\ imp.h \in Handles
  BY DEF NvInv, ImportInv, AddReference, Importing
<1>2. /\ ref' = [ref EXCEPT ![m] = @ + 1] /\ taken' = [taken EXCEPT ![m] = @ + 1]
      /\ imp' = [at |-> "ok", n |-> m, h |-> NoBuf] /\ imp.at = "found"
      /\ UNCHANGED <<priv, live, fb, frames, doomed>>
  BY <1>1 DEF AddReference, Importing, Imported
<1>3. NvType' /\ ImportInv' /\ OneSlot'
  BY <1>1, <1>2 DEF NvInv, NvType, ImportInv, OneSlot
<1>4. ASSUME NEW n \in NvBufs PROVE ObjectInv(n)'
  <2>1. /\ ObjectInv(n) /\ ~ Creating(n) /\ ~ Creating(n)'
        /\ Slotted(n)' <=> Slotted(n)
    BY <1>2 DEF NvInv, Creating, Slotted
  <2>2. CASE n = m
    <3>1. Slotted(n)
      BY <1>1, <2>2 DEF Slotted
    <3>2. n \in live /\ Counted(n)
      BY <2>1, <3>1 DEF ObjectInv, Gone
    <3>3. ref[n] \in Nat /\ taken[n] \in Nat /\ frames[n] \in Nat
      BY DEF NvInv, NvType
    <3>4. ref'[n] = ref[n] + 1 /\ taken'[n] = taken[n] + 1
      BY <1>2, <2>2 DEF NvInv, NvType
    <3>5. Counted(n)'
      BY <1>2, <2>1, <3>1, <3>2, <3>3, <3>4 DEF Counted, Held
    <3> QED
      BY <1>2, <2>1, <3>2, <3>5 DEF ObjectInv
  <2>3. CASE n # m
    BY <1>2, <2>1, <2>3, SameObject DEF NvInv, NvType
  <2> QED
    BY <2>2, <2>3
<1> QED
  BY <1>3, <1>4 DEF NvInv

\* An import that fails deletes the object it was making.
LEMMA ImportFailsInv ==
  ASSUME NvInv, imp.at \in {"import", "addfb", "priv"}, ImportFails,
         live' = live \ {imp.n},
         fb' = fb \ {imp.n} \/ (imp.at = "import" /\ UNCHANGED fb),
         UNCHANGED <<priv, ref, taken, frames, doomed>>
  PROVE  NvInv'
<1> USE NoBufAssumption
<1>1. PICK m \in NvBufs : m = imp.n
  BY DEF NvInv, ImportInv
<1>2. imp' = [at |-> "failed", n |-> NoBuf, h |-> NoBuf]
  BY DEF ImportFails
<1>3. NvType' /\ ImportInv' /\ OneSlot'
  BY <1>2 DEF NvInv, NvType, ImportInv, OneSlot
<1>4. ASSUME NEW n \in NvBufs PROVE ObjectInv(n)'
  <2>1. ObjectInv(n) /\ ~ Creating(n)' /\ (Slotted(n)' <=> Slotted(n))
    BY <1>2 DEF NvInv, Creating, Slotted
  <2>2. CASE n = m
    <3>1. InMaking(n)
      BY <1>1, <2>1, <2>2 DEF ObjectInv, Creating
    <3>2. Gone(n)'
      BY <1>1, <2>1, <2>2, <3>1 DEF Gone, InMaking
    <3> QED
      BY <1>1, <2>1, <2>2, <3>2 DEF ObjectInv
  <2>3. CASE n # m
    <3>1. ~ Creating(n)
      BY <1>1, <2>3 DEF Creating
    <3> QED
      BY <1>1, <2>1, <2>3, <3>1, SameObject
  <2> QED
    BY <2>2, <2>3
<1> QED
  BY <1>3, <1>4 DEF NvInv

LEMMA MakingInv ==
  ASSUME NvInv, DrmImport \/ AddFB2
  PROVE  NvInv'
<1> USE NoBufAssumption
<1>1. CASE ImportFails
  BY <1>1, ImportFailsInv DEF DrmImport, AddFB2, Delete, Importing, ImportFails
<1>2. CASE ~ ImportFails
  <2>1. PICK m \in NvBufs : m = imp.n
    BY DEF NvInv, ImportInv, DrmImport, AddFB2, Importing
  <2>2. /\ \/ imp.at = "import" /\ imp' = [imp EXCEPT !.at = "addfb"] /\ UNCHANGED fb
           \/ imp.at = "addfb" /\ imp' = [imp EXCEPT !.at = "priv"] /\ fb' = fb \cup {m}
        /\ UNCHANGED <<priv, ref, live, taken, frames, doomed>>
    BY <1>2, <2>1 DEF DrmImport, AddFB2, Importing
  <2>3. /\ imp'.n = imp.n /\ imp'.h = imp.h
        /\ imp.at \in {"import", "addfb"} /\ imp'.at \in {"addfb", "priv"}
    BY <2>2 DEF NvInv, NvType
  <2>4. NvType' /\ ImportInv' /\ OneSlot'
    BY <2>1, <2>2, <2>3 DEF NvInv, NvType, ImportInv, OneSlot
  <2>5. ASSUME NEW n \in NvBufs PROVE ObjectInv(n)'
    <3>1. ObjectInv(n) /\ (Slotted(n)' <=> Slotted(n)) /\ (Creating(n)' <=> Creating(n))
      BY <2>2, <2>3 DEF NvInv, Creating, Slotted
    <3>2. CASE n = m
      <4>1. Creating(n) /\ InMaking(n)
        BY <2>1, <2>3, <3>1, <3>2 DEF ObjectInv, Creating
      <4>2. InMaking(n)'
        BY <2>2, <2>3, <3>1, <3>2, <4>1 DEF InMaking, NvInv, NvType
      <4> QED
        BY <2>2, <3>1, <4>1, <4>2 DEF ObjectInv, InMaking
    <3>3. CASE n # m
      <4>1. ~ Creating(n)
        BY <2>1, <3>3 DEF Creating
      <4> QED
        BY <2>2, <3>1, <3>3, <4>1, SameObject
    <3> QED
      BY <3>2, <3>3
  <2> QED
    BY <2>4, <2>5 DEF NvInv
<1> QED
  BY <1>1, <1>2

LEMMA SetPrivateInv ==
  ASSUME NvInv, GrallocSetNvBuffer
  PROVE  NvInv'
<1> USE NoBufAssumption
<1>1. CASE ImportFails
  <2>1. imp.at = "priv" /\ Delete(imp.n) /\ UNCHANGED <<priv, ref, taken, frames, doomed>>
    BY <1>1 DEF GrallocSetNvBuffer, Importing, ImportFails, Imported
  <2> QED
    BY <1>1, <2>1, ImportFailsInv DEF Delete
<1>2. CASE ~ ImportFails
  <2>1. PICK m \in NvBufs, g \in Handles : m = imp.n /\ g = imp.h /\ priv[g] = NoBuf
    BY DEF NvInv, ImportInv, GrallocSetNvBuffer, Importing
  <2>2. /\ priv' = [priv EXCEPT ![g] = m] /\ taken' = [taken EXCEPT ![m] = @ + 1]
        /\ imp' = [at |-> "ok", n |-> m, h |-> NoBuf] /\ imp.at = "priv"
        /\ UNCHANGED <<ref, live, fb, frames, doomed>>
    BY <1>2, <2>1 DEF GrallocSetNvBuffer, Importing, Imported
  <2>3. Creating(m) /\ InMaking(m)
    BY <2>1, <2>2 DEF NvInv, ObjectInv, Creating
  <2>4. NvType' /\ ImportInv'
    BY <2>1, <2>2 DEF NvInv, NvType, ImportInv
  <2>5. OneSlot'
    <3>1. \A h \in Handles : priv[h] # m
      BY <2>3 DEF InMaking, Slotted
    <3> QED
      BY <2>1, <2>2, <3>1 DEF NvInv, NvType, OneSlot
  <2>6. ASSUME NEW n \in NvBufs PROVE ObjectInv(n)'
    <3>1. ObjectInv(n) /\ ~ Creating(n)'
      BY <2>2 DEF NvInv, Creating
    <3>2. CASE n = m
      <4>1. Slotted(n)'
        BY <2>1, <2>2, <3>2 DEF Slotted, NvInv, NvType
      <4>2. taken'[n] = 1 /\ frames'[n] = 0 /\ ref'[n] = 2 /\ n \in live' /\ n \in fb'
            /\ n \notin doomed'
        BY <2>2, <2>3, <3>2 DEF InMaking, NvInv, NvType
      <4>3. Counted(n)'
        BY <4>1, <4>2 DEF Counted, Held
      <4> QED
        BY <3>1, <4>2, <4>3 DEF ObjectInv
    <3>3. CASE n # m
      <4>1. ~ Creating(n) /\ taken'[n] = taken[n]
        BY <2>1, <2>2, <3>3 DEF Creating, NvInv, NvType
      <4>2. Slotted(n)' <=> Slotted(n)
        BY <2>1, <2>2, <3>3 DEF Slotted, NvInv, NvType
      <4> QED
        BY <2>2, <3>1, <4>1, <4>2, SameObject
    <3> QED
      BY <3>2, <3>3
  <2> QED
    BY <2>4, <2>5, <2>6 DEF NvInv
<1> QED
  BY <1>1, <1>2

LEMMA ImportDoneInv ==
  ASSUME NvInv, ImportDone
  PROVE  NvInv'
<1> USE NoBufAssumption
<1>1. /\ imp' = NoImport /\ imp.at \in {"ok", "failed"}
      /\ UNCHANGED <<priv, ref, live, fb, taken, frames, doomed>>
  BY DEF ImportDone, Importing
<1>2. NvType' /\ ImportInv' /\ OneSlot'
  BY <1>1 DEF NvInv, NvType, ImportInv, OneSlot, NoImport
<1>3. ASSUME NEW n \in NvBufs PROVE ObjectInv(n)'
  <2>1. ObjectInv(n) /\ ~ Creating(n) /\ ~ Creating(n)' /\ (Slotted(n)' <=> Slotted(n))
    BY <1>1 DEF NvInv, Creating, Slotted, NoImport
  <2> QED
    BY <1>1, <2>1, SameObject
<1> QED
  BY <1>2, <1>3 DEF NvInv

\* An object that somebody holds is neither gone nor being made.
LEMMA HeldIsCounted ==
  ASSUME NvInv, NEW n \in NvBufs, taken[n] > 0 \/ frames[n] > 0 \/ Slotted(n)
  PROVE  n \in live /\ ~ Creating(n) /\ Counted(n)
BY DEF NvInv, ObjectInv, Gone, InMaking

\* Whoever gives up one of the references: the count goes down by one with
\* the number of holders.
LEMMA FetchSubCounts ==
  ASSUME NvInv, NEW n \in NvBufs, Counted(n), FetchSub(n), UNCHANGED <<live, fb, imp>>,
         n \in live, ~ Creating(n), ref[n] > 0,
         taken'[n] \in Nat, frames'[n] \in Nat,
         taken'[n] + frames'[n] + Held(n)' = taken[n] + frames[n] + Held(n) - 1
  PROVE  ObjectInv(n)'
<1>1. ref \in [NvBufs -> Nat]
  BY DEF NvInv, NvType
<1>2. ref'[n] = ref[n] - 1
  BY <1>1 DEF FetchSub
<1>3. n \in doomed' <=> ref'[n] = 0
  BY <1>1, <1>2 DEF FetchSub, Counted
<1>4. Counted(n)'
  <2>1. ref[n] = taken[n] + frames[n] + Held(n) /\ n \in fb'
    BY DEF Counted
  <2>2. Held(n) \in Nat /\ Held(n)' \in Nat
    BY DEF Held
  <2>3. taken[n] \in Nat /\ frames[n] \in Nat
    BY DEF NvInv, NvType
  <2>4. ref'[n] = taken'[n] + frames'[n] + Held(n)'
    BY <1>2, <2>1, <2>2, <2>3
  <2> QED
    BY <1>3, <2>1, <2>4 DEF Counted
<1>5. n \in live' /\ ~ Creating(n)'
  BY DEF Creating
<1> QED
  BY <1>4, <1>5 DEF ObjectInv

LEMMA FetchSubTypes ==
  ASSUME NvInv, NEW m \in NvBufs, ref[m] > 0, FetchSub(m)
  PROVE  /\ ref' \in [NvBufs -> Nat] /\ doomed' \subseteq NvBufs
         /\ \A n \in NvBufs \ {m} : ref'[n] = ref[n] /\ (n \in doomed' <=> n \in doomed)
BY DEF NvInv, NvType, FetchSub

LEMMA ReleaseInv ==
  ASSUME NvInv, NEW m \in NvBufs, ReleaseTaken(m) \/ ReleaseFrame(m)
  PROVE  NvInv'
<1>1. taken[m] \in Nat /\ frames[m] \in Nat /\ taken[m] + frames[m] > 0
  BY DEF NvInv, NvType, ReleaseTaken, ReleaseFrame
<1>2. /\ FetchSub(m) /\ UNCHANGED <<priv, live, fb, imp>>
      /\ \/ taken' = [taken EXCEPT ![m] = @ - 1] /\ frames' = frames /\ taken[m] > 0
         \/ frames' = [frames EXCEPT ![m] = @ - 1] /\ taken' = taken /\ frames[m] > 0
  BY DEF ReleaseTaken, ReleaseFrame
<1>3. m \in live /\ ~ Creating(m) /\ Counted(m)
  BY <1>1, HeldIsCounted
<1>4. ref[m] > 0 /\ Held(m) \in Nat
  BY <1>1, <1>3 DEF Counted, Held
<1>5. NvType' /\ ImportInv' /\ OneSlot'
  BY <1>1, <1>2, <1>4, FetchSubTypes DEF NvInv, NvType, ImportInv, OneSlot
<1>6. Held(m)' = Held(m)
  BY <1>2 DEF Held, Slotted
<1>7. /\ taken'[m] \in Nat /\ frames'[m] \in Nat
      /\ taken'[m] + frames'[m] = taken[m] + frames[m] - 1
  BY <1>1, <1>2 DEF NvInv, NvType
<1>8. ASSUME NEW n \in NvBufs PROVE ObjectInv(n)'
  <2>1. CASE n = m
    BY <1>1, <1>2, <1>3, <1>4, <1>6, <1>7, <2>1, FetchSubCounts
  <2>2. CASE n # m
    <3>1. /\ ObjectInv(n) /\ (Slotted(n)' <=> Slotted(n)) /\ (Creating(n)' <=> Creating(n))
          /\ taken'[n] = taken[n] /\ frames'[n] = frames[n]
      BY <1>2, <2>2 DEF NvInv, NvType, Slotted, Creating
    <3> QED
      BY <1>2, <1>4, <2>2, <3>1, FetchSubTypes, SameObject
  <2> QED
    BY <2>1, <2>2
<1> QED
  BY <1>5, <1>8 DEF NvInv

LEMMA GrallocReleaseInv ==
  ASSUME NvInv, NEW g \in Handles, NvGrallocRelease(g)
  PROVE  NvInv'
<1> USE NoBufAssumption
<1>1. PICK m \in NvBufs : m = priv[g]
  BY DEF NvInv, NvType, NvGrallocRelease
<1>2. /\ FetchSub(m) /\ UNCHANGED <<live, fb, taken, frames, imp>>
      /\ priv' = [priv EXCEPT ![g] = NoBuf] /\ g # imp.h
  BY <1>1 DEF NvGrallocRelease
<1>3. Slotted(m) /\ m \in live /\ ~ Creating(m) /\ Counted(m)
  BY <1>1, HeldIsCounted DEF Slotted
<1>4. taken[m] \in Nat /\ frames[m] \in Nat /\ taken'[m] = taken[m] /\ frames'[m] = frames[m]
  BY <1>2 DEF NvInv, NvType
<1>5. ref[m] > 0 /\ Held(m) = 1
  BY <1>3, <1>4 DEF Counted, Held
<1>6. ~ Slotted(m)'
  BY <1>1, <1>2 DEF Slotted, NvInv, NvType, OneSlot
<1>7. Held(m)' = 0
  BY <1>6 DEF Held
<1>8. NvType'
  BY <1>2, <1>5, FetchSubTypes DEF NvInv, NvType
<1>9. ImportInv' /\ OneSlot'
  BY <1>2 DEF NvInv, NvType, ImportInv, OneSlot
<1>10. ASSUME NEW n \in NvBufs PROVE ObjectInv(n)'
  <2>1. CASE n = m
    BY <1>2, <1>3, <1>4, <1>5, <1>7, <2>1, FetchSubCounts
  <2>2. CASE n # m
    <3>1. ObjectInv(n) /\ (Creating(n)' <=> Creating(n))
      BY <1>2 DEF NvInv, Creating
    <3>2. Slotted(n)' <=> Slotted(n)
      BY <1>1, <1>2, <2>2 DEF Slotted, NvInv, NvType
    <3> QED
      BY <1>2, <1>5, <2>2, <3>1, <3>2, FetchSubTypes, SameObject
  <2> QED
    BY <2>1, <2>2
<1> QED
  BY <1>8, <1>9, <1>10 DEF NvInv

LEMMA DestroyInv ==
  ASSUME NvInv, NEW m \in NvBufs, ReleaseBufferImpl(m)
  PROVE  NvInv'
<1>1. /\ m \in doomed /\ doomed' = doomed \ {m} /\ live' = live \ {m} /\ fb' = fb \ {m}
      /\ UNCHANGED <<priv, ref, taken, frames, imp>>
  BY DEF ReleaseBufferImpl, Delete
<1>2. m \in live /\ ~ Creating(m) /\ Counted(m)
  BY <1>1 DEF NvInv, ObjectInv, Gone, InMaking
<1>3. taken[m] = 0 /\ frames[m] = 0 /\ ~ Slotted(m)
  <2>1. taken[m] \in Nat /\ frames[m] \in Nat
    BY DEF NvInv, NvType
  <2> QED
    BY <1>1, <1>2, <2>1 DEF Counted, Held
<1>4. NvType' /\ ImportInv' /\ OneSlot'
  BY <1>1 DEF NvInv, NvType, ImportInv, OneSlot
<1>5. ASSUME NEW n \in NvBufs PROVE ObjectInv(n)'
  <2>1. ObjectInv(n) /\ (Slotted(n)' <=> Slotted(n)) /\ (Creating(n)' <=> Creating(n))
    BY <1>1 DEF NvInv, Slotted, Creating
  <2>2. CASE n = m
    <3>1. Gone(n)'
      BY <1>1, <1>3, <2>1, <2>2 DEF Gone
    <3> QED
      BY <1>1, <1>2, <2>1, <2>2, <3>1 DEF ObjectInv
  <2>3. CASE n # m
    BY <1>1, <2>1, <2>3, SameObject
  <2> QED
    BY <2>2, <2>3
<1> QED
  BY <1>4, <1>5 DEF NvInv

LEMMA HandOverInv ==
  ASSUME NvInv, NEW m \in NvBufs, HandOver(m)
  PROVE  NvInv'
<1>1. /\ taken[m] > 0 /\ taken' = [taken EXCEPT ![m] = @ - 1]
      /\ frames' = [frames EXCEPT ![m] = @ + 1]
      /\ UNCHANGED <<priv, ref, live, fb, doomed, imp>>
  BY DEF HandOver
<1>2. m \in live /\ ~ Creating(m) /\ Counted(m)
  BY <1>1, HeldIsCounted
<1>3. taken[m] \in Nat /\ frames[m] \in Nat
  BY DEF NvInv, NvType
<1>4. NvType' /\ ImportInv' /\ OneSlot'
  BY <1>1, <1>3 DEF NvInv, NvType, ImportInv, OneSlot
<1>5. ASSUME NEW n \in NvBufs PROVE ObjectInv(n)'
  <2>1. ObjectInv(n) /\ (Slotted(n)' <=> Slotted(n)) /\ (Creating(n)' <=> Creating(n))
    BY <1>1 DEF NvInv, Slotted, Creating
  <2>2. CASE n = m
    <3>1. taken'[n] = taken[n] - 1 /\ frames'[n] = frames[n] + 1
      BY <1>1, <2>2 DEF NvInv, NvType
    <3>2. Held(n) \in Nat /\ Held(n)' = Held(n)
      BY <2>1 DEF Held
    <3>3. Counted(n)'
      BY <1>1, <1>2, <1>3, <2>2, <3>1, <3>2 DEF Counted
    <3> QED
      BY <1>1, <1>2, <2>1, <2>2, <3>3 DEF ObjectInv
  <2>3. CASE n # m
    BY <1>1, <2>1, <2>3, SameObject DEF NvInv, NvType
  <2> QED
    BY <2>2, <2>3
<1> QED
  BY <1>4, <1>5 DEF NvInv

LEMMA NvStep == NvInv /\ [NvNext]_nvvars => NvInv'
<1> SUFFICES ASSUME NvInv, [NvNext]_nvvars PROVE NvInv'
  OBVIOUS
<1>1. CASE UNCHANGED nvvars
  BY <1>1 DEF nvvars, NvInv, NvType, ImportInv, OneSlot, ObjectInv, Gone, InMaking, Counted,
              Creating, Slotted, Held
<1> QED
  BY <1>1, ImportBufferInv, GrallocReleaseInv, AddReferenceInv, MakingInv, SetPrivateInv,
     ImportDoneInv, ReleaseInv, DestroyInv, HandOverInv DEF NvNext, ImportStep

-----------------------------------------------------------------------------
(* hwc_set uses the importer as NvNext says *)

ImportedType == imported \in [HwcDisplays -> Seq(NvBufs)]

LEMMA HwcStepIsNvStep ==
  ASSUME ImportedType, HwcNext
  PROVE  [NvNext]_nvvars
<1>1. CASE Prepare \/ PhaseOne \/ CreateComposition \/ Plan \/ Retire \/ Return
  BY <1>1 DEF Prepare, PhaseOne, CreateComposition, Plan, Retire, Return
<1>2. CASE ImportLayer
  BY <1>2 DEF ImportLayer, NvNext, ImportBuffer
<1>3. CASE QueueDisplay
  <2>1. CASE UNCHANGED nvvars
    BY <2>1
  <2>2. CASE \E d \in HwcDisplays : imported[d] # <<>> /\ HandOver(Head(imported[d]))
    <3>1. \A d \in HwcDisplays : imported[d] # <<>> => Head(imported[d]) \in NvBufs
      BY DEF ImportedType
    <3> QED
      BY <2>2, <3>1 DEF NvNext
  <2> QED
    BY <1>3, <2>1, <2>2 DEF QueueDisplay
<1>4. CASE DropLayer
  <2>1. \A d \in HwcDisplays : imported[d] # <<>> => Head(imported[d]) \in NvBufs
    BY DEF ImportedType
  <2> QED
    BY <1>4, <2>1 DEF DropLayer, NvNext
<1>5. CASE DropFrame \/ GrallocFree \/ Destroy
  BY <1>5 DEF DropFrame, GrallocFree, Destroy, NvNext
<1> QED
  BY <1>1, <1>2, <1>3, <1>4, <1>5 DEF HwcNext, HwcSet

LEMMA ImportedTypeStep ==
  ASSUME NvInv, ImportedType, HwcNext
  PROVE  ImportedType'
<1>1. CASE imported' = [d \in HwcDisplays |-> <<>>]
  BY <1>1 DEF ImportedType
<1>2. CASE UNCHANGED imported
  BY <1>2 DEF ImportedType
<1>3. ASSUME NEW d \in HwcDisplays, imported[d] # <<>>,
             imported' = [imported EXCEPT ![d] = Tail(@)]
      PROVE  ImportedType'
  <2>1. Tail(imported[d]) \in Seq(NvBufs)
    BY <1>3 DEF ImportedType
  <2> QED
    BY <1>3, <2>1 DEF ImportedType
<1>4. ASSUME NEW d, Importing("ok"), imported' = [imported EXCEPT ![d] = Append(@, imp.n)]
      PROVE  ImportedType'
  <2>1. imp.n \in NvBufs
    BY <1>4 DEF NvInv, ImportInv, Importing
  <2>2. d \in HwcDisplays => Append(imported[d], imp.n) \in Seq(NvBufs)
    BY <2>1 DEF ImportedType
  <2> QED
    BY <1>4, <2>2 DEF ImportedType
<1>5. CASE Prepare
  BY <1>1, <1>5 DEF Prepare
<1>6. CASE PhaseOne \/ CreateComposition \/ Plan \/ Retire \/ Return
  BY <1>2, <1>6 DEF PhaseOne, CreateComposition, Plan, Retire, Return
<1>7. CASE ImportLayer
  BY <1>2, <1>4, <1>7, Zenon DEF ImportLayer, hwcvars
<1>8. CASE QueueDisplay
  BY <1>2, <1>3, <1>8, Zenon DEF QueueDisplay
<1>9. CASE DropLayer
  BY <1>3, <1>9, Zenon DEF DropLayer
<1>10. CASE DropFrame \/ GrallocFree \/ Destroy
  BY <1>2, <1>10 DEF DropFrame, GrallocFree, Destroy, hwcvars
<1> QED
  BY <1>5, <1>6, <1>7, <1>8, <1>9, <1>10 DEF HwcNext, HwcSet

\* The framebuffer of every buffer that is held stays, and no object leaks,
\* whatever SurfaceFlinger, gralloc and the compositor's threads do.
THEOREM BoAlwaysLive == HwcSpec => []BoLive
<1> DEFINE I == NvInv /\ ImportedType
<1>1. HwcInit => I
  BY NvInitInv DEF HwcInit, ImportedType
<1>2. I /\ [HwcNext]_devvars => I'
  <2>1. CASE HwcNext
    BY <2>1, HwcStepIsNvStep, NvStep, ImportedTypeStep
  <2>2. CASE UNCHANGED devvars
    <3>1. UNCHANGED nvvars /\ UNCHANGED imported
      BY <2>2 DEF devvars, hwcvars
    <3> QED
      BY <3>1, NvStep DEF ImportedType
  <2> QED
    BY <2>1, <2>2
<1>3. I => BoLive
  BY InvImpliesBoLive
<1> QED
  BY <1>1, <1>2, <1>3, PTL DEF HwcSpec
-----------------------------------------------------------------------------
(* Modes and their ids (DrmResources) *)

Modes == UNION {Range(list) : list \in ModeLists}
ModeList == Seq([mode : Modes, id : Nat])

DrmType ==
  /\ card \in Topologies
  /\ kernel \in [C -> Seq(Modes)]
  /\ conn \in [C -> [display : Int, state : BOOLEAN, modes : ModeList, encoder : Nat]]
  /\ \A c \in C : conn[c].encoder \in {0} \cup Range(card.conns[c].encs)
  /\ DOMAIN encoder = DOMAIN card.encs
  /\ \A e \in DOMAIN card.encs : encoder[e] \in {0} \cup Range(card.encs[e].crtcs)
  /\ crtc \in [1..card.crtcs -> Int]
  /\ shown \in [C -> ModeList]
  /\ DOMAIN config_ids = C
  /\ mode_id \in Nat
  /\ opening \in [at : {"discover", "pipe", "config", "opened", "registered", "failed"}, k : Nat]
  /\ handler = Wait \/ (opening.at = "registered" /\ handler.k \in C)
  /\ handler.todo = "wait" => handler = Wait

\* An id stands for the same mode in both lists.
Agree(old, new) ==
  \A i \in DOMAIN old, j \in DOMAIN new : old[i].id = new[j].id => old[i].mode = new[j].mode

Given(list) == \A i \in DOMAIN list : list[i].id <= mode_id

\* The ids SurfaceFlinger can choose from, those in the connector's list and
\* those ever given out go together.
IdsInv(c) ==
  /\ Given(conn[c].modes) /\ Given(shown[c])
  /\ Agree(conn[c].modes, conn[c].modes) /\ Agree(shown[c], conn[c].modes)
  /\ opening.at # "registered" => shown[c] = <<>>
  /\ \A i \in DOMAIN config_ids[c] \cap DOMAIN shown[c] : config_ids[c][i] = shown[c][i].id

ModeInv == DrmType /\ (\A c \in C : IdsInv(c)) /\ ModeAsChosen

\* The ids that are in use when those up to from are, and those of m.
NextId(m, from) == from + Cardinality({i \in DOMAIN m : m[i].id > from})

LEMMA ModeEntries ==
  ASSUME NEW l \in ModeList, NEW i \in DOMAIN l
  PROVE  /\ l[i] \in [mode : Modes, id : Nat] /\ l[i].mode \in Modes /\ l[i].id \in Nat
         /\ l[i] = [mode |-> l[i].mode, id |-> l[i].id]
<1> DEFINE M == [mode : Modes, id : Nat]
<1>1. l \in Seq(M)
  BY DEF ModeList
<1> HIDE DEF M
<1>2. l[i] \in M
  BY <1>1
<1> QED BY <1>2 DEF M

\* What UpdateModes makes of the list old when the kernel reports list and ids
\* up to from are in use: a mode either is one of old, with its id, or gets an
\* id of its own above from.
LEMMA NewModesNumbered ==
  ASSUME NEW old \in ModeList, NEW list \in Seq(Modes), NEW from \in Nat,
         \A i \in DOMAIN old : old[i].id <= from, Agree(old, old),
         NEW m, m = NewModes(old, list, from),
         NEW n, n = NextId(m, from)
  PROVE  /\ m \in ModeList /\ n \in Nat /\ from <= n
         /\ Agree(m, m)
         /\ \A i \in DOMAIN m : /\ m[i].id <= n
                                /\ \/ m[i].id > from
                                   \/ \E j \in DOMAIN old : old[j] = m[i]
<1> DEFINE Known(mode) == \E i \in DOMAIN old : old[i].mode = mode
           Before(i) == {j \in 1..i : ~ Known(list[j])}
           U == {j \in DOMAIN list : ~ Known(list[j])}
           Of(mode) == CHOOSE j \in DOMAIN old : old[j].mode = mode
<1>1. m = [i \in DOMAIN list |->
             [mode |-> list[i],
              id |-> IF Known(list[i]) THEN old[Of(list[i])].id
                     ELSE from + Cardinality(Before(i))]]
  BY DEF NewModes
<1>2. DOMAIN list = 1..Len(list) /\ Len(list) \in Nat
  OBVIOUS
<1>3. IsFiniteSet(U)
  <2>1. IsFiniteSet(1..Len(list))
    BY <1>2, FS_Interval
  <2>2. U \in SUBSET (1..Len(list))
    BY <1>2
  <2> QED BY <2>1, <2>2, FS_Subset
<1>4. ASSUME NEW i \in U
      PROVE  /\ IsFiniteSet(Before(i)) /\ Cardinality(Before(i)) \in 1..Cardinality(U)
             /\ Cardinality(U) \in Nat
  <2>1. Before(i) \in SUBSET U /\ i \in Before(i)
    BY <1>2
  <2>2. IsFiniteSet(Before(i)) /\ Cardinality(Before(i)) <= Cardinality(U)
    BY <1>3, <2>1, FS_Subset
  <2>3. Cardinality(Before(i)) \in Nat /\ Cardinality(U) \in Nat
    BY <1>3, <2>2, FS_CardinalityType
  <2>4. Cardinality(Before(i)) # 0
    BY <2>1, <2>2, FS_EmptySet
  <2> QED BY <2>2, <2>3, <2>4
<1>5. ASSUME NEW i \in U, NEW j \in U, i < j
      PROVE  Cardinality(Before(i)) # Cardinality(Before(j))
  <2>1. Before(i) \in SUBSET Before(j) /\ j \in Before(j) /\ j \notin Before(i)
    BY <1>2, <1>5
  <2> QED BY <1>4, <2>1, FS_Subset
<1>6. \A i \in DOMAIN list : i \notin U =>
        Of(list[i]) \in DOMAIN old /\ old[Of(list[i])].mode = list[i]
  OBVIOUS
<1>7. \A i \in DOMAIN old : /\ old[i].mode \in Modes /\ old[i].id \in Nat
                            /\ old[i] = [mode |-> old[i].mode, id |-> old[i].id]
  BY ModeEntries
<1>8. \A i \in DOMAIN list : list[i] \in Modes
  OBVIOUS
<1>16. \A i \in DOMAIN list : Known(list[i]) <=> i \notin U
  OBVIOUS
<1> HIDE DEF Before, Of, Known, U
<1>9. ASSUME NEW i \in DOMAIN list
      PROVE  /\ m[i].mode = list[i] /\ m[i].id \in Nat
             /\ i \in U => m[i].id = from + Cardinality(Before(i))
             /\ i \notin U => \E j \in DOMAIN old : old[j] = m[i]
             /\ m[i] \in [mode : Modes, id : Nat]
  <2>1. i \in U => m[i].id = from + Cardinality(Before(i)) /\ m[i].id \in Nat
    <3>1. ASSUME i \in U PROVE m[i].id = from + Cardinality(Before(i))
      BY <1>1, <1>16, <3>1
    <3>2. i \in U => Cardinality(Before(i)) \in Nat
      BY <1>4
    <3> QED BY <3>1, <3>2
  <2>2. i \notin U => /\ m[i] = [mode |-> list[i], id |-> old[Of(list[i])].id]
                      /\ m[i].id \in Nat
    BY <1>1, <1>6, <1>7, <1>16
  <2>3. m[i].mode = list[i] /\ m[i] = [mode |-> m[i].mode, id |-> m[i].id]
    BY <1>1
  <2>4. m[i] \in [mode : Modes, id : Nat]
    BY <1>8, <2>1, <2>2, <2>3
  <2>5. i \notin U => old[Of(list[i])] = m[i]
    BY <1>6, <1>7, <2>2
  <2> QED BY <1>6, <2>1, <2>2, <2>3, <2>4, <2>5
<1>10. DOMAIN m = DOMAIN list
  BY <1>1
<1>11. m \in ModeList
  <2> DEFINE M == [mode : Modes, id : Nat]
  <2>1. \A i \in 1..Len(list) : m[i] \in M
    BY <1>2, <1>9
  <2> HIDE DEF M
  <2>2. m \in [1..Len(list) -> M]
    BY <1>1, <1>2, <2>1
  <2>3. m \in Seq(M)
    BY <1>2, <2>2
  <2> QED BY <2>3 DEF ModeList, M
<1>12. {i \in DOMAIN m : m[i].id > from} = U
  <2>1. ASSUME NEW i \in U PROVE i \in DOMAIN m /\ m[i].id > from
    <3>1. i \in DOMAIN list
      BY DEF U
    <3>2. m[i].id = from + Cardinality(Before(i))
      BY <1>9, <3>1
    <3>3. Cardinality(Before(i)) \in Nat /\ Cardinality(Before(i)) >= 1
      BY <1>4
    <3> QED BY <1>10, <3>1, <3>2, <3>3
  <2>2. \A i \in DOMAIN m : i \notin U => ~ (m[i].id > from)
    BY <1>7, <1>9, <1>10
  <2> QED BY <2>1, <2>2
<1>13. n \in Nat /\ from <= n /\ n = from + Cardinality(U)
  <2>1. Cardinality(U) \in Nat
    BY <1>3, FS_CardinalityType
  <2>2. n = from + Cardinality(U)
    BY <1>12 DEF NextId
  <2> QED BY <2>1, <2>2
<1>14. \A i \in DOMAIN m : /\ m[i].id <= n
                           /\ m[i].id > from <=> i \in U
                           /\ i \notin U => \E j \in DOMAIN old : old[j] = m[i]
  BY <1>4, <1>7, <1>9, <1>10, <1>13
<1>15. ASSUME NEW i \in DOMAIN m, NEW j \in DOMAIN m, m[i].id = m[j].id
       PROVE  m[i].mode = m[j].mode
  <2>1. CASE i \in U /\ j \in U
    <3>1. Cardinality(Before(i)) = Cardinality(Before(j))
      BY <1>4, <1>9, <1>10, <1>15, <2>1
    <3>2. ~ (i < j) /\ ~ (j < i)
      BY <1>5, <2>1, <3>1
    <3>3. i \in Nat /\ j \in Nat
      BY <1>2, <1>10
    <3> QED BY <3>2, <3>3
  <2>2. CASE i \notin U /\ j \notin U
    BY <1>14, <1>15, <2>2 DEF Agree
  <2>3. (i \in U) <=> (j \in U)
    BY <1>14, <1>15
  <2> QED BY <2>1, <2>2, <2>3
<1> QED BY <1>10, <1>11, <1>13, <1>14, <1>15 DEF Agree

\* UpdateModes of connector c: the new list carries on the old ids, and agrees
\* with every list the old one agreed with.
LEMMA UpdateModesAgree ==
  ASSUME DrmType, NEW c \in C, IdsInv(c), UpdateModes(c)
  PROVE  /\ conn' \in [C -> [display : Int, state : BOOLEAN, modes : ModeList, encoder : Nat]]
         /\ mode_id' \in Nat /\ mode_id <= mode_id'
         /\ \A b \in C \ {c} : conn'[b] = conn[b]
         /\ conn'[c].display = conn[c].display /\ conn'[c].encoder = conn[c].encoder
         /\ Agree(conn'[c].modes, conn'[c].modes) /\ Agree(shown[c], conn'[c].modes)
         /\ \A i \in DOMAIN conn'[c].modes : conn'[c].modes[i].id <= mode_id'
<1> DEFINE R == [display : Int, state : BOOLEAN, modes : ModeList, encoder : Nat]
           old == conn[c].modes
           m == NewModes(old, kernel[c], mode_id)
           n == NextId(m, mode_id)
<1>1. conn \in [C -> R] /\ kernel[c] \in Seq(Modes) /\ mode_id \in Nat /\ shown[c] \in ModeList
  BY DEF DrmType
<1>2. old \in ModeList /\ conn[c] \in R
  BY <1>1
<1>3. /\ \A i \in DOMAIN old : old[i].id <= mode_id
      /\ \A i \in DOMAIN shown[c] : shown[c][i].id <= mode_id
      /\ Agree(old, old) /\ Agree(shown[c], old)
  BY DEF IdsInv, Given
<1>4. /\ conn' = [conn EXCEPT ![c].state = kernel[c] # <<>>, ![c].modes = m]
      /\ mode_id' = n
  BY DEF UpdateModes, NextId
<1> HIDE DEF m, n, old
<1>5. /\ m \in ModeList /\ n \in Nat /\ mode_id <= n
      /\ Agree(m, m)
      /\ \A i \in DOMAIN m : /\ m[i].id <= n
                             /\ m[i].id > mode_id \/ \E j \in DOMAIN old : old[j] = m[i]
  <2>1. /\ m = NewModes(old, kernel[c], mode_id)
        /\ n = NextId(m, mode_id)
    BY DEF m, n
  <2>2. kernel[c] \in Seq(Modes) /\ mode_id \in Nat
    BY <1>1
  <2>3. /\ m \in ModeList /\ n \in Nat /\ mode_id <= n /\ Agree(m, m)
        /\ \A i \in DOMAIN m : /\ m[i].id <= n
                               /\ \/ m[i].id > mode_id
                                  \/ \E j \in DOMAIN old : old[j] = m[i]
    BY <1>2, <1>3, <2>1, <2>2, NewModesNumbered
  <2> QED BY <2>3
<1>6. Agree(shown[c], m)
  <2> SUFFICES ASSUME NEW i \in DOMAIN shown[c], NEW j \in DOMAIN m,
                      shown[c][i].id = m[j].id
               PROVE  shown[c][i].mode = m[j].mode
    BY DEF Agree
  <2>1. shown[c][i].id \in Nat /\ m[j].id \in Nat
    BY <1>1, <1>5, ModeEntries
  <2>2. PICK k \in DOMAIN old : old[k] = m[j]
    BY <1>1, <1>3, <1>5, <2>1
  <2> QED BY <1>3, <2>2 DEF Agree
<1>7. /\ conn' \in [C -> R] /\ conn'[c].modes = m
      /\ \A b \in C \ {c} : conn'[b] = conn[b]
      /\ conn'[c].display = conn[c].display /\ conn'[c].encoder = conn[c].encoder
  BY <1>1, <1>2, <1>4, <1>5
<1> QED BY <1>4, <1>5, <1>6, <1>7

LEMMA IdsOnwards ==
  ASSUME DrmType, NEW c \in C, IdsInv(c), mode_id' \in Nat, mode_id <= mode_id',
         conn'[c].modes = conn[c].modes,
         shown'[c] = shown[c], config_ids'[c] = config_ids[c],
         opening'.at # "registered" => opening.at # "registered"
  PROVE  IdsInv(c)'
<1>1. conn[c].modes \in ModeList /\ shown[c] \in ModeList /\ mode_id \in Nat
  BY DEF DrmType
<1>2. Given(conn[c].modes)' /\ Given(shown[c])'
  BY <1>1, ModeEntries DEF IdsInv, Given
<1> QED BY <1>2 DEF IdsInv, Agree

\* get_display_configs: SurfaceFlinger is shown the connector's list.
LEMMA ConfigsAgree ==
  ASSUME DrmType, \A c \in C : IdsInv(c), UNCHANGED card,
         opening.at = "registered", opening'.at = "registered",
         NEW c \in C, GetDisplayConfigs(c)
  PROVE  /\ conn' \in [C -> [display : Int, state : BOOLEAN, modes : ModeList, encoder : Nat]]
         /\ shown' \in [C -> ModeList] /\ DOMAIN config_ids' = C /\ mode_id' \in Nat
         /\ \A b \in C : IdsInv(b)'
<1>1. /\ conn' \in [C -> [display : Int, state : BOOLEAN, modes : ModeList, encoder : Nat]]
      /\ mode_id' \in Nat /\ mode_id <= mode_id'
      /\ \A b \in C \ {c} : conn'[b] = conn[b]
      /\ Agree(conn'[c].modes, conn'[c].modes)
      /\ \A i \in DOMAIN conn'[c].modes : conn'[c].modes[i].id <= mode_id'
  BY UpdateModesAgree DEF GetDisplayConfigs
<1>2. shown' = [shown EXCEPT ![c] = conn'[c].modes] /\ shown \in [C -> ModeList]
      /\ config_ids' = [config_ids EXCEPT ![c] = FirstIds(conn'[c].modes, Len(conn'[c].modes))]
      /\ DOMAIN config_ids = C
  BY DEF GetDisplayConfigs, DrmType
<1>3. conn'[c].modes \in ModeList
  BY <1>1
<1>4. shown' \in [C -> ModeList] /\ shown'[c] = conn'[c].modes
      /\ DOMAIN config_ids' = C
      /\ config_ids'[c] = FirstIds(conn'[c].modes, Len(conn'[c].modes))
  BY <1>2, <1>3
<1>5. IdsInv(c)'
  <2>1. \A i \in DOMAIN config_ids'[c] : config_ids'[c][i] = conn'[c].modes[i].id
    BY <1>4 DEF FirstIds
  <2>2. Given(conn[c].modes)' /\ Given(shown[c])'
    BY <1>1, <1>4 DEF Given
  <2>3. Agree(conn[c].modes, conn[c].modes)' /\ Agree(shown[c], conn[c].modes)'
    BY <1>1, <1>4 DEF Agree
  <2> QED BY <1>4, <2>1, <2>2, <2>3 DEF IdsInv
<1>6. ASSUME NEW b \in C, b # c PROVE IdsInv(b)'
  <2>1. conn'[b] = conn[b] /\ shown'[b] = shown[b] /\ config_ids'[b] = config_ids[b]
    BY <1>1, <1>2, <1>6
  <2> QED BY <1>1, <2>1, IdsOnwards
<1> QED BY <1>1, <1>4, <1>5, <1>6

LEMMA LeastOf ==
  ASSUME NEW I \in SUBSET Nat, I # {}
  PROVE  \E x \in I : \A y \in I : x <= y
<1>1. PICK x \in I : \A y \in I : ~ (<<y, x>> \in OpToRel(<, Nat))
  BY WFMin, NatLessThanWellFounded, Zenon
<1>2. ASSUME NEW y \in I PROVE ~ (y < x)
  BY <1>1, Zenon DEF OpToRel
<1>3. \A y \in I : x <= y
  BY <1>2
<1> QED BY <1>3

LEMMA FirstOfServes ==
  ASSUME NEW order, NEW good \in SUBSET Nat, good # {}
  PROVE  \E i \in good : FirstOf(order, good) = order[i]
BY LeastOf DEF FirstOf

LEMMA CardShape ==
  ASSUME DrmType
  PROVE  /\ card.crtcs \in Nat
         /\ DOMAIN card.encs = 1..Len(card.encs) /\ Len(card.encs) \in Nat
         /\ \A e \in DOMAIN card.encs : card.encs[e].crtcs \in Seq(1..card.crtcs)
         /\ C = 1..Len(card.conns) /\ Len(card.conns) \in Nat /\ 1 \in C
         /\ \A c \in C : card.conns[c].encs \in Seq(DOMAIN card.encs)
<1> DEFINE X == [crtcs : Seq(1..card.crtcs), cur : 0..card.crtcs]
           K == [type : {"internal", "external", "other"},
                 encs : Seq(DOMAIN card.encs), cur : 0..Len(card.encs)]
<1>1. /\ card.crtcs \in Nat /\ card.encs \in Seq(X) /\ card.conns \in Seq(K)
      /\ card.conns # <<>>
  BY DrmAssumption DEF DrmType
<1> HIDE DEF X, K
<1>2. /\ \A e \in DOMAIN card.encs : card.encs[e] \in X
      /\ \A c \in DOMAIN card.conns : card.conns[c] \in K
      /\ DOMAIN card.encs = 1..Len(card.encs) /\ Len(card.encs) \in Nat
      /\ DOMAIN card.conns = 1..Len(card.conns) /\ Len(card.conns) \in Nat
  BY <1>1
<1>3. 1 \in DOMAIN card.conns
  BY <1>1, <1>2
<1> QED BY <1>1, <1>2, <1>3 DEF X, K, C

LEMMA EntriesIn ==
  ASSUME NEW S, NEW s \in Seq(S)
  PROVE  Range(s) \subseteq S
<1>1. DOMAIN s = 1..Len(s) /\ Len(s) \in Nat
  OBVIOUS
<1>2. \A i \in 1..Len(s) : s[i] \in S
  OBVIOUS
<1> QED BY <1>1, <1>2 DEF Range

\* A list of which the first entry may be the one in use.
LEMMA InUseFirst ==
  ASSUME NEW S, NEW s \in Seq(S), NEW x, x \in {0} \cup Range(s),
         NEW order, order = (IF x = 0 THEN <<>> ELSE <<x>>) \o s
  PROVE  /\ DOMAIN order \subseteq Nat
         /\ \A i \in DOMAIN order : order[i] \in Range(s)
<1>1. \A i \in DOMAIN s : s[i] \in Range(s)
  BY DEF Range
<1>2. CASE x = 0
  <2>1. order = s
    BY <1>2
  <2> QED BY <1>1, <2>1
<1>3. CASE x # 0
  <2>1. order = <<x>> \o s /\ x \in Range(s)
    BY <1>3
  <2>2. s \in Seq(Range(s))
    BY <1>1
  <2>3. order \in Seq(Range(s))
    BY <2>1, <2>2
  <2> QED BY <2>3
<1> QED BY <1>2, <1>3

LEMMA TryFinds ==
  ASSUME DrmType, NEW e \in DOMAIN card.encs, NEW d, NEW x,
         x = TryEncoderForDisplay(d, e), x # 0
  PROVE  x \in Range(card.encs[e].crtcs) /\ x \in 1..card.crtcs /\ can_bind(x, d)
<1> DEFINE order == (IF encoder[e] = 0 THEN <<>> ELSE <<encoder[e]>>) \o card.encs[e].crtcs
           good == {i \in DOMAIN order : can_bind(order[i], d)}
<1>1. card.encs[e].crtcs \in Seq(1..card.crtcs)
  BY CardShape
<1>2. encoder[e] \in {0} \cup Range(card.encs[e].crtcs)
  BY DEF DrmType
<1>3. x = FirstOf(order, good)
  BY DEF TryEncoderForDisplay
<1> HIDE DEF order
<1>4. DOMAIN order \subseteq Nat /\ \A i \in DOMAIN order : order[i] \in Range(card.encs[e].crtcs)
  BY <1>1, <1>2, InUseFirst DEF order
<1>5. good # {} /\ good \in SUBSET Nat
  BY <1>3, <1>4 DEF FirstOf
<1>6. PICK i \in good : x = order[i]
  BY <1>3, <1>5, FirstOfServes
<1>7. Range(card.encs[e].crtcs) \subseteq 1..card.crtcs
  BY <1>1, EntriesIn
<1> QED BY <1>4, <1>6, <1>7

LEMMA EncoderFinds ==
  ASSUME DrmType, NEW c \in C, NEW e, e = EncoderFor(c), e # 0
  PROVE  /\ e \in Range(card.conns[c].encs) /\ e \in DOMAIN card.encs
         /\ TryEncoderForDisplay(conn[c].display, e) # 0
<1> DEFINE order == (IF conn[c].encoder = 0 THEN <<>> ELSE <<conn[c].encoder>>)
                    \o card.conns[c].encs
           good == {i \in DOMAIN order : TryEncoderForDisplay(conn[c].display, order[i]) # 0}
<1>1. card.conns[c].encs \in Seq(DOMAIN card.encs)
  BY CardShape
<1>2. conn[c].encoder \in {0} \cup Range(card.conns[c].encs)
  BY DEF DrmType
<1>3. e = FirstOf(order, good)
  BY DEF EncoderFor
<1> HIDE DEF order
<1>4. DOMAIN order \subseteq Nat /\ \A i \in DOMAIN order : order[i] \in Range(card.conns[c].encs)
  BY <1>1, <1>2, InUseFirst DEF order
<1>5. good # {} /\ good \in SUBSET Nat
  BY <1>3, <1>4 DEF FirstOf
<1>6. PICK i \in good : e = order[i]
  BY <1>3, <1>5, FirstOfServes
<1>7. Range(card.conns[c].encs) \subseteq DOMAIN card.encs
  BY <1>1, EntriesIn
<1> QED BY <1>4, <1>6, <1>7

\* What CreateDisplayPipe does when it finds an encoder e and a CRTC x.
PipeMade(c, e, x) ==
  /\ e \in Range(card.conns[c].encs) /\ e \in DOMAIN card.encs
  /\ x \in Range(card.encs[e].crtcs) /\ x \in 1..card.crtcs /\ can_bind(x, conn[c].display)
  /\ encoder' = [encoder EXCEPT ![e] = x]
  /\ crtc' = [crtc EXCEPT ![x] = conn[c].display]
  /\ conn' = [conn EXCEPT ![c].encoder = e]
  /\ opening' = IF c = Len(card.conns) THEN [at |-> "config", k |-> 1]
                ELSE [opening EXCEPT !.k = c + 1]

LEMMA PipeSteps ==
  ASSUME DrmType, CreateDisplayPipe
  PROVE  /\ opening.at = "pipe" /\ opening.k \in C
         /\ \/ opening' = [at |-> "failed", k |-> 0] /\ UNCHANGED <<conn, encoder, crtc>>
            \/ \E e, x : PipeMade(opening.k, e, x)
         /\ UNCHANGED <<card, kernel, mode_id, config_ids, shown, picked, handler>>
<1> DEFINE c == opening.k
           e == EncoderFor(c)
           x == TryEncoderForDisplay(conn[c].display, e)
<1>1. /\ opening.at = "pipe" /\ c \in C
      /\ UNCHANGED <<card, kernel, mode_id, config_ids, shown, picked, handler>>
  BY DEF CreateDisplayPipe
<1>2. CASE e = 0
  BY <1>1, <1>2 DEF CreateDisplayPipe
<1>3. CASE e # 0
  <2>1. /\ encoder' = [encoder EXCEPT ![e] = x]
        /\ crtc' = [crtc EXCEPT ![x] = conn[c].display]
        /\ conn' = [conn EXCEPT ![c].encoder = e]
        /\ opening' = IF c = Len(card.conns) THEN [at |-> "config", k |-> 1]
                      ELSE [opening EXCEPT !.k = c + 1]
    BY <1>3 DEF CreateDisplayPipe
  <2>2. e \in Range(card.conns[c].encs) /\ e \in DOMAIN card.encs /\ x # 0
    BY <1>1, <1>3, EncoderFinds
  <2>3. x \in Range(card.encs[e].crtcs) /\ x \in 1..card.crtcs /\ can_bind(x, conn[c].display)
    BY <2>2, TryFinds
  <2>4. PipeMade(c, e, x)
    BY <2>1, <2>2, <2>3 DEF PipeMade
  <2> QED BY <1>1, <2>4
<1> QED BY <1>2, <1>3

\* A step that leaves the lists and ids alone.
LEMMA ListsKept ==
  ASSUME DrmType, \A c \in C : IdsInv(c), UNCHANGED <<card, shown, config_ids, mode_id>>,
         \A c \in C : conn'[c].modes = conn[c].modes,
         opening'.at # "registered" => opening.at # "registered"
  PROVE  \A c \in C : IdsInv(c)'
BY IdsOnwards DEF DrmType

LEMMA ReportedLists ==
  ASSUME NEW list \in {<<>>} \cup ModeLists
  PROVE  list \in Seq(Modes)
<1>1. CASE list = <<>>
  BY <1>1
<1>2. CASE list \in ModeLists
  <2>1. list \in Seq(Range(list))
    BY <1>2, DrmAssumption
  <2>2. Range(list) \subseteq Modes
    BY <1>2 DEF Modes
  <2>3. DOMAIN list = 1..Len(list) /\ Len(list) \in Nat
        /\ \A i \in 1..Len(list) : list[i] \in Range(list)
    BY <2>1
  <2>4. \A i \in 1..Len(list) : list[i] \in Modes
    BY <2>2, <2>3
  <2>5. list \in [1..Len(list) -> Modes]
    BY <2>1, <2>3, <2>4
  <2> QED BY <2>3, <2>5
<1> QED BY <1>1, <1>2

LEMMA NumberIsNat ==
  ASSUME DrmType, NEW c \in C
  PROVE  NumberOf(c) \in Nat
<1> DEFINE I == {b \in C : Internal(b)}
           f == CHOOSE b \in I : \A a \in I : b <= a
           S == {b \in 1..c : b # f}
<1>1. c \in Nat
  BY CardShape
<1>2. IsFiniteSet(S)
  BY <1>1, FS_Interval, FS_Subset
<1>3. Cardinality(S) \in Nat
  BY <1>2, FS_CardinalityType
<1>4. NumberOf(c) \in {0, Cardinality(S), c}
  BY DEF NumberOf
<1> QED BY <1>1, <1>3, <1>4

LEMMA InitModes == DrmInit => ModeInv
<1> SUFFICES ASSUME DrmInit PROVE ModeInv
  OBVIOUS
<1>1. card \in Topologies /\ kernel \in [C -> {<<>>} \cup ModeLists]
  BY DEF DrmInit
<1>2. kernel \in [C -> Seq(Modes)]
  BY <1>1, ReportedLists
<1>3. <<>> \in ModeList
  BY DEF ModeList
<1>4. /\ \A c \in C : card.conns[c].cur \in {0} \cup Range(card.conns[c].encs)
      /\ \A e \in DOMAIN card.encs : card.encs[e].cur \in {0} \cup Range(card.encs[e].crtcs)
  BY <1>1, DrmAssumption DEF C
<1>5. ASSUME NEW c \in C PROVE card.conns[c].cur \in Nat
  <2> DEFINE K == [type : {"internal", "external", "other"},
                   encs : Seq(DOMAIN card.encs), cur : 0..Len(card.encs)]
           X == [crtcs : Seq(1..card.crtcs), cur : 0..card.crtcs]
  <2>1. card.conns \in Seq(K) /\ card.encs \in Seq(X)
    BY <1>1, DrmAssumption
  <2> HIDE DEF K, X
  <2>2. card.conns[c] \in K
    BY <2>1 DEF C
  <2> QED BY <2>1, <2>2 DEF K
<1>6. card.crtcs \in Nat
  BY <1>1, DrmAssumption
<1>7. DrmType
  <2>1. conn \in [C -> [display : Int, state : BOOLEAN, modes : ModeList, encoder : Nat]]
    BY <1>3, <1>5 DEF DrmInit, Unbound
  <2>2. crtc \in [1..card.crtcs -> Int]
    BY <1>6 DEF DrmInit, Unbound
  <2>3. \A c \in C : conn[c].encoder \in {0} \cup Range(card.conns[c].encs)
    BY <1>4 DEF DrmInit
  <2>4. /\ DOMAIN encoder = DOMAIN card.encs
        /\ \A e \in DOMAIN card.encs : encoder[e] \in {0} \cup Range(card.encs[e].crtcs)
    BY <1>4 DEF DrmInit
  <2>5. shown \in [C -> ModeList] /\ DOMAIN config_ids = C /\ mode_id \in Nat
    BY <1>3 DEF DrmInit
  <2>6. opening = [at |-> "discover", k |-> 1] /\ handler = Wait
    BY DEF DrmInit
  <2> QED BY <1>1, <1>2, <2>1, <2>2, <2>3, <2>4, <2>5, <2>6 DEF DrmType
<1>8. \A c \in C : IdsInv(c)
  BY DEF DrmInit, IdsInv, Given, Agree
<1> QED BY <1>7, <1>8 DEF ModeInv, ModeAsChosen, DrmInit

LEMMA NextModes == ModeInv /\ [DrmNext]_drmvars => ModeInv' /\ UNCHANGED card
<1> SUFFICES ASSUME DrmType, \A c \in C : IdsInv(c), ModeAsChosen, [DrmNext]_drmvars
             PROVE  DrmType' /\ (\A c \in C : IdsInv(c)') /\ ModeAsChosen' /\ UNCHANGED card
  BY DEF ModeInv, C
<1> DEFINE R == [display : Int, state : BOOLEAN, modes : ModeList, encoder : Nat]
           Places == [at : {"discover", "pipe", "config", "opened", "registered", "failed"},
                      k : Nat]
<1>0. /\ card \in Topologies /\ kernel \in [C -> Seq(Modes)] /\ conn \in [C -> R]
      /\ shown \in [C -> ModeList] /\ DOMAIN config_ids = C /\ mode_id \in Nat
      /\ opening \in Places
      /\ crtc \in [1..card.crtcs -> Int]
      /\ DOMAIN encoder = DOMAIN card.encs
      /\ handler = Wait \/ (opening.at = "registered" /\ handler.k \in C)
      /\ handler.todo = "wait" => handler = Wait
  BY DEF DrmType

\* Steps that change nothing but the kernel's modes, the queue, the events and
\* how far SurfaceFlinger has come.
<1>1. ASSUME UNCHANGED <<card, conn, encoder, crtc, mode_id, config_ids, shown>>,
             kernel' \in [C -> Seq(Modes)], opening' \in Places,
             opening.at = "registered" => opening'.at = "registered",
             handler' = Wait \/ (opening'.at = "registered" /\ handler'.k \in C),
             handler'.todo = "wait" => handler' = Wait
      PROVE  DrmType' /\ \A c \in C : IdsInv(c)'
  <2>1. DrmType'
    BY <1>1 DEF DrmType, C
  <2>2. \A c \in C : IdsInv(c)'
    BY <1>1, ListsKept
  <2> QED BY <2>1, <2>2

\* UpdateModes of one connector, with what else follows from it.
<1>2. ASSUME NEW c \in C, UpdateModes(c),
             UNCHANGED <<card, kernel, encoder, crtc, shown>>,
             opening' \in Places,
             opening.at = "registered" => opening'.at = "registered",
             opening'.at # "registered" \/ UNCHANGED config_ids,
             DOMAIN config_ids' = C, \A b \in C \ {c} : config_ids'[b] = config_ids[b],
             handler' = Wait \/ (opening'.at = "registered" /\ handler'.k \in C),
             handler'.todo = "wait" => handler' = Wait
      PROVE  DrmType' /\ \A b \in C : IdsInv(b)'
  <2>1. /\ conn' \in [C -> R]
        /\ mode_id' \in Nat /\ mode_id <= mode_id'
        /\ \A b \in C \ {c} : conn'[b] = conn[b]
        /\ conn'[c].encoder = conn[c].encoder
        /\ Agree(conn'[c].modes, conn'[c].modes) /\ Agree(shown[c], conn'[c].modes)
        /\ \A i \in DOMAIN conn'[c].modes : conn'[c].modes[i].id <= mode_id'
    BY <1>2, UpdateModesAgree
  <2>2. \A b \in C : conn'[b].encoder = conn[b].encoder
    BY <2>1
  <2>3. DrmType'
    BY <1>2, <2>1, <2>2 DEF DrmType, C
  <2>4. ASSUME NEW b \in C, b # c PROVE IdsInv(b)'
    BY <1>2, <2>1, <2>4, IdsOnwards
  <2>5. IdsInv(c)'
    <3>1. Given(shown[c])'
      BY <1>0, <1>2, <2>1, ModeEntries DEF IdsInv, Given
    <3>2. opening'.at # "registered" => shown'[c] = <<>>
      BY <1>2 DEF IdsInv
    <3>3. \A i \in DOMAIN config_ids'[c] \cap DOMAIN shown'[c] : config_ids'[c][i] = shown'[c][i].id
      BY <1>2, <3>2 DEF IdsInv
    <3> QED BY <1>2, <2>1, <3>1, <3>2, <3>3 DEF IdsInv, Given, Agree
  <2> QED BY <2>3, <2>4, <2>5

\* get_display_configs
<1>3. ASSUME NEW c \in C, GetDisplayConfigs(c), UNCHANGED <<card, kernel, encoder, crtc>>,
             opening.at = "registered", opening'.at = "registered", opening' \in Places,
             handler' = Wait \/ (opening'.at = "registered" /\ handler'.k \in C),
             handler'.todo = "wait" => handler' = Wait
      PROVE  DrmType' /\ \A b \in C : IdsInv(b)'
  <2>1. /\ conn' \in [C -> R]
        /\ shown' \in [C -> ModeList] /\ DOMAIN config_ids' = C /\ mode_id' \in Nat
        /\ \A b \in C : IdsInv(b)'
    BY <1>3, ConfigsAgree
  <2>2. \A b \in C : conn'[b].encoder = conn[b].encoder
    BY <1>3, UpdateModesAgree DEF GetDisplayConfigs
  <2>3. DrmType'
    BY <1>3, <2>1, <2>2 DEF DrmType, C
  <2> QED BY <2>1, <2>3
<1>4. ASSUME UNCHANGED picked PROVE ModeAsChosen'
  BY <1>4 DEF ModeAsChosen
<1>5. CASE Discover
  <2>1. UNCHANGED <<card, kernel, encoder, crtc, mode_id, config_ids, shown, picked, handler>>
        /\ opening.at = "discover" /\ opening'.at \in {"pipe", "failed"} /\ opening' \in Places
    BY <1>5 DEF Discover
  <2>2. /\ conn' \in [C -> R]
        /\ \A c \in C : conn'[c].modes = conn[c].modes /\ conn'[c].encoder = conn[c].encoder
    <3>1. CASE conn' = [c \in C |-> [conn[c] EXCEPT !.display = NumberOf(c)]]
      <4>1. \A c \in C : NumberOf(c) \in Int
        BY NumberIsNat
      <4> HIDE DEF NumberOf
      <4>2. \A c \in C : conn[c] \in R
        BY <1>0
      <4>3. \A c \in C : /\ [conn[c] EXCEPT !.display = NumberOf(c)] \in R
                         /\ [conn[c] EXCEPT !.display = NumberOf(c)].modes = conn[c].modes
                         /\ [conn[c] EXCEPT !.display = NumberOf(c)].encoder = conn[c].encoder
        BY <4>1, <4>2
      <4> QED BY <3>1, <4>3
    <3>2. CASE UNCHANGED conn
      BY <1>0, <3>2
    <3> QED BY <1>5, <3>1, <3>2 DEF Discover
  <2>3. DrmType'
    BY <2>1, <2>2 DEF DrmType, C
  <2>4. \A c \in C : IdsInv(c)'
    BY <2>1, <2>2, ListsKept
  <2> QED BY <1>4, <2>1, <2>3, <2>4
<1>6. CASE CreateDisplayPipe
  <2>1. /\ opening.at = "pipe" /\ opening.k \in C
        /\ \/ opening' = [at |-> "failed", k |-> 0] /\ UNCHANGED <<conn, encoder, crtc>>
           \/ \E e, x : PipeMade(opening.k, e, x)
        /\ UNCHANGED <<card, kernel, mode_id, config_ids, shown, picked, handler>>
    BY <1>6, PipeSteps
  <2>2. CASE opening' = [at |-> "failed", k |-> 0] /\ UNCHANGED <<conn, encoder, crtc>>
    BY <1>0, <1>1, <1>4, <2>1, <2>2
  <2>3. CASE \E e, x : PipeMade(opening.k, e, x)
    <3>1. PICK e, x : PipeMade(opening.k, e, x)
      BY <2>3
    <3>2. /\ e \in Range(card.conns[opening.k].encs) /\ e \in Nat
          /\ x \in Range(card.encs[e].crtcs) /\ x \in 1..card.crtcs
      BY <3>1, CardShape DEF PipeMade
    <3>3. opening'.at \in {"pipe", "config"} /\ opening' \in Places
      <4>1. opening.k + 1 \in Nat
        BY <2>1, CardShape
      <4> QED BY <1>0, <2>1, <3>1, <4>1 DEF PipeMade
    <3>4. conn' \in [C -> R] /\ \A c \in C : conn'[c].modes = conn[c].modes
      <4>1. conn' = [conn EXCEPT ![opening.k].encoder = e] /\ conn \in [C -> R]
        BY <1>0, <3>1 DEF PipeMade
      <4> QED BY <2>1, <3>2, <4>1
    <3>5. \A c \in C : conn'[c].encoder \in {0} \cup Range(card.conns[c].encs)
      BY <1>0, <2>1, <3>1, <3>2 DEF PipeMade, DrmType
    <3>6. crtc' \in [1..card.crtcs -> Int]
      BY <1>0, <2>1, <3>1, <3>2 DEF PipeMade
    <3>7. /\ DOMAIN encoder' = DOMAIN card.encs
          /\ \A d \in DOMAIN card.encs : encoder'[d] \in {0} \cup Range(card.encs[d].crtcs)
      BY <3>1, <3>2 DEF PipeMade, DrmType
    <3>8. DrmType'
      BY <1>0, <2>1, <3>3, <3>4, <3>5, <3>6, <3>7 DEF DrmType, C
    <3>9. \A c \in C : IdsInv(c)'
      BY <2>1, <3>4, ListsKept
    <3> QED BY <1>4, <2>1, <3>8, <3>9
  <2> QED BY <2>1, <2>2, <2>3
<1>7. CASE InitializeDisplay
  <2> DEFINE c == opening.k
  <2>1. /\ opening.at = "config" /\ c \in C /\ UpdateModes(c)
        /\ UNCHANGED <<card, kernel, encoder, crtc, shown, picked, handler>>
        /\ config_ids' = [config_ids EXCEPT ![c] = FirstIds(conn'[c].modes, 1)]
        /\ opening' = IF c = Len(card.conns) THEN [at |-> "opened", k |-> 0]
                      ELSE [opening EXCEPT !.k = c + 1]
    BY <1>7 DEF InitializeDisplay
  <2>4. opening'.at \in {"config", "opened"} /\ opening' \in Places
    <3>1. c + 1 \in Nat
      BY <1>0
    <3> QED BY <1>0, <2>1, <3>1
  <2>2. DOMAIN config_ids' = C /\ \A b \in C \ {c} : config_ids'[b] = config_ids[b]
    BY <1>0, <2>1
  <2> HIDE DEF c
  <2>3. DrmType' /\ \A b \in C : IdsInv(b)'
    BY <1>0, <1>2, <2>1, <2>2, <2>4
  <2> QED BY <1>4, <2>1, <2>3
<1>8. CASE register_procs
  BY <1>0, <1>1, <1>4, <1>8 DEF register_procs
<1>9. CASE QueryDisplay
  <2>1. /\ opening.k \in C /\ GetDisplayConfigs(opening.k)
        /\ UNCHANGED <<card, kernel, encoder, crtc, picked, handler>>
        /\ opening.at = "registered" /\ opening' = [opening EXCEPT !.k = @ + 1]
    BY <1>9 DEF QueryDisplay
  <2>2. opening'.at = "registered" /\ opening' \in Places
    <3>1. opening.k + 1 \in Nat
      BY <1>0
    <3> QED BY <1>0, <2>1, <3>1
  <2> QED BY <1>0, <1>3, <1>4, <2>1, <2>2
<1>10. ASSUME NEW c \in C, NEW index \in 1..2, set_active_config(c, index)
       PROVE  DrmType' /\ (\A b \in C : IdsInv(b)') /\ ModeAsChosen' /\ UNCHANGED card
  <2>1. UNCHANGED <<card, kernel, conn, encoder, crtc, mode_id, opening, config_ids, shown,
                    handler>>
    BY <1>10 DEF set_active_config
  <2>2. PICK i \in DOMAIN conn[c].modes :
          /\ conn[c].modes[i].id = config_ids[c][index]
          /\ picked' = [c |-> c, seen |-> shown[c][index].mode, mode |-> conn[c].modes[i].mode]
    BY <1>10 DEF set_active_config
  <2>3. index \in DOMAIN config_ids[c] \cap DOMAIN shown[c]
    BY <1>10 DEF set_active_config
  <2>4. shown[c][index].id = conn[c].modes[i].id
    BY <2>2, <2>3 DEF IdsInv
  <2>5. shown[c][index].mode = conn[c].modes[i].mode
    BY <2>3, <2>4 DEF IdsInv, Agree
  <2>6. ModeAsChosen'
    BY <2>2, <2>5 DEF ModeAsChosen
  <2> QED BY <1>0, <1>1, <2>1, <2>6
<1>11. CASE QueueActiveConfig
  BY <1>0, <1>1, <1>11 DEF QueueActiveConfig, ModeAsChosen
<1>12. ASSUME NEW c \in C, NEW dpms, set_power_mode(c, dpms)
       PROVE  DrmType' /\ (\A b \in C : IdsInv(b)') /\ ModeAsChosen' /\ UNCHANGED card
  BY <1>0, <1>1, <1>4, <1>12 DEF set_power_mode
<1>13. ASSUME NEW c \in C, NEW list \in {<<>>} \cup ModeLists, Plug(c, list)
       PROVE  DrmType' /\ (\A b \in C : IdsInv(b)') /\ ModeAsChosen' /\ UNCHANGED card
  <2>1. list \in Seq(Modes)
    BY ReportedLists
  <2>2. kernel' = [kernel EXCEPT ![c] = list]
        /\ UNCHANGED <<card, conn, encoder, crtc, mode_id, opening, config_ids, shown, picked,
                       handler>>
    BY <1>13 DEF Plug
  <2>3. kernel' \in [C -> Seq(Modes)]
    BY <1>0, <2>1, <2>2
  <2> QED BY <1>0, <1>1, <1>4, <2>2, <2>3
<1>14. ASSUME NEW strings, OtherUEvent(strings)
       PROVE  DrmType' /\ (\A b \in C : IdsInv(b)') /\ ModeAsChosen' /\ UNCHANGED card
  BY <1>0, <1>1, <1>4, <1>14 DEF OtherUEvent
<1>15. CASE UEventHandler
  <2>1. UNCHANGED <<card, kernel, conn, encoder, crtc, mode_id, opening, config_ids, shown, picked>>
        /\ \/ handler' = Wait
           \/ /\ opening.at = "registered"
              /\ handler' = [k |-> 1, todo |-> "update", cur_state |-> FALSE]
    BY <1>15 DEF UEventHandler
  <2>2. 1 \in C
    BY CardShape
  <2> QED BY <1>0, <1>1, <1>4, <2>1, <2>2
<1>16. CASE HandleUpdate
  <2> DEFINE c == handler.k
  <2>1. /\ UpdateModes(c) /\ handler.todo = "update"
        /\ UNCHANGED <<card, kernel, encoder, crtc, opening, config_ids, shown, picked>>
        /\ \/ handler' = NextConnector(c)
           \/ handler' = [handler EXCEPT !.todo = "queue", !.cur_state = conn'[c].state]
    BY <1>16 DEF HandleUpdate
  <2>2. c \in C /\ opening.at = "registered"
    BY <1>0, <2>1 DEF Wait
  <2>3. \/ handler' = Wait
        \/ /\ handler'.k \in C
           /\ handler'.todo = "wait" => handler' = Wait
    <3>1. CASE handler' = NextConnector(c)
      BY <2>1, <2>2, <3>1, CardShape DEF NextConnector
    <3>2. CASE handler' = [handler EXCEPT !.todo = "queue", !.cur_state = conn'[c].state]
      BY <2>2, <3>2
    <3> QED BY <2>1, <3>1, <3>2
  <2> HIDE DEF c
  <2> QED BY <1>0, <1>2, <1>4, <2>1, <2>2, <2>3
<1>17. CASE HandleQueue
  <2>1. /\ UNCHANGED <<card, kernel, conn, encoder, crtc, mode_id, opening, config_ids, shown, picked>>
        /\ handler.todo = "queue" /\ handler' = [handler EXCEPT !.todo = "callback"]
    BY <1>17 DEF HandleQueue
  <2>2. handler.k \in C /\ opening.at = "registered"
    BY <1>0, <2>1 DEF Wait
  <2>3. handler'.k \in C /\ (handler'.todo = "wait" => handler' = Wait)
    BY <2>1, <2>2
  <2> QED BY <1>0, <1>1, <1>4, <2>1, <2>2, <2>3
<1>18. CASE HandleCallback
  <2>1. /\ UNCHANGED <<card, kernel, encoder, crtc, opening, picked>>
        /\ handler.todo = "callback" /\ handler' = NextConnector(handler.k)
        /\ \/ GetDisplayConfigs(handler.k)
           \/ UNCHANGED <<conn, mode_id, config_ids, shown>>
    BY <1>18 DEF HandleCallback
  <2>2. handler.k \in C /\ opening.at = "registered"
    BY <1>0, <2>1 DEF Wait
  <2>3. \/ handler' = Wait
        \/ handler'.k \in C /\ (handler'.todo = "wait" => handler' = Wait)
    BY <2>1, <2>2, CardShape DEF NextConnector
  <2>4. CASE GetDisplayConfigs(handler.k)
    BY <1>0, <1>3, <1>4, <2>1, <2>2, <2>3, <2>4
  <2>5. CASE UNCHANGED <<conn, mode_id, config_ids, shown>>
    BY <1>0, <1>1, <1>4, <2>1, <2>2, <2>3, <2>5
  <2> QED BY <2>1, <2>4, <2>5
<1>19. CASE UNCHANGED drmvars
  BY <1>0, <1>1, <1>4, <1>19 DEF drmvars
<1> QED BY <1>5, <1>6, <1>7, <1>8, <1>9, <1>10, <1>11, <1>12, <1>13, <1>14, <1>15, <1>16,
           <1>17, <1>18, <1>19 DEF DrmNext, ListenerStep

\* The mode that set_active_config queues is the one SurfaceFlinger saw under
\* the index it chose, for any connectors, mode lists and plugs, although the
\* hotplug thread renews the lists in between.
THEOREM ModeIsAsChosen == DrmSpec => []ModeAsChosen
<1>1. ModeInv /\ [DrmNext]_drmvars => ModeInv'
  BY NextModes
<1>2. ModeInv => ModeAsChosen
  BY DEF ModeInv
<1> QED BY InitModes, <1>1, <1>2, PTL DEF DrmSpec

-----------------------------------------------------------------------------
(* Pipes (DrmResources) *)

Piped == {"config", "opened", "registered"}

\* CreateDisplayPipe is done with connector c.
Reached(c) == opening.at \in Piped \/ (opening.at = "pipe" /\ c < opening.k)

\* x is the CRTC of connector c, and no other is.
Serves(x, c) ==
  /\ \A y \in DOMAIN crtc : crtc[y] = conn[c].display <=> y = x
  /\ \E i \in DOMAIN card.conns[c].encs : x \in Range(card.encs[card.conns[c].encs[i]].crtcs)

\* A connector that was reached has its CRTC; the number of one that was not is
\* on no CRTC, so that the next one found free becomes its only one.
PipeOf(c) ==
  /\ conn[c].display = NumberOf(c)
  /\ IF Reached(c) THEN \E x \in DOMAIN crtc : Serves(x, c)
     ELSE \A x \in DOMAIN crtc : crtc[x] # conn[c].display

PipeInv ==
  /\ opening.at = "discover" => \A x \in DOMAIN crtc : crtc[x] = Unbound
  /\ opening.at \in {"pipe"} \cup Piped => \A c \in C : PipeOf(c)

\* Displays have different numbers.
LEMMA NumbersDiffer ==
  ASSUME DrmType, NEW b \in C, NEW c \in C, NumberOf(b) = NumberOf(c)
  PROVE  b = c
<1> DEFINE I == {a \in C : Internal(a)}
           E == {a \in C : External(a)}
           First(S) == CHOOSE x \in S : \A y \in S : x <= y
           S(d) == {a \in 1..d : a # First(I)}
<1> HIDE DEF First
<1>1. C \subseteq Nat \ {0}
  BY CardShape
<1>2. \A d \in C : NumberOf(d) =
        IF I # {} THEN IF d = First(I) THEN 0 ELSE Cardinality(S(d))
        ELSE IF E # {} /\ d = First(E) THEN 0 ELSE d
  BY DEF NumberOf, First
<1>3. CASE I = {}
  BY <1>1, <1>2, <1>3
<1>4. CASE I # {}
  <2>1. ASSUME NEW d \in C, d # First(I)
        PROVE  IsFiniteSet(S(d)) /\ Cardinality(S(d)) \in Nat \ {0}
    <3>1. d \in S(d)
      BY <1>1, <2>1
    <3>2. IsFiniteSet(1..d) /\ S(d) \in SUBSET (1..d)
      BY <1>1, FS_Interval
    <3>3. IsFiniteSet(S(d))
      BY <3>2, FS_Subset
    <3> QED BY <3>1, <3>3, FS_CardinalityType, FS_EmptySet
  <2>2. ASSUME NEW d \in C, NEW e \in C, d # First(I), e # First(I), d < e
        PROVE  Cardinality(S(d)) # Cardinality(S(e))
    <3>1. S(d) \in SUBSET S(e) /\ e \in S(e) /\ e \notin S(d)
      BY <1>1, <2>2
    <3> QED BY <2>1, <2>2, <3>1, FS_Subset
  <2>3. CASE b # First(I) /\ c # First(I)
    <3>1. Cardinality(S(b)) = Cardinality(S(c))
      BY <1>2, <1>4, <2>3
    <3>2. ~ (b < c) /\ ~ (c < b)
      BY <2>2, <2>3, <3>1
    <3> QED BY <1>1, <3>2
  <2>4. CASE b = First(I) \/ c = First(I)
    <3> HIDE DEF S
    <3>1. \A d \in C : d # First(I) => NumberOf(d) # 0
      BY <1>2, <1>4, <2>1
    <3>2. \A d \in C : d = First(I) => NumberOf(d) = 0
      BY <1>2, <1>4
    <3> QED BY <2>4, <3>1, <3>2
  <2> QED BY <2>3, <2>4
<1> QED BY <1>3, <1>4

\* One of them is the primary display.
LEMMA PrimaryIsNumbered ==
  ASSUME DrmType, NEW b \in C, Internal(b) \/ External(b)
  PROVE  \E c \in C : NumberOf(c) = 0
<1> DEFINE I == {a \in C : Internal(a)}
           E == {a \in C : External(a)}
           First(S) == CHOOSE x \in S : \A y \in S : x <= y
<1>1. C \subseteq Nat
  BY CardShape
<1>2. \A S \in SUBSET C : S # {} => First(S) \in S
  BY <1>1, LeastOf
<1> HIDE DEF First
<1>3. CASE I # {}
  <2>1. First(I) \in C
    BY <1>2, <1>3
  <2>2. NumberOf(First(I)) = 0
    BY <1>3 DEF NumberOf, First
  <2> QED BY <2>1, <2>2
<1>4. CASE I = {}
  <2>1. E # {}
    BY <1>4
  <2>2. First(E) \in C
    BY <1>2, <2>1
  <2>3. NumberOf(First(E)) = 0
    BY <1>4, <2>1 DEF NumberOf, First
  <2> QED BY <2>2, <2>3
<1> QED BY <1>3, <1>4

LEMMA NumbersKept ==
  ASSUME UNCHANGED card
  PROVE  \A c : NumberOf(c)' = NumberOf(c)
BY DEF NumberOf, Internal, External, C

\* A step that binds nothing.
LEMMA PipesKept ==
  ASSUME DrmType, PipeInv, UNCHANGED <<card, crtc>>,
         \A c \in C : conn'[c].display = conn[c].display,
         \/ opening'.at = opening.at /\ opening.at \notin {"pipe"}
         \/ opening' = opening
         \/ opening.at \in Piped /\ opening'.at \in Piped
         \/ opening'.at = "failed"
  PROVE  PipeInv'
<1>1. CASE opening'.at \in {"pipe"} \cup Piped
  <2>1. \A c \in C : PipeOf(c) /\ (Reached(c)' <=> Reached(c))
    BY <1>1 DEF PipeInv, Reached, Piped
  <2>2. \A c \in C : PipeOf(c)'
    BY <2>1, NumbersKept DEF PipeOf, Serves
  <2> QED BY <1>1, <2>2 DEF PipeInv, Piped, C
<1>2. CASE opening'.at \notin {"pipe"} \cup Piped
  BY <1>2 DEF PipeInv, Piped
<1> QED BY <1>1, <1>2

\* A CRTC that can be bound to a display that has none is free, and is then the
\* only one of that display.
LEMMA PipeMadeInv ==
  ASSUME DrmType, PipeInv, opening.at = "pipe", NEW k \in C, opening.k = k, UNCHANGED card,
         NEW e, NEW x, PipeMade(k, e, x)
  PROVE  PipeInv'
<1>1. /\ C = 1..Len(card.conns) /\ Len(card.conns) \in Nat
      /\ \A c \in C : card.conns[c].encs \in Seq(DOMAIN card.encs)
  BY CardShape
<1>2. /\ crtc \in [1..card.crtcs -> Int] /\ x \in 1..card.crtcs
      /\ crtc' = [crtc EXCEPT ![x] = conn[k].display]
      /\ \A c \in C : conn'[c].display = conn[c].display
  BY DEF PipeMade, DrmType
<1>3. \A c \in C : PipeOf(c) /\ conn[c].display = NumberOf(c) /\ conn[c].display \in Nat
  BY NumberIsNat DEF PipeInv, PipeOf
<1>4. \A c \in C : Reached(c) <=> c < k
  BY DEF Reached, Piped
<1>5. crtc[x] = Unbound /\ \A y \in DOMAIN crtc : crtc[y] # conn[k].display
  <2>1. \A y \in DOMAIN crtc : crtc[y] # conn[k].display
    BY <1>1, <1>3, <1>4 DEF PipeOf
  <2> QED BY <1>2, <2>1 DEF PipeMade, can_bind
<1>6. \A c \in C : conn[c].display # Unbound
  BY <1>3 DEF Unbound
<1>7. /\ opening'.at \in {"pipe", "config"}
      /\ \A c \in C : Reached(c)' <=> c <= k
  <2>1. opening' = IF k = Len(card.conns) THEN [at |-> "config", k |-> 1]
                   ELSE [opening EXCEPT !.k = k + 1]
    BY DEF PipeMade
  <2>2. opening \in [at : {"discover", "pipe", "config", "opened", "registered", "failed"},
                     k : Nat]
    BY DEF DrmType
  <2>3. CASE k = Len(card.conns)
    BY <1>1, <2>1, <2>3 DEF Reached, Piped
  <2>4. CASE k # Len(card.conns)
    <3>1. opening'.at = "pipe" /\ opening'.k = k + 1
      BY <2>1, <2>2, <2>4
    <3> QED BY <1>1, <3>1 DEF Reached, Piped
  <2> QED BY <2>3, <2>4
<1>8. ASSUME NEW c \in C, c < k PROVE PipeOf(c)'
  <2>1. PICK y \in DOMAIN crtc : Serves(y, c)
    BY <1>3, <1>4, <1>8 DEF PipeOf
  <2>2. conn[c].display # conn[k].display
    BY <1>1, <1>3, <1>8, NumbersDiffer
  <2>3. Serves(y, c)'
    BY <1>2, <1>5, <1>6, <2>1, <2>2 DEF Serves
  <2> QED BY <1>1, <1>2, <1>3, <1>7, <1>8, <2>1, <2>3, NumbersKept DEF PipeOf
<1>9. PipeOf(k)'
  <2>1. \A y \in DOMAIN crtc' : crtc'[y] = conn'[k].display <=> y = x
    BY <1>2, <1>5
  <2>2. PICK i \in DOMAIN card.conns[k].encs : card.conns[k].encs[i] = e
    BY DEF PipeMade, Range
  <2>3. x \in Range(card.encs[e].crtcs)
    BY DEF PipeMade
  <2>4. Serves(x, k)'
    BY <2>1, <2>2, <2>3 DEF Serves
  <2>5. Reached(k)' /\ x \in DOMAIN crtc'
    BY <1>1, <1>2, <1>7
  <2> QED BY <1>1, <1>2, <1>3, <2>4, <2>5, NumbersKept DEF PipeOf
<1>10. ASSUME NEW c \in C, c > k PROVE PipeOf(c)'
  <2>1. \A y \in DOMAIN crtc : crtc[y] # conn[c].display
    BY <1>1, <1>3, <1>4, <1>10 DEF PipeOf
  <2>2. conn[c].display # conn[k].display
    BY <1>1, <1>3, <1>10, NumbersDiffer
  <2>3. \A y \in DOMAIN crtc' : crtc'[y] # conn'[c].display
    BY <1>2, <2>1, <2>2
  <2>4. ~ Reached(c)'
    BY <1>1, <1>7, <1>10
  <2> QED BY <1>2, <1>3, <2>3, <2>4, NumbersKept DEF PipeOf
<1>11. ASSUME NEW c \in C PROVE PipeOf(c)'
  <2>1. c < k \/ c = k \/ c > k
    BY <1>1
  <2> QED BY <1>8, <1>9, <1>10, <2>1
<1> QED BY <1>7, <1>11 DEF PipeInv, C

LEMMA NextPipes == ModeInv /\ PipeInv /\ [DrmNext]_drmvars => PipeInv'
<1> SUFFICES ASSUME DrmType, \A c \in C : IdsInv(c), PipeInv, [DrmNext]_drmvars PROVE PipeInv'
  BY DEF ModeInv
<1>1. handler # Wait => handler.k \in C
  BY DEF DrmType
<1>2. ASSUME UNCHANGED <<card, crtc, conn>>,
             opening' = opening \/ (opening.at \in Piped /\ opening'.at \in Piped)
      PROVE  PipeInv'
  BY <1>2, PipesKept
<1>3. ASSUME NEW c \in C, UpdateModes(c), UNCHANGED <<card, crtc>>,
             opening' = opening \/ (opening.at \in Piped /\ opening'.at \in Piped)
      PROVE  PipeInv'
  <2>1. \A b \in C : conn'[b].display = conn[b].display
    BY <1>3, UpdateModesAgree
  <2> QED BY <1>3, <2>1, PipesKept
<1>4. CASE Discover
  <2>1. UNCHANGED <<card, crtc>> /\ opening.at = "discover"
    BY <1>4 DEF Discover
  <2>2. CASE opening' = [at |-> "failed", k |-> 0]
    BY <2>2 DEF PipeInv, Piped
  <2>3. CASE /\ conn' = [c \in C |-> [conn[c] EXCEPT !.display = NumberOf(c)]]
             /\ opening' = [at |-> "pipe", k |-> 1]
    <3>1. \A c \in C : conn[c] \in [display : Int, state : BOOLEAN, modes : ModeList,
                                    encoder : Nat]
      BY DEF DrmType
    <3>2. \A c \in C : conn'[c].display = NumberOf(c)
      BY <2>3, <3>1
    <3>3. \A c \in C : ~ Reached(c)' /\ NumberOf(c) # Unbound
      BY <2>3, CardShape, NumberIsNat DEF Reached, Piped, Unbound
    <3>4. \A c \in C : PipeOf(c)'
      BY <2>1, <3>2, <3>3, NumbersKept DEF PipeOf, PipeInv
    <3> QED BY <2>1, <2>3, <3>4 DEF PipeInv, C
  <2> QED BY <1>4, <2>2, <2>3 DEF Discover
<1>5. CASE CreateDisplayPipe
  <2>1. /\ opening.at = "pipe" /\ opening.k \in C /\ UNCHANGED card
        /\ \/ opening' = [at |-> "failed", k |-> 0] /\ UNCHANGED <<conn, encoder, crtc>>
           \/ \E e, x : PipeMade(opening.k, e, x)
    BY <1>5, PipeSteps
  <2>2. CASE opening' = [at |-> "failed", k |-> 0] /\ UNCHANGED <<conn, encoder, crtc>>
    BY <2>2 DEF PipeInv, Piped
  <2>3. CASE \E e, x : PipeMade(opening.k, e, x)
    BY <2>1, <2>3, PipeMadeInv
  <2> QED BY <2>1, <2>2, <2>3
<1>6. CASE InitializeDisplay
  <2>1. /\ opening.at = "config" /\ opening.k \in C /\ UpdateModes(opening.k)
        /\ UNCHANGED <<card, crtc>>
        /\ opening' \in {[at |-> "opened", k |-> 0], [opening EXCEPT !.k = opening.k + 1]}
    BY <1>6 DEF InitializeDisplay
  <2>2. opening \in [at : {"discover", "pipe", "config", "opened", "registered", "failed"},
                     k : Nat]
    BY DEF DrmType
  <2>3. opening'.at \in Piped
    BY <2>1, <2>2 DEF Piped
  <2> QED BY <1>3, <2>1, <2>3 DEF Piped
<1>7. CASE register_procs
  BY <1>2, <1>7 DEF register_procs, Piped
<1>8. CASE QueryDisplay
  <2>1. /\ opening.at = "registered" /\ opening.k \in C /\ UpdateModes(opening.k)
        /\ UNCHANGED <<card, crtc>> /\ opening' = [opening EXCEPT !.k = @ + 1]
    BY <1>8 DEF QueryDisplay, GetDisplayConfigs
  <2>2. opening'.at \in Piped
    BY <2>1 DEF Piped, DrmType
  <2> QED BY <1>3, <2>1, <2>2 DEF Piped
<1>9. ASSUME NEW c \in C, NEW index \in 1..2, set_active_config(c, index) PROVE PipeInv'
  BY <1>2, <1>9 DEF set_active_config
<1>10. CASE QueueActiveConfig
  BY <1>2, <1>10 DEF QueueActiveConfig
<1>11. ASSUME NEW c \in C, NEW dpms, set_power_mode(c, dpms) PROVE PipeInv'
  BY <1>2, <1>11 DEF set_power_mode
<1>12. ASSUME NEW c \in C, NEW list, Plug(c, list) PROVE PipeInv'
  BY <1>2, <1>12 DEF Plug
<1>13. ASSUME NEW strings, OtherUEvent(strings) PROVE PipeInv'
  BY <1>2, <1>13 DEF OtherUEvent
<1>14. CASE UEventHandler \/ HandleQueue
  BY <1>2, <1>14 DEF UEventHandler, HandleQueue
<1>15. CASE HandleUpdate
  BY <1>1, <1>3, <1>15 DEF HandleUpdate, Wait
<1>16. CASE HandleCallback
  <2>1. /\ handler.k \in C /\ UNCHANGED <<card, crtc, opening>>
        /\ UpdateModes(handler.k) \/ UNCHANGED conn
    BY <1>1, <1>16 DEF HandleCallback, GetDisplayConfigs, Wait
  <2> QED BY <1>2, <1>3, <2>1
<1>17. CASE UNCHANGED drmvars
  BY <1>2, <1>17 DEF drmvars
<1> QED BY <1>4, <1>5, <1>6, <1>7, <1>8, <1>9, <1>10, <1>11, <1>12, <1>13, <1>14, <1>15,
           <1>16, <1>17 DEF DrmNext, ListenerStep

\* When Init has made the pipes, displays have different numbers, one of them
\* is the primary display, and each has a single CRTC, of its own, that an
\* encoder of its connector can drive: for any numbers of connectors, encoders
\* and CRTCs, and whatever the kernel has bound before.
THEOREM PipesAreRight == DrmSpec => []PipesRight
<1>1. DrmInit => ModeInv /\ PipeInv
  BY InitModes DEF DrmInit, PipeInv, Piped
<1>2. ModeInv /\ PipeInv /\ [DrmNext]_drmvars => (ModeInv /\ PipeInv)'
  BY NextModes, NextPipes
<1>3. ModeInv /\ PipeInv => PipesRight
  <2> SUFFICES ASSUME DrmType, PipeInv, opening.at \in Piped PROVE PipesRight
    BY DEF ModeInv, PipesRight, Piped
  <2>1. \A c \in C : conn[c].display = NumberOf(c) /\ \E x \in DOMAIN crtc : Serves(x, c)
    BY DEF PipeInv, PipeOf, Reached
  <2>2. \A b, c \in C : conn[b].display = conn[c].display => b = c
    BY <2>1, NumbersDiffer
  <2>3. (\E c \in C : Internal(c) \/ External(c)) => \E c \in C : conn[c].display = 0
    BY <2>1, PrimaryIsNumbered
  <2>4. ASSUME NEW c \in C
        PROVE  LET mine == {x \in DOMAIN crtc : crtc[x] = conn[c].display}
               IN  /\ Cardinality(mine) = 1
                   /\ \A x \in mine : \E i \in DOMAIN card.conns[c].encs :
                        x \in Range(card.encs[card.conns[c].encs[i]].crtcs)
    <3>1. PICK x \in DOMAIN crtc : Serves(x, c)
      BY <2>1
    <3>2. {y \in DOMAIN crtc : crtc[y] = conn[c].display} = {x}
      BY <3>1 DEF Serves
    <3> QED BY <3>1, <3>2, FS_Singleton DEF Serves
  <2> QED BY <2>2, <2>3, <2>4 DEF PipesRight
<1> QED BY <1>1, <1>2, <1>3, PTL DEF DrmSpec

-----------------------------------------------------------------------------
(* Sequences of sequences *)

\* g is the list of the first m partial concatenations of s.
Concats(s, m, g) == g = [i \in 1..m |-> IF i = 1 THEN s[i] ELSE g[i - 1] \o s[i]]

LEMMA ConcatsExist ==
  ASSUME NEW s, NEW n \in Nat
  PROVE  \E g : Concats(s, n, g)
<1> DEFINE Bad == {m \in Nat : ~ \E g : Concats(s, m, g)}
<1> SUFFICES ASSUME Bad # {} PROVE FALSE
  OBVIOUS
<1>1. PICK m \in Bad : \A k \in Bad : m <= k
  BY LeastOf
<1>2. m # 0
  <2> SUFFICES ASSUME m = 0 PROVE FALSE
    OBVIOUS
  <2> DEFINE g == [i \in 1..m |-> {}]
  <2>1. 1..m = {}
    OBVIOUS
  <2>2. g = [i \in 1..m |-> IF i = 1 THEN s[i] ELSE g[i - 1] \o s[i]]
    BY <2>1
  <2>3. Concats(s, m, g)
    BY <2>2 DEF Concats
  <2> QED BY <2>3
<1>3. m - 1 \in Nat /\ m - 1 \notin Bad
  BY <1>1, <1>2
<1>4. PICK g : Concats(s, m - 1, g)
  BY <1>3
<1> DEFINE h == [i \in 1..m |-> IF i < m THEN g[i] ELSE IF i = 1 THEN s[i] ELSE g[i - 1] \o s[i]]
<1>5. ASSUME NEW i \in 1..m
      PROVE  h[i] = IF i = 1 THEN s[i] ELSE h[i - 1] \o s[i]
  <2>1. CASE i < m
    <3>1. i \in 1..(m - 1) /\ (i # 1 => i - 1 \in 1..(m - 1) /\ i - 1 \in 1..m)
      BY <1>1, <2>1
    <3>2. g[i] = IF i = 1 THEN s[i] ELSE g[i - 1] \o s[i]
      BY <1>4, <3>1 DEF Concats
    <3> QED BY <2>1, <3>1, <3>2
  <2>2. CASE i = m
    <3>1. i # 1 => i - 1 \in 1..m /\ i - 1 < m
      BY <1>1, <2>2
    <3> QED BY <2>2, <3>1
  <2> QED BY <1>1, <2>1, <2>2
<1>6. h = [i \in 1..m |-> IF i = 1 THEN s[i] ELSE h[i - 1] \o s[i]]
  <2> HIDE DEF h
  <2>1. DOMAIN h = 1..m /\ h = [i \in 1..m |-> h[i]]
    BY DEF h
  <2> QED BY <1>5, <2>1
<1>7. Concats(s, m, h)
  BY <1>6 DEF Concats
<1> QED BY <1>7

\* FlattenSeq(s) is the last partial concatenation.
LEMMA FlattenIsLast ==
  ASSUME NEW s, Len(s) \in Nat \ {0}
  PROVE  \E g : /\ FlattenSeq(s) = g[Len(s)] /\ g[1] = s[1]
                /\ \A i \in 1..Len(s) : i # 1 => g[i] = g[i - 1] \o s[i]
<1> DEFINE f == CHOOSE g : g = [i \in 1..Len(s) |-> IF i = 1 THEN s[i] ELSE g[i - 1] \o s[i]]
<1>1. \E g : g = [i \in 1..Len(s) |-> IF i = 1 THEN s[i] ELSE g[i - 1] \o s[i]]
  BY ConcatsExist DEF Concats
<1>2. f = [i \in 1..Len(s) |-> IF i = 1 THEN s[i] ELSE f[i - 1] \o s[i]]
  BY <1>1
<1>3. FlattenSeq(s) = f[Len(s)]
  BY DEF FlattenSeq
<1> HIDE DEF f
<1>4. \A i \in 1..Len(s) : f[i] = IF i = 1 THEN s[i] ELSE f[i - 1] \o s[i]
  BY <1>2
<1>5. f[1] = s[1]
  <2>1. 1 \in 1..Len(s)
    OBVIOUS
  <2> QED BY <1>4, <2>1
<1>6. \A i \in 1..Len(s) : i # 1 => f[i] = f[i - 1] \o s[i]
  BY <1>4
<1> QED BY <1>3, <1>5, <1>6

\* Every partial concatenation has a property if the first has it and each
\* passes it on; Good is the set of the places where it holds.
LEMMA ByPlace ==
  ASSUME NEW n \in Nat, NEW Good, 1 \in Good,
         \A i \in 1..n : i # 1 /\ i - 1 \in Good => i \in Good
  PROVE  1..n \subseteq Good
<1> DEFINE Bad == {i \in 1..n : i \notin Good}
<1> SUFFICES ASSUME Bad # {} PROVE FALSE
  OBVIOUS
<1>1. PICK m \in Bad : \A k \in Bad : m <= k
  <2>1. Bad \in SUBSET Nat
    OBVIOUS
  <2> QED BY <2>1, LeastOf
<1>2. m # 1 /\ m - 1 \in 1..n
  BY <1>1
<1>3. m - 1 \notin Bad
  BY <1>1
<1> QED BY <1>2, <1>3

LEMMA ConcatIn ==
  ASSUME NEW S, NEW a \in Seq(S), NEW b \in Seq(S)
  PROVE  a \o b \in Seq(S)
OBVIOUS

LEMMA FlattenEntries ==
  ASSUME NEW S, NEW s \in Seq(Seq(S))
  PROVE  FlattenSeq(s) \in Seq(S)
<1>1. CASE Len(s) = 0
  <2>1. FlattenSeq(s) = s
    BY <1>1 DEF FlattenSeq
  <2>2. s = <<>>
    BY <1>1
  <2> QED BY <2>1, <2>2
<1>2. CASE Len(s) # 0
  <2>1. PICK g : /\ FlattenSeq(s) = g[Len(s)] /\ g[1] = s[1]
                 /\ \A i \in 1..Len(s) : i # 1 => g[i] = g[i - 1] \o s[i]
    <3>1. Len(s) \in Nat \ {0}
      BY <1>2
    <3> QED BY <3>1, FlattenIsLast
  <2> DEFINE Good == {i \in 1..Len(s) : g[i] \in Seq(S)}
  <2>2. 1 \in Good
    BY <1>2, <2>1
  <2>3. ASSUME NEW i \in 1..Len(s), i # 1, i - 1 \in Good PROVE i \in Good
    <3>1. g[i] = g[i - 1] \o s[i] /\ g[i - 1] \in Seq(S)
      BY <2>1, <2>3
    <3>2. s[i] \in Seq(S)
      OBVIOUS
    <3>3. g[i] \in Seq(S)
      BY <3>1, <3>2, ConcatIn
    <3> QED BY <3>3
  <2>4. 1..Len(s) \subseteq Good
    <3> HIDE DEF Good
    <3>1. Len(s) \in Nat
      OBVIOUS
    <3> QED BY <2>2, <2>3, <3>1, ByPlace
  <2>5. Len(s) \in Good
    BY <1>2, <2>4
  <2> QED BY <2>1, <2>5
<1> QED BY <1>1, <1>2

\* The places at which x stands in s.
PlacesOf(s, x) == {i \in DOMAIN s : s[i] = x}

Never(s, x) == PlacesOf(s, x) = {}
Once(s, x) == \E k : PlacesOf(s, x) = {k}

LEMMA PlacesOfConcat ==
  ASSUME NEW S, NEW s \in Seq(S), NEW r \in Seq(S), NEW x
  PROVE  /\ Never(s, x) /\ Never(r, x) => Never(s \o r, x)
         /\ Never(s, x) /\ Once(r, x) => Once(s \o r, x)
         /\ Once(s, x) /\ Never(r, x) => Once(s \o r, x)
<1>1. /\ DOMAIN s = 1..Len(s) /\ Len(s) \in Nat /\ DOMAIN r = 1..Len(r) /\ Len(r) \in Nat
      /\ DOMAIN (s \o r) = 1..(Len(s) + Len(r))
      /\ \A i \in 1..Len(s) : (s \o r)[i] = s[i]
      /\ \A i \in (Len(s) + 1)..(Len(s) + Len(r)) : (s \o r)[i] = r[i - Len(s)]
  OBVIOUS
<1> DEFINE c == s \o r
<1> HIDE DEF c
<1>2. \A i \in DOMAIN c : \/ i \in DOMAIN s /\ c[i] = s[i]
                          \/ i - Len(s) \in DOMAIN r /\ i > Len(s) /\ c[i] = r[i - Len(s)]
  BY <1>1 DEF c
<1>3. \A i \in DOMAIN r : Len(s) + i \in DOMAIN c /\ c[Len(s) + i] = r[i]
  BY <1>1 DEF c
<1>4. \A i \in DOMAIN s : i \in DOMAIN c /\ c[i] = s[i] /\ i <= Len(s)
  BY <1>1 DEF c
<1>5. PlacesOf(s, x) = {} /\ PlacesOf(r, x) = {} => PlacesOf(c, x) = {}
  BY <1>2 DEF PlacesOf
<1>6. ASSUME PlacesOf(s, x) = {}, NEW k, PlacesOf(r, x) = {k}
      PROVE  PlacesOf(c, x) = {Len(s) + k}
  <2>1. k \in DOMAIN r /\ r[k] = x /\ k \in Nat
    BY <1>1, <1>6 DEF PlacesOf
  <2>2. \A i \in DOMAIN c : c[i] = x => i - Len(s) \in DOMAIN r /\ r[i - Len(s)] = x
    BY <1>2, <1>6 DEF PlacesOf
  <2>3. \A i \in DOMAIN c : c[i] = x => i - Len(s) = k
    BY <1>6, <2>2 DEF PlacesOf
  <2>4. \A i \in DOMAIN c : c[i] = x => i = Len(s) + k
    BY <1>1, <2>1, <2>3 DEF c
  <2>5. Len(s) + k \in DOMAIN c /\ c[Len(s) + k] = x
    BY <1>3, <2>1
  <2> QED BY <2>4, <2>5 DEF PlacesOf
<1>7. ASSUME PlacesOf(r, x) = {}, NEW k, PlacesOf(s, x) = {k}
      PROVE  PlacesOf(c, x) = {k}
  <2>1. \A i \in DOMAIN c : c[i] = x => i \in DOMAIN s /\ s[i] = x
    BY <1>2, <1>7 DEF PlacesOf
  <2>2. k \in DOMAIN s /\ s[k] = x
    BY <1>7 DEF PlacesOf
  <2> QED BY <1>4, <1>7, <2>1, <2>2 DEF PlacesOf
<1> QED BY <1>5, <1>6, <1>7 DEF c, Never, Once

\* What stands once in one of the pieces and in no other stands once in all.
LEMMA FlattenOnce ==
  ASSUME NEW S, NEW s \in Seq(Seq(S)), NEW x, NEW j \in DOMAIN s,
         Once(s[j], x),
         \A i \in DOMAIN s : i # j => Never(s[i], x)
  PROVE  Once(FlattenSeq(s), x)
<1>1. Len(s) \in Nat \ {0} /\ DOMAIN s = 1..Len(s) /\ Len(s) \in 1..Len(s) /\ j \in Nat
  OBVIOUS
<1>2. PICK g : /\ FlattenSeq(s) = g[Len(s)] /\ g[1] = s[1]
               /\ \A i \in 1..Len(s) : i # 1 => g[i] = g[i - 1] \o s[i]
  BY <1>1, FlattenIsLast
<1> DEFINE Right(i) == /\ g[i] \in Seq(S)
                       /\ i < j => Never(g[i], x)
                       /\ i >= j => Once(g[i], x)
           Good == {i \in 1..Len(s) : Right(i)}
<1>3. \A i \in 1..Len(s) : s[i] \in Seq(S)
  BY <1>1
<1>4. 1 \in Good
  <2>1. 1 \in 1..Len(s) /\ (1 < j => 1 # j) /\ (1 >= j => 1 = j)
    BY <1>1
  <2>2. Right(1)
    BY <1>1, <1>2, <1>3, <2>1
  <2> QED BY <2>1, <2>2
<1>5. ASSUME NEW i \in 1..Len(s), i # 1, i - 1 \in Good PROVE i \in Good
  <2>1. /\ g[i] = g[i - 1] \o s[i] /\ g[i - 1] \in Seq(S) /\ s[i] \in Seq(S)
        /\ i - 1 < j => Never(g[i - 1], x)
        /\ i - 1 >= j => Once(g[i - 1], x)
    BY <1>2, <1>3, <1>5
  <2>2. g[i] \in Seq(S)
    BY <2>1, ConcatIn
  <2>3. CASE i < j
    <3>1. i - 1 < j /\ i # j
      BY <1>1, <2>3
    <3>2. Never(g[i], x)
      BY <1>1, <2>1, <3>1, PlacesOfConcat
    <3>3. Right(i)
      BY <1>1, <2>2, <2>3, <3>2
    <3> QED BY <3>3
  <2>4. CASE i = j
    <3>1. i - 1 < j
      BY <1>1, <2>4
    <3>2. Once(g[i], x)
      BY <2>1, <2>4, <3>1, PlacesOfConcat
    <3>3. Right(i)
      BY <1>1, <2>2, <2>4, <3>2
    <3> QED BY <3>3
  <2>5. CASE i > j
    <3>1. i - 1 >= j /\ i # j
      BY <1>1, <2>5
    <3>2. Once(g[i], x)
      BY <1>1, <2>1, <3>1, PlacesOfConcat
    <3>3. Right(i)
      BY <1>1, <2>2, <2>5, <3>2
    <3> QED BY <3>3
  <2>6. i < j \/ i = j \/ i > j
    BY <1>1
  <2> QED BY <2>3, <2>4, <2>5, <2>6
<1>6. 1..Len(s) \subseteq Good
  <2> HIDE DEF Good
  <2> QED BY <1>1, <1>4, <1>5, ByPlace
<1>7. Right(Len(s)) /\ Len(s) >= j
  BY <1>1, <1>6
<1> QED BY <1>2, <1>7

-----------------------------------------------------------------------------
(* What SurfaceFlinger gets back from hwc_set *)

\* A frame as prepare and SurfaceFlinger leave it to hwc_set: t is its target.
HasTarget(f, t) ==
  /\ t \in DOMAIN f /\ ~ f[t].skip
  /\ \A j \in DOMAIN f : f[j].type = "target" <=> j = t
  /\ (\E j \in DOMAIN f : f[j].type = "framebuffer") => f[t].handle # NoBuf

WellComposed(f) ==
  /\ f \in Seq(Layer)
  /\ \A j \in DOMAIN f : f[j].type # "overlay"
  /\ \E t : HasTarget(f, t)

Plain(f) == DOMAIN f \ Skips(f)

LEMMA PreparedFrames ==
  ASSUME NEW f \in Frames, NEW h \in Handles
  PROVE  WellComposed(Composed(hwc_prepare(f), h))
<1> DEFINE p == hwc_prepare(f)
           c == Composed(p, h)
<1>1. f \in Seq(Layer) /\ \A j \in DOMAIN f : f[j].type # "overlay"
  BY FramesAssumption
<1>2. PICK t \in DOMAIN f : ~ f[t].skip /\ \A j \in DOMAIN f : f[j].type = "target" <=> j = t
  BY FramesAssumption
<1>3. DOMAIN f = 1..Len(f) /\ Len(f) \in Nat /\ \A j \in DOMAIN f : f[j] \in Layer
  <2> HIDE DEF Layer
  <2> QED BY <1>1
<1>4. DOMAIN p = DOMAIN f /\ DOMAIN c = DOMAIN f
  BY DEF hwc_prepare, Composed
<1>5. ASSUME NEW j \in DOMAIN f
      PROVE  /\ p[j] \in Layer /\ p[j].skip = f[j].skip
             /\ p[j].type # "overlay" /\ (p[j].type = "target" <=> j = t)
  BY <1>1, <1>2, <1>3 DEF hwc_prepare, Layer
<1> HIDE DEF p
<1>6. ASSUME NEW j \in DOMAIN f
      PROVE  /\ c[j] \in Layer /\ c[j].skip = p[j].skip /\ c[j].type = p[j].type
             /\ c[j].handle = IF p[j].type = "target" /\ \E k \in DOMAIN p : p[k].type = "framebuffer"
                              THEN h ELSE p[j].handle
  BY <1>4, <1>5 DEF Composed, Layer
<1> HIDE DEF c
<1>7. c \in Seq(Layer)
  <2> HIDE DEF Layer
  <2>1. c = [j \in 1..Len(f) |-> c[j]]
    BY <1>3, <1>4 DEF c, Composed
  <2>2. c \in [1..Len(f) -> Layer]
    BY <1>3, <1>6, <2>1
  <2> QED BY <1>3, <2>2
<1>8. HasTarget(c, t)
  BY <1>2, <1>4, <1>5, <1>6, NoBufAssumption DEF HasTarget
<1>9. \A j \in DOMAIN c : c[j].type # "overlay"
  BY <1>4, <1>5, <1>6
<1> QED BY <1>7, <1>8, <1>9 DEF WellComposed, c, p

LEMMA TargetFound ==
  ASSUME NEW f \in Seq(Layer), NEW t, HasTarget(f, t)
  PROVE  Target(f) = t /\ t \in Nat \ {0}
<1>1. DOMAIN f = 1..Len(f) /\ Len(f) \in Nat
  OBVIOUS
<1>2. t \in DOMAIN f /\ \A j \in DOMAIN f : f[j].type = "target" <=> j = t
  BY DEF HasTarget
<1>3. \A k \in 1..(t - 1) : k \in DOMAIN f /\ k # t
  BY <1>1, <1>2
<1> QED BY <1>1, <1>2, <1>3 DEF Target

\* The layers that are composited are no skip layers, and the target is one of
\* them, once, if SurfaceFlinger has composed something into it.
LEMMA IndicesRight ==
  ASSUME NEW f, WellComposed(f)
  PROVE  /\ indices_to_composite(f) \in Seq(Plain(f))
         /\ (\E j \in DOMAIN f : f[j].type = "framebuffer")
              => Once(indices_to_composite(f), Target(f))
<1> DEFINE t == Target(f)
           first(j) == j \in Skips(f) /\ \A k \in Skips(f) : j <= k
           pick(j) == IF first(j) /\ t > 0 /\ Valid(f, t) THEN <<t>>
                      ELSE IF ~ f[j].skip /\ f[j].type = "overlay" THEN <<j>> ELSE <<>>
           s == [j \in DOMAIN f |-> pick(j)]
<1>1. /\ f \in Seq(Layer) /\ DOMAIN f = 1..Len(f) /\ Len(f) \in Nat
      /\ \A j \in DOMAIN f : f[j].type # "overlay"
  BY DEF WellComposed
<1>2. HasTarget(f, t) /\ t \in Nat \ {0} /\ t \in Plain(f)
  BY <1>1, TargetFound DEF WellComposed, HasTarget, Plain, Skips
<1>3. indices_to_composite(f) =
        IF FlattenSeq(s) = <<>> /\ Skips(f) = {} /\ t > 0 THEN <<t>> ELSE FlattenSeq(s)
  BY DEF indices_to_composite
<1> HIDE DEF t, first
<1>4. \A j \in DOMAIN f : pick(j) = IF first(j) /\ Valid(f, t) THEN <<t>> ELSE <<>>
  BY <1>1, <1>2
<1> HIDE DEF pick
<1>5. s \in Seq(Seq(Plain(f))) /\ DOMAIN s = DOMAIN f
  <2>1. <<t>> \in Seq(Plain(f)) /\ <<>> \in Seq(Plain(f))
    BY <1>2
  <2>2. ASSUME NEW j \in 1..Len(f) PROVE pick(j) \in Seq(Plain(f))
    <3>1. pick(j) = <<t>> \/ pick(j) = <<>>
      BY <1>1, <1>4
    <3> QED BY <2>1, <3>1
  <2>3. s \in [1..Len(f) -> Seq(Plain(f))]
    BY <1>1, <2>2
  <2> QED BY <1>1, <2>3
<1>6. \A j \in DOMAIN f : s[j] = pick(j)
  OBVIOUS
<1> HIDE DEF s
<1>7. indices_to_composite(f) \in Seq(Plain(f))
  <2>1. <<t>> \in Seq(Plain(f)) /\ FlattenSeq(s) \in Seq(Plain(f))
    BY <1>2, <1>5, FlattenEntries
  <2> QED BY <1>3, <2>1
<1>8. Once(<<t>>, t) /\ Never(<<>>, t)
  <2>1. PlacesOf(<<t>>, t) = {1} /\ PlacesOf(<<>>, t) = {}
    BY DEF PlacesOf
  <2> QED BY <2>1 DEF Once, Never
<1>9. ASSUME \E j \in DOMAIN f : f[j].type = "framebuffer"
      PROVE  Once(indices_to_composite(f), t)
  <2>1. Valid(f, t)
    BY <1>2, <1>9 DEF Valid, HasTarget
  <2>2. CASE Skips(f) = {}
    <3>1. \A j \in DOMAIN f : s[j] = <<>>
      BY <1>4, <1>6, <2>2 DEF first
    <3>2. FlattenSeq(s) = <<>>
      <4>1. s \in Seq(Seq({}))
        <5>1. s \in [1..Len(f) -> Seq({})]
          BY <1>1, <1>5, <3>1
        <5> QED BY <1>1, <5>1
      <4>2. FlattenSeq(s) \in Seq({})
        BY <4>1, FlattenEntries
      <4> QED BY <4>2
    <3> QED BY <1>2, <1>3, <1>8, <2>2, <3>2
  <2>3. CASE Skips(f) # {}
    <3>0. Skips(f) \in SUBSET Nat
      BY <1>1 DEF Skips
    <3>1. PICK j \in Skips(f) : \A k \in Skips(f) : j <= k
      BY <2>3, <3>0, LeastOf
    <3>2. j \in DOMAIN f /\ first(j) /\ \A k \in DOMAIN f : k # j => ~ first(k)
      BY <1>1, <3>1 DEF first, Skips
    <3>3. s[j] = <<t>> /\ \A k \in DOMAIN f : k # j => s[k] = <<>>
      BY <1>4, <1>6, <2>1, <3>2
    <3>4. Once(FlattenSeq(s), t)
      BY <1>5, <1>8, <3>2, <3>3, FlattenOnce
    <3> QED BY <1>3, <2>3, <3>4
  <2> QED BY <2>2, <2>3
<1> QED BY <1>7, <1>9 DEF t

Before == {"set", "import", "plan"}
Shown == {"queue", "retire"}

AnswerType ==
  /\ at \in {"idle", "return"} \cup Before \cup Shown
  /\ DOMAIN contents = HwcDisplays /\ DOMAIN release = HwcDisplays
  /\ DOMAIN acquire = HwcDisplays /\ DOMAIN indices = HwcDisplays
  /\ \A d \in HwcDisplays : /\ contents[d] = NoFrame \/ WellComposed(contents[d])
                            /\ DOMAIN release[d] = DOMAIN contents[d]

\* What hwc_set has done for the frame of display d at each of its places.
AnswerOf(d) ==
  /\ at # "set" => /\ acquire[d] = Plain(contents[d])
                   /\ indices[d] = indices_to_composite(contents[d])
  /\ at \in Before => \A j \in DOMAIN contents[d] : release[d][j] = "unset"
  /\ at \in Shown =>
       /\ used[d] \subseteq Plain(contents[d])
       /\ \A j \in DOMAIN contents[d] :
            release[d][j] = IF j \in used[d] THEN "done" ELSE "unset"
  /\ at \in Before \cup Shown => retire[d] = NoFence
  /\ onscreen # {} => \A j \in DOMAIN contents[d] \cap used[d] : release[d][j] = "done"
  /\ ret = 0 => retire[d] \in {NoFence, DummyFence, Merged(used[d])}
  /\ at = "idle" /\ contents[d] # NoFrame =>
       retire[d] # NoFence /\ \A j \in acquire[d] : release[d][j] # "unset"

AnswerInv ==
  /\ AnswerType
  /\ at \in Before => onscreen = {}
  /\ at \in Before \cup Shown => ret = 0
  /\ onscreen \subseteq HwcDisplays
  /\ \A d \in HwcDisplays : AnswerOf(d)

LEMMA NothingComposited ==
  indices_to_composite(NoFrame) = <<>> /\ Plain(NoFrame) = {}
<1> DEFINE t == Target(NoFrame)
           first(j) == j \in Skips(NoFrame) /\ \A k \in Skips(NoFrame) : j <= k
           pick(j) == IF first(j) /\ t > 0 /\ Valid(NoFrame, t) THEN <<t>>
                      ELSE IF ~ NoFrame[j].skip /\ NoFrame[j].type = "overlay" THEN <<j>> ELSE <<>>
           s == [j \in DOMAIN NoFrame |-> pick(j)]
<1>1. DOMAIN NoFrame = {} /\ DOMAIN NoFrame = 1..0
  BY DEF NoFrame
<1>2. t = 0
  BY <1>1 DEF Target
<1>3. indices_to_composite(NoFrame) =
        IF FlattenSeq(s) = <<>> /\ Skips(NoFrame) = {} /\ t > 0 THEN <<t>> ELSE FlattenSeq(s)
  BY DEF indices_to_composite
<1> HIDE DEF t, pick
<1>4. s \in Seq(Seq({}))
  <2>1. s \in [1..0 -> Seq({})]
    BY <1>1
  <2> QED BY <2>1
<1>5. FlattenSeq(s) \in Seq({})
  BY <1>4, FlattenEntries
<1>6. FlattenSeq(s) = <<>>
  BY <1>5
<1> QED BY <1>1, <1>2, <1>3, <1>6 DEF Plain

\* What the plan may read are layers that are not skipped.
LEMMA ReadIsPlain ==
  ASSUME NEW f, f = NoFrame \/ WellComposed(f)
  PROVE  ToSet(indices_to_composite(f)) \subseteq Plain(f)
<1>1. CASE f = NoFrame
  BY <1>1, NothingComposited DEF ToSet
<1>2. CASE WellComposed(f)
  <2> DEFINE s == indices_to_composite(f)
  <2>1. s \in Seq(Plain(f))
    BY <1>2, IndicesRight
  <2> HIDE DEF s
  <2>2. ToSet(s) \subseteq Plain(f)
    BY <2>1 DEF ToSet
  <2> QED BY <2>2 DEF s
<1> QED BY <1>1, <1>2

LEMMA InitAnswer == HwcInit => AnswerInv
<1> SUFFICES ASSUME HwcInit PROVE AnswerInv
  OBVIOUS
<1>1. DOMAIN NoFrame = {}
  BY DEF NoFrame
<1>2. AnswerType
  BY <1>1 DEF HwcInit, AnswerType, NoFrame
<1>3. ASSUME NEW d \in HwcDisplays PROVE AnswerOf(d)
  <2>1. /\ at = "idle" /\ contents[d] = NoFrame /\ acquire[d] = {} /\ indices[d] = <<>>
        /\ retire[d] = NoFence /\ onscreen = {}
    BY DEF HwcInit
  <2>2. acquire[d] = Plain(contents[d]) /\ indices[d] = indices_to_composite(contents[d])
    BY <2>1, NothingComposited
  <2> QED BY <2>1, <2>2 DEF AnswerOf, Before, Shown
<1> QED BY <1>2, <1>3 DEF AnswerInv, HwcInit, Before, Shown

\* The steps of hwc_set that touch no fence: they go on, or they give up.
Quiet ==
  /\ UNCHANGED <<contents, acquire, release, retire, indices, used>>
  /\ \/ UNCHANGED <<at, onscreen, ret>>
     \/ at = "import" /\ at' = "plan" /\ UNCHANGED <<onscreen, ret>>
     \/ at \in {"import", "queue"} /\ at' = "return" /\ ret' = -22 /\ UNCHANGED onscreen
     \/ at = "queue" /\ at' \in Shown /\ UNCHANGED ret /\ onscreen' \subseteq HwcDisplays

LEMMA QuietSteps ==
  ASSUME AnswerInv,
         \/ ImportLayer \/ CreateComposition \/ QueueDisplay \/ DropLayer
         \/ DropFrame \/ GrallocFree \/ Destroy \/ UNCHANGED devvars
  PROVE  Quiet
<1>1. CASE ImportLayer
  <2>1. \/ UNCHANGED hwcvars
        \/ /\ UNCHANGED <<contents, acquire, release, retire, indices, used, onscreen>>
           /\ at = "import" /\ (UNCHANGED <<at, ret>> \/ Fail)
    BY <1>1 DEF ImportLayer
  <2> QED BY <2>1 DEF Quiet, Fail, hwcvars
<1>2. CASE CreateComposition
  BY <1>2 DEF CreateComposition, Quiet, Fail
<1>3. CASE QueueDisplay
  <2>1. /\ at = "queue" /\ onscreen \subseteq HwcDisplays
        /\ UNCHANGED <<contents, acquire, release, retire, indices, used>>
    BY <1>3 DEF QueueDisplay, AnswerInv
  <2>2. \/ UNCHANGED <<at, ret, onscreen>>
        \/ Fail /\ UNCHANGED onscreen
        \/ /\ \E d \in HwcDisplays : onscreen' = onscreen \cup {d}
           /\ at' = (IF onscreen' = HwcDisplays THEN "retire" ELSE at) /\ UNCHANGED ret
    BY <1>3 DEF QueueDisplay
  <2> QED BY <2>1, <2>2 DEF Quiet, Fail, Shown
<1>4. CASE DropLayer
  BY <1>4 DEF DropLayer, Quiet
<1>5. CASE DropFrame \/ GrallocFree \/ Destroy \/ UNCHANGED devvars
  <2>1. UNCHANGED hwcvars
    BY <1>5 DEF DropFrame, GrallocFree, Destroy, devvars
  <2> QED BY <2>1 DEF Quiet, hwcvars
<1> QED BY <1>1, <1>2, <1>3, <1>4, <1>5

LEMMA QuietAnswer ==
  ASSUME AnswerInv, Quiet PROVE AnswerInv'
<1>1. /\ AnswerType /\ (at \in Before => onscreen = {}) /\ (at \in Before \cup Shown => ret = 0)
      /\ onscreen \subseteq HwcDisplays /\ \A d \in HwcDisplays : AnswerOf(d)
  BY DEF AnswerInv
<1>2. UNCHANGED <<contents, acquire, release, retire, indices, used>>
  BY DEF Quiet
<1>3. /\ at' \in {"idle", "return"} \cup Before \cup Shown
      /\ (at' \in Before => onscreen' = {}) /\ (at' \in Before \cup Shown => ret' = 0)
      /\ onscreen' \subseteq HwcDisplays
  BY <1>1 DEF Quiet, Before, Shown, AnswerType
<1>4. AnswerType'
  BY <1>1, <1>2, <1>3 DEF AnswerType, WellComposed, HasTarget
<1>5. ASSUME NEW d \in HwcDisplays PROVE AnswerOf(d)'
  <2>1. /\ at' # "set" => at # "set" \/ UNCHANGED at
        /\ at' \in Before => at \in Before
        /\ at' \in Shown => at \in Shown
        /\ at' = "idle" => at = "idle"
        /\ ret' = 0 => ret = 0
        /\ onscreen' # {} => onscreen # {} \/ at \in Shown
    BY DEF Quiet, Before, Shown
  <2>2. AnswerOf(d)
    BY <1>1
  <2>3. at' # "set" => /\ acquire'[d] = Plain(contents[d])'
                       /\ indices'[d] = indices_to_composite(contents[d])'
    BY <1>2, <2>1, <2>2 DEF AnswerOf
  <2>4. /\ at' \in Before => \A j \in DOMAIN contents'[d] : release'[d][j] = "unset"
        /\ at' \in Before \cup Shown => retire'[d] = NoFence
        /\ ret' = 0 => retire'[d] \in {NoFence, DummyFence, Merged(used'[d])}
        /\ at' = "idle" /\ contents'[d] # NoFrame =>
             retire'[d] # NoFence /\ \A j \in acquire'[d] : release'[d][j] # "unset"
    BY <1>2, <2>1, <2>2 DEF AnswerOf
  <2>5. at' \in Shown =>
          /\ used'[d] \subseteq Plain(contents[d])'
          /\ \A j \in DOMAIN contents'[d] :
               release'[d][j] = IF j \in used'[d] THEN "done" ELSE "unset"
    BY <1>2, <2>1, <2>2 DEF AnswerOf
  <2>6. onscreen' # {} => \A j \in DOMAIN contents'[d] \cap used'[d] : release'[d][j] = "done"
    BY <1>2, <2>1, <2>2 DEF AnswerOf
  <2> QED BY <2>3, <2>4, <2>5, <2>6 DEF AnswerOf
<1> QED BY <1>3, <1>4, <1>5 DEF AnswerInv

LEMMA PrepareAnswer ==
  ASSUME AnswerInv, Prepare PROVE AnswerInv'
<1>1. /\ at' = "set" /\ onscreen' = {} /\ ret' = 0
      /\ release' = [d \in HwcDisplays |-> [j \in DOMAIN contents'[d] |-> "unset"]]
      /\ retire' = [d \in HwcDisplays |-> NoFence]
      /\ acquire' = [d \in HwcDisplays |-> {}] /\ indices' = [d \in HwcDisplays |-> <<>>]
  BY DEF Prepare
<1>2. PICK asked, h :
        /\ asked \in [HwcDisplays -> Frames \cup {NoFrame}] /\ h \in [HwcDisplays -> Handles]
        /\ contents' = [d \in HwcDisplays |-> Composed(hwc_prepare(asked[d]), h[d])]
  BY DEF Prepare
<1>3. DOMAIN contents' = HwcDisplays
  BY <1>2
<1>4. ASSUME NEW d \in HwcDisplays PROVE contents'[d] = NoFrame \/ WellComposed(contents[d])'
  <2>1. contents'[d] = Composed(hwc_prepare(asked[d]), h[d]) /\ h[d] \in Handles
    BY <1>2
  <2>2. CASE asked[d] \in Frames
    <3>1. WellComposed(contents'[d])
      BY <2>1, <2>2, PreparedFrames
    <3> QED BY <3>1 DEF WellComposed, HasTarget
  <2>3. CASE asked[d] = NoFrame
    <3>1. hwc_prepare(NoFrame) = NoFrame
      BY DEF hwc_prepare, NoFrame
    <3>2. Composed(NoFrame, h[d]) = NoFrame
      BY DEF Composed, NoFrame
    <3> QED BY <2>1, <2>3, <3>1, <3>2
  <2> QED BY <1>2, <2>2, <2>3
<1>5. AnswerType'
  BY <1>1, <1>3, <1>4 DEF AnswerType, Before
<1>6. ASSUME NEW d \in HwcDisplays PROVE AnswerOf(d)'
  BY <1>1, <1>3 DEF AnswerOf, Before, Shown
<1> QED BY <1>1, <1>5, <1>6 DEF AnswerInv, Before, Shown

LEMMA PhaseOneAnswer ==
  ASSUME AnswerInv, PhaseOne PROVE AnswerInv'
<1>1. /\ AnswerType /\ at = "set" /\ onscreen = {} /\ \A d \in HwcDisplays : AnswerOf(d)
  BY DEF AnswerInv, PhaseOne, Before
<1>2. /\ acquire' = [d \in HwcDisplays |-> DOMAIN contents[d] \ Skips(contents[d])]
      /\ indices' = [d \in HwcDisplays |-> indices_to_composite(contents[d])]
      /\ UNCHANGED <<contents, release, retire, used, onscreen>>
  BY DEF PhaseOne
<1>3. (at' = "return" /\ ret' = -22) \/ (at' = "import" /\ ret' = 0)
  <2> DEFINE invalid == \E d \in HwcDisplays : \E j \in DOMAIN contents[d] :
                          /\ <<j>> = indices'[d] /\ Skips(contents[d]) = {}
                          /\ contents[d][j].type = "target" /\ ~ Valid(contents[d], j)
  <2>1. at' = (IF invalid THEN "return" ELSE "import") /\ ret' = (IF invalid THEN -22 ELSE 0)
    BY DEF PhaseOne
  <2> HIDE DEF invalid
  <2> QED BY <2>1
<1>4. AnswerType'
  BY <1>1, <1>2, <1>3 DEF AnswerType, Before, WellComposed, HasTarget
<1>5. ASSUME NEW d \in HwcDisplays PROVE AnswerOf(d)'
  <2>1. AnswerOf(d)
    BY <1>1
  <2>2. acquire'[d] = Plain(contents[d]) /\ indices'[d] = indices_to_composite(contents[d])
    BY <1>2 DEF Plain
  <2>3. acquire'[d] = Plain(contents[d])' /\ indices'[d] = indices_to_composite(contents[d])'
    BY <1>2, <2>2
  <2>4. retire[d] = NoFence /\ \A j \in DOMAIN contents[d] : release[d][j] = "unset"
    BY <1>1, <2>1 DEF AnswerOf, Before
  <2> QED BY <1>1, <1>2, <1>3, <2>3, <2>4 DEF AnswerOf, Before, Shown
<1> QED BY <1>1, <1>2, <1>3, <1>4, <1>5 DEF AnswerInv, Before, Shown

LEMMA PlanAnswer ==
  ASSUME AnswerInv, Plan PROVE AnswerInv'
<1>1. /\ AnswerType /\ at = "plan" /\ onscreen = {} /\ ret = 0
      /\ \A d \in HwcDisplays : AnswerOf(d)
  BY DEF AnswerInv, Plan, Before
<1>2. /\ UNCHANGED <<contents, acquire, retire, indices, onscreen>>
      /\ \A d \in HwcDisplays : used'[d] \subseteq ToSet(indices[d])
  BY DEF Plan
<1>3. \/ /\ release' = [d \in HwcDisplays |-> Fenced(d, used'[d])]
         /\ at' = "queue" /\ ret' = 0
      \/ /\ \E upto \in HwcDisplays :
              release' = [d \in HwcDisplays |-> Fenced(d, IF d < upto THEN used'[d] ELSE {})]
         /\ at' = "return" /\ ret' = -22
  BY <1>1 DEF Plan, Fail
<1>4. DOMAIN release' = HwcDisplays /\ \A d \in HwcDisplays : DOMAIN release'[d] = DOMAIN release[d]
  BY <1>3 DEF Fenced
<1>5. AnswerType'
  BY <1>1, <1>2, <1>3, <1>4 DEF AnswerType, Shown, WellComposed, HasTarget
<1>6. ASSUME NEW d \in HwcDisplays PROVE AnswerOf(d)'
  <2>1. /\ acquire[d] = Plain(contents[d]) /\ indices[d] = indices_to_composite(contents[d])
        /\ retire[d] = NoFence /\ \A j \in DOMAIN contents[d] : release[d][j] = "unset"
    BY <1>1 DEF AnswerOf, Before
  <2>2. /\ contents[d] = NoFrame \/ WellComposed(contents[d])
        /\ DOMAIN release[d] = DOMAIN contents[d]
    BY <1>1 DEF AnswerType
  <2>3. used'[d] \subseteq Plain(contents[d])
    BY <1>2, <2>1, <2>2, ReadIsPlain
  <2>4. /\ acquire'[d] = Plain(contents[d])' /\ indices'[d] = indices_to_composite(contents[d])'
        /\ used'[d] \subseteq Plain(contents[d])'
    BY <1>2, <2>1, <2>3
  <2>5. at' = "queue" => \A j \in DOMAIN contents[d] :
                           release'[d][j] = IF j \in used'[d] THEN "done" ELSE "unset"
    BY <1>3, <2>1, <2>2 DEF Fenced
  <2> QED BY <1>1, <1>2, <1>3, <2>1, <2>4, <2>5 DEF AnswerOf, Before, Shown
<1> QED BY <1>1, <1>2, <1>3, <1>5, <1>6 DEF AnswerInv, Before, Shown

LEMMA RetireAnswer ==
  ASSUME AnswerInv, Retire PROVE AnswerInv'
<1>1. /\ AnswerType /\ at = "retire" /\ onscreen \subseteq HwcDisplays
      /\ \A d \in HwcDisplays : AnswerOf(d)
  BY DEF AnswerInv, Retire
<1>2. /\ UNCHANGED <<contents, acquire, release, indices, used, onscreen, ret>> /\ at' = "return"
      /\ \/ retire' = [d \in HwcDisplays |-> hwc_add_layer_to_retire_fence(d)]
         \/ retire' = [d \in HwcDisplays |-> NoFence]
  BY DEF Retire
<1>3. AnswerType'
  BY <1>1, <1>2 DEF AnswerType, WellComposed, HasTarget
<1>4. ASSUME NEW d \in HwcDisplays PROVE AnswerOf(d)'
  <2>1. /\ acquire[d] = Plain(contents[d]) /\ indices[d] = indices_to_composite(contents[d])
        /\ used[d] \subseteq Plain(contents[d])
        /\ \A j \in DOMAIN contents[d] : release[d][j] = IF j \in used[d] THEN "done" ELSE "unset"
    BY <1>1 DEF AnswerOf, Shown
  <2>2. {j \in DOMAIN contents[d] : ~ contents[d][j].skip /\ release[d][j] # "unset"} = used[d]
    BY <2>1 DEF Plain, Skips
  <2>3. retire'[d] \in {NoFence, Merged(used[d])}
    BY <1>2, <2>2 DEF hwc_add_layer_to_retire_fence
  <2>4. retire'[d] \in {NoFence, Merged(used[d])'}
    BY <1>2, <2>3
  <2>5. acquire'[d] = Plain(contents[d])' /\ indices'[d] = indices_to_composite(contents[d])'
    BY <1>2, <2>1
  <2>6. \A j \in DOMAIN contents'[d] \cap used'[d] : release'[d][j] = "done"
    BY <1>2, <2>1
  <2> QED BY <1>2, <2>4, <2>5, <2>6 DEF AnswerOf, Before, Shown
<1> QED BY <1>1, <1>2, <1>3, <1>4 DEF AnswerInv, Before, Shown

\* Whatever is left of the fences is filled; what was filled before stays.
LEMMA ReturnAnswer ==
  ASSUME AnswerInv, Return PROVE AnswerInv'
<1>1. /\ AnswerType /\ at = "return" /\ onscreen \subseteq HwcDisplays
      /\ \A d \in HwcDisplays : AnswerOf(d)
  BY DEF AnswerInv, Return
<1>2. /\ UNCHANGED <<contents, acquire, indices, used, onscreen, ret>> /\ at' = "idle"
      /\ release' = [d \in HwcDisplays |-> [j \in DOMAIN release[d] |->
           IF j \in acquire[d] /\ release[d][j] = "unset" THEN "dummy" ELSE release[d][j]]]
      /\ retire' = [d \in HwcDisplays |->
           IF contents[d] # NoFrame /\ retire[d] = NoFence THEN DummyFence ELSE retire[d]]
  BY DEF Return, CheckedOutputFds
<1>3. AnswerType'
  BY <1>1, <1>2 DEF AnswerType, WellComposed, HasTarget
<1>4. ASSUME NEW d \in HwcDisplays PROVE AnswerOf(d)'
  <2>1. /\ acquire[d] = Plain(contents[d]) /\ indices[d] = indices_to_composite(contents[d])
        /\ onscreen # {} => \A j \in DOMAIN contents[d] \cap used[d] : release[d][j] = "done"
        /\ ret = 0 => retire[d] \in {NoFence, DummyFence, Merged(used[d])}
    BY <1>1 DEF AnswerOf
  <2>2. DOMAIN release[d] = DOMAIN contents[d] /\ acquire[d] \subseteq DOMAIN release[d]
    BY <1>1, <2>1 DEF AnswerType, Plain
  <2>3. acquire'[d] = Plain(contents[d])' /\ indices'[d] = indices_to_composite(contents[d])'
    BY <1>2, <2>1
  <2>4. contents'[d] # NoFrame =>
          retire'[d] # NoFence /\ \A j \in acquire'[d] : release'[d][j] # "unset"
    BY <1>2, <2>2 DEF NoFence, DummyFence
  <2>5. onscreen' # {} => \A j \in DOMAIN contents'[d] \cap used'[d] : release'[d][j] = "done"
    BY <1>2, <2>1, <2>2
  <2>6. ret' = 0 => retire'[d] \in {NoFence, DummyFence, Merged(used[d])'}
    BY <1>2, <2>1
  <2> QED BY <1>2, <2>3, <2>4, <2>5, <2>6 DEF AnswerOf, Before, Shown
<1> QED BY <1>1, <1>2, <1>3, <1>4 DEF AnswerInv, Before, Shown

LEMMA AnswerFits == AnswerInv => FrameAnswered
<1> SUFFICES ASSUME AnswerInv PROVE FrameAnswered
  OBVIOUS
<1>1. /\ AnswerType /\ onscreen \subseteq HwcDisplays /\ \A d \in HwcDisplays : AnswerOf(d)
  BY DEF AnswerInv
<1>2. ASSUME at = "idle", NEW d \in HwcDisplays, contents[d] # NoFrame
      PROVE  /\ \A j \in DOMAIN contents[d] :
                  /\ ~ contents[d][j].skip => j \in acquire[d] /\ release[d][j] # "unset"
                  /\ d \in onscreen /\ j \in used[d] => release[d][j] = "done"
             /\ retire[d] # NoFence
             /\ ret = 0 /\ retire[d] # DummyFence => retire[d] = Merged(used[d])
  BY <1>1, <1>2 DEF AnswerOf, Plain, Skips
<1>3. ASSUME at = "idle", NEW d \in onscreen,
             \E j \in DOMAIN contents[d] : contents[d][j].type = "framebuffer" /\ contents[d][j].seen
      PROVE  Cardinality({i \in DOMAIN indices[d] : indices[d][i] = Target(contents[d])}) = 1
  <2>1. d \in HwcDisplays /\ indices[d] = indices_to_composite(contents[d])
    BY <1>1, <1>3 DEF AnswerOf
  <2>2. DOMAIN contents[d] # {}
    BY <1>3
  <2>3. WellComposed(contents[d])
    BY <1>1, <2>1, <2>2 DEF AnswerType, NoFrame
  <2>4. Once(indices[d], Target(contents[d]))
    BY <1>3, <2>1, <2>3, IndicesRight
  <2>5. PICK i : PlacesOf(indices[d], Target(contents[d])) = {i}
    BY <2>4 DEF Once
  <2> QED BY <2>5, FS_Singleton DEF PlacesOf
<1> QED BY <1>2, <1>3 DEF FrameAnswered, FencesFilled, FrameComplete

\* FrameAnswered: whichever step of hwc_set fails, and however many layers and
\* displays there are, SurfaceFlinger gets a fence for every one it gave away,
\* the composition's for a layer a queued frame reads, a retire fence that
\* waits for the layers read, and its target on the screen once if it drew one.
THEOREM FramesAreAnswered == HwcSpec => []FrameAnswered
<1>1. AnswerInv /\ [HwcNext]_devvars => AnswerInv'
  <2> SUFFICES ASSUME AnswerInv, [HwcNext]_devvars PROVE AnswerInv'
    OBVIOUS
  <2>1. \/ Prepare \/ PhaseOne \/ Plan \/ Retire \/ Return
        \/ \/ ImportLayer \/ CreateComposition \/ QueueDisplay \/ DropLayer
           \/ DropFrame \/ GrallocFree \/ Destroy \/ UNCHANGED devvars
    BY DEF HwcNext, HwcSet
  <2> QED BY <2>1, PrepareAnswer, PhaseOneAnswer, PlanAnswer, RetireAnswer, ReturnAnswer,
             QuietSteps, QuietAnswer
<1> QED BY <1>1, InitAnswer, AnswerFits, PTL DEF HwcSpec

-----------------------------------------------------------------------------
(* GLWorker: quotients of the texture coordinates *)

LEMMA DivMod ==
  ASSUME NEW a \in Int, NEW b \in Int, b > 0
  PROVE  /\ a \div b \in Int
         /\ b * (a \div b) <= a /\ a < b * (a \div b) + b
OBVIOUS

LEMMA DivUnique ==
  ASSUME NEW a \in Int, NEW b \in Int, b > 0, NEW q \in Int, b * q <= a, a < b * q + b
  PROVE  a \div b = q
OBVIOUS

\* Two quotients that are the same number have the same integral part.
LEMMA DivCross ==
  ASSUME NEW a \in Int, NEW b \in Int, b > 0, NEW c \in Int, NEW d \in Int, d > 0, a * d = c * b
  PROVE  a \div b = c \div d
<1>1. PICK q \in Int : q = c \div d /\ d * q <= c /\ c < d * q + d BY DivMod
<1>2. d * (b * q) = b * (d * q) /\ b * c = d * a OBVIOUS
<1>3. b * (d * q) <= b * c /\ b * c < b * (d * q + d) BY <1>1
<1>4. b * (d * q + d) = d * (b * q + b) OBVIOUS
<1>5. d * (b * q) <= d * a /\ d * a < d * (b * q + b) BY <1>2, <1>3, <1>4
<1>6. b * q <= a BY <1>5
<1>7. a < b * q + b BY <1>5
<1> QED BY <1>1, <1>6, <1>7, DivUnique

LEMMA DivShift ==
  ASSUME NEW a \in Int, NEW b \in Int, b > 0, NEW n \in Int
  PROVE  (n * b + a) \div b = n + a \div b
<1>1. PICK q \in Int : q = a \div b /\ b * q <= a /\ a < b * q + b BY DivMod
<1>2. b * (n + q) = n * b + b * q OBVIOUS
<1>3. PICK m \in Int : m = n * b + a OBVIOUS
<1>4. b * (n + q) <= m /\ m < b * (n + q) + b BY <1>1, <1>2, <1>3
<1>5. m \div b = n + q BY <1>4, DivUnique
<1> QED BY <1>1, <1>3, <1>5

\* One axis: a layer whose crop starts at c and is s texels wide is shown from d
\* on, on w pixels; the region starts at f and is g pixels wide, which are the
\* texels from c + m to c + n.
Straight(c, s, d, w, f, g, p, m, n) ==
  (2 * (c + m) * g + (2 * (p - f) + 1) * (n - m)) \div (2 * g)
    = c + ((2 * (p - d) + 1) * s) \div (2 * w)
Flipped(c, s, d, w, f, g, p, m, n) ==
  (2 * (c + s - m) * g + (2 * (p - f) + 1) * (m - n)) \div (2 * g)
    = c + ((2 * (w - 1 - (p - d)) + 1) * s) \div (2 * w)

LEMMA AxisStraight ==
  ASSUME NEW c \in Int, NEW s \in Int, NEW d \in Int, NEW w \in Int, w > 0,
         NEW f \in Int, NEW g \in Int, g > 0, NEW p \in Int,
         NEW m \in Int, NEW n \in Int, w * m = (f - d) * s, w * n = (f + g - d) * s
  PROVE  Straight(c, s, d, w, f, g, p, m, n)
<1> DEFINE k == 2 * (p - f) + 1
           a == 2 * m * g + k * (n - m)
           e == (2 * (p - d) + 1) * s
<1>1. w * (n - m) = g * s
  <2>1. w * (n - m) = w * n - w * m OBVIOUS
  <2>2. (f + g - d) * s - (f - d) * s = g * s OBVIOUS
  <2> QED BY <2>1, <2>2
<1>2. a * (2 * w) = e * (2 * g)
  <2>1. a * (2 * w) = 4 * g * (w * m) + 2 * k * (w * (n - m)) OBVIOUS
  <2>2. a * (2 * w) = 4 * g * ((f - d) * s) + 2 * k * (g * s) BY <1>1, <2>1
  <2>3. 4 * g * ((f - d) * s) + 2 * k * (g * s) = e * (2 * g) OBVIOUS
  <2> QED BY <2>2, <2>3
<1>3. a \in Int /\ e \in Int /\ 2 * g \in Int /\ 2 * w \in Int /\ 2 * g > 0 /\ 2 * w > 0 OBVIOUS
<1>4. 2 * (c + m) * g + k * (n - m) = c * (2 * g) + a OBVIOUS
<1> HIDE DEF a, e, k
<1>5. a \div (2 * g) = e \div (2 * w) BY <1>2, <1>3, DivCross
<1>6. (c * (2 * g) + a) \div (2 * g) = c + a \div (2 * g) BY <1>3, DivShift
<1> QED BY <1>4, <1>5, <1>6 DEF e, k, Straight

LEMMA AxisFlipped ==
  ASSUME NEW c \in Int, NEW s \in Int, NEW d \in Int, NEW w \in Int, w > 0,
         NEW f \in Int, NEW g \in Int, g > 0, NEW p \in Int,
         NEW m \in Int, NEW n \in Int, w * m = (f - d) * s, w * n = (f + g - d) * s
  PROVE  Flipped(c, s, d, w, f, g, p, m, n)
<1> DEFINE k == 2 * (p - f) + 1
           a == 2 * (s - m) * g - k * (n - m)
           e == (2 * (w - 1 - (p - d)) + 1) * s
<1>1. w * (n - m) = g * s
  <2>1. w * (n - m) = w * n - w * m OBVIOUS
  <2>2. (f + g - d) * s - (f - d) * s = g * s OBVIOUS
  <2> QED BY <2>1, <2>2
<1>2. a * (2 * w) = e * (2 * g)
  <2>1. a * (2 * w) = 4 * s * g * w - 4 * g * (w * m) - 2 * k * (w * (n - m)) OBVIOUS
  <2>2. a * (2 * w) = 4 * s * g * w - 4 * g * ((f - d) * s) - 2 * k * (g * s) BY <1>1, <2>1
  <2>3. 4 * s * g * w - 4 * g * ((f - d) * s) - 2 * k * (g * s) = e * (2 * g) OBVIOUS
  <2> QED BY <2>2, <2>3
<1>3. a \in Int /\ e \in Int /\ 2 * g \in Int /\ 2 * w \in Int /\ 2 * g > 0 /\ 2 * w > 0 OBVIOUS
<1>4. 2 * (c + s - m) * g + k * (m - n) = c * (2 * g) + a OBVIOUS
<1> HIDE DEF a, e, k
<1>5. a \div (2 * g) = e \div (2 * w) BY <1>2, <1>3, DivCross
<1>6. (c * (2 * g) + a) \div (2 * g) = c + a \div (2 * g) BY <1>3, DivShift
<1> QED BY <1>4, <1>5, <1>6 DEF e, k, Flipped

-----------------------------------------------------------------------------
(* What the shaders make of a rendering command *)

\* n divides evenly by w.
Whole(n, w) == w * (n \div w) = n

LEMMA WholeMod ==
  ASSUME NEW n \in Int, NEW w \in Int, w > 0, n % w = 0
  PROVE  Whole(n, w)
BY DEF Whole

AxisRight(crop, disp, frame, p, a, b, m, n) ==
  /\ (2 * (crop[a] + m) * Size(frame, b)
        + (2 * (p - frame[b]) + 1) * ((crop[a] + n) - (crop[a] + m))) \div (2 * Size(frame, b))
       = crop[a] + ((2 * (p - disp[b]) + 1) * Size(crop, a)) \div (2 * Size(disp, b))
  /\ (2 * (crop[a + 2] - m) * Size(frame, b)
        + (2 * (p - frame[b]) + 1) * ((crop[a + 2] - n) - (crop[a + 2] - m))) \div (2 * Size(frame, b))
       = crop[a] + ((2 * (Size(disp, b) - 1 - (p - disp[b])) + 1) * Size(crop, a)) \div (2 * Size(disp, b))

LEMMA AxisTexel ==
  ASSUME NEW crop \in [1..4 -> Int], NEW disp \in [1..4 -> Int], NEW frame \in [1..4 -> Int],
         NEW p \in Int, NEW a \in 1..2, NEW b \in 1..2,
         Size(disp, b) > 0, Size(frame, b) > 0,
         NEW m \in Int, m = ((frame[b] - disp[b]) * Size(crop, a)) \div Size(disp, b),
         NEW n \in Int, n = ((frame[b + 2] - disp[b]) * Size(crop, a)) \div Size(disp, b),
         Whole((frame[b] - disp[b]) * Size(crop, a), Size(disp, b)),
         Whole((frame[b + 2] - disp[b]) * Size(crop, a), Size(disp, b))
  PROVE  AxisRight(crop, disp, frame, p, a, b, m, n)
<1>1. PICK c \in Int, s \in Int : c = crop[a] /\ s = Size(crop, a) /\ crop[a + 2] = c + s
  BY DEF Size
<1>2. PICK d \in Int, w \in Int : d = disp[b] /\ w = Size(disp, b) /\ w > 0 BY DEF Size
<1>3. PICK f \in Int, g \in Int : f = frame[b] /\ g = Size(frame, b) /\ g > 0 /\ frame[b + 2] = f + g
  BY DEF Size
<1>4. w * m = (f - d) * s /\ w * n = (f + g - d) * s BY <1>1, <1>2, <1>3 DEF Whole
<1>5. Straight(c, s, d, w, f, g, p, m, n) BY <1>2, <1>3, <1>4, AxisStraight
<1>6. Flipped(c, s, d, w, f, g, p, m, n) BY <1>2, <1>3, <1>4, AxisFlipped
<1>7. (c + n) - (c + m) = n - m /\ ((c + s) - n) - ((c + s) - m) = m - n OBVIOUS
<1> QED BY <1>1, <1>2, <1>3, <1>5, <1>6, <1>7 DEF AxisRight, Straight, Flipped

LEMMA TexelsMeet ==
  ASSUME NEW layer, SceneLayer(layer), NEW frame \in [1..4 -> Int], NEW p \in Int \X Int,
         In(p, frame), WholeCrop(layer, frame),
         NEW src, src.swap = Turn(layer.transform).swap, src.crop_bounds = CropBounds(layer, frame)
  PROVE  FTexCoords(src, frame, p) = TexelAt(layer, p)
<1> DEFINE crop == layer.source_crop
           disp == layer.display_frame
           swap == Turn(layer.transform).swap
           flip == Turn(layer.transform).flip
           b(a) == IF swap THEN Other(a) ELSE a
           Part(a, edge) == ((frame[edge] - disp[b(a)]) * Size(crop, a)) \div Size(disp, b(a))
           Pixel(a) == p[b(a)] - disp[b(a)]
           Turned(a) == IF flip[a] THEN Size(disp, b(a)) - 1 - Pixel(a) ELSE Pixel(a)
           Texel(a) == crop[a] + ((2 * Turned(a) + 1) * Size(crop, a)) \div (2 * Size(disp, b(a)))
           At(a) == (2 * src.crop_bounds[a] * Size(frame, b(a))
                      + (2 * (p[b(a)] - frame[b(a)]) + 1) * Size(src.crop_bounds, a))
                        \div (2 * Size(frame, b(a)))
<1>2. crop \in [1..4 -> Int] /\ disp \in [1..4 -> Int] BY DEF SceneLayer
<1>3. p[1] \in Int /\ p[2] \in Int OBVIOUS
<1>4. ASSUME NEW a \in 1..2 PROVE b(a) \in 1..2 BY DEF Other
<1>5. ASSUME NEW a \in 1..2
      PROVE  /\ Size(disp, b(a)) > 0 /\ Size(frame, b(a)) > 0
             /\ Size(disp, b(a)) \in Int /\ Size(crop, a) \in Int
    BY <1>2, <1>3, <1>4 DEF Size, SceneLayer, In
<1>6. ASSUME NEW a \in 1..2
      PROVE  /\ src.crop_bounds[a] = IF flip[a] THEN crop[a + 2] - Part(a, b(a)) ELSE crop[a] + Part(a, b(a))
             /\ src.crop_bounds[a + 2] = IF flip[a] THEN crop[a + 2] - Part(a, b(a) + 2)
                                         ELSE crop[a] + Part(a, b(a) + 2)
  <2>1. CASE a = 1 BY <2>1 DEF CropBounds
  <2>2. CASE a = 2 BY <2>2 DEF CropBounds
  <2> QED BY <2>1, <2>2
<1>7. ASSUME NEW a \in 1..2 PROVE At(a) = Texel(a)
  <2>1. PICK k \in 1..2 : k = b(a) BY <1>4
  <2>2. Part(a, k) \in Int /\ Part(a, k + 2) \in Int
    BY <1>2, <1>5, <2>1, DivMod
  <2>3. /\ Whole((frame[k] - disp[k]) * Size(crop, a), Size(disp, k))
        /\ Whole((frame[k + 2] - disp[k]) * Size(crop, a), Size(disp, k))
    <3>1. /\ ((frame[k] - disp[k]) * Size(crop, a)) % Size(disp, k) = 0
          /\ ((frame[k + 2] - disp[k]) * Size(crop, a)) % Size(disp, k) = 0
      BY <2>1 DEF WholeCrop
    <3>2. /\ (frame[k] - disp[k]) * Size(crop, a) \in Int
          /\ (frame[k + 2] - disp[k]) * Size(crop, a) \in Int
          /\ Size(disp, k) \in Int /\ Size(disp, k) > 0
      BY <1>2, <1>5, <2>1
    <3> HIDE DEF crop, disp
    <3> QED BY <3>1, <3>2, WholeMod
  <2>4. PICK m \in Int : m = ((frame[k] - disp[k]) * Size(crop, a)) \div Size(disp, k) BY <2>1, <2>2
  <2>5. PICK n \in Int : n = ((frame[k + 2] - disp[k]) * Size(crop, a)) \div Size(disp, k) BY <2>1, <2>2
  <2>6. Size(disp, k) > 0 /\ Size(frame, k) > 0 /\ p[k] \in Int BY <1>3, <1>5, <2>1
  <2>7. AxisRight(crop, disp, frame, p[k], a, k, m, n)
    <3> HIDE DEF crop, disp
    <3> QED BY <1>2, <2>3, <2>4, <2>5, <2>6, AxisTexel
  <2>8. Size(src.crop_bounds, a) = src.crop_bounds[a + 2] - src.crop_bounds[a] BY DEF Size
  <2>9. CASE flip[a]
    <3>1. src.crop_bounds[a] = crop[a + 2] - m /\ src.crop_bounds[a + 2] = crop[a + 2] - n
      BY <1>6, <2>1, <2>4, <2>5, <2>9
    <3> QED BY <2>1, <2>7, <2>8, <2>9, <3>1 DEF AxisRight
  <2>10. CASE ~flip[a]
    <3>1. src.crop_bounds[a] = crop[a] + m /\ src.crop_bounds[a + 2] = crop[a] + n
      BY <1>6, <2>1, <2>4, <2>5, <2>10
    <3> QED BY <2>1, <2>7, <2>8, <2>10, <3>1 DEF AxisRight
  <2> QED BY <2>9, <2>10
<1>8. FTexCoords(src, frame, p) = <<At(1), At(2)>> BY DEF FTexCoords
<1>9. TexelAt(layer, p) = <<Texel(1), Texel(2)>>
  <2>1. CASE "rot_90" \in layer.transform
    <3>1. swap /\ (flip[1] <=> "flip_h" \in layer.transform) /\ (flip[2] <=> "flip_v" \notin layer.transform)
      BY <2>1 DEF Turn
    <3>2. b(1) = 2 /\ b(2) = 1 BY <3>1 DEF Other
    <3>3. \A h, x \in Int : h - 1 - (h - 1 - x) = x OBVIOUS
    <3>4. Size(disp, 1) \in Int /\ p[1] - disp[1] \in Int BY <1>2, <1>3 DEF Size
    <3> QED BY <2>1, <3>1, <3>2, <3>3, <3>4 DEF TexelAt
  <2>2. CASE "rot_90" \notin layer.transform
    <3>1. ~swap /\ (flip[1] <=> "flip_h" \in layer.transform) /\ (flip[2] <=> "flip_v" \in layer.transform)
      BY <2>2 DEF Turn
    <3> QED BY <2>2, <3>1 DEF TexelAt
  <2> QED BY <2>1, <2>2
<1>10. At(1) = Texel(1) /\ At(2) = Texel(2)
  <2> HIDE DEF At, Texel
  <2> QED BY <1>7
<1> QED BY <1>8, <1>9, <1>10

-----------------------------------------------------------------------------
(* The textures and the order of them *)

LEMMA NthLayer ==
  ASSUME NEW n \in Nat, NEW i \in 1..n
  PROVE  (CHOOSE l \in (1..n) \ {} : Cardinality({k \in (1..n) \ {} : k <= l}) = i) = i
<1>1. ASSUME NEW l \in 1..n PROVE Cardinality({k \in (1..n) \ {} : k <= l}) = l
  <2>1. {k \in (1..n) \ {} : k <= l} = 1..l OBVIOUS
  <2>2. Cardinality(1..l) = l BY FS_Interval
  <2> QED BY <2>1, <2>2
<1>2. (1..n) \ {} = 1..n OBVIOUS
<1> DEFINE S == (1..n) \ {}
           Card(l) == Cardinality({k \in (1..n) \ {} : k <= l})
<1>3. \A l \in S : Card(l) = l BY <1>1, <1>2
<1>4. i \in S BY <1>2
<1> HIDE DEF S, Card
<1>5. (CHOOSE l \in S : Card(l) = i) = i BY <1>3, <1>4
<1> QED BY <1>5 DEF S, Card

\* No entry moves when no layer fails.
LEMMA TexturesInPlace ==
  ASSUME NEW inUse, NEW l \in 1..MAX_OVERLAPPING_LAYERS, l \in inUse
  PROVE  LayerTextures(inUse, {})[l] = l
<1> DEFINE kept == (1..MAX_OVERLAPPING_LAYERS) \ {}
           Nth(i) == CHOOSE j \in kept : Cardinality({k \in kept : k <= j}) = i
<1>1. Nth(l) = l BY NthLayer, GLAssumption
<1>2. Cardinality(kept) = MAX_OVERLAPPING_LAYERS
  <2>1. kept = 1..MAX_OVERLAPPING_LAYERS OBVIOUS
  <2>2. MAX_OVERLAPPING_LAYERS \in Nat BY GLAssumption
  <2> HIDE DEF kept
  <2> QED BY <2>1, <2>2, FS_Interval
<1>3. LayerTextures(inUse, {}) = [i \in 1..Cardinality(kept) |-> IF Nth(i) \in inUse THEN Nth(i) ELSE NoTexture]
  BY Zenon DEF LayerTextures
<1> HIDE DEF kept, Nth
<1> QED BY <1>1, <1>2, <1>3

LEMMA GreatestOf ==
  ASSUME NEW n \in Nat, NEW inUse \in SUBSET (1..n), inUse # {}
  PROVE  \E l \in inUse : \A k \in inUse : k <= l
<1> DEFINE I == {m \in Nat : \A k \in inUse : k <= m}
<1>1. n \in I OBVIOUS
<1>2. PICK x \in I : \A y \in I : x <= y
  <2> HIDE DEF I
  <2>1. I \in SUBSET Nat BY DEF I
  <2> QED BY <1>1, <2>1, LeastOf
<1>3. x \in inUse
  <2> SUFFICES ASSUME x \notin inUse PROVE FALSE
    OBVIOUS
  <2>1. \A k \in inUse : k <= x /\ k # x /\ k \in Nat /\ k >= 1 BY <1>2
  <2>2. x - 1 \in Nat
    <3>1. PICK k \in inUse : k >= 1 BY <2>1
    <3> QED BY <1>2, <2>1, <3>1
  <2>3. \A k \in inUse : k <= x - 1 BY <2>1, <1>2
  <2>4. x - 1 \in I BY <2>2, <2>3
  <2> QED BY <1>2, <2>4
<1> QED BY <1>2, <1>3

\* The sources of a region up to the first opaque layer.
SourcesEnd(scene, region, last) ==
  /\ last <= Len(region.source_layers)
  /\ DOMAIN TextureSources(scene, region) = 1..last
  /\ \A i \in 1..last : TextureSources(scene, region)[i] = region.source_layers[i]
  /\ \A i \in DOMAIN region.source_layers :
       i > last <=> \E j \in 1..i - 1 : scene.layers[region.source_layers[j]].blending = "none"

LEMMA SourcesTo ==
  ASSUME NEW scene, NEW region, SceneRegion(scene, region)
  PROVE  \E last \in Nat : SourcesEnd(scene, region, last)
<1> DEFINE q == region.source_layers
           Opaque(i) == scene.layers[q[i]].blending = "none"
           opaque == {i \in DOMAIN q : Opaque(i)}
           last == IF opaque = {} THEN Len(q) ELSE CHOOSE i \in opaque : \A j \in opaque : i <= j
<1>1. q \in Seq(1..MAX_OVERLAPPING_LAYERS) BY DEF SceneRegion
<1>2. TextureSources(scene, region) = SubSeq(q, 1, last) BY DEF TextureSources
<1>3. Len(q) \in Nat /\ DOMAIN q = 1..Len(q) BY <1>1
<1>4. opaque \in SUBSET (1..Len(q)) /\ \A i \in 1..Len(q) : i \in opaque <=> Opaque(i) BY <1>3
<1> HIDE DEF q, Opaque, opaque
<1>5. opaque # {} => last \in opaque /\ \A j \in opaque : last <= j
  <2>1. opaque \in SUBSET Nat BY <1>4
  <2>2. opaque # {} => \E x \in opaque : \A j \in opaque : x <= j BY <2>1, LeastOf
  <2> QED BY <2>2
<1>6. last \in Nat /\ last <= Len(q)
  <2>1. CASE opaque = {} BY <1>3, <2>1
  <2>2. CASE opaque # {}
    <3>1. last \in opaque BY <1>5, <2>2
    <3> HIDE DEF last
    <3> QED BY <1>3, <1>4, <3>1
  <2> QED BY <2>1, <2>2
<1>7. ASSUME NEW i \in 1..Len(q) PROVE i > last <=> \E j \in 1..i - 1 : Opaque(j)
  <2>1. CASE opaque = {} BY <1>3, <1>4, <2>1
  <2>2. CASE opaque # {}
    <3>1. last \in 1..Len(q) /\ Opaque(last) /\ \A j \in 1..Len(q) : Opaque(j) => last <= j
      BY <1>4, <1>5, <2>2
    <3> HIDE DEF last
    <3>2. i > last => last \in 1..i - 1 BY <1>3, <3>1
    <3>3. ASSUME NEW j \in 1..i - 1, Opaque(j) PROVE i > last
      <4>1. j \in 1..Len(q) /\ j < i BY <1>3, <3>3
      <4> QED BY <1>3, <3>1, <3>3, <4>1
    <3> QED BY <3>1, <3>2, <3>3
  <2> QED BY <2>1, <2>2
<1>8. PICK n \in Nat : n = last BY <1>6
<1>9. DOMAIN SubSeq(q, 1, n) = 1..n /\ \A i \in 1..n : SubSeq(q, 1, n)[i] = q[i]
  <2>1. n <= Len(q) BY <1>6, <1>8
  <2> HIDE DEF last
  <2> QED BY <1>1, <1>3, <2>1
<1>10. \A i \in DOMAIN q : i > n <=> \E j \in 1..i - 1 : Opaque(j) BY <1>3, <1>7, <1>8
<1> HIDE DEF last
<1>11. SourcesEnd(scene, region, n) BY <1>2, <1>6, <1>8, <1>9, <1>10 DEF q, Opaque, SourcesEnd
<1> QED BY <1>11

-----------------------------------------------------------------------------
(* The pixels *)

\* What LayersDrawn asks of one layer at a pixel, and of a pixel
LayerDrawn(scene, region, px, p, i) ==
  IF \E j \in 1..i - 1 : scene.layers[region.source_layers[j]].blending = "none" THEN i \notin DOMAIN px
  ELSE /\ i \in DOMAIN px
       /\ px[i].texture = region.source_layers[i]
       /\ px[i].texel = TexelAt(scene.layers[region.source_layers[i]], p)

PixelDrawn(scene, px, p) ==
  LET mine == {r \in DOMAIN scene.regions : In(p, scene.regions[r].frame)}
  IN  IF mine = {} THEN px = <<>>
      ELSE LET region == scene.regions[CHOOSE r \in mine : TRUE]
           IN  \A i \in DOMAIN region.source_layers : LayerDrawn(scene, region, px, p, i)

LEMMA RegionDrawn ==
  ASSUME WholeTexels, NEW scene \in Scenes, NEW r \in DOMAIN scene.regions, NEW p \in Screen2D,
         In(p, scene.regions[r].frame), NEW px,
         gl.layer_textures = LayerTextures(LayersUsed(scene), {}),
         px = FragColor(ConstructCommand(scene, scene.regions[r]), p),
         NEW i \in DOMAIN scene.regions[r].source_layers
  PROVE  LayerDrawn(scene, scene.regions[r], px, p, i)
<1> DEFINE region == scene.regions[r]
           q == region.source_layers
           layer == scene.layers[q[i]]
           sources == TextureSources(scene, region)
           cmd == ConstructCommand(scene, region)
           Covered == \E j \in 1..i - 1 : scene.layers[q[j]].blending = "none"
<1>1. SceneRegion(scene, region) /\ p \in Int \X Int BY GLAssumption
<1>0. PICK last \in Nat : SourcesEnd(scene, region, last) BY <1>1, SourcesTo
<1>2. /\ DOMAIN sources = 1..last /\ \A k \in 1..last : sources[k] = q[k]
      /\ i > last <=> \E j \in 1..i - 1 : scene.layers[q[j]].blending = "none"
  BY <1>0 DEF SourcesEnd
<1>3. i \in Nat /\ i >= 1 /\ q[i] \in 1..MAX_OVERLAPPING_LAYERS
  <2>1. q \in Seq(1..MAX_OVERLAPPING_LAYERS) BY <1>1 DEF SceneRegion
  <2>2. PICK S : S = 1..MAX_OVERLAPPING_LAYERS OBVIOUS
  <2>3. q \in Seq(S) /\ i \in DOMAIN q BY <2>1, <2>2
  <2> HIDE DEF q
  <2>4. i \in Nat /\ i >= 1 /\ q[i] \in S BY <2>3
  <2> QED BY <2>2, <2>4
<1>4. DOMAIN cmd.textures = 1..last /\ cmd.bounds = region.frame BY <1>2 DEF ConstructCommand
<1>5. px = [k \in DOMAIN cmd.textures |->
              [texture |-> gl.layer_textures[cmd.textures[k].texture_index],
               texel |-> FTexCoords(cmd.textures[k], cmd.bounds, p)]]
  BY DEF FragColor
<1>6. i > last <=> Covered BY <1>2
<1>7. CASE Covered
  <2>1. i \notin DOMAIN px BY <1>3, <1>4, <1>5, <1>6, <1>7
  <2> QED BY <1>7, <2>1 DEF LayerDrawn
<1>8. CASE ~Covered
  <2>1. i \in 1..last
    <3> HIDE DEF q, Covered
    <3> QED BY <1>3, <1>6, <1>8
  <2>2. cmd.textures[i] = [texture_index |-> sources[i],
                           swap |-> Turn(scene.layers[sources[i]].transform).swap,
                           crop_bounds |-> CropBounds(scene.layers[sources[i]], region.frame)]
    BY <1>2, <2>1 DEF ConstructCommand
  <2>3. sources[i] = q[i] BY <1>2, <2>1
  <2> DEFINE src == cmd.textures[i]
  <2>4. src.texture_index = q[i] /\ src.swap = Turn(layer.transform).swap
        /\ src.crop_bounds = CropBounds(layer, region.frame)
    BY <2>2, <2>3
  <2>5. i \in DOMAIN px /\ px[i] = [texture |-> gl.layer_textures[src.texture_index],
                                    texel |-> FTexCoords(src, cmd.bounds, p)]
    BY <1>4, <1>5, <2>1
  <2>6. gl.layer_textures[q[i]] = q[i]
    <3>1. q[i] \in LayersUsed(scene) BY DEF LayersUsed
    <3> QED BY <1>3, <3>1, TexturesInPlace
  <2>7. SceneLayer(layer) /\ region.frame \in [1..4 -> Int] BY <1>1 DEF SceneRegion
  <2>8. WholeCrop(layer, region.frame) BY DEF WholeTexels
  <2> HIDE DEF src, layer
  <2>9. FTexCoords(src, region.frame, p) = TexelAt(layer, p)
    BY <1>1, <2>4, <2>7, <2>8, TexelsMeet
  <2>10. i \in DOMAIN px /\ px[i].texture = q[i] /\ px[i].texel = TexelAt(layer, p)
    BY <1>4, <2>4, <2>5, <2>6, <2>9
  <2> QED BY <1>8, <2>10 DEF layer, LayerDrawn
<1> QED BY <1>7, <1>8

\* A region that has layers has a command with textures.
LEMMA CommandTextures ==
  ASSUME NEW scene \in Scenes, NEW r \in DOMAIN scene.regions,
         Len(ConstructCommand(scene, scene.regions[r]).textures) = 0
  PROVE  DOMAIN scene.regions[r].source_layers = {}
<1> DEFINE region == scene.regions[r]
           q == region.source_layers
           sources == TextureSources(scene, region)
<1>1. SceneRegion(scene, region) BY GLAssumption
<1>0. PICK last \in Nat : SourcesEnd(scene, region, last) BY <1>1, SourcesTo
<1>2. /\ DOMAIN sources = 1..last
      /\ \A k \in DOMAIN q : k > last <=> \E j \in 1..k - 1 : scene.layers[q[j]].blending = "none"
  BY <1>0 DEF SourcesEnd
<1>3. Len(ConstructCommand(scene, region).textures) = last
  <2> DEFINE T(i) == [texture_index |-> sources[i], swap |-> Turn(scene.layers[sources[i]].transform).swap,
                      crop_bounds |-> CropBounds(scene.layers[sources[i]], region.frame)]
  <2>1. ConstructCommand(scene, region).textures = [i \in 1..last |-> T(i)] BY <1>2 DEF ConstructCommand
  <2> HIDE DEF T
  <2>2. Len([i \in 1..last |-> T(i)]) = last OBVIOUS
  <2> QED BY <2>1, <2>2
<1>4. q \in Seq(1..MAX_OVERLAPPING_LAYERS) BY <1>1 DEF SceneRegion
<1>5. 1 \notin DOMAIN q BY <1>2, <1>3
<1> QED BY <1>4, <1>5

GLRecord == gl = [at |-> gl.at, target |-> gl.target, gl_fb |-> gl.gl_fb, scene |-> gl.scene,
                  layer_textures |-> gl.layer_textures, ret |-> gl.ret, pixels |-> gl.pixels]

LEMMA PixelsDrawn ==
  ASSUME WholeTexels, "program" \notin GLEnv, gl.scene \in Scenes, GLRecord,
         gl.layer_textures = LayerTextures(LayersUsed(gl.scene), {}), DrawCommands, NEW p \in Screen2D
  PROVE  PixelDrawn(gl.scene, gl'.pixels[p], p)
<1>0. PICK commands \in {Commands(gl.scene)} :
        LET counts == {Len(commands[r].textures) : r \in DOMAIN commands} \ {0}
            Drawn(x) == {r \in DOMAIN commands : /\ In(x, commands[r].bounds)
                                                 /\ Len(commands[r].textures) \in programs'}
        IN  /\ programs' \in PrepareAndCacheProgram(counts)
            /\ gl' = [gl EXCEPT !.at = "finish", !.pixels =
                 [x \in Screen2D |-> IF Drawn(x) = {} THEN <<>>
                    ELSE FragColor(commands[CHOOSE r \in Drawn(x) : \A q \in Drawn(x) : q <= r], x)]]
  BY Zenon DEF DrawCommands
<1> DEFINE scene == gl.scene
           regions == scene.regions
           Counts == {Len(commands[r].textures) : r \in DOMAIN commands} \ {0}
           Drawn(x) == {r \in DOMAIN commands : /\ In(x, commands[r].bounds)
                                                /\ Len(commands[r].textures) \in programs'}
           Mine == {r \in DOMAIN regions : In(p, regions[r].frame)}
           Colour(x) == IF Drawn(x) = {} THEN <<>>
                       ELSE FragColor(commands[CHOOSE r \in Drawn(x) : \A s \in Drawn(x) : s <= r], x)
<1>1. /\ programs' \in PrepareAndCacheProgram(Counts)
      /\ gl' = [gl EXCEPT !.at = "finish", !.pixels = [x \in Screen2D |-> Colour(x)]]
  BY <1>0, Zenon
<1>2. Counts \subseteq programs' BY <1>1 DEF PrepareAndCacheProgram, GenerateProgram
<1>3. /\ DOMAIN commands = DOMAIN regions
      /\ \A r \in DOMAIN regions : /\ commands[r] = ConstructCommand(scene, regions[r])
                                   /\ commands[r].bounds = regions[r].frame
  <2>1. commands = [r \in DOMAIN regions |-> ConstructCommand(scene, regions[r])] BY DEF Commands
  <2>2. \A r \in DOMAIN regions : ConstructCommand(scene, regions[r]).bounds = regions[r].frame
    BY DEF ConstructCommand
  <2> HIDE DEF regions
  <2> QED BY <2>1, <2>2
<1>4. gl'.pixels[p] = IF Drawn(p) = {} THEN <<>>
                      ELSE FragColor(commands[CHOOSE r \in Drawn(p) : \A s \in Drawn(p) : s <= r], p)
  <2> HIDE DEF Colour
  <2>1. gl'.pixels = [x \in Screen2D |-> Colour(x)] BY <1>1 DEF GLRecord
  <2>2. gl'.pixels[p] = Colour(p) BY <2>1
  <2> QED BY <2>2 DEF Colour
<1>5. Drawn(p) \subseteq Mine BY <1>3
<1>6. \A r \in Mine : r \in Drawn(p) \/ Len(commands[r].textures) = 0 BY <1>2, <1>3
<1>7. CASE Mine = {}
  <2>1. Drawn(p) = {} BY <1>5, <1>7
  <2>2. gl'.pixels[p] = <<>> BY <1>4, <2>1
  <2> QED BY <1>7, <2>2 DEF PixelDrawn
<1>8. CASE Mine # {}
  <2>1. PICK r : r = CHOOSE s \in Mine : TRUE OBVIOUS
  <2>2. r \in Mine /\ r \in DOMAIN regions /\ In(p, regions[r].frame)
    <3>1. r \in Mine BY <1>8, <2>1
    <3> QED BY <3>1
  <2>3. Mine = {r} /\ r \in Nat BY <2>2, GLAssumption
  <2> DEFINE px == gl'.pixels[p]
  <2>4. ASSUME NEW i \in DOMAIN regions[r].source_layers
        PROVE  LayerDrawn(scene, regions[r], px, p, i)
    <3>1. Len(commands[r].textures) # 0 BY <1>3, <2>2, <2>4, CommandTextures
    <3>2. Drawn(p) = {r} BY <1>5, <1>6, <2>3, <3>1
    <3>3. (CHOOSE s \in Drawn(p) : \A u \in Drawn(p) : u <= s) = r
      <4> HIDE DEF Drawn
      <4> QED BY <2>3, <3>2
    <3>4. px = FragColor(ConstructCommand(scene, regions[r]), p)
      <4> HIDE DEF Drawn
      <4> QED BY <1>3, <1>4, <2>2, <3>2, <3>3
    <3> HIDE DEF px, Drawn, Mine, Counts, Colour
    <3> QED BY <2>2, <3>4, RegionDrawn
  <2>5. regions[r] = scene.regions[CHOOSE s \in Mine : TRUE] BY <2>1
  <2> HIDE DEF px
  <2> QED BY <1>8, <2>4, <2>5, Zenon DEF PixelDrawn, px
<1> QED BY <1>7, <1>8

-----------------------------------------------------------------------------
(* The target and the steps *)

\* A buffer that is there was made, and no two slots have buffers at one address;
\* so a weak reference to a buffer at the target's address that can still be
\* promoted is one to the target.
GLBuffers ==
  /\ made \in Nat
  /\ fbs \in [Slots -> [buffer : [addr : Addresses \cup {0}, made : Nat], size : Resolutions \cup {0}]]
  /\ \A s \in Slots : fbs[s].buffer # NoGLBuffer => fbs[s].buffer.made # 0
  /\ \A s, t \in Slots : /\ fbs[s].buffer # NoGLBuffer /\ fbs[t].buffer # NoGLBuffer
                         /\ fbs[s].buffer.addr = fbs[t].buffer.addr
                         => s = t

GLCache ==
  /\ cached \in SUBSET [addr : Addresses \cup {0}, made : Nat \ {0}, strong : BOOLEAN]
  /\ gl.at \in {"idle", "target"} => \A e \in cached : ~e.strong

GLTarget ==
  /\ GLRecord
  /\ gl.at \in {"idle", "target", "textures", "draw", "finish"}
  /\ gl.at # "idle" =>
       /\ gl.scene \in Scenes
       /\ \E s \in Slots : gl.target = fbs[s].buffer /\ gl.target # NoGLBuffer
  /\ gl.at \in {"textures", "draw"} => Same(gl.gl_fb, gl.target)
  /\ gl.at = "draw" => gl.layer_textures = LayerTextures(LayersUsed(gl.scene), {})

GLDrawn ==
  gl.at = "finish" /\ gl.ret = 0 =>
    /\ Same(gl.gl_fb, gl.target)
    /\ \A p \in Screen2D : PixelDrawn(gl.scene, gl.pixels[p], p)

GLInv == GLBuffers /\ GLCache /\ GLTarget /\ GLDrawn

LEMMA GLInvDrawn == GLInv => LayersDrawn
<1> SUFFICES ASSUME GLInv, gl.at = "finish", gl.ret = 0, NEW p \in Screen2D
             PROVE  PixelDrawn(gl.scene, gl.pixels[p], p) /\ Same(gl.gl_fb, gl.target)
  <2>1. LayersDrawn <=> (gl.at = "finish" /\ gl.ret = 0 =>
          /\ Same(gl.gl_fb, gl.target)
          /\ \A p \in Screen2D : PixelDrawn(gl.scene, gl.pixels[p], p))
    BY Zenon DEF LayersDrawn, PixelDrawn, LayerDrawn
  <2>2. GLInv => GLDrawn BY DEF GLInv
  <2> QED BY <2>1, <2>2, Zenon DEF GLDrawn
<1> QED BY Zenon DEF GLInv, GLDrawn

LEMMA GLInitInv == GLInit => GLInv
<1> SUFFICES ASSUME GLInit PROVE GLInv
  OBVIOUS
<1>1. GLBuffers BY DEF GLInit, GLBuffers, NoGLBuffer
<1>2. gl = Idle /\ gl.at = "idle" BY DEF GLInit, Idle
<1>3. GLCache BY DEF GLInit, GLCache
<1>4. GLTarget
  <2>1. GLRecord BY <1>2 DEF GLRecord, Idle
  <2> QED BY <1>2, <2>1 DEF GLTarget
<1>5. GLDrawn BY <1>2 DEF GLDrawn
<1> QED BY <1>1, <1>3, <1>4, <1>5 DEF GLInv

LEMMA AllocateInv ==
  ASSUME GLInv, NEW s \in Slots, NEW size \in Resolutions, Allocate(s, size)
  PROVE  GLInv'
<1>1. gl.at = "idle" /\ UNCHANGED <<egl, cached, programs, gl>> BY DEF Allocate
<1>2. PICK a \in Addresses :
        /\ ~ \E t \in Slots \ {s} : fbs[t].buffer.addr = a
        /\ fbs' = [fbs EXCEPT ![s] = [buffer |-> [addr |-> a, made |-> made + 1], size |-> size]]
        /\ made' = made + 1
  BY DEF Allocate
<1>3. GLBuffers'
  <2> USE DEF GLBuffers
  <2>0. GLBuffers BY DEF GLInv
  <2>1. made' \in Nat BY <1>2, <2>0
  <2>2. fbs' \in [Slots -> [buffer : [addr : Addresses \cup {0}, made : Nat], size : Resolutions \cup {0}]]
    BY <1>2, <2>0
  <2>3. /\ fbs'[s].buffer = [addr |-> a, made |-> made + 1]
        /\ \A t \in Slots : t # s => fbs'[t] = fbs[t]
    BY <1>2, <2>0
  <2>4. \A t \in Slots : fbs'[t].buffer # NoGLBuffer => fbs'[t].buffer.made # 0
    BY <2>0, <2>3 DEF NoGLBuffer
  <2>5. \A t \in Slots : t # s => fbs'[t].buffer.addr # fbs'[s].buffer.addr
    BY <1>2, <2>3
  <2>6. ASSUME NEW t \in Slots, NEW u \in Slots, fbs'[t].buffer # NoGLBuffer, fbs'[u].buffer # NoGLBuffer,
               fbs'[t].buffer.addr = fbs'[u].buffer.addr
        PROVE  t = u
    BY <2>0, <2>3, <2>5, <2>6
  <2>7. NoGLBuffer' = NoGLBuffer BY DEF NoGLBuffer
  <2> QED BY <2>1, <2>2, <2>4, <2>6, <2>7
<1>4. GLCache' BY <1>1 DEF GLInv, GLCache
<1>5. GLTarget' BY <1>1 DEF GLInv, GLTarget, GLRecord
<1>6. GLDrawn' BY <1>1 DEF GLInv, GLDrawn
<1> QED BY <1>3, <1>4, <1>5, <1>6 DEF GLInv

LEMMA CompositeInv ==
  ASSUME GLInv, NEW s \in Slots, NEW scene \in Scenes, Composite(s, scene)
  PROVE  GLInv'
<1>1. /\ gl.at = "idle" /\ fbs[s].buffer # NoGLBuffer /\ UNCHANGED <<egl, fbs, cached, programs, made>>
      /\ gl' = [Idle EXCEPT !.at = IF scene.regions = <<>> THEN "finish" ELSE "target",
                            !.ret = IF scene.regions = <<>> THEN -1 ELSE 0,
                            !.target = fbs[s].buffer, !.scene = scene]
  BY Zenon DEF Composite
<1>2. /\ gl'.at \in {"finish", "target"} /\ (gl'.at = "finish" => gl'.ret = -1)
      /\ gl'.target = fbs[s].buffer /\ gl'.scene = scene
      /\ GLRecord'
  BY <1>1 DEF Idle, GLRecord
<1>3. GLBuffers' BY <1>1 DEF GLInv, GLBuffers
<1>4. GLCache' BY <1>1 DEF GLInv, GLCache
<1>5. GLTarget' BY <1>1, <1>2 DEF GLTarget, NoGLBuffer
<1>6. GLDrawn' BY <1>2 DEF GLDrawn
<1> QED BY <1>3, <1>4, <1>5, <1>6 DEF GLInv

LEMMA FinishInv ==
  ASSUME GLInv, Finish
  PROVE  GLInv'
<1>1. gl' = Idle /\ UNCHANGED <<egl, fbs, programs, made>> BY DEF Finish
<1>2. gl'.at = "idle" BY <1>1 DEF Idle
<1>3. GLBuffers' BY <1>1 DEF GLInv, GLBuffers
<1>4. GLCache'
  <2>1. cached \in SUBSET [addr : Addresses \cup {0}, made : Nat \ {0}, strong : BOOLEAN]
    BY DEF GLInv, GLCache
  <2>2. cached' = {[e EXCEPT !.strong = FALSE] : e \in cached} \/ cached' = {} BY DEF Finish
  <2> QED BY <1>2, <2>1, <2>2 DEF GLCache
<1>5. GLTarget'
  <2>1. GLRecord' BY <1>1 DEF GLRecord, Idle
  <2> QED BY <1>2, <2>1 DEF GLTarget
<1>6. GLDrawn' BY <1>2 DEF GLDrawn
<1> QED BY <1>3, <1>4, <1>5, <1>6 DEF GLInv

\* An entry of the cache that is promoted is one of the target.
LEMMA PromotedSame ==
  ASSUME GLInv, gl.at = "target", NEW e \in FindCachedFramebuffer(gl.target), Promote(e)
  PROVE  Same(e, gl.target) /\ e \in cached
<1>1. e \in cached /\ e.addr = gl.target.addr BY DEF FindCachedFramebuffer
<1>2. \A f \in cached : ~f.strong BY DEF GLInv, GLCache
<1>3. PICK s \in Slots : Same(fbs[s].buffer, e) BY <1>1, <1>2 DEF Promote, Alive
<1>4. PICK t \in Slots : gl.target = fbs[t].buffer /\ gl.target # NoGLBuffer BY DEF GLInv, GLTarget
<1>5. e.made # 0 BY <1>1 DEF GLInv, GLCache
<1>6. fbs[s].buffer # NoGLBuffer BY <1>3, <1>5 DEF Same, NoGLBuffer
<1>7. s = t BY <1>1, <1>3, <1>4, <1>6 DEF GLInv, GLBuffers, Same
<1> QED BY <1>1, <1>3, <1>4, <1>7 DEF Same

LEMMA PrepareAndCacheFramebufferInv ==
  ASSUME GLInv, PrepareAndCacheFramebuffer
  PROVE  GLInv'
<1> DEFINE found == FindCachedFramebuffer(gl.target)
           good == {e \in found : Promote(e)}
           Entry == [addr : Addresses \cup {0}, made : Nat \ {0}, strong : BOOLEAN]
<1>1. gl.at = "target" /\ UNCHANGED <<egl, fbs, programs, made>> BY DEF PrepareAndCacheFramebuffer
<1>2. \/ \E e \in good :
           /\ gl' = [gl EXCEPT !.at = "textures", !.gl_fb = [addr |-> e.addr, made |-> e.made]]
           /\ cached' = (cached \ {e}) \cup {Cached(e)}
      \/ /\ gl' = [gl EXCEPT !.at = "textures", !.gl_fb = gl.target]
         /\ cached' = (cached \ found) \cup {Cached(gl.target)}
      \/ /\ gl' = [gl EXCEPT !.at = "finish", !.ret = -1]
         /\ cached' = cached \ found
  BY Zenon DEF PrepareAndCacheFramebuffer
<1>3. GLBuffers' BY <1>1 DEF GLInv, GLBuffers
<1>4. GLRecord /\ gl.scene \in Scenes /\ cached \in SUBSET Entry BY <1>1 DEF GLInv, GLTarget, GLCache
<1>5. PICK t \in Slots : gl.target = fbs[t].buffer /\ gl.target # NoGLBuffer BY <1>1 DEF GLInv, GLTarget
<1>6. Cached(gl.target) \in Entry BY <1>5 DEF GLInv, GLBuffers, Cached
<1> SUFFICES ASSUME cached' \in SUBSET Entry /\ GLRecord' /\ gl'.scene = gl.scene /\ gl'.target = gl.target,
                    \/ gl'.at = "textures" /\ Same(gl'.gl_fb, gl'.target)
                    \/ gl'.at = "finish" /\ gl'.ret = -1
             PROVE  GLInv'
  <2>1. CASE \E e \in good :
           /\ gl' = [gl EXCEPT !.at = "textures", !.gl_fb = [addr |-> e.addr, made |-> e.made]]
           /\ cached' = (cached \ {e}) \cup {Cached(e)}
    <3>1. PICK e \in good :
           /\ gl' = [gl EXCEPT !.at = "textures", !.gl_fb = [addr |-> e.addr, made |-> e.made]]
           /\ cached' = (cached \ {e}) \cup {Cached(e)}
      BY <2>1
    <3>2. Same(e, gl.target) /\ e \in cached BY <1>1, PromotedSame
    <3>3. Cached(e) \in Entry BY <1>4, <3>2 DEF Cached
    <3>4. cached' \in SUBSET Entry BY <1>4, <3>1, <3>3
    <3>5. /\ GLRecord' /\ gl'.scene = gl.scene /\ gl'.target = gl.target /\ gl'.at = "textures"
          /\ gl'.gl_fb = [addr |-> e.addr, made |-> e.made]
      BY <1>4, <3>1 DEF GLRecord
    <3>6. Same(gl'.gl_fb, gl'.target) BY <3>2, <3>5 DEF Same
    <3> QED BY <3>4, <3>5, <3>6
  <2>2. CASE /\ gl' = [gl EXCEPT !.at = "textures", !.gl_fb = gl.target]
             /\ cached' = (cached \ found) \cup {Cached(gl.target)}
    <3>1. cached' \in SUBSET Entry BY <1>4, <1>6, <2>2
    <3>2. /\ GLRecord' /\ gl'.scene = gl.scene /\ gl'.target = gl.target /\ gl'.at = "textures"
          /\ gl'.gl_fb = gl.target
      BY <1>4, <2>2 DEF GLRecord
    <3> QED BY <3>1, <3>2 DEF Same
  <2>3. CASE /\ gl' = [gl EXCEPT !.at = "finish", !.ret = -1]
             /\ cached' = cached \ found
    <3>1. cached' \in SUBSET Entry BY <1>4, <2>3
    <3>2. /\ GLRecord' /\ gl'.scene = gl.scene /\ gl'.target = gl.target /\ gl'.at = "finish"
          /\ gl'.ret = -1
      BY <1>4, <2>3 DEF GLRecord
    <3> QED BY <3>1, <3>2
  <2> HIDE DEF good
  <2> QED BY <1>2, <2>1, <2>2, <2>3
<1>7. GLCache' BY DEF GLCache
<1>8. GLTarget' BY <1>1, <1>4, <1>5 DEF GLTarget, NoGLBuffer
<1>9. GLDrawn' BY DEF GLDrawn
<1> QED BY <1>3, <1>7, <1>8, <1>9 DEF GLInv

\* The layer of FailingLayers is the last, and then Composite fails; otherwise
\* every texture is at the index of its layer.
LEMMA CreateTexturesInv ==
  ASSUME "import" \notin GLEnv, GLInv, CreateTextures
  PROVE  GLInv'
<1> DEFINE inUse == LayersUsed(gl.scene)
           Failed(bad) == \E l \in bad : \A k \in inUse : k <= l
<1>1. gl.at = "textures" /\ UNCHANGED <<egl, fbs, cached, programs, made>> BY DEF CreateTextures
<1>2. PICK bad \in FailingLayers(inUse) :
        gl' = [gl EXCEPT !.at = IF Failed(bad) THEN "finish" ELSE "draw",
                         !.ret = IF Failed(bad) THEN -1 ELSE 0,
                         !.layer_textures = LayerTextures(inUse, bad)]
  BY Zenon DEF CreateTextures
<1>3. GLRecord /\ gl.scene \in Scenes BY <1>1 DEF GLInv, GLTarget
<1>4. Failed(bad) \/ bad = {}
  <2>1. inUse \in SUBSET (1..MAX_OVERLAPPING_LAYERS)
    <3> SUFFICES ASSUME NEW r \in DOMAIN gl.scene.regions, NEW i \in DOMAIN gl.scene.regions[r].source_layers
                 PROVE  gl.scene.regions[r].source_layers[i] \in 1..MAX_OVERLAPPING_LAYERS
      BY DEF LayersUsed
    <3> DEFINE q == gl.scene.regions[r].source_layers
    <3>1. q \in Seq(1..MAX_OVERLAPPING_LAYERS) BY <1>3, GLAssumption DEF SceneRegion
    <3>2. PICK S : S = 1..MAX_OVERLAPPING_LAYERS OBVIOUS
    <3>3. q \in Seq(S) /\ i \in DOMAIN q BY <3>1, <3>2
    <3> HIDE DEF q
    <3>4. q[i] \in S BY <3>3
    <3> QED BY <3>2, <3>4 DEF q
  <2> HIDE DEF inUse
  <2>2. CASE bad = {} BY <2>2
  <2>3. CASE bad # {}
    <3>1. inUse # {} /\ bad = {CHOOSE l \in inUse : \A k \in inUse : k <= l} BY <2>3 DEF FailingLayers
    <3>2. \E l \in inUse : \A k \in inUse : k <= l BY <2>1, <3>1, GreatestOf, GLAssumption
    <3>3. PICK m : m = CHOOSE l \in inUse : \A k \in inUse : k <= l OBVIOUS
    <3>4. \A k \in inUse : k <= m BY <3>2, <3>3
    <3> QED BY <3>1, <3>3, <3>4
  <2> QED BY <2>2, <2>3
<1>5. /\ GLRecord' /\ gl'.scene = gl.scene /\ gl'.target = gl.target /\ gl'.gl_fb = gl.gl_fb
      /\ \/ gl'.at = "finish" /\ gl'.ret = -1
         \/ gl'.at = "draw" /\ ~Failed(bad) /\ gl'.layer_textures = LayerTextures(inUse, bad)
  <2> HIDE DEF Failed, inUse
  <2> QED BY <1>2, <1>3 DEF GLRecord
<1>6. \/ gl'.at = "finish" /\ gl'.ret = -1
      \/ gl'.at = "draw" /\ gl'.layer_textures = LayerTextures(inUse, {})
  <2> HIDE DEF Failed, inUse
  <2> QED BY <1>4, <1>5
<1>7. GLBuffers' BY <1>1 DEF GLInv, GLBuffers
<1>8. GLCache'
  <2>1. gl'.at \notin {"idle", "target"} BY <1>5
  <2> QED BY <1>1, <2>1 DEF GLInv, GLCache
<1>9. GLTarget'
  <2>1. Same(gl'.gl_fb, gl'.target) BY <1>1, <1>5 DEF GLInv, GLTarget
  <2>2. PICK t \in Slots : gl.target = fbs[t].buffer /\ gl.target # NoGLBuffer BY <1>1 DEF GLInv, GLTarget
  <2>3. gl'.at = "draw" => gl'.layer_textures = LayerTextures(LayersUsed(gl'.scene), {}) BY <1>5, <1>6
  <2>4. gl'.at \in {"finish", "draw"} /\ GLRecord' /\ gl'.scene \in Scenes BY <1>3, <1>5
  <2>5. gl'.target = fbs'[t].buffer /\ gl'.target # NoGLBuffer BY <1>1, <1>5, <2>2
  <2> QED BY <2>1, <2>3, <2>4, <2>5 DEF GLTarget, NoGLBuffer
<1>10. GLDrawn' BY <1>5 DEF GLDrawn
<1> QED BY <1>7, <1>8, <1>9, <1>10 DEF GLInv

LEMMA DrawCommandsInv ==
  ASSUME WholeTexels, "program" \notin GLEnv, GLInv, DrawCommands
  PROVE  GLInv'
<1>1. gl.at = "draw" /\ UNCHANGED <<egl, fbs, cached, made>> BY DEF DrawCommands
<1>2. /\ GLRecord /\ gl.scene \in Scenes /\ Same(gl.gl_fb, gl.target)
      /\ gl.layer_textures = LayerTextures(LayersUsed(gl.scene), {})
  BY <1>1 DEF GLInv, GLTarget
<1>3. \E pixels : gl' = [gl EXCEPT !.at = "finish", !.pixels = pixels] BY Zenon DEF DrawCommands
<1>4. GLRecord' /\ gl'.at = "finish" /\ gl'.scene = gl.scene /\ gl'.target = gl.target /\ gl'.gl_fb = gl.gl_fb
  BY <1>2, <1>3 DEF GLRecord
<1>5. \A p \in Screen2D : PixelDrawn(gl.scene, gl'.pixels[p], p) BY <1>2, PixelsDrawn
<1>6. GLBuffers' BY <1>1 DEF GLInv, GLBuffers
<1>7. GLCache' BY <1>1, <1>4 DEF GLInv, GLCache
<1>8. GLTarget'
  <2>1. PICK t \in Slots : gl.target = fbs[t].buffer /\ gl.target # NoGLBuffer BY <1>1 DEF GLInv, GLTarget
  <2>2. gl'.target = fbs'[t].buffer /\ gl'.target # NoGLBuffer BY <1>1, <1>4, <2>1
  <2>3. gl'.scene \in Scenes BY <1>2, <1>4
  <2> QED BY <1>4, <2>2, <2>3 DEF GLTarget, NoGLBuffer
<1>9. GLDrawn'
  <2>1. Same(gl'.gl_fb, gl'.target) BY <1>2, <1>4
  <2>2. \A p \in Screen2D : PixelDrawn(gl'.scene, gl'.pixels[p], p) BY <1>4, <1>5
  <2>3. GLDrawn' <=> (gl'.at = "finish" /\ gl'.ret = 0 =>
          /\ Same(gl'.gl_fb, gl'.target)
          /\ \A p \in Screen2D : PixelDrawn(gl'.scene, gl'.pixels[p], p))
    BY Zenon DEF GLDrawn
  <2> QED BY <2>1, <2>2, <2>3
<1> QED BY <1>6, <1>7, <1>8, <1>9 DEF GLInv

LEMMA GLStep ==
  ASSUME "import" \notin GLEnv, "program" \notin GLEnv, WholeTexels, GLInv, [GLNext]_glvars
  PROVE  GLInv'
<1>1. CASE UNCHANGED glvars
  BY <1>1 DEF glvars, GLInv, GLBuffers, GLCache, GLTarget, GLRecord, GLDrawn
<1>2. CASE GLWorkerInit
  BY <1>2 DEF GLWorkerInit, GLInv, GLBuffers, GLCache, GLTarget, GLRecord, GLDrawn
<1>3. CASE \E s \in Slots : \E size \in Resolutions : Allocate(s, size) BY <1>3, AllocateInv
<1>4. CASE \E s \in Slots : \E scene \in Scenes : Composite(s, scene) BY <1>4, CompositeInv
<1>5. CASE PrepareAndCacheFramebuffer BY <1>5, PrepareAndCacheFramebufferInv
<1>6. CASE CreateTextures BY <1>6, CreateTexturesInv
<1>7. CASE DrawCommands BY <1>7, DrawCommandsInv
<1>8. CASE Finish BY <1>8, FinishInv
<1> QED BY <1>1, <1>2, <1>3, <1>4, <1>5, <1>6, <1>7, <1>8 DEF GLNext

(***************************************************************************)
(* What Composite of glworker.cpp has drawn when it returns 0 is what the  *)
(* composition asks for: the framebuffer is the one it was given, though   *)
(* the cache compares buffers by address, and every pixel of it shows the  *)
(* texels of the layers of its region, from the top to the first opaque    *)
(* one, that SurfaceFlinger's flips, turn and scaling put there.  For any  *)
(* scenes whose regions cut the layers between texels, where the           *)
(* quotients of CropBounds are exact; no layer but the last fails to       *)
(* import and the programs can be made.                                    *)
(***************************************************************************)
THEOREM SceneDrawn ==
  ASSUME "import" \notin GLEnv, "program" \notin GLEnv, WholeTexels
  PROVE  GLSpec => []LayersDrawn
<1>1. GLInv /\ [GLNext]_glvars => GLInv' BY GLStep
<1> QED BY <1>1, GLInitInv, GLInvDrawn, PTL DEF GLSpec
=============================================================================
