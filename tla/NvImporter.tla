----------------------------- MODULE NvImporter -----------------------------
(***************************************************************************)
(* Buffers of gralloc as framebuffers of the kernel: NvImporter of         *)
(* platformnv.cpp with the DrmHwcBuffer that holds a reference (hwcutils). *)
(*                                                                         *)
(* An NvBuffer_t is created by the first import of a handle and kept in    *)
(* gralloc's private slot of that handle.  It counts gralloc and every     *)
(* DrmHwcBuffer; whoever takes the last reference away removes the         *)
(* framebuffer and deletes the object.  References are taken by hwc_set    *)
(* and given up by hwc_set, by the compositor's threads and by gralloc.    *)
(***************************************************************************)
EXTENDS Naturals

CONSTANTS
  Handles,         \* buffer handles of gralloc
  NvBufs,          \* the NvBuffer_t objects there may be at a time
  NoBuf,           \* NULL, as an object or a handle
  MaxHeld,         \* bound on the references of frames to one object
  ImportEnv        \* the calls that may fail: "import", "addfb", "priv"

ASSUME NoBufAssumption == NoBuf \notin NvBufs \cup Handles

VARIABLES
  priv,            \* priv[h]: gralloc's private slot of handle h
  ref,             \* ref[n]: NvBuffer_t::ref
  live,            \* the allocated objects
  fb,              \* the objects whose framebuffer the kernel knows
  taken,           \* taken[n]: the DrmHwcBuffers of the hwc_set in progress
  frames,          \* frames[n]: the DrmHwcBuffers of queued and shown frames
  doomed,          \* objects whose last reference is gone, not yet deleted
  imp              \* ImportBuffer: where it is, the object, the handle

nvvars == <<priv, ref, live, fb, taken, frames, doomed, imp>>

NoImport == [at |-> "none", n |-> NoBuf, h |-> NoBuf]

NvInit ==
  /\ priv = [h \in Handles |-> NoBuf]
  /\ ref = [n \in NvBufs |-> 0]
  /\ live = {} /\ fb = {} /\ doomed = {}
  /\ taken = [n \in NvBufs |-> 0]
  /\ frames = [n \in NvBufs |-> 0]
  /\ imp = NoImport

Importing(at) == imp.at = at
Imported(n) == imp' = [at |-> "ok", n |-> n, h |-> NoBuf]
ImportFails == imp' = [at |-> "failed", n |-> NoBuf, h |-> NoBuf]

\* Mutant: a new object counts one reference.
MutantOneReference(h) ==
  /\ Importing("none") /\ h \in Handles
  /\ \/ /\ priv[h] # NoBuf
        /\ imp' = [at |-> "found", n |-> priv[h], h |-> h]
        /\ UNCHANGED <<ref, live>>
     \/ /\ priv[h] = NoBuf
        /\ \E n \in NvBufs \ live :
             /\ live' = live \cup {n}
             /\ ref' = [ref EXCEPT ![n] = 1]
             /\ imp' = [at |-> "import", n |-> n, h |-> h]
  /\ UNCHANGED <<priv, fb, taken, frames, doomed>>

\* GrallocGetNvBuffer finds an object, or a new one is made.  Its count
\* starts with gralloc's reference and the caller's.
ImportBuffer(h) ==
  /\ Importing("none") /\ h \in Handles
  /\ \/ /\ priv[h] # NoBuf
        /\ imp' = [at |-> "found", n |-> priv[h], h |-> h]
        /\ UNCHANGED <<ref, live>>
     \/ /\ priv[h] = NoBuf
        /\ \E n \in NvBufs \ live :
             /\ live' = live \cup {n}
             /\ ref' = [ref EXCEPT ![n] = 2]
             /\ imp' = [at |-> "import", n |-> n, h |-> h]
  /\ UNCHANGED <<priv, fb, taken, frames, doomed>>

AddReference ==
  /\ Importing("found")
  /\ ref' = [ref EXCEPT ![imp.n] = @ + 1]
  /\ taken' = [taken EXCEPT ![imp.n] = @ + 1]
  /\ Imported(imp.n)
  /\ UNCHANGED <<priv, live, fb, frames, doomed>>

\* ReleaseBufferImpl and delete
Delete(n) == live' = live \ {n} /\ fb' = fb \ {n}

\* GRALLOC_MODULE_PERFORM_DRM_IMPORT
DrmImport ==
  /\ Importing("import")
  /\ \/ imp' = [imp EXCEPT !.at = "addfb"] /\ UNCHANGED live
     \/ "import" \in ImportEnv /\ live' = live \ {imp.n} /\ ImportFails
  /\ UNCHANGED <<priv, ref, fb, taken, frames, doomed>>

AddFB2 ==
  /\ Importing("addfb")
  /\ \/ fb' = fb \cup {imp.n} /\ imp' = [imp EXCEPT !.at = "priv"] /\ UNCHANGED live
     \/ "addfb" \in ImportEnv /\ Delete(imp.n) /\ ImportFails
  /\ UNCHANGED <<priv, ref, taken, frames, doomed>>

GrallocSetNvBuffer ==
  /\ Importing("priv")
  /\ \/ /\ priv' = [priv EXCEPT ![imp.h] = imp.n]
        /\ taken' = [taken EXCEPT ![imp.n] = @ + 1]
        /\ Imported(imp.n)
        /\ UNCHANGED <<live, fb>>
     \/ /\ "priv" \in ImportEnv
        /\ Delete(imp.n)
        /\ ImportFails
        /\ UNCHANGED <<priv, taken>>
  /\ UNCHANGED <<ref, frames, doomed>>

ImportStep == AddReference \/ DrmImport \/ AddFB2 \/ GrallocSetNvBuffer

\* ImportBuffer has returned.
ImportDone ==
  /\ Importing("ok") \/ Importing("failed")
  /\ imp' = NoImport
  /\ UNCHANGED <<priv, ref, live, fb, taken, frames, doomed>>

\* The atomic decrement, and who has to destroy the object afterwards.
FetchSub(n) ==
  /\ ref' = [ref EXCEPT ![n] = @ - 1]
  /\ doomed' = IF ref[n] > 1 THEN doomed ELSE doomed \cup {n}

\* DrmHwcBuffer::Clear on a layer that hwc_set still owns
ReleaseTaken(n) ==
  /\ taken[n] > 0
  /\ taken' = [taken EXCEPT ![n] = @ - 1]
  /\ FetchSub(n)
  /\ UNCHANGED <<priv, live, fb, frames, imp>>

\* The same on a layer of a frame, when a compositor thread drops the frame.
ReleaseFrame(n) ==
  /\ frames[n] > 0
  /\ frames' = [frames EXCEPT ![n] = @ - 1]
  /\ FetchSub(n)
  /\ UNCHANGED <<priv, live, fb, taken, imp>>

\* gralloc gives up handle h, which nobody is importing.
NvGrallocRelease(h) ==
  /\ priv[h] # NoBuf /\ h # imp.h
  /\ priv' = [priv EXCEPT ![h] = NoBuf]
  /\ FetchSub(priv[h])
  /\ UNCHANGED <<live, fb, taken, frames, imp>>

ReleaseBufferImpl(n) ==
  /\ n \in doomed
  /\ doomed' = doomed \ {n}
  /\ Delete(n)
  /\ UNCHANGED <<priv, ref, taken, frames, imp>>

\* A layer moves from hwc_set to the frame that is queued.
HandOver(n) ==
  /\ taken[n] > 0 /\ frames[n] < MaxHeld
  /\ taken' = [taken EXCEPT ![n] = @ - 1]
  /\ frames' = [frames EXCEPT ![n] = @ + 1]
  /\ UNCHANGED <<priv, ref, live, fb, doomed, imp>>

NvNext ==
  \/ \E h \in Handles : ImportBuffer(h) \/ NvGrallocRelease(h)
  \/ ImportStep \/ ImportDone
  \/ \E n \in NvBufs : ReleaseTaken(n) \/ ReleaseFrame(n) \/ ReleaseBufferImpl(n) \/ HandOver(n)

NvSpec == NvInit /\ [][NvNext]_nvvars

-----------------------------------------------------------------------------
\* The framebuffer of a buffer stays with the kernel while a layer of
\* hwc_set or of a frame holds the buffer, the object behind gralloc's slot
\* is never a deleted one, and an object nobody refers to is on its way to
\* be deleted: no release frees a buffer that is shown, and none leaks it.
BoLive ==
  \A n \in NvBufs :
    /\ taken[n] + frames[n] > 0 => n \in fb \cap live
    /\ (\E h \in Handles : priv[h] = n) => n \in fb \cap live
    /\ n \in live =>
         \/ n \in doomed
         \/ imp.n = n
         \/ taken[n] + frames[n] > 0
         \/ \E h \in Handles : priv[h] = n

=============================================================================
