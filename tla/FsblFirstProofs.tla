--------------------------- MODULE FsblFirstProofs ---------------------------
(* Proof that the first stage boot loader passes over no image that it could   *)
(* have loaded, for every number of slots and partitions and all images.       *)
EXTENDS FsblProofs

FromFlashDevice == device \in {"qspi", "nor"}

\* Slots that were passed over: those before MULTIBOOT; in the end, all.
Passed(s) == s < slot \/ pc \in {"hang", "locked"}
NoneMissed == \A s \in AllSlots : Passed(s) => ~Loadable(s) \/ s \in faults

\* As long as nothing disturbs the loading of this image, its data wait where the
\* next step looks for them, and a transfer fails only for what they are.
Undisturbed ==
  /\ pc = "transfer" /\ ~Linear => ddr[Area] = Raw
  /\ pc = "decrypt" => ddr[Area] = Raw
  /\ pc = "verify" => (Part.enc /\ ~Checked(Part)) \/ ddr[Area] = Raw
  /\ pc \in Waiting /\ dma # <<>> =>
       /\ dma[1].content = Raw
       /\ dma[1].src = FromFlash \/ ddr[dma[1].src] = Raw
       /\ "ERROR" \notin int_sts
  /\ pc \in Waiting \cup {"starting"} /\ dma = <<>> /\ "ERROR" \in int_sts => ~Loadable(slot)

FirstInv ==
  /\ lost => device = "sd"
  /\ FromFlashDevice => NoneMissed /\ (slot \notin faults => Undisturbed)

-----------------------------------------------------------------------------
(* Which images could be loaded does not change while the board runs. *)

LEMMA LoadableSame ==
  ASSUME UNCHANGED board
  PROVE  \A s : /\ Loadable(s)' <=> Loadable(s)
                /\ ValidFrom(s)' = ValidFrom(s)
<1>1. flash' = flash /\ fuses' = fuses
  BY DEF board
<1>2. ValidFrom(0)' = ValidFrom(0) /\ \A s : Mine(s)' = Mine(s)
  BY <1>1 DEF ValidFrom, Mine
<1>3. \A s, k : EndsList(s, k)' <=> EndsList(s, k)
  BY <1>1, <1>2 DEF EndsList
<1> QED BY <1>1, <1>2, <1>3 DEF Loadable, ValidFrom

\* A slot whose image is not valid cannot be loaded.
LEMMA InvalidSlot ==
  ASSUME NEW s \in AllSlots, NEW t \in Nat, s >= t, s \notin ValidFrom(t)
  PROVE  ~Loadable(s)
  BY DEF ValidFrom, Loadable

\* The list of the image goes on to this partition.
LEMMA ListReaches ==
  ASSUME Typed, AtImage, pc \in InImage, N <= Len(Image.parts), Loadable(slot)
  PROVE  /\ Part.head
         /\ Part.mine /\ ~EndsList(slot, N) =>
              /\ ~Part.signed
              /\ Part.kind = "PS" => Part.load = "ddr"
              /\ "sec" \in fuses => Part.enc
              /\ Part.chk \/ Part.enc => Part.good
<1>1. slot \in AllSlots
  BY DEF AtImage
<1>2. N \in DOMAIN flash[slot].parts
  BY <1>1, PartType
<1>3. \A j \in Mine(slot) : j < N => ~EndsList(slot, j)
  BY DEF AtImage, Done
<1> QED BY <1>2, <1>3 DEF Loadable, Part, Image, N

\* What is wrong with the data of a partition makes the image one that cannot be
\* loaded.
LEMMA BadPart ==
  ASSUME Typed, AtImage, pc \in AtPart,
         Part.signed \/ ((Part.chk \/ Part.enc) /\ ~Part.good)
  PROVE  ~Loadable(slot)
<1>1. pc \in InImage /\ N <= Len(Image.parts) /\ Part.mine /\ ~EndsList(slot, N)
  BY DEF AtImage, InImage
<1> QED BY <1>1, ListReaches

-----------------------------------------------------------------------------
(* Steps that stay with the image. *)

\* Nothing new was passed over.
LEMMA FrameMissed ==
  ASSUME NoneMissed, UNCHANGED <<board, slot>>, faults \subseteq faults',
         pc' \in {"hang", "locked"} => pc \in {"hang", "locked"} \/ AllSlots \subseteq faults'
  PROVE  NoneMissed'
<1>1. \A s : Loadable(s)' <=> Loadable(s)
  BY LoadableSame
<1>2. AllSlots' = AllSlots
  BY DEF AllSlots
<1> QED BY <1>1, <1>2 DEF NoneMissed, Passed

\* A step to where Undisturbed says nothing.
LEMMA FrameFirst ==
  ASSUME FirstInv, UNCHANGED <<board, slot, lost>>, faults \subseteq faults',
         pc' \in {"hang", "locked"} => pc \in {"hang", "locked"} \/ AllSlots \subseteq faults',
         pc' \notin {"transfer", "decrypt", "verify", "starting"} \cup Waiting
  PROVE  FirstInv'
<1>1. device' = device
  BY DEF board
<1>2. Undisturbed'
  BY DEF Undisturbed
<1>3. NoneMissed => NoneMissed'
  BY FrameMissed
<1> QED BY <1>1, <1>2, <1>3 DEF FirstInv, FromFlashDevice

\* ... and one that keeps what it says.
LEMMA KeepFirst ==
  ASSUME FirstInv, UNCHANGED <<board, slot>>, faults \subseteq faults',
         pc' \notin {"hang", "locked"},
         lost' => lost \/ device = "sd",
         FromFlashDevice /\ slot \notin faults' => Undisturbed'
  PROVE  FirstInv'
<1>1. device' = device /\ slot' = slot
  BY DEF board
<1>2. NoneMissed => NoneMissed'
  BY FrameMissed
<1> QED BY <1>1, <1>2 DEF FirstInv, FromFlashDevice

-----------------------------------------------------------------------------
(* Fallback: the slot it leaves was rejected or disturbed, and those that it *)
(* passes over are not valid or could not be read.                           *)
LEMMA FallbackFirst ==
  ASSUME IInv, FirstInv, NEW bad, FsblFallback(bad), pc \in Loading \cup {"select"},
         faults \subseteq bad, FromFlashDevice => slot \in bad \/ ~Loadable(slot)
  PROVE  FirstInv'
<1>1. UNCHANGED <<board, lost>> /\ device' = device
  BY DEF FsblFallback, board
<1>2. CASE ~FromFlashDevice
  BY <1>1, <1>2 DEF FirstInv, FromFlashDevice
<1> SUFFICES ASSUME FromFlashDevice PROVE FirstInv'
  BY <1>2
<1>3. device \notin {"sd", "jtag"} /\ slot \in Nat /\ pc \notin {"hang", "locked"}
  BY DEF FromFlashDevice, IInv, Typed, Loading
<1>4. \A s : (Loadable(s)' <=> Loadable(s)) /\ ValidFrom(s)' = ValidFrom(s)
  BY <1>1, LoadableSame
<1>5. AllSlots' = AllSlots /\ AllSlots \subseteq Nat
  BY DEF AllSlots
<1>6. \A s \in AllSlots : s < slot + 1 => ~Loadable(s) \/ s \in bad
  BY <1>3, <1>5 DEF FirstInv, NoneMissed, Passed
<1>7. \A s \in AllSlots : s >= slot + 1 /\ s \notin ValidFrom(slot + 1) => ~Loadable(s)
  BY <1>3, InvalidSlot
<1>8. ASSUME NoneMissed', pc' \in {"hang", "load", "rom"} PROVE FirstInv'
  <2>1. Undisturbed'
    BY <1>8 DEF Undisturbed, Waiting
  <2> QED BY <1>1, <1>8, <2>1 DEF FirstInv
<1>9. CASE FallbackReset(bad)
  <2>1. slot' = slot + 1 /\ pc' = "rom" /\ faults' = bad
    BY <1>9 DEF FallbackReset, Update_MultiBootRegister
  <2>2. NoneMissed'
    BY <1>4, <1>5, <1>6, <2>1 DEF NoneMissed, Passed
  <2> QED BY <1>8, <2>1, <2>2
<1>10. CASE FallbackInPlace(bad)
  <2>1. ASSUME NEW s \in ValidFrom(slot + 1), slot' = s, pc' = "load",
               faults' = bad \cup {t \in ValidFrom(slot + 1) : t < s}
        PROVE  FirstInv'
    <3>1. s \in AllSlots /\ s \in Nat
      BY <1>5 DEF ValidFrom
    <3>2. \A x \in AllSlots : x < s => ~Loadable(x) \/ x \in faults'
      <4> SUFFICES ASSUME NEW x \in AllSlots, x < s PROVE ~Loadable(x) \/ x \in faults'
        OBVIOUS
      <4>1. CASE x < slot + 1
        BY <1>6, <2>1, <4>1
      <4>2. CASE x >= slot + 1
        BY <1>7, <2>1, <4>2
      <4> QED BY <1>3, <1>5, <4>1, <4>2
    <3>3. NoneMissed'
      BY <1>4, <1>5, <2>1, <3>2 DEF NoneMissed, Passed
    <3> QED BY <1>8, <2>1, <3>3
  <2>2. ASSUME pc' = "hang", faults' = bad \cup ValidFrom(slot + 1) \/ faults' = AllSlots
        PROVE  FirstInv'
    <3>1. \A x \in AllSlots : ~Loadable(x) \/ x \in faults'
      <4> SUFFICES ASSUME NEW x \in AllSlots PROVE ~Loadable(x) \/ x \in faults'
        OBVIOUS
      <4>1. CASE x < slot + 1
        BY <1>6, <2>2, <4>1
      <4>2. CASE x >= slot + 1
        BY <1>7, <2>2, <4>2
      <4> QED BY <1>3, <1>5, <4>1, <4>2
    <3>2. NoneMissed'
      BY <1>4, <1>5, <3>1 DEF NoneMissed
    <3> QED BY <1>8, <2>2, <3>2
  <2> QED BY <1>10, <2>1, <2>2 DEF FallbackInPlace, Hang, Update_MultiBootRegister
<1> QED BY <1>3, <1>9, <1>10 DEF FsblFallback

\* A step that gives the image up for a fault of this boot.
LEMMA FaultFirst ==
  ASSUME IInv, FirstInv, FsblFallback(faults \cup {slot}), pc \in Loading
  PROVE  FirstInv'
  BY FallbackFirst

\* The loader rejects only what cannot be loaded, or what was disturbed.
LEMMA RejectFirst ==
  ASSUME IInv, FirstInv, Reject, pc \in Loading,
         FromFlashDevice /\ slot \notin faults => ~Loadable(slot)
  PROVE  FirstInv'
  BY FallbackFirst DEF Reject

-----------------------------------------------------------------------------
(* The steps. *)

LEMMA BootRomFirst == IInv /\ FirstInv /\ BootRom => FirstInv'
<1> SUFFICES ASSUME IInv, FirstInv, BootRom PROVE FirstInv'
  OBVIOUS
<1>1. /\ UNCHANGED <<board, history>> /\ device' = device /\ lost' = lost /\ faults' = faults
      /\ pc = "rom" /\ pc' \in {"start", "locked"}
  BY DEF BootRom, board, history
<1>2. CASE ~FromFlashDevice
  BY <1>1, <1>2 DEF FirstInv, FromFlashDevice
<1> SUFFICES ASSUME FromFlashDevice PROVE FirstInv'
  BY <1>2
<1>3. \A s : Loadable(s)' <=> Loadable(s)
  BY <1>1, LoadableSame
<1>4. AllSlots' = AllSlots /\ AllSlots \subseteq Nat /\ slot \in Nat
  BY DEF AllSlots, IInv, Typed
<1>5. /\ \A s \in AllSlots : s < slot => ~Loadable(s) \/ s \in faults
      /\ \A s \in AllSlots : s >= slot /\ s \notin ValidFrom(slot) => ~Loadable(s)
  BY <1>4, InvalidSlot DEF FirstInv, NoneMissed, Passed
<1>6. \/ ValidFrom(slot) = {} /\ pc' = "locked"
      \/ \E s \in ValidFrom(slot) : /\ \A t \in ValidFrom(slot) : s <= t
                                    /\ pc' = "start" /\ slot' = s
  BY DEF BootRom, FromFlashDevice
<1>7. NoneMissed'
  <2>1. CASE ValidFrom(slot) = {} /\ pc' = "locked"
    <3>1. \A s \in AllSlots : ~Loadable(s) \/ s \in faults
      BY <1>4, <1>5, <2>1
    <3> QED BY <1>1, <1>3, <1>4, <3>1 DEF NoneMissed
  <2>2. ASSUME NEW s \in ValidFrom(slot), \A t \in ValidFrom(slot) : s <= t,
               pc' = "start", slot' = s
        PROVE  NoneMissed'
    <3>1. s \in Nat
      BY <1>4 DEF ValidFrom
    <3>2. ASSUME NEW x \in AllSlots, x < s PROVE ~Loadable(x) \/ x \in faults
      <4>1. CASE x < slot
        BY <1>5, <4>1
      <4>2. CASE x >= slot
        <5>1. x \notin ValidFrom(slot)
          BY <1>4, <2>2, <3>1, <3>2
        <5> QED BY <1>5, <4>2, <5>1
      <4> QED BY <1>4, <4>1, <4>2
    <3> QED BY <1>1, <1>3, <1>4, <2>2, <3>2 DEF NoneMissed, Passed
  <2> QED BY <1>6, <2>1, <2>2
<1>8. Undisturbed'
  BY <1>1 DEF Undisturbed, Waiting
<1> QED BY <1>1, <1>7, <1>8 DEF FirstInv

LEMMA StartFirst == FirstInv /\ Start => FirstInv'
<1> SUFFICES ASSUME FirstInv, Start PROVE FirstInv'
  OBVIOUS
<1>1. UNCHANGED <<board, slot, lost>> /\ pc' \in {"hang", "select"}
  BY DEF Start
<1>2. (pc' = "hang" => AllSlots \subseteq faults') /\ (pc' # "hang" => faults' = faults)
  BY DEF Start
<1>3. CASE pc' = "select"
  BY <1>1, <1>2, <1>3, FrameFirst DEF Waiting
<1>4. CASE pc' = "hang"
  <2>1. \A s \in AllSlots : s \in faults'
    BY <1>2, <1>4
  <2>2. NoneMissed' /\ Undisturbed'
    BY <1>4, <2>1 DEF NoneMissed, AllSlots, Undisturbed, Waiting
  <2> QED BY <1>1, <2>2 DEF FirstInv, board
<1> QED BY <1>1, <1>3, <1>4

LEMMA SelectDeviceFirst == IInv /\ FirstInv /\ SelectDevice => FirstInv'
<1> SUFFICES ASSUME IInv, FirstInv, SelectDevice PROVE FirstInv'
  OBVIOUS
<1>1. CASE pc' \in {"load", "jtag"} /\ UNCHANGED <<board, slot, history>>
  BY <1>1, FrameFirst DEF history, Waiting
<1>2. CASE device = "sd" /\ FsblFallback(faults \cup {slot})
  BY <1>2, FallbackFirst DEF SelectDevice
<1> QED BY <1>1, <1>2 DEF SelectDevice

LEMMA LoadFirst == IInv /\ FirstInv /\ Load => FirstInv'
<1> SUFFICES ASSUME IInv, FirstInv, Load PROVE FirstInv'
  OBVIOUS
<1>1. CASE Image.header /\ Image.parts # <<>> /\ "rsa" \notin fuses
  BY <1>1, FrameFirst DEF Load, history, Waiting
<1>2. CASE ~(Image.header /\ Image.parts # <<>> /\ "rsa" \notin fuses)
  <2>1. ~Loadable(slot)
    BY <1>2 DEF Loadable, Image
  <2> QED BY <1>2, <2>1, RejectFirst DEF Load, Loading
<1> QED BY <1>1, <1>2

LEMMA PartitionFirst == IInv /\ FirstInv /\ Partition => FirstInv'
<1> SUFFICES ASSUME IInv, FirstInv, Partition PROVE FirstInv'
  OBVIOUS
<1>1. pc = "partition" /\ pc \in InImage /\ pc \in Loading
  BY DEF Partition, InImage, Loading
<1>2. CASE LastPartition \/ Accepted
  BY <1>1, <1>2, FrameFirst DEF Partition, history, Waiting
<1>3. CASE ~LastPartition /\ ~Accepted
  <2>1. N <= Len(Image.parts)
    BY <1>1, <1>3, ImageType DEF LastPartition, IInv, AtImage, Typed, N
  <2>2. Reject
    BY <1>3 DEF Partition
  <2>3. ASSUME Loadable(slot) PROVE FALSE
    <3>1. Part.head
      BY <1>1, <2>1, <2>3, ListReaches DEF IInv
    <3>2. Part.mine /\ ~(Part.head /\ Part.mine /\ (OrderInvalid \/ (NoLoad /\ "sec" \notin fuses)))
      BY <1>3, <3>1 DEF Accepted, LastPartition
    <3>3. ~EndsList(slot, N)
      BY <1>1, <2>1, <3>1, <3>2, EndsHere DEF IInv
    <3>4. (Part.kind = "PS" => Part.load = "ddr") /\ ("sec" \in fuses => Part.enc)
      BY <1>1, <2>1, <2>3, <3>2, <3>3, ListReaches DEF IInv
    <3> QED BY <1>3, <3>1, <3>4 DEF Accepted
  <2> QED BY <1>1, <2>2, <2>3, RejectFirst
<1> QED BY <1>2, <1>3

\* What the partition is, and where, while it is dealt with.
LEMMA PartSame ==
  ASSUME SameImage
  PROVE  /\ Part' = Part /\ Checked(Part)' = Checked(Part) /\ Area' = Area /\ Raw' = Raw
         /\ Linear' = Linear /\ (Loadable(slot)' <=> Loadable(slot)) /\ slot' = slot
         /\ UNCHANGED board
  BY ImageSame, LoadableSame DEF SameImage, Checked, board

LEMMA MoveFirst == IInv /\ FirstInv /\ Move => FirstInv'
<1> SUFFICES ASSUME IInv, FirstInv, Move PROVE FirstInv'
  OBVIOUS
<1>1. /\ SameImage /\ UNCHANGED <<board, slot, faults>> /\ pc = "move"
      /\ pc' \in {"transfer", "configure", "verify"}
  BY DEF Move, AfterMove, SameImage, loader
<1>2. slot \in AllSlots /\ N <= Len(Image.parts)
  BY <1>1 DEF IInv, AtImage, InImage, AtPart
<1>3. lost' => lost \/ device = "sd"
  BY DEF Move
<1>4. ASSUME FromFlashDevice PROVE Undisturbed'
  <2>1. Linear => pc' # "verify"
    <3>1. Part.kind \in {"PL", "PS"}
      BY <1>2, PartType DEF IInv, Parts
    <3> QED BY <3>1 DEF Move, AfterMove
  <2>2. ~Linear => ddr'[Area] = Raw
    <3>1. Area \in DOMAIN ddr
      BY <1>2, PartType DEF IInv, Typed
    <3> QED BY <1>4, <3>1 DEF Move, FromFlashDevice, Raw
  <2> QED BY <1>1, <2>1, <2>2, PartSame DEF Undisturbed, Waiting
<1> QED BY <1>1, <1>3, <1>4, KeepFirst

LEMMA TransferFirst == IInv /\ FirstInv /\ Transfer => FirstInv'
<1> SUFFICES ASSUME IInv, FirstInv, Transfer PROVE FirstInv'
  OBVIOUS
<1> DEFINE src == IF Linear /\ pc = "transfer" THEN FromFlash ELSE Area
           secure == Part.enc /\ Part.kind = "PS" /\ (pc = "decrypt" \/ ~Checked(Part))
<1>1. pc \in {"transfer", "decrypt"} /\ pc \in Loading
  BY DEF Transfer, Loading
<1>2. ASSUME dma = <<>>, Started(src, Area, secure),
             pc' \in {"transferring", "decrypting"},
             UNCHANGED <<board, slot, reboot, loader, ddr, pl, shifters, filling, history>>
      PROVE  FirstInv'
  <2>1. SameImage /\ UNCHANGED <<board, slot, faults, lost>>
    BY <1>2 DEF SameImage, loader, history
  <2>2. /\ int_sts' = {} /\ dma' # <<>>
        /\ dma'[1].src = src
        /\ dma'[1].content = IF src = FromFlash THEN Raw ELSE ddr[src]
    BY <1>2 DEF Started, Raw
  <2>3. ASSUME FromFlashDevice, slot \notin faults' PROVE Undisturbed'
    <3>1. src # FromFlash => ddr[src] = Raw
      BY <1>1, <2>1, <2>3 DEF FirstInv, Undisturbed
    <3>2. dma'[1].content = Raw /\ (dma'[1].src = FromFlash \/ ddr'[dma'[1].src] = Raw)
      BY <1>2, <2>2, <3>1
    <3> QED BY <1>2, <2>1, <2>2, <3>2, PartSame DEF Undisturbed, Waiting
  <2> QED BY <1>2, <2>1, <2>3, KeepFirst
<1> QED BY <1>1, <1>2, FaultFirst DEF Transfer, ClearPcapStatus

LEMMA TransferredFirst == IInv /\ FirstInv /\ Transferred => FirstInv'
<1> SUFFICES ASSUME IInv, FirstInv, Transferred PROVE FirstInv'
  OBVIOUS
<1>1. /\ pc \in {"transferring", "decrypting"} /\ pc \in Loading /\ pc \in Waiting
      /\ dma = <<>> /\ "DMA_DONE" \in int_sts
  BY DEF Transferred, Loading, Waiting, IInv, OneTransfer
<1>2. CASE "ERROR" \in int_sts
  BY <1>1, <1>2, RejectFirst DEF Transferred, FirstInv, Undisturbed
<1>3. CASE "ERROR" \notin int_sts /\ pc = "decrypting"
  <2>1. pc' = "partition" /\ UNCHANGED <<board, slot, history>>
    BY <1>3 DEF Transferred
  <2> QED BY <2>1, FrameFirst DEF history, Waiting
<1>4. CASE "ERROR" \notin int_sts /\ pc = "transferring"
  <2>1. /\ pc' = "verify" /\ SameImage /\ UNCHANGED <<board, slot, faults, lost, ddr>>
    BY <1>4 DEF Transferred, SameImage, history
  <2>2. ASSUME FromFlashDevice, slot \notin faults' PROVE Undisturbed'
    <3>1. Here
      BY <2>1, <2>2 DEF FromFlashDevice, FirstInv, IInv, Spoilt, Overwritten
    <3>2. (Part.enc /\ ~Checked(Part)) \/ ddr[Area] = Raw
      BY <1>1, <1>4, <3>1 DEF Here
    <3> QED BY <2>1, <3>2, PartSame DEF Undisturbed, Waiting
  <2> QED BY <2>1, <2>2, KeepFirst
<1> QED BY <1>1, <1>2, <1>3, <1>4

LEMMA VerifyFirst == IInv /\ FirstInv /\ Verify => FirstInv'
<1> SUFFICES ASSUME IInv, FirstInv, Verify PROVE FirstInv'
  OBVIOUS
<1>1. pc = "verify" /\ pc \in Loading /\ pc \in AtPart
  BY DEF Verify, Loading, AtPart
<1> DEFINE passes == (Part.chk => ddr[Area] = Content(Part.enc) /\ Part.good) /\ ~Part.signed
<1>2. CASE ~passes
  <2>1. ASSUME FromFlashDevice, slot \notin faults PROVE ~Loadable(slot)
    <3>1. Part.chk => ddr[Area] = Content(Part.enc)
      BY <1>1, <2>1 DEF FirstInv, Undisturbed, Raw, Checked
    <3>2. Part.signed \/ (Part.chk /\ ~Part.good)
      BY <1>2, <3>1
    <3> QED BY <1>1, <3>2, BadPart DEF IInv
  <2> QED BY <1>1, <1>2, <2>1, RejectFirst DEF Verify
<1>3. ASSUME UNCHANGED <<board, slot, reboot, SystemInitFlag, BitstreamFlag, ApplicationFlag,
                         ExecAddress, ddr, pl, shifters, pcap, history>>,
             pc' \in {"configure", "partition"}
      PROVE  FirstInv'
  BY <1>3, FrameFirst DEF history, Waiting
<1>4. ASSUME UNCHANGED <<board, slot, reboot, SystemInitFlag, BitstreamFlag, ApplicationFlag,
                         ExecAddress, ddr, pl, shifters, pcap, history>>,
             Checked(Part), pc' = "decrypt", UNCHANGED PartitionNum
      PROVE  FirstInv'
  <2>1. SameImage /\ UNCHANGED <<board, slot, ddr, faults, lost>>
    BY <1>4 DEF SameImage, history
  <2>2. ASSUME FromFlashDevice, slot \notin faults' PROVE Undisturbed'
    <3>1. ddr[Area] = Raw
      BY <1>1, <1>4, <2>1, <2>2 DEF FirstInv, Undisturbed
    <3> QED BY <1>4, <2>1, <3>1, PartSame DEF Undisturbed, Waiting
  <2> QED BY <1>4, <2>1, <2>2, KeepFirst
<1>5. CASE passes
  BY <1>3, <1>4, <1>5 DEF Verify
<1> QED BY <1>2, <1>5

LEMMA ConfigureFirst == IInv /\ FirstInv /\ Configure => FirstInv'
<1> SUFFICES ASSUME IInv, FirstInv, Configure PROVE FirstInv'
  OBVIOUS
<1> DEFINE src == IF Linear /\ ~Checked(Part) THEN FromFlash ELSE Temp
<1>1. pc = "configure" /\ pc \in Loading
  BY DEF Configure, Loading
<1>2. ASSUME dma = <<>>, Started(src, ToPL, Part.enc), pc' = "configuring",
             UNCHANGED <<board, slot, reboot, loader, ddr, history>>
      PROVE  FirstInv'
  <2>1. SameImage /\ UNCHANGED <<board, slot, faults, lost>>
    BY <1>2 DEF SameImage, loader, history
  <2>2. /\ int_sts' = {} /\ dma' # <<>>
        /\ dma'[1].src = src
        /\ dma'[1].content = IF src = FromFlash THEN Raw ELSE ddr[src]
    BY <1>2 DEF Started, Raw
  <2>3. ASSUME FromFlashDevice, slot \notin faults' PROVE Undisturbed'
    <3>1. Here
      BY <2>1, <2>3 DEF FromFlashDevice, FirstInv, IInv, Spoilt, Overwritten
    <3>2. src # FromFlash => ddr[src] = Raw
      BY <1>1, <3>1 DEF Here
    <3>3. dma'[1].content = Raw /\ (dma'[1].src = FromFlash \/ ddr'[dma'[1].src] = Raw)
      BY <1>2, <2>2, <3>2
    <3> QED BY <1>2, <2>1, <2>2, <3>3, PartSame DEF Undisturbed, Waiting
  <2> QED BY <1>2, <2>1, <2>3, KeepFirst
<1> QED BY <1>1, <1>2, FaultFirst DEF Configure, ClearPcapStatus

LEMMA ConfiguringFirst == IInv /\ FirstInv /\ Configuring => FirstInv'
<1> SUFFICES ASSUME IInv, FirstInv, Configuring PROVE FirstInv'
  OBVIOUS
<1>1. /\ pc = "configuring" /\ pc \in Loading /\ pc \in Waiting
      /\ dma = <<>> /\ "DMA_DONE" \in int_sts
  BY DEF Configuring, Loading, Waiting, IInv, OneTransfer
<1>2. CASE Reject /\ "ERROR" \in int_sts
  BY <1>1, <1>2, RejectFirst DEF FirstInv, Undisturbed
\* The poll did not see the error: the next one does, or its check.
<1>3. ASSUME pc' = "starting", int_sts' = int_sts \ {"DMA_DONE"},
             UNCHANGED <<board, slot, reboot, loader, ddr, pl, shifters, dma, filling, history>>
      PROVE  FirstInv'
  <2>1. SameImage /\ UNCHANGED <<board, slot, faults, lost>> /\ dma' = <<>>
    BY <1>1, <1>3 DEF SameImage, loader, history
  <2>2. ASSUME FromFlashDevice, slot \notin faults' PROVE Undisturbed'
    <3>1. "ERROR" \in int_sts' => ~Loadable(slot)
      BY <1>1, <1>3, <2>1, <2>2 DEF FirstInv, Undisturbed
    <3> QED BY <1>3, <2>1, <3>1, PartSame DEF Undisturbed, Waiting
  <2> QED BY <1>3, <2>1, <2>2, KeepFirst
<1> QED BY <1>2, <1>3 DEF Configuring

LEMMA ConfiguredFirst == IInv /\ FirstInv /\ Configured => FirstInv'
<1> SUFFICES ASSUME IInv, FirstInv, Configured PROVE FirstInv'
  OBVIOUS
<1>1. pc = "starting" /\ pc \in Loading /\ dma = <<>>
  BY DEF Configured, Loading, Waiting, IInv, OneTransfer
<1>2. CASE "ERROR" \in int_sts
  BY <1>1, <1>2, RejectFirst DEF Configured, FirstInv, Undisturbed
<1>3. CASE "ERROR" \notin int_sts
  <2>1. pc' = "partition" /\ UNCHANGED <<board, slot, history>>
    BY <1>3 DEF Configured
  <2> QED BY <2>1, FrameFirst DEF history, Waiting
<1> QED BY <1>2, <1>3

LEMMA HandoffFirst == FirstInv /\ Handoff => FirstInv'
<1> SUFFICES ASSUME FirstInv, Handoff PROVE FirstInv'
  OBVIOUS
<1>1. UNCHANGED <<board, slot, history>> /\ pc' \in {"jtag", "running"}
  BY DEF Handoff
<1> QED BY <1>1, FrameFirst DEF history, Waiting

LEMMA DmaEndsFirst == IInv /\ FirstInv /\ DmaEnds => FirstInv'
<1> SUFFICES ASSUME IInv, FirstInv, DmaEnds PROVE FirstInv'
  OBVIOUS
<1>1. /\ SameImage /\ UNCHANGED <<board, pc, slot, lost>> /\ dma # <<>>
  BY DEF DmaEnds, SameImage, loader
<1>2. PICK t \in Transfers : dma = <<t>> /\ dma[1] = t /\ Head(dma) = t /\ dma' = <<>>
  <2>1. PICK t \in Transfers : dma = <<t>>
    BY DEF IInv, OneTransfer, DmaEnds
  <2> QED BY <2>1 DEF DmaEnds
<1> DEFINE same == t.src = FromFlash \/ ddr[t.src] = t.content
           out == IF same THEN Delivered(t) ELSE Junk
<1>3. /\ int_sts' = int_sts \cup {"DMA_DONE"} \cup (IF out = Junk THEN {"ERROR"} ELSE {})
      /\ ddr' = IF t.dst \in {ToPL, Dropped} THEN ddr ELSE [ddr EXCEPT ![t.dst] = out]
      /\ faults' = IF LateHit(t) THEN faults \cup {slot} ELSE faults
  BY <1>2 DEF DmaEnds
<1>4. ASSUME FromFlashDevice, slot \notin faults' PROVE Undisturbed'
  <2>1. ~LateHit(t) /\ Undisturbed
    BY <1>3, <1>4 DEF FirstInv
  <2>2. CASE pc \in Waiting
    <3>1. slot \in AllSlots /\ N <= Len(Image.parts) /\ pc \in AtPart
      BY <2>2 DEF IInv, AtImage, InImage, AtPart, Waiting
    <3>2. t.content = Raw /\ same /\ "ERROR" \notin int_sts
      BY <1>2, <2>1, <2>2 DEF Undisturbed
    <3>3. t.secure => Part.enc
      BY <1>2, <2>2 DEF IInv, Own, Waiting
    <3>4. Raw # Junk
      BY <3>1, PartType, BoardAssumption DEF IInv
    <3>5. "ERROR" \in int_sts' => Part.enc /\ ~Part.good
      <4>1. CASE t.secure
        <5>1. Delivered(t) = IF Part.good THEN Clean ELSE Junk
          BY <3>1, <3>2, <3>3, <4>1, Decrypts DEF IInv
        <5>2. Clean # Junk
          BY <3>1, PartType, BoardAssumption DEF IInv
        <5> QED BY <1>3, <3>2, <3>3, <4>1, <5>1, <5>2
      <4>2. CASE ~t.secure
        <5>1. out = Raw
          BY <3>2, <4>2 DEF Delivered
        <5> QED BY <1>3, <3>2, <3>4, <5>1
      <4> QED BY <4>1, <4>2
    <3>6. "ERROR" \in int_sts' => ~Loadable(slot)
      BY <3>1, <3>5, BadPart DEF IInv
    <3> QED BY <1>1, <1>2, <2>2, <3>6, PartSame DEF Undisturbed, Waiting
  <2>3. CASE pc \in {"transfer", "decrypt", "verify"}
    <3>1. slot \in AllSlots /\ N <= Len(Image.parts)
      BY <2>3 DEF IInv, AtImage, InImage, AtPart
    <3>2. Area \in Temp..MaxParts /\ Raw # Junk /\ Raw.slot = slot
      BY <3>1, PartType, BoardAssumption DEF IInv, Raw, Content
    <3>3. ddr[Area] = Raw => ddr'[Area] = Raw
      <4>1. t.dst = Area => t.dst >= Temp
        BY <3>2, BoardAssumption DEF Temp
      <4>2. ddr[Area] = Raw => t.dst # Area
        BY <2>1, <2>3, <3>2, <4>1 DEF LateHit
      <4> HIDE DEF out
      <4> QED BY <1>3, <3>2, <4>2 DEF IInv, Typed
    <3> QED BY <1>1, <1>2, <2>1, <2>3, <3>3, PartSame DEF Undisturbed, Waiting
  <2>4. CASE pc \notin Waiting \cup {"transfer", "decrypt", "verify"}
    <3>1. pc # "starting"
      BY <1>1 DEF IInv, OneTransfer, Waiting
    <3> QED BY <1>1, <2>4, <3>1 DEF Undisturbed
  <2> QED BY <2>2, <2>3, <2>4
<1>5. NoneMissed => NoneMissed'
  <2>1. faults \subseteq faults'
    BY <1>3
  <2> QED BY <1>1, <2>1, FrameMissed
<1> QED BY <1>1, <1>3, <1>4, <1>5 DEF FirstInv, FromFlashDevice, board

\* Steps that touch nothing the invariant is about.
LEMMA SameFirst ==
  ASSUME FirstInv, SameImage, UNCHANGED <<pc, ddr, dma, history>>,
         "ERROR" \in int_sts' <=> "ERROR" \in int_sts
  PROVE  FirstInv'
<1>1. UNCHANGED <<board, slot, faults, lost, device>>
  BY DEF SameImage, history, board
<1>2. Undisturbed => Undisturbed'
  BY PartSame DEF Undisturbed
<1>3. NoneMissed => NoneMissed'
  BY <1>1, FrameMissed
<1> QED BY <1>1, <1>2, <1>3 DEF FirstInv, FromFlashDevice

LEMMA NextFirst == IInv /\ FirstInv /\ [Next]_vars => FirstInv'
<1> SUFFICES ASSUME IInv, FirstInv, [Next]_vars PROVE FirstInv'
  OBVIOUS
<1>1. CASE GiveUp
  BY <1>1, FaultFirst DEF GiveUp, Loading
<1>2. CASE Exception
  BY <1>2, FaultFirst DEF Exception
<1>3. CASE PlStarts
  BY <1>3, SameFirst DEF PlStarts, SameImage, loader
<1>4. CASE UNCHANGED vars
  BY <1>4, SameFirst DEF vars, SameImage, loader, pcap
<1> QED BY <1>1, <1>2, <1>3, <1>4, BootRomFirst, StartFirst, SelectDeviceFirst, LoadFirst,
           PartitionFirst, MoveFirst, TransferFirst, TransferredFirst, VerifyFirst,
           ConfigureFirst, ConfiguringFirst, ConfiguredFirst, HandoffFirst, DmaEndsFirst
        DEF Next, Software

\* No image is passed over that could have been loaded, unless its own loading was
\* disturbed: also not when transfers that earlier images gave up end late.
THEOREM FsblBootsFirstGoodImage == Spec => []FirstGoodImage
<1>1. Init => FirstInv
  BY DEF Init, FirstInv, NoneMissed, Passed, Undisturbed, Waiting, AllSlots
<1>2. FirstInv => FirstGoodImage
  BY DEF FirstInv, FromFlashDevice, NoneMissed, Passed, FirstGoodImage
<1> QED BY <1>1, <1>2, NextFirst, FsblInvariant, PTL DEF Spec
=============================================================================
