----------------------------- MODULE FsblProofs -----------------------------
(* Proof that the first stage boot loader hands off only to a complete image, *)
(* for every number of slots and partitions, all images, and any faults.      *)
EXTENDS Fsbl, TLAPS

Transfers == [src : {FromFlash} \cup Temp..MaxParts, content : Contents \cup {Junk},
              dst : {ToPL, Dropped} \cup Temp..MaxParts, secure : BOOLEAN]

-----------------------------------------------------------------------------
\* Stages of the loading of an image, and of a partition that was accepted.
AtPart == {"move", "transfer", "transferring", "verify", "decrypt", "decrypting",
           "configure", "configuring", "starting"}
InImage == AtPart \cup {"partition", "handoff", "running"}
Waiting == {"transferring", "decrypting", "configuring"}

N == PartitionNum
Raw == Content(Part.enc)
Clean == Content(FALSE)
Done == {k \in Mine(slot) : k < N}
Of(kind) == {k \in Done : flash[slot].parts[k].kind = kind}
Placed(k) == [slot |-> slot, part |-> k, enc |-> FALSE]

Typed ==
  /\ flash \in Flashes
  /\ pc \in InImage \cup {"rom", "start", "select", "load", "jtag", "hang", "locked"}
  /\ slot \in Nat /\ N \in Nat \ {0} /\ ExecAddress \in Nat
  /\ BitstreamFlag \in BOOLEAN /\ ApplicationFlag \in BOOLEAN
  /\ shifters \in BOOLEAN /\ lost \in BOOLEAN
  /\ ddr \in [Temp..MaxParts -> Contents \cup {Junk}]
  /\ filling \in Contents \cup {None}

\* The image being loaded exists, and nothing before this partition ends its list.
AtImage ==
  /\ pc \in {"start", "select"} /\ device # "jtag" => slot \in AllSlots
  /\ pc \in InImage \cup {"load"} => slot \in AllSlots /\ device # "jtag"
  /\ pc \in InImage => /\ N <= Len(Image.parts) + 1
                       /\ \A k \in Done : ~EndsList(slot, k)
  /\ pc \in AtPart => N <= Len(Image.parts) /\ Part.mine /\ Accepted /\ ~EndsList(slot, N)
  /\ pc \in {"handoff", "running"} =>
       N > Len(Image.parts) \/ (Part.mine /\ EndsList(slot, N))

\* The flags and the address say which kinds of partition were met.
Met(kind) == Of(kind) # {} \/ (pc \in AtPart \cup {"handoff", "running"}
                               /\ N <= Len(Image.parts) /\ Part.kind = kind)
MetFlags ==
  /\ pc \in InImage => (BitstreamFlag <=> Met("PL"))
  /\ pc \in InImage \ {"handoff", "running"} => (ApplicationFlag <=> Met("PS"))
  /\ pc \in InImage =>
       LET met == Of("PS") \cup {k \in {N} : pc \in AtPart /\ Part.kind = "PS"}
       IN IF ExecAddress = 0 THEN met = {}
          ELSE ExecAddress \in met /\ \A k \in met : ExecAddress <= k
  /\ pc = "running" => ExecAddress # 0

\* The transfer under way is the one the loader waits for, or one that an earlier
\* image gave up; that is with the key in the fuses, and before the first partition
\* of this image was placed, unless that one is plain and copied by the processor.
OneTransfer ==
  /\ dma = <<>> \/ \E t \in Transfers : dma = <<t>>
  /\ pc \in Waiting /\ "DMA_DONE" \in int_sts => dma = <<>>
  /\ dma # <<>> =>
       \/ pc \in Waiting \cup {"hang"}
       \/ /\ "aes" \in fuses
          /\ pc \in {"load", "partition", "move", "transfer", "verify", "decrypt",
                     "configure", "handoff", "jtag", "running"}
          /\ pc # "load" => Done = {} \/ Unguarded(slot)
          /\ dma[1].dst # ToPL
          /\ Linear => \/ pc \notin {"verify", "decrypt", "configure"}
                       \/ pc = "configure" /\ ~Checked(Part)
          /\ ~Linear => /\ dma[1].dst = Dropped \/ (dma[1].dst > Temp /\ dma[1].secure)
                        /\ pc = "verify" => Checked(Part) \/ ~Part.enc

\* The loader waits for this.
Own ==
  /\ pc = "transferring" /\ dma # <<>> =>
       /\ dma[1].dst = Area
       /\ dma[1].secure = (Part.enc /\ Part.kind = "PS" /\ ~Checked(Part))
  /\ pc = "decrypting" /\ dma # <<>> => dma[1].dst = Area /\ dma[1].secure
  /\ pc = "configuring" /\ dma # <<>> => dma[1].dst = ToPL /\ dma[1].secure = Part.enc
  /\ pc \in {"transfer", "transferring"} /\ ~Linear => Part.kind = "PS" /\ Part.enc /\ ~Checked(Part)
  /\ pc \in {"transfer", "transferring"} => Part.kind = "PS" \/ Checked(Part)
  /\ pc \in {"decrypt", "decrypting"} => Part.kind = "PS" /\ Part.enc /\ Checked(Part) /\ Part.good
  /\ pc = "verify" => Part.kind = "PS" \/ Checked(Part)
  /\ pc \in {"configure", "configuring", "starting"} => Part.kind = "PL"

\* Data that no secure transfer accepts.
Undone(c) == c = Junk \/ ~c.enc
Held(c) == c = Raw \/ ("aes" \in fuses /\ Part.kind = "PS" /\ Part.enc /\ Undone(c))

\* The data of this partition.
Here ==
  /\ pc = "transfer" /\ ~Linear => Held(ddr[Area])
  /\ pc = "decrypt" => Held(ddr[Area])
  /\ pc \in {"transferring", "decrypting"} /\ dma # <<>> => Held(dma[1].content)
  /\ pc = "transferring" /\ dma # <<>> /\ ~dma[1].secure => dma[1].content = Raw
  /\ pc = "transferring" /\ dma = <<>> /\ "ERROR" \notin int_sts =>
       IF Part.enc /\ Part.kind = "PS" /\ ~Checked(Part)
       THEN ddr[Area] = Clean /\ Part.good ELSE ddr[Area] = Raw
  /\ pc = "decrypting" /\ dma = <<>> /\ "ERROR" \notin int_sts => ddr[Area] = Clean
  /\ pc = "verify" => IF Part.enc /\ Part.kind = "PS" /\ ~Checked(Part)
                      THEN ddr[Area] = Clean /\ Part.good ELSE Held(ddr[Area])
  /\ pc = "configure" => (Linear /\ ~Checked(Part)) \/ ddr[Temp] = Raw
  /\ pc = "configuring" /\ dma # <<>> => dma[1].content = Raw
  /\ pc \in {"configuring", "starting"} /\ filling # None => filling = Clean
  /\ pc \in {"configuring", "starting"} /\ "PCFG_DONE" \in int_sts => pl = Clean

\* The partitions before it are in place.
InPlace ==
  pc \in InImage =>
    /\ \A k \in Of("PS") :
         /\ ddr[k] = Placed(k)
         /\ flash[slot].parts[k].chk \/ flash[slot].parts[k].enc => flash[slot].parts[k].good
    /\ pc \notin {"configuring", "starting"} =>
         \A k \in Of("PL") : (\A j \in Of("PL") : j <= k) => pl = Placed(k)

\* The PL starts only with the loader behind it, and is connected at the end.
Connected ==
  /\ filling # None => pc \in {"configuring", "starting", "hang"}
  /\ pc \in {"configuring", "starting"} =>
       /\ filling # None => dma = <<>>
       /\ "PCFG_DONE" \in int_sts => pl # None /\ filling = None /\ dma = <<>>
  /\ pc \in InImage \ {"configuring", "starting"} /\ Of("PL") # {} => pl # None
  /\ shifters => pc \in {"running", "jtag"}

\* What the claims except: an error of the SD card that was dropped, and a late
\* transfer into an image that starts with a plain partition.
Spoilt == lost \/ Overwritten(slot)

IInv ==
  /\ Typed /\ AtImage /\ MetFlags /\ OneTransfer /\ Own /\ Connected /\ ShiftersFollowPl
  /\ ~Spoilt => Here /\ InPlace

-----------------------------------------------------------------------------
(* The image a state is about changes only with the slot and the partition. *)

SameImage == UNCHANGED <<board, slot, PartitionNum>>

LEMMA ImageSame ==
  ASSUME SameImage
  PROVE  /\ Image' = Image /\ Part' = Part /\ Area' = Area /\ Raw' = Raw /\ Clean' = Clean
         /\ Done' = Done /\ Linear' = Linear /\ Accepted' = Accepted
         /\ \A kind : Of(kind)' = Of(kind)
         /\ \A k : EndsList(slot, k)' = EndsList(slot, k) /\ Placed(k)' = Placed(k)
         /\ \A c : Held(c)' = Held(c)
         /\ Mine(slot)' = Mine(slot)
<1> USE DEF SameImage, board
<1>1. Image' = Image /\ Part' = Part /\ Linear' = Linear /\ Mine(slot)' = Mine(slot)
  BY DEF Image, Part, Linear, Mine
<1>2. Area' = Area /\ Raw' = Raw /\ Clean' = Clean /\ Accepted' = Accepted
  BY <1>1 DEF Area, Raw, Clean, Content, Accepted
<1>3. Done' = Done
  BY <1>1 DEF Done, N
<1>4. \A kind : Of(kind)' = Of(kind)
  BY <1>3 DEF Of
<1>5. \A k : EndsList(slot, k)' = EndsList(slot, k) /\ Placed(k)' = Placed(k)
  BY <1>1 DEF EndsList, Placed
<1>6. \A c : Held(c)' = Held(c)
  BY <1>1, <1>2 DEF Held, Undone
<1> QED BY <1>1, <1>2, <1>3, <1>4, <1>5, <1>6

\* ... and what a late transfer may do to it, only with the slot.
LEMMA SlotSame ==
  ASSUME UNCHANGED <<board, slot>>
  PROVE  /\ Unguarded(slot)' <=> Unguarded(slot)
         /\ lost' = lost /\ faults' = faults => (Spoilt' <=> Spoilt)
         /\ (lost => lost') /\ faults \subseteq faults' => (Spoilt => Spoilt')
<1>1. flash' = flash /\ fuses' = fuses /\ device' = device /\ slot' = slot
  BY DEF board
<1>2. Mine(slot)' = Mine(slot) /\ \A k : EndsList(slot, k)' <=> EndsList(slot, k)
  BY <1>1 DEF Mine, EndsList
<1>3. Loaded(slot)' = Loaded(slot) /\ Linear' = Linear
  BY <1>1, <1>2 DEF Loaded, Linear
<1>4. Unguarded(slot)' <=> Unguarded(slot)
  BY <1>1, <1>3 DEF Unguarded
<1> QED BY <1>1, <1>4 DEF Spoilt, Overwritten

\* The images are typed, and so is what is named after them.
LEMMA ImageType ==
  ASSUME Typed, slot \in AllSlots
  PROVE  Image \in Images /\ Len(Image.parts) <= MaxParts /\ Len(Image.parts) \in Nat
<1>1. flash \in [AllSlots -> Images] /\ \A s \in AllSlots : Len(flash[s].parts) <= MaxParts
  BY BoardAssumption DEF Typed
<1>2. Image \in Images /\ Len(Image.parts) <= MaxParts
  BY <1>1 DEF Image
<1>3. Image.parts \in Seq(Parts)
  BY <1>2 DEF Images
<1> QED BY <1>2, <1>3

LEMMA PartType ==
  ASSUME Typed, slot \in AllSlots, N <= Len(Image.parts)
  PROVE  /\ Part \in Parts /\ N \in 1..MaxParts /\ N \in DOMAIN flash[slot].parts
         /\ Area \in Temp..MaxParts /\ Area \in {Temp, N} /\ (Area = Temp <=> Part.kind = "PL")
         /\ Raw \in Contents /\ Clean \in Contents
<1>1. Image.parts \in Seq(Parts) /\ Len(Image.parts) <= MaxParts /\ Len(Image.parts) \in Nat
  BY ImageType DEF Images
<1>2. N \in 1..Len(Image.parts) /\ MaxParts \in Nat
  BY <1>1, BoardAssumption DEF Typed, N
<1>3. Part \in Parts
  BY <1>1, <1>2 DEF Part, N
<1>4. N \in 1..MaxParts /\ N \in DOMAIN flash[slot].parts
  BY <1>1, <1>2 DEF Image
<1>5. Area \in Temp..MaxParts /\ Area \in {Temp, N} /\ (Area = Temp <=> Part.kind = "PL")
  <2>1. CASE Part.kind = "PL"
    BY <2>1, <1>2, BoardAssumption DEF Area, Temp
  <2>2. CASE Part.kind # "PL"
    BY <2>2, <1>2, <1>4, BoardAssumption DEF Area, Temp, N
  <2> QED BY <2>1, <2>2
<1>6. Raw \in Contents /\ Clean \in Contents
  <2>1. Part.enc \in BOOLEAN
    BY <1>3 DEF Parts
  <2> QED BY <1>4, <2>1 DEF Raw, Clean, Content, Contents, N
<1> QED BY <1>3, <1>4, <1>5, <1>6

\* The partitions that are behind the loader have load addresses.
LEMMA DoneType ==
  ASSUME Typed, slot \in AllSlots
  PROVE  \A k \in Done : k \in 1..MaxParts
<1>1. flash[slot].parts \in Seq(Parts) /\ Len(Image.parts) <= MaxParts
  BY ImageType DEF Images, Image
<1>2. \A k \in Done : k \in 1..Len(Image.parts)
  BY <1>1 DEF Done, Mine, Image
<1>3. Len(Image.parts) \in Nat /\ MaxParts \in Nat
  BY ImageType, BoardAssumption
<1> QED BY <1>1, <1>2, <1>3

\* The load addresses of the partitions before are not touched.
LEMMA Elsewhere ==
  ASSUME Typed, slot \in AllSlots, N <= Len(Image.parts)
  PROVE  \A k \in Done : k \in Temp..MaxParts /\ k # Area
<1>1. flash[slot].parts \in Seq(Parts) /\ Len(Image.parts) <= MaxParts
  BY ImageType DEF Images, Image
<1>2. \A k \in Done : k \in 1..Len(Image.parts) /\ k < N
  BY <1>1 DEF Done, Mine, Image
<1>3. Area \in {Temp, N} /\ N \in Nat
  BY PartType DEF Typed
<1>4. Len(Image.parts) \in Nat /\ MaxParts \in Nat
  BY ImageType, BoardAssumption
<1> QED BY <1>1, <1>2, <1>3, <1>4 DEF Temp

\* An image whose first partition is plain is one that a late transfer may reach.
LEMMA PlainFirst ==
  ASSUME Typed, AtImage, pc \in AtPart, Done = {}, "aes" \in fuses, ~Linear,
         Part.kind = "PS", ~Part.enc
  PROVE  Unguarded(slot)
<1>1. slot \in AllSlots /\ N <= Len(Image.parts) /\ Part.mine /\ ~EndsList(slot, N)
  BY DEF AtImage, InImage
<1>2. N \in Nat /\ flash[slot].parts[N] = Part /\ N \in Mine(slot)
  BY <1>1, PartType DEF Typed, Part, Image, N, Mine
<1>3. Mine(slot) \subseteq Nat
  <2>1. flash[slot].parts \in Seq(Parts)
    BY <1>1, ImageType DEF Images, Image
  <2> QED BY <2>1 DEF Mine
<1>4. \A j \in Mine(slot) : N <= j
  BY <1>2, <1>3 DEF Done
<1>5. N \in Loaded(slot)
  <2> SUFFICES ASSUME NEW j \in Mine(slot), j <= N PROVE ~EndsList(slot, j)
    BY <1>2 DEF Loaded
  <2>1. j = N
    BY <1>2, <1>3, <1>4
  <2> QED BY <1>1, <2>1
<1>6. \A j \in Loaded(slot) : N <= j
  BY <1>4 DEF Loaded
<1> QED BY <1>2, <1>5, <1>6 DEF Unguarded

\* A content of the partition that the secure transfer accepts becomes clean.
LEMMA Decrypts ==
  ASSUME Typed, slot \in AllSlots, N <= Len(Image.parts), Part.enc,
         NEW d \in Transfers, d.secure, d.content = Raw
  PROVE  Delivered(d) = IF Part.good THEN Clean ELSE Junk
<1>1. Raw # Junk /\ Raw.enc /\ Raw.slot = slot /\ Raw.part = N
  BY PartType, BoardAssumption DEF Raw, Content, N
<1>2. Intact(Raw) <=> Part.good
  BY <1>1 DEF Intact, Part, Image, N
<1>3. [Raw EXCEPT !.enc = FALSE] = Clean
  <2>1. Raw \in Contents /\ Clean \in Contents
    BY PartType
  <2>2. Raw.slot = Clean.slot /\ Raw.part = Clean.part /\ ~Clean.enc
    BY DEF Raw, Clean, Content
  <2> QED BY <2>1, <2>2 DEF Contents
<1>4. CASE Part.good
  BY <1>1, <1>2, <1>3, <1>4 DEF Delivered
<1>5. CASE ~Part.good
  BY <1>1, <1>2, <1>5 DEF Delivered
<1> QED BY <1>4, <1>5

\* One that it does not is lost.
LEMMA Rejects ==
  ASSUME NEW d, d.secure, Undone(d.content)
  PROVE  Delivered(d) = Junk
  BY DEF Delivered, Undone

\* Whatever a secure transfer delivers, none accepts again.
LEMMA DeliversUndone ==
  ASSUME NEW d \in Transfers, d.secure
  PROVE  Undone(Delivered(d))
<1>1. CASE d.content = Junk
  BY <1>1 DEF Delivered, Undone
<1>2. CASE d.content # Junk
  <2>1. d.content \in Contents
    BY <1>2 DEF Transfers
  <2>2. ~[d.content EXCEPT !.enc = FALSE].enc
    BY <2>1 DEF Contents
  <2> QED BY <2>1, <2>2 DEF Delivered, Undone
<1> QED BY <1>1, <1>2

LEMMA DeliversType ==
  ASSUME NEW d \in Transfers
  PROVE  Delivered(d) \in Contents \cup {Junk}
<1>1. CASE d.content = Junk
  BY <1>1 DEF Delivered
<1>2. CASE d.content # Junk
  <2>1. d.content \in Contents
    BY <1>2 DEF Transfers
  <2>2. [d.content EXCEPT !.enc = FALSE] \in Contents
    BY <2>1 DEF Contents
  <2> QED BY <2>1, <2>2 DEF Delivered
<1> QED BY <1>1, <1>2

-----------------------------------------------------------------------------
(* The device configuration unit. *)

LEMMA FrameImage ==
  ASSUME AtImage, MetFlags, SameImage,
         UNCHANGED <<pc, BitstreamFlag, ApplicationFlag, ExecAddress>>
  PROVE  AtImage' /\ MetFlags'
<1>1. device' = device /\ fuses' = fuses /\ slot' = slot /\ PartitionNum' = PartitionNum
  BY DEF SameImage, board
<1>2. AtImage'
  BY <1>1, ImageSame DEF AtImage, N, AllSlots
<1>3. \A kind : Met(kind)' = Met(kind)
  BY <1>1, ImageSame DEF Met, N
<1>4. MetFlags'
  BY <1>1, <1>3, ImageSame DEF MetFlags, N
<1> QED BY <1>2, <1>4

LEMMA FrameShifters ==
  ASSUME ShiftersFollowPl, SameImage, UNCHANGED <<pc, pl, shifters>>
  PROVE  ShiftersFollowPl'
  BY DEF ShiftersFollowPl, SameImage, board, Kind, Loaded, Mine, EndsList

\* What the end of a transfer changes.
LEMMA DmaFacts ==
  ASSUME Typed, OneTransfer, DmaEnds
  PROVE  \E t \in Transfers, out \in Contents \cup {Junk} :
           /\ dma = <<t>> /\ dma[1] = t /\ dma' = <<>>
           /\ out \in {Delivered(t), Junk}
           /\ "ERROR" \notin int_sts' => out # Junk
           /\ "PCFG_DONE" \in int_sts' => "PCFG_DONE" \in int_sts
           /\ ddr' = IF t.dst \in {ToPL, Dropped} THEN ddr ELSE [ddr EXCEPT ![t.dst] = out]
           /\ filling' = IF t.dst = ToPL /\ out # Junk THEN out ELSE filling
           /\ faults \subseteq faults'
           /\ LateHit(t) => slot \in faults'
<1>1. PICK t \in Transfers : dma = <<t>>
  BY DEF OneTransfer, DmaEnds
<1>2. dma[1] = t /\ Head(dma) = t /\ Tail(dma) = <<>>
  BY <1>1
<1> DEFINE same == t.src = FromFlash \/ ddr[t.src] = t.content
           out == IF same THEN Delivered(t) ELSE Junk
<1>3. out \in Contents \cup {Junk}
  BY DeliversType
<1>4. out \in {Delivered(t), Junk}
  OBVIOUS
<1>5. /\ int_sts' = int_sts \cup {"DMA_DONE"} \cup (IF out = Junk THEN {"ERROR"} ELSE {})
      /\ ddr' = IF t.dst \in {ToPL, Dropped} THEN ddr ELSE [ddr EXCEPT ![t.dst] = out]
      /\ filling' = IF t.dst = ToPL /\ out # Junk THEN out ELSE filling
      /\ dma' = <<>>
      /\ faults' = IF LateHit(t) THEN faults \cup {slot} ELSE faults
  BY <1>2 DEF DmaEnds
<1> HIDE DEF out
<1> QED BY <1>1, <1>2, <1>3, <1>4, <1>5

LEMMA DmaEndsIInv ==
  ASSUME IInv, DmaEnds
  PROVE  IInv'
<1> USE DEF IInv
<1>1. SameImage /\ UNCHANGED <<pc, loader, pl, shifters, lost>>
  BY DEF DmaEnds, SameImage, loader
<1>2. AtImage' /\ MetFlags'
  BY <1>1, FrameImage DEF loader
<1>3. PICK t \in Transfers, out \in Contents \cup {Junk} :
           /\ dma = <<t>> /\ dma[1] = t /\ dma' = <<>>
           /\ out \in {Delivered(t), Junk}
           /\ "ERROR" \notin int_sts' => out # Junk
           /\ "PCFG_DONE" \in int_sts' => "PCFG_DONE" \in int_sts
           /\ ddr' = IF t.dst \in {ToPL, Dropped} THEN ddr ELSE [ddr EXCEPT ![t.dst] = out]
           /\ filling' = IF t.dst = ToPL /\ out # Junk THEN out ELSE filling
           /\ faults \subseteq faults'
           /\ LateHit(t) => slot \in faults'
  BY DmaFacts
<1>4. t.dst \in {ToPL, Dropped} \cup Temp..MaxParts /\ dma # <<>>
  BY <1>3 DEF Transfers
<1>5. Typed'
  <2>1. ddr' \in [Temp..MaxParts -> Contents \cup {Junk}]
    BY <1>3, <1>4 DEF Typed
  <2>2. filling' \in Contents \cup {None}
    BY <1>3 DEF Typed
  <2> QED BY <1>1, <2>1, <2>2 DEF Typed, SameImage, board, loader, N
<1>6. OneTransfer' /\ Own'
  <2>1. OneTransfer'
    BY <1>3 DEF OneTransfer
  <2>2. Own'
    BY <1>1, <1>3, ImageSame DEF Own
  <2> QED BY <2>1, <2>2
<1>7. Connected'
  <2>1. filling' # None => pc' \in {"configuring", "starting", "hang"}
    <3>1. CASE t.dst = ToPL
      <4>1. pc \in Waiting \cup {"hang"}
        BY <1>3, <1>4, <3>1 DEF OneTransfer
      <4>2. pc \in {"transferring", "decrypting"} => Area \in Temp..MaxParts
        BY PartType DEF AtImage, InImage, AtPart
      <4>3. pc \notin {"transferring", "decrypting"}
        BY <1>3, <1>4, <3>1, <4>2 DEF Own, ToPL, Temp
      <4> QED BY <1>1, <4>1, <4>3 DEF Waiting
    <3>2. CASE t.dst # ToPL
      BY <1>1, <1>3, <3>2 DEF Connected
    <3> QED BY <3>1, <3>2
  <2>2. Of("PL")' = Of("PL") /\ device' = device
    BY <1>1, ImageSame DEF SameImage, board
  <2>3. pc \in {"configuring", "starting"} =>
          ("PCFG_DONE" \in int_sts' => pl' # None /\ filling' = None)
    BY <1>1, <1>3, <1>4 DEF Connected
  <2> QED BY <1>1, <1>3, <2>1, <2>2, <2>3 DEF Connected
\* A late transfer does not change what is kept of an image, unless it spoils it.
<1>11. (Spoilt => Spoilt') /\ (Unguarded(slot)' <=> Unguarded(slot)) /\ slot' = slot
  BY <1>1, <1>3, SlotSame DEF SameImage
<1>12. ASSUME ~Spoilt', Unguarded(slot), pc \notin Waiting, t.dst >= Temp,
              ddr[t.dst] # Junk, ddr[t.dst].slot = slot
       PROVE  FALSE
  <2>1. LateHit(t)
    BY <1>12 DEF LateHit, Waiting
  <2> QED BY <1>3, <1>11, <1>12, <2>1 DEF Spoilt, Overwritten
<1>8. ASSUME ~Spoilt' PROVE Here'
  <2> USE <1>8, <1>11
  <2> DEFINE stale == pc \notin Waiting \cup {"hang"}
  <2>1. pc' = pc /\ dma' = <<>> /\ pl' = pl /\ dma[1] = t /\ dma # <<>>
    BY <1>1, <1>3, <1>4
  <2>2. pc \in AtPart => /\ slot \in AllSlots /\ N <= Len(Image.parts)
                         /\ Area \in Temp..MaxParts /\ Area \in {Temp, N}
                         /\ (Area = Temp <=> Part.kind = "PL") /\ N \in 1..MaxParts
    BY PartType DEF AtImage, InImage
  <2>3. /\ Area' = Area /\ Raw' = Raw /\ Clean' = Clean /\ Part' = Part /\ Linear' = Linear
        /\ \A c : Held(c)' = Held(c)
    BY <1>1, ImageSame
  <2>4. ASSUME pc \in AtPart, stale, ~Linear, Part.kind = "PS", Held(ddr[Area])
        PROVE  Held(ddr'[Area])
    <3>1. t.dst = Dropped \/ (t.dst > Temp /\ t.secure)
      BY <2>1, <2>4 DEF OneTransfer
    <3>2. CASE t.dst = Area
      <4>1. ddr'[Area] = out
        BY <1>3, <2>2, <2>4, <3>2 DEF Typed, ToPL, Dropped, Temp
      <4>2. Undone(out)
        <5>1. t.secure
          BY <2>2, <2>4, <3>1, <3>2 DEF Dropped, Temp
        <5> QED BY <1>3, <5>1, DeliversUndone DEF Undone
      <4>3. "aes" \in fuses /\ (Done = {} \/ Unguarded(slot)) /\ t.dst >= Temp
        BY <2>1, <2>2, <2>4, <3>2, BoardAssumption DEF OneTransfer, AtPart, Temp
      <4>4. Part.enc
        <5> SUFFICES ASSUME ~Part.enc PROVE FALSE
          OBVIOUS
        <5>1. Unguarded(slot)
          BY <2>4, <4>3, PlainFirst
        <5>2. ddr[t.dst] = Raw
          BY <2>4, <3>2 DEF Held
        <5>3. Raw # Junk /\ Raw.slot = slot
          BY <2>2, <2>4, PartType, BoardAssumption DEF Raw, Content
        <5> QED BY <1>12, <2>4, <4>3, <5>1, <5>2, <5>3
      <4> QED BY <2>4, <4>1, <4>2, <4>3, <4>4 DEF Held
    <3>3. CASE t.dst # Area
      BY <1>3, <2>2, <2>4, <3>3 DEF Typed
    <3> QED BY <3>2, <3>3
  <2>5. ASSUME pc \in AtPart, stale, ~Linear PROVE ddr'[Temp] = ddr[Temp]
    BY <1>3, <2>1, <2>5, BoardAssumption DEF OneTransfer, Typed, Temp, Dropped
  <2>6. ASSUME pc \in {"transferring", "decrypting"}, "ERROR" \notin int_sts'
        PROVE  IF t.secure THEN ddr'[Area] = Clean /\ Part.good ELSE ddr'[Area] = t.content
    <3>1. t.dst = Area /\ Held(t.content) /\ pc \in AtPart
      BY <2>1, <2>6 DEF Own, Here, AtPart
    <3>2. out # Junk /\ out = Delivered(t)
      BY <1>3, <2>6
    <3>3. ddr'[Area] = Delivered(t)
      BY <1>3, <2>2, <3>1, <3>2 DEF Typed, ToPL, Dropped, Temp
    <3>4. CASE ~t.secure
      BY <3>3, <3>4 DEF Delivered
    <3>5. CASE t.secure
      <4>1. t.content = Raw
        BY <3>1, <3>2, <3>5, Rejects DEF Held
      <4>2. Part.enc
        BY <2>1, <2>6, <3>5 DEF Own
      <4>3. Delivered(t) = IF Part.good THEN Clean ELSE Junk
        BY <2>2, <3>1, <3>5, <4>1, <4>2, Decrypts
      <4> QED BY <3>2, <3>3, <3>5, <4>3
    <3> QED BY <3>4, <3>5
  <2>7. pc = "transfer" /\ ~Linear => Held(ddr'[Area])
    BY <2>4 DEF Here, Own, AtPart, Waiting
  <2>8. pc = "decrypt" => Held(ddr'[Area])
    BY <2>1, <2>4 DEF Here, Own, AtPart, Waiting, OneTransfer
  <2>9. pc = "transferring" /\ "ERROR" \notin int_sts' =>
       IF Part.enc /\ Part.kind = "PS" /\ ~Checked(Part)
       THEN ddr'[Area] = Clean /\ Part.good ELSE ddr'[Area] = Raw
    BY <2>1, <2>6 DEF Own, Here
  <2>10. pc = "decrypting" /\ "ERROR" \notin int_sts' => ddr'[Area] = Clean
    BY <2>1, <2>6 DEF Own
  <2>11. pc = "verify" => IF Part.enc /\ Part.kind = "PS" /\ ~Checked(Part)
                      THEN ddr'[Area] = Clean /\ Part.good ELSE Held(ddr'[Area])
    <3> SUFFICES ASSUME pc = "verify"
                 PROVE  Held(ddr'[Area]) /\ (Checked(Part) \/ ~Part.enc)
      OBVIOUS
    <3>1. ~Linear /\ (Checked(Part) \/ ~Part.enc) /\ stale /\ pc \in AtPart
      BY <2>1 DEF OneTransfer, Waiting, AtPart
    <3>2. Held(ddr[Area])
      BY <3>1 DEF Here
    <3>3. CASE Part.kind = "PS"
      BY <2>4, <3>1, <3>2, <3>3
    <3>4. CASE Part.kind # "PS"
      <4>1. Area = Temp
        BY <2>2, <3>1, <3>4, PartType DEF Parts
      <4> QED BY <2>5, <3>1, <3>2, <4>1
    <3> QED BY <3>1, <3>3, <3>4
  <2>12. pc = "configure" => (Linear /\ ~Checked(Part)) \/ ddr'[Temp] = Raw
    BY <2>1, <2>5 DEF Here, OneTransfer, AtPart, Waiting
  <2>13. pc \in {"configuring", "starting"} /\ filling' # None => filling' = Clean
    <3> SUFFICES ASSUME pc \in {"configuring", "starting"}, filling' # None
                 PROVE  filling' = Clean
      OBVIOUS
    <3>1. pc = "configuring" /\ t.dst = ToPL /\ t.secure = Part.enc /\ t.content = Raw
      BY <2>1 DEF OneTransfer, Waiting, Own, Here
    <3>2. CASE out = Junk
      BY <1>3, <3>2 DEF Here
    <3>3. CASE out # Junk
      <4>1. filling' = Delivered(t)
        BY <1>3, <3>1, <3>3
      <4>2. CASE t.secure
        <5>1. Delivered(t) = IF Part.good THEN Clean ELSE Junk
          BY <2>2, <3>1, <4>2, Decrypts DEF AtPart
        <5> QED BY <1>3, <3>3, <4>1, <5>1
      <4>3. CASE ~t.secure
        <5>1. Part.enc \in BOOLEAN
          BY <2>2, <3>1, PartType DEF AtPart, Parts
        <5>2. Part.enc = FALSE
          BY <3>1, <4>3, <5>1
        <5> QED BY <3>1, <4>1, <4>3, <5>2 DEF Delivered, Raw, Clean
      <4> QED BY <4>2, <4>3
    <3> QED BY <3>2, <3>3
  <2>14. pc \in {"configuring", "starting"} /\ "PCFG_DONE" \in int_sts' => pl' = Clean
    BY <1>3, <2>1 DEF Here
  <2> QED BY <2>1, <2>3, <2>7, <2>8, <2>9, <2>10, <2>11, <2>12, <2>13, <2>14 DEF Here
<1>9. ASSUME ~Spoilt' PROVE InPlace'
  <2>1. ~Spoilt
    BY <1>9, <1>11
  <2>2. ASSUME NEW k \in Of("PS"), pc \in InImage PROVE ddr'[k] = ddr[k]
    <3>1. k \in Done /\ k \in Int /\ k < N /\ k > Temp
      <4>1. k \in DOMAIN flash[slot].parts /\ k < N /\ k \in Done
        BY DEF Of, Done, Mine
      <4>2. flash[slot].parts \in Seq(Parts)
        BY <2>2, ImageType DEF AtImage, Images, Image
      <4> QED BY <4>1, <4>2 DEF Temp
    <3>2. t.dst # k
      <4>1. CASE pc \in Waiting
        <5>1. Area \in {Temp, N}
          BY <4>1, PartType DEF AtImage, Waiting, AtPart, InImage
        <5> QED BY <1>3, <1>4, <3>1, <4>1, <5>1 DEF Own, Waiting, ToPL, Temp, Typed
      <4>2. CASE pc \notin Waiting
        <5>1. Unguarded(slot)
          BY <1>3, <1>4, <2>2, <3>1, <4>2 DEF OneTransfer, InImage, AtPart
        <5>2. ddr[k] = Placed(k)
          BY <2>1, <2>2 DEF InPlace
        <5>3. Placed(k) # Junk /\ Placed(k).slot = slot
          <6>1. slot \in AllSlots /\ k \in 1..MaxParts
            BY <2>2, <3>1, DoneType DEF AtImage, Temp
          <6>2. Placed(k) \in Contents
            BY <6>1 DEF Placed, Contents
          <6> QED BY <6>2, BoardAssumption DEF Placed
        <5>4. k >= Temp
          BY <3>1 DEF Temp
        <5> QED BY <1>9, <1>12, <4>2, <5>1, <5>2, <5>3, <5>4
      <4> QED BY <4>1, <4>2
    <3> QED BY <1>3, <1>4, <3>2 DEF Typed
  <2> QED BY <1>1, <2>1, <2>2, ImageSame DEF InPlace, Of, SameImage, board
<1>10. ShiftersFollowPl'
  BY <1>1, FrameShifters
<1> QED BY <1>1, <1>2, <1>5, <1>6, <1>7, <1>8, <1>9, <1>10

LEMMA PlStartsIInv ==
  ASSUME IInv, PlStarts
  PROVE  IInv'
<1> USE DEF IInv
<1>1. /\ SameImage /\ UNCHANGED <<pc, loader, ddr, shifters, dma, lost>>
      /\ (Spoilt' <=> Spoilt) /\ (Unguarded(slot)' <=> Unguarded(slot))
  BY SlotSame DEF PlStarts, SameImage, loader, history
<1>2. AtImage' /\ MetFlags'
  BY <1>1, FrameImage DEF loader
<1>3. /\ filling # None /\ pl' = filling /\ filling' = None
      /\ int_sts' = int_sts \cup {"PCFG_DONE"}
  BY DEF PlStarts
<1>4. pc \in {"configuring", "starting", "hang"}
  BY <1>3 DEF Connected
<1>5. Typed'
  BY <1>1, <1>3 DEF Typed, SameImage, board, loader, N
<1>6. OneTransfer' /\ Own'
  <2>1. OneTransfer'
    BY <1>1, <1>3, <1>4, ImageSame DEF OneTransfer, SameImage, board
  <2>2. Own'
    BY <1>1, ImageSame DEF Own
  <2> QED BY <2>1, <2>2
<1>7. Connected'
  BY <1>1, <1>3, <1>4 DEF Connected
<1>8. ASSUME ~Spoilt PROVE Here' /\ InPlace'
  <2>1. Here'
    BY <1>1, <1>3, <1>4, <1>8, ImageSame DEF Here
  <2>2. InPlace'
    BY <1>1, <1>4, <1>8, ImageSame DEF InPlace, InImage, AtPart, SameImage, board
  <2> QED BY <2>1, <2>2
<1>9. ShiftersFollowPl'
  BY <1>1, <1>4 DEF Connected, ShiftersFollowPl
<1> QED BY <1>1, <1>2, <1>5, <1>6, <1>7, <1>8, <1>9

-----------------------------------------------------------------------------
(* The states in which no image is being loaded. *)

LEMMA Outside ==
  ASSUME Typed', OneTransfer', AtImage', pc' \notin InImage,
         filling' = None \/ pc' = "hang",
         shifters' => pc' = "jtag" /\ pl' # None
  PROVE  IInv'
<1>1. pc' \notin {"move", "transfer", "transferring", "verify", "decrypt", "decrypting",
                  "configure", "configuring", "starting", "partition", "handoff", "running"}
  BY DEF InImage, AtPart
<1>2. MetFlags' /\ Own' /\ Connected' /\ ShiftersFollowPl'
  BY <1>1 DEF MetFlags, InImage, AtPart, Own, Connected, ShiftersFollowPl
<1>3. Here' /\ InPlace'
  BY <1>1 DEF Here, InPlace, InImage, AtPart
<1> QED BY <1>2, <1>3 DEF IInv

LEMMA InitIInv == Init => IInv
<1> SUFFICES ASSUME Init PROVE IInv
  OBVIOUS
<1>1. Typed
  <2>1. ddr \in [Temp..MaxParts -> Contents \cup {Junk}]
    BY DEF Init
  <2>2. slot \in Nat /\ N \in Nat \ {0} /\ ExecAddress \in Nat
    BY DEF Init, N
  <2>3. flash \in Flashes /\ filling \in Contents \cup {None}
    BY DEF Init
  <2>4. /\ BitstreamFlag \in BOOLEAN /\ ApplicationFlag \in BOOLEAN
        /\ shifters \in BOOLEAN /\ lost \in BOOLEAN
    BY DEF Init
  <2>5. pc = "rom"
    BY DEF Init
  <2> QED BY <2>1, <2>2, <2>3, <2>4, <2>5 DEF Typed
<1>2. OneTransfer /\ AtImage /\ MetFlags /\ Own /\ Connected /\ ShiftersFollowPl
  BY DEF Init, OneTransfer, AtImage, MetFlags, Own, Connected, ShiftersFollowPl,
         InImage, AtPart, Waiting
<1>3. Here /\ InPlace
  BY DEF Init, Here, InPlace, InImage, AtPart
<1> QED BY <1>1, <1>2, <1>3 DEF IInv

\* Before an image is loaded, nothing is under way.
LEMMA Quiet ==
  ASSUME IInv, pc \in {"rom", "start", "select"}
  PROVE  dma = <<>> /\ filling = None /\ ~shifters
  BY DEF IInv, OneTransfer, Connected, Waiting

LEMMA BootRomIInv ==
  ASSUME IInv, BootRom
  PROVE  IInv'
<1>1. /\ pc = "rom" /\ pc' \in {"start", "locked"}
      /\ UNCHANGED <<board, loader, ddr, shifters, dma, filling, lost>>
  BY DEF BootRom, pcap, history
<1>2. dma = <<>> /\ filling = None /\ ~shifters
  BY <1>1, Quiet
<1>3. \A s : ValidFrom(s) \subseteq AllSlots
  BY DEF ValidFrom
<1>4. slot' \in AllSlots \/ (slot' = slot /\ (device = "jtag" \/ pc' = "locked"))
  BY <1>3 DEF BootRom
<1>5. slot' \in Nat
  BY <1>4, BoardAssumption DEF AllSlots, IInv, Typed
<1>6. Typed'
  BY <1>1, <1>5 DEF IInv, Typed, board, loader, N
<1>7. AtImage' /\ OneTransfer'
  <2>1. OneTransfer'
    BY <1>1, <1>2 DEF OneTransfer
  <2>2. AtImage'
    BY <1>1, <1>4 DEF AtImage, InImage, AtPart, board, AllSlots
  <2> QED BY <2>1, <2>2
<1> QED BY <1>1, <1>2, <1>6, <1>7, Outside DEF InImage, AtPart

LEMMA StartIInv ==
  ASSUME IInv, Start
  PROVE  IInv'
<1>1. /\ pc = "start" /\ pc' \in {"hang", "select"}
      /\ UNCHANGED <<board, slot, ddr, shifters, dma, filling, lost>>
  BY DEF Start, pcap
<1>2. dma = <<>> /\ filling = None /\ ~shifters
  BY <1>1, Quiet
<1>3. Typed'
  <2>1. N' \in Nat \ {0} /\ ExecAddress' \in Nat
    BY DEF Start, N
  <2>2. BitstreamFlag' \in BOOLEAN /\ ApplicationFlag' \in BOOLEAN
    BY DEF Start
  <2> QED BY <1>1, <2>1, <2>2 DEF IInv, Typed, board
<1>4. OneTransfer'
  BY <1>1, <1>2 DEF OneTransfer
<1>5. AtImage'
  BY <1>1 DEF IInv, AtImage, InImage, AtPart, board, AllSlots
<1> QED BY <1>1, <1>2, <1>3, <1>4, <1>5, Outside DEF InImage, AtPart

-----------------------------------------------------------------------------
(* Fallback. *)

\* A transfer that is given up is one that the next image can live with.
LEMMA FallbackTransfer ==
  ASSUME IInv, pc \in Loading, "aes" \in fuses, NEW t \in Transfers, dma = <<t>>
  PROVE  ~Linear => \/ t.dst \in {ToPL, Dropped}
                    \/ t.dst > Temp /\ t.secure
<1> SUFFICES ASSUME ~Linear PROVE t.dst \in {ToPL, Dropped} \/ (t.dst > Temp /\ t.secure)
  OBVIOUS
<1>1. dma[1] = t /\ dma # <<>>
  OBVIOUS
<1>2. CASE pc \in {"transferring", "decrypting"}
  <2>1. Part.kind = "PS" /\ t.dst = Area /\ t.secure
    BY <1>1, <1>2, PartType DEF IInv, Own, AtImage, InImage, AtPart, Parts
  <2>2. Area > Temp
    BY <1>2, <2>1, PartType DEF IInv, AtImage, InImage, AtPart, Temp
  <2> QED BY <2>1, <2>2
<1>3. CASE pc = "configuring"
  BY <1>1, <1>3 DEF IInv, Own
<1>4. CASE pc \notin Waiting
  BY <1>1, <1>4 DEF IInv, OneTransfer, Loading, Waiting
<1> QED BY <1>2, <1>3, <1>4 DEF Waiting

\* Its transfer to the PL goes nowhere once the PL was cleared.
LEMMA DroppedTransfer ==
  ASSUME NEW d, d = [i \in DOMAIN dma |-> IF dma[i].dst = ToPL
                                          THEN [dma[i] EXCEPT !.dst = Dropped] ELSE dma[i]]
  PROVE  /\ dma = <<>> => d = <<>>
         /\ \A t \in Transfers : dma = <<t>> =>
              \E u \in Transfers :
                d = <<u>> /\ u = IF t.dst = ToPL THEN [t EXCEPT !.dst = Dropped] ELSE t
<1>1. CASE dma = <<>>
  <2>1. DOMAIN dma = {}
    BY <1>1
  <2>2. DOMAIN d = {} /\ d = [i \in {} |-> 0]
    BY <2>1
  <2> QED BY <1>1, <2>1, <2>2
<1>2. ASSUME NEW t \in Transfers, dma = <<t>>
      PROVE  \E u \in Transfers :
               d = <<u>> /\ u = IF t.dst = ToPL THEN [t EXCEPT !.dst = Dropped] ELSE t
  <2> DEFINE u == IF t.dst = ToPL THEN [t EXCEPT !.dst = Dropped] ELSE t
  <2>1. u \in Transfers
    BY DEF Transfers
  <2>2. DOMAIN dma = {1} /\ dma[1] = t
    BY <1>2
  <2>3. d = [i \in {1} |-> u]
    BY <2>2
  <2>4. d = <<u>>
    BY <2>3
  <2> QED BY <2>1, <2>4
<1>3. dma = <<>> => dma \notin {<<t>> : t \in Transfers}
  OBVIOUS
<1> QED BY <1>1, <1>2

LEMMA FallbackIInv ==
  ASSUME IInv, NEW bad, FsblFallback(bad), pc \in Loading \cup {"select"}
  PROVE  IInv'
<1> USE DEF IInv
<1>1. shifters = FALSE /\ pc \notin {"hang", "jtag"}
  BY DEF Connected, Loading, Typed
<1>2. board' = board /\ lost' = lost
  BY DEF FsblFallback, board
<1>3. ASSUME Hang, slot' \in Nat, shifters' = FALSE, filling' \in {filling, None},
             dma' = <<>> \/ \E t \in Transfers : dma' = <<t>>
      PROVE  IInv'
  <2>1. pc' = "hang" /\ UNCHANGED <<loader, ddr>>
    BY <1>3 DEF Hang
  <2>2. Typed'
    BY <1>2, <1>3, <2>1 DEF Typed, board, loader, N
  <2>3. OneTransfer'
    BY <1>3, <2>1 DEF OneTransfer, Waiting
  <2>4. AtImage'
    BY <2>1 DEF AtImage, InImage, AtPart
  <2> QED BY <1>3, <2>1, <2>2, <2>3, <2>4, Outside DEF InImage, AtPart
<1>4. slot + 1 \in Nat /\ slot \in Nat
  BY DEF Typed
<1>5. dma = <<>> \/ \E t \in Transfers : dma = <<t>>
  BY DEF OneTransfer
<1>6. CASE Hang /\ UNCHANGED <<slot, pl, shifters, pcap>>
  BY <1>1, <1>3, <1>4, <1>5, <1>6 DEF pcap
<1>7. CASE FallbackReset(bad)
  <2>1. /\ slot' = slot + 1 /\ pc' = "rom" /\ shifters' = FALSE /\ dma' = <<>> /\ filling' = None
        /\ UNCHANGED <<loader, ddr>>
    BY <1>7 DEF FallbackReset, Update_MultiBootRegister
  <2>2. Typed'
    BY <1>2, <1>4, <2>1 DEF Typed, board, loader, N
  <2>3. OneTransfer' /\ AtImage'
    BY <2>1 DEF OneTransfer, AtImage, InImage, AtPart, Waiting
  <2> QED BY <2>1, <2>2, <2>3, Outside DEF InImage, AtPart
<1>8. ASSUME "aes" \in fuses, device \notin {"sd", "jtag"}, FallbackInPlace(bad) PROVE IInv'
  <2> DEFINE from == Update_MultiBootRegister
             dropped == [i \in DOMAIN dma |-> IF dma[i].dst = ToPL
                                             THEN [dma[i] EXCEPT !.dst = Dropped] ELSE dma[i]]
  <2>1. from \in Nat
    BY <1>4 DEF Update_MultiBootRegister
  <2>2. dropped = <<>> \/ \E t \in Transfers : dropped = <<t>>
    BY <1>5, DroppedTransfer
  <2>3. CASE Hang /\ slot' = from /\ UNCHANGED <<pl, shifters, pcap>>
    BY <1>1, <1>3, <1>5, <2>1, <2>3 DEF pcap
  <2>4. ASSUME FabricInit, dma' = dropped, Hang, slot' = from PROVE IInv'
    <3>1. shifters' = FALSE /\ filling' = None
      BY <2>4 DEF FabricInit
    <3> HIDE DEF dropped
    <3> QED BY <1>3, <2>1, <2>2, <2>4, <3>1
  <2>5. ASSUME SystemInitFlag, FabricInit, dma' = dropped, UNCHANGED <<loader, ddr, int_sts>>,
               NEW s \in ValidFrom(from), slot' = s, pc' = "load"
        PROVE  IInv'
    <3>1. s \in AllSlots /\ s \in Nat
      BY DEF ValidFrom, AllSlots
    <3>2. shifters' = FALSE /\ filling' = None
      BY <2>5 DEF FabricInit
    <3>3. Typed'
      BY <1>2, <2>5, <3>1, <3>2 DEF Typed, board, loader, N
    <3>4. AtImage'
      BY <1>2, <1>8, <2>5, <3>1 DEF AtImage, InImage, AtPart, board, AllSlots
    <3>5. ASSUME NEW t \in Transfers, dma = <<t>>
          PROVE  /\ \E u \in Transfers : dma' = <<u>>
                 /\ dma'[1].dst # ToPL
                 /\ ~Linear' => dma'[1].dst = Dropped \/ (dma'[1].dst > Temp /\ dma'[1].secure)
      <4>1. PICK u \in Transfers :
              dropped = <<u>> /\ u = IF t.dst = ToPL THEN [t EXCEPT !.dst = Dropped] ELSE t
        BY <3>5, DroppedTransfer
      <4> HIDE DEF dropped
      <4>2. dma' = <<u>> /\ dma'[1] = u
        BY <2>5, <4>1
      <4>3. u.dst # ToPL /\ u.secure = t.secure /\ (u.dst = t.dst \/ u.dst = Dropped)
        BY <4>1 DEF Transfers, ToPL, Dropped
      <4>4. Linear' = Linear
        BY <1>2 DEF board, Linear
      <4>5. pc \in Loading
        BY <1>5, <3>5, Quiet
      <4>6. ~Linear => t.dst \in {ToPL, Dropped} \/ (t.dst > Temp /\ t.secure)
        BY <1>8, <3>5, <4>5, FallbackTransfer
      <4>7. t.dst = ToPL => u.dst = Dropped
        BY <4>1 DEF Transfers
      <4> QED BY <4>2, <4>3, <4>4, <4>6, <4>7
    <3>6. dma = <<>> => dma' = <<>>
      BY <2>5, DroppedTransfer
    <3>7. OneTransfer'
      BY <1>2, <1>5, <1>8, <2>5, <3>5, <3>6 DEF OneTransfer, Waiting, board
    <3> QED BY <2>5, <3>2, <3>3, <3>4, <3>7, Outside DEF InImage, AtPart
  <2> QED BY <1>8, <2>3, <2>4, <2>5 DEF FallbackInPlace, Hang
<1> QED BY <1>6, <1>7, <1>8 DEF FsblFallback

-----------------------------------------------------------------------------
(* The steps of main and LoadBootImage. *)

LEMMA SelectDeviceIInv ==
  ASSUME IInv, SelectDevice
  PROVE  IInv'
<1>1. pc = "select" /\ dma = <<>> /\ filling = None /\ ~shifters
  BY Quiet DEF SelectDevice
<1>2. ASSUME device # "jtag", pc' = "load",
             UNCHANGED <<board, slot, reboot, BitstreamFlag, ApplicationFlag, PartitionNum,
                         ExecAddress, ddr, pl, shifters, pcap, history>>
      PROVE  IInv'
  <2>1. Typed'
    BY <1>2 DEF IInv, Typed, board, pcap, history, N
  <2>2. AtImage'
    BY <1>1, <1>2 DEF IInv, AtImage, InImage, AtPart, board, AllSlots
  <2>3. OneTransfer'
    BY <1>1, <1>2 DEF OneTransfer, pcap
  <2> QED BY <1>1, <1>2, <2>1, <2>2, <2>3, Outside DEF InImage, AtPart, pcap
<1>3. ASSUME pc' = "jtag", shifters' = (pl # None),
             UNCHANGED <<board, slot, loader, ddr, pl, pcap, history>>
      PROVE  IInv'
  <2>1. shifters' \in BOOLEAN
    BY <1>3
  <2>2. Typed'
    BY <1>3, <2>1 DEF IInv, Typed, board, pcap, history, loader, N
  <2>3. AtImage'
    BY <1>3 DEF AtImage, InImage, AtPart
  <2>4. OneTransfer'
    BY <1>1, <1>3 DEF OneTransfer, pcap
  <2> QED BY <1>1, <1>3, <2>2, <2>3, <2>4, Outside DEF InImage, AtPart, pcap
<1> QED BY <1>1, <1>2, <1>3, FallbackIInv DEF SelectDevice

LEMMA LoadIInv ==
  ASSUME IInv, Load
  PROVE  IInv'
<1>1. pc = "load" /\ slot \in AllSlots /\ device # "jtag"
  BY DEF Load, IInv, AtImage
<1>2. ASSUME ClearFlags, pc' = "partition", PartitionNum' = 1, ExecAddress' = 0,
             UNCHANGED <<board, slot, reboot, SystemInitFlag, ddr, pl, shifters, pcap, history>>
      PROVE  IInv'
  <2>1. slot' = slot /\ device' = device /\ flash' = flash /\ fuses' = fuses /\ N' = 1
    BY <1>2 DEF board, N
  <2>2. Typed'
    <3>1. BitstreamFlag' \in BOOLEAN /\ ApplicationFlag' \in BOOLEAN
      BY <1>2 DEF ClearFlags
    <3>2. pc' \in InImage /\ N' \in Nat \ {0} /\ ExecAddress' \in Nat
      BY <1>2, <2>1 DEF InImage
    <3>3. ddr' = ddr /\ filling' = filling /\ shifters' = shifters /\ lost' = lost
      BY <1>2 DEF pcap, history
    <3> QED BY <2>1, <3>1, <3>2, <3>3 DEF IInv, Typed
  <2>3. Image' \in Images /\ Len(Image.parts)' \in Nat
    BY <1>1, <2>1, <2>2, ImageType DEF IInv, Image
  <2>4. Done' = {}
    <3>1. flash[slot]'.parts \in Seq(Parts)
      BY <2>1, <2>3 DEF Images, Image
    <3>2. \A k \in DOMAIN flash[slot]'.parts : ~(k < 1)
      BY <3>1
    <3> QED BY <2>1, <3>2 DEF Done, Mine
  <2>5. \A kind : Of(kind)' = {}
    BY <2>4 DEF Of
  <2>6. AtImage'
    BY <1>1, <1>2, <2>1, <2>3, <2>4 DEF AtImage, InImage, AtPart, AllSlots
  <2>7. MetFlags'
    BY <1>2, <2>5 DEF MetFlags, Met, ClearFlags, InImage, AtPart
  <2>8. OneTransfer'
    BY <1>1, <1>2, <2>1, <2>4 DEF IInv, OneTransfer, pcap, Waiting, Linear
  <2>9. Own' /\ Here'
    BY <1>2 DEF Own, Here
  <2>10. Connected' /\ ShiftersFollowPl'
    <3>1. filling' = None /\ ~shifters'
      BY <1>1, <1>2 DEF IInv, Connected, pcap
    <3> QED BY <1>2, <2>5, <3>1 DEF Connected, ShiftersFollowPl
  <2>11. InPlace'
    BY <2>5 DEF InPlace
  <2> QED BY <2>2, <2>6, <2>7, <2>8, <2>9, <2>10, <2>11 DEF IInv
<1> QED BY <1>1, <1>2, FallbackIInv DEF Load, Reject, Loading

\* What the end of the list means for the partition at hand.
LEMMA EndsHere ==
  ASSUME IInv, pc = "partition", N <= Len(Image.parts)
  PROVE  EndsList(slot, N) <=> OrderInvalid \/ (NoLoad /\ "sec" \notin fuses)
<1> USE DEF IInv
<1>1. ApplicationFlag <=> Of("PS") # {}
  BY DEF MetFlags, Met, InImage, AtPart
<1>2. Of("PS") = {j \in Mine(slot) : j < N /\ flash[slot].parts[j].kind = "PS"}
  BY DEF Of, Done
<1>3. flash[slot].parts[N] = Part
  BY DEF Part, Image, N
<1> QED BY <1>1, <1>2, <1>3 DEF EndsList, OrderInvalid, NoLoad

\* What the step to the next partition changes.
LEMMA NextDone ==
  ASSUME Typed, slot \in AllSlots, N <= Len(Image.parts),
         UNCHANGED <<board, slot>>, PartitionNum' = PartitionNum + 1
  PROVE  /\ Image' = Image /\ N' = N + 1 /\ N \in Nat \ {0} /\ N \notin Done
         /\ Done' = IF Part.mine THEN Done \cup {N} ELSE Done
         /\ \A kind : Of(kind)' = IF Part.mine /\ Part.kind = kind THEN Of(kind) \cup {N}
                                  ELSE Of(kind)
         /\ \A k : EndsList(slot, k)' = EndsList(slot, k) /\ Placed(k)' = Placed(k)
         /\ \A k \in Done : k \in Nat /\ k < N
         /\ Unguarded(slot)' <=> Unguarded(slot)
<1>1. flash' = flash /\ slot' = slot /\ fuses' = fuses
  BY DEF board
<1>2. Image' = Image /\ Mine(slot)' = Mine(slot)
  BY <1>1 DEF Image, Mine
<1>3. N' = N + 1 /\ N \in Nat \ {0}
  BY DEF N, Typed
<1>4. Mine(slot) \subseteq Nat
  <2>1. flash[slot].parts \in Seq(Parts)
    BY ImageType DEF Images, Image
  <2> QED BY <2>1 DEF Mine
<1>5. N \in Mine(slot) <=> Part.mine
  BY PartType DEF Mine, Part, Image, N
<1>6. Done' = IF Part.mine THEN Done \cup {N} ELSE Done
  <2>1. Done' = {k \in Mine(slot) : k < N + 1}
    BY <1>2, <1>3 DEF Done
  <2>2. \A k \in Mine(slot) : k < N + 1 <=> k < N \/ k = N
    BY <1>3, <1>4
  <2>3. CASE Part.mine
    BY <1>5, <2>1, <2>2, <2>3 DEF Done
  <2>4. CASE ~Part.mine
    BY <1>5, <2>1, <2>2, <2>4 DEF Done
  <2> QED BY <2>3, <2>4
<1>7. \A kind : Of(kind)' = IF Part.mine /\ Part.kind = kind THEN Of(kind) \cup {N} ELSE Of(kind)
  <2>1. flash[slot].parts[N] = Part
    BY DEF Part, Image, N
  <2> TAKE kind
  <2>2. Of(kind)' = {k \in Done' : flash[slot].parts[k].kind = kind}
    BY <1>1 DEF Of
  <2>3. CASE Part.mine /\ Part.kind = kind
    BY <1>6, <2>1, <2>2, <2>3 DEF Of
  <2>4. CASE Part.mine /\ Part.kind # kind
    BY <1>6, <2>1, <2>2, <2>4 DEF Of
  <2>5. CASE ~Part.mine
    BY <1>6, <2>1, <2>2, <2>5 DEF Of
  <2> QED BY <2>3, <2>4, <2>5
<1>8. \A k : EndsList(slot, k)' = EndsList(slot, k) /\ Placed(k)' = Placed(k)
  BY <1>1, <1>2 DEF EndsList, Placed
<1>9. N \notin Done /\ \A k \in Done : k \in Nat /\ k < N
  BY <1>3, <1>4 DEF Done
<1> QED BY <1>2, <1>3, <1>6, <1>7, <1>8, <1>9, SlotSame

\* A partition that is in place is left behind.
LEMMA NextPartition ==
  ASSUME IInv, pc \in AtPart, dma # <<>> => pc = "verify" /\ Unguarded(slot), filling = None,
         UNCHANGED <<board, slot, BitstreamFlag, ApplicationFlag, ExecAddress, ddr, pl,
                     shifters, dma, filling, lost, faults>>,
         pc' = "partition", PartitionNum' = PartitionNum + 1,
         Part.kind = "PL" => pl # None,
         ~Spoilt /\ Part.kind = "PS" => ddr[N] = Placed(N) /\ (Part.chk \/ Part.enc => Part.good),
         ~Spoilt /\ Part.kind = "PL" => pl = Placed(N)
  PROVE  IInv'
<1> USE DEF IInv
<1>1. /\ slot \in AllSlots /\ device # "jtag" /\ N <= Len(Image.parts) /\ Part.mine
      /\ ~EndsList(slot, N) /\ \A k \in Done : ~EndsList(slot, k)
  BY DEF AtImage, InImage
<1>2. /\ Image' = Image /\ N' = N + 1 /\ N \in Nat \ {0} /\ N \notin Done
      /\ Done' = Done \cup {N}
      /\ \A kind : Of(kind)' = IF Part.kind = kind THEN Of(kind) \cup {N} ELSE Of(kind)
      /\ \A k : EndsList(slot, k)' = EndsList(slot, k) /\ Placed(k)' = Placed(k)
      /\ \A k \in Done : k \in Nat /\ k < N
      /\ Unguarded(slot)' <=> Unguarded(slot)
  BY <1>1, NextDone
<1>3. flash' = flash /\ device' = device /\ fuses' = fuses
  BY DEF board
<1>4. Part.kind \in {"PS", "PL"} /\ flash[slot].parts[N] = Part /\ Len(Image.parts) \in Nat
  BY <1>1, PartType, ImageType DEF Parts, Part, Image, N
<1>5. Typed'
  BY <1>2, <1>3 DEF Typed, InImage
<1>6. AtImage'
  BY <1>1, <1>2, <1>3, <1>4 DEF AtImage, AtPart, AllSlots
<1>7. MetFlags'
  <2>1. BitstreamFlag <=> Of("PL") # {} \/ Part.kind = "PL"
    BY <1>1 DEF MetFlags, Met, InImage
  <2>2. ApplicationFlag <=> Of("PS") # {} \/ Part.kind = "PS"
    BY <1>1 DEF MetFlags, Met, InImage, AtPart
  <2> DEFINE met == Of("PS") \cup {k \in {N} : pc \in AtPart /\ Part.kind = "PS"}
             met2 == Of("PS")' \cup {k \in {N'} : pc' \in AtPart /\ Part'.kind = "PS"}
  <2>3. IF ExecAddress = 0 THEN met = {}
        ELSE ExecAddress \in met /\ \A k \in met : ExecAddress <= k
    BY DEF MetFlags, InImage
  <2>4. met2 = met
    BY <1>2 DEF AtPart
  <2>5. \A kind : Of(kind)' # {} <=> Of(kind) # {} \/ Part.kind = kind
    BY <1>2
  <2> HIDE DEF met
  <2>6. IF ExecAddress' = 0 THEN met2 = {}
        ELSE ExecAddress' \in met2 /\ \A k \in met2 : ExecAddress' <= k
    BY <2>3, <2>4
  <2>7. /\ BitstreamFlag' <=> Met("PL")'
        /\ ApplicationFlag' <=> Met("PS")'
    BY <2>1, <2>2, <2>5 DEF Met, AtPart
  <2> QED BY <2>6, <2>7 DEF MetFlags
<1>8. OneTransfer' /\ Own' /\ Here'
  <2>1. Own' /\ Here'
    BY DEF Own, Here
  <2>2. OneTransfer'
    <3>1. CASE dma = <<>>
      <4>1. dma' = <<>>
        BY <3>1
      <4> QED BY <4>1 DEF OneTransfer
    <3>2. CASE dma # <<>>
      <4>1. Unguarded(slot)' /\ Linear' = Linear /\ dma' = dma
        BY <1>2, <1>3, <3>2 DEF Linear
      <4>2. /\ dma = <<>> \/ \E t \in Transfers : dma = <<t>>
            /\ "aes" \in fuses' /\ dma[1].dst # ToPL
            /\ ~Linear => dma[1].dst = Dropped \/ (dma[1].dst > Temp /\ dma[1].secure)
        BY <1>3, <3>2 DEF OneTransfer, Waiting
      <4> QED BY <4>1, <4>2 DEF OneTransfer, Waiting
    <3> QED BY <3>1, <3>2
  <2> QED BY <2>1, <2>2
<1>9. Connected' /\ ShiftersFollowPl'
  <2>1. ~shifters'
    BY DEF Connected, AtPart
  <2>2. pc # "partition" /\ (Of("PL")' # {} => pl' # None)
    <3>1. CASE Part.kind = "PL"
      BY <3>1 DEF AtPart
    <3>2. CASE Part.kind # "PL"
      <4>1. pc \notin {"configuring", "starting"}
        BY <3>2 DEF Own
      <4> QED BY <1>2, <3>2, <4>1 DEF Connected, InImage, AtPart
    <3> QED BY <3>1, <3>2
  <2> QED BY <2>1, <2>2 DEF Connected, ShiftersFollowPl
<1>10. ASSUME ~Spoilt PROVE InPlace'
  <2>1. \A k \in Of("PS")' :
          /\ ddr[k] = Placed(k)
          /\ flash[slot].parts[k].chk \/ flash[slot].parts[k].enc => flash[slot].parts[k].good
    <3> SUFFICES ASSUME NEW k \in Of("PS")'
                 PROVE  /\ ddr[k] = Placed(k)
                        /\ flash[slot].parts[k].chk \/ flash[slot].parts[k].enc
                             => flash[slot].parts[k].good
      OBVIOUS
    <3>1. CASE k \in Of("PS")
      BY <1>10, <3>1 DEF InPlace, InImage
    <3>2. CASE k \notin Of("PS")
      <4>1. k = N /\ Part.kind = "PS"
        BY <1>2, <3>2
      <4>2. ddr[N] = Placed(N)
        BY <1>10, <4>1
      <4>3. Part.chk \/ Part.enc => Part.good
        BY <1>10, <4>1
      <4>4. flash[slot].parts[k] = Part
        BY <1>4, <4>1
      <4> QED BY <4>1, <4>2, <4>3, <4>4
    <3> QED BY <3>1, <3>2
  <2>2. ASSUME NEW k \in Of("PL")', \A j \in Of("PL")' : j <= k PROVE pl = Placed(k)
    <3>1. CASE Part.kind = "PL"
      <4>1. Of("PL")' = Of("PL") \cup {N} /\ N <= k
        BY <1>2, <2>2, <3>1
      <4>2. k = N
        BY <1>2, <2>2, <4>1 DEF Of
      <4> QED BY <1>10, <3>1, <4>2
    <3>2. CASE Part.kind # "PL"
      <4>1. pc \notin {"configuring", "starting"} /\ Of("PL")' = Of("PL")
        BY <1>2, <3>2 DEF Own
      <4> QED BY <1>10, <2>2, <4>1 DEF InPlace, InImage
    <3> QED BY <3>1, <3>2
  <2> QED BY <1>2, <1>3, <2>1, <2>2 DEF InPlace
<1> QED BY <1>5, <1>6, <1>7, <1>8, <1>9, <1>10, SlotSame

LEMMA PartitionIInv ==
  ASSUME IInv, Partition
  PROVE  IInv'
<1> USE DEF IInv
<1>1. /\ pc = "partition" /\ slot \in AllSlots /\ device # "jtag" /\ N <= Len(Image.parts) + 1
      /\ Len(Image.parts) \in Nat /\ N \in Nat \ {0}
  BY ImageType DEF Partition, AtImage, InImage, Typed
<1>2. /\ shifters = FALSE /\ filling = None /\ (Of("PL") # {} => pl # None)
      /\ \A k \in Done : ~EndsList(slot, k)
  BY <1>1 DEF Connected, InImage, AtImage, Typed
<1>3. /\ BitstreamFlag <=> Of("PL") # {}
      /\ ApplicationFlag <=> Of("PS") # {}
      /\ IF ExecAddress = 0 THEN Of("PS") = {}
         ELSE ExecAddress \in Of("PS") /\ \A k \in Of("PS") : ExecAddress <= k
  <2>1. BitstreamFlag <=> Of("PL") # {}
    BY <1>1 DEF MetFlags, Met, InImage, AtPart
  <2>2. ApplicationFlag <=> Of("PS") # {}
    BY <1>1 DEF MetFlags, Met, InImage, AtPart
  <2> DEFINE met == Of("PS") \cup {k \in {N} : pc \in AtPart /\ Part.kind = "PS"}
  <2>3. IF ExecAddress = 0 THEN met = {}
        ELSE ExecAddress \in met /\ \A k \in met : ExecAddress <= k
    BY <1>1 DEF MetFlags, InImage
  <2>4. met = Of("PS")
    BY <1>1 DEF AtPart
  <2> HIDE DEF met
  <2> QED BY <2>1, <2>2, <2>3, <2>4
<1>4. dma # <<>> =>
        /\ "aes" \in fuses /\ dma[1].dst # ToPL
        /\ Done = {} \/ Unguarded(slot)
        /\ ~Linear => dma[1].dst = Dropped \/ (dma[1].dst > Temp /\ dma[1].secure)
  BY <1>1 DEF OneTransfer, Waiting
<1>5. N <= Len(Image.parts) => (Part.mine /\ Part.head =>
                                  (EndsList(slot, N) <=> LastPartition))
  <2>1. ~(N <= Len(Image.parts) /\ PartitionNum > Len(Image.parts))
    BY <1>1 DEF N
  <2> QED BY <1>1, <2>1, EndsHere DEF LastPartition
<1>6. ASSUME LastPartition, pc' = "handoff",
             IF PartitionNum <= Len(Image.parts)
             THEN SetFlags ELSE UNCHANGED <<BitstreamFlag, ApplicationFlag>>,
             UNCHANGED <<board, slot, reboot, SystemInitFlag, PartitionNum, ExecAddress,
                         ddr, pl, shifters, pcap, history>>
      PROVE  IInv'
  <2>1. /\ SameImage /\ (Spoilt' <=> Spoilt)
        /\ Unguarded(slot)' <=> Unguarded(slot)
    BY <1>6, SlotSame DEF SameImage, history
  <2>2. device' = device /\ fuses' = fuses /\ flash' = flash /\ N' = N /\ slot' = slot
    BY <1>6 DEF board, N
  <2>3. N > Len(Image.parts) \/ (Part.mine /\ EndsList(slot, N))
    <3>1. CASE PartitionNum > Len(Image.parts)
      BY <3>1 DEF N
    <3>2. CASE Part.mine /\ Part.head /\ ~(PartitionNum > Len(Image.parts))
      BY <1>1, <1>5, <1>6, <3>2 DEF N
    <3> QED BY <1>6, <3>1, <3>2 DEF LastPartition
  <2>4. AtImage'
    BY <1>1, <1>2, <1>6, <2>1, <2>2, <2>3, ImageSame DEF AtImage, AtPart, AllSlots
  <2>5. /\ BitstreamFlag' \in BOOLEAN /\ ApplicationFlag' \in BOOLEAN
        /\ BitstreamFlag' <=> Of("PL") # {} \/ (N <= Len(Image.parts) /\ Part.kind = "PL")
    <3>1. CASE N <= Len(Image.parts)
      BY <1>3, <1>6, <3>1 DEF SetFlags, N
    <3>2. CASE ~(N <= Len(Image.parts))
      BY <1>3, <1>6, <3>2 DEF Typed, N
    <3> QED BY <3>1, <3>2
  <2>6. Typed'
    <3>1. pc' \in InImage /\ ExecAddress' = ExecAddress
      BY <1>6 DEF InImage
    <3>2. ddr' = ddr /\ filling' = filling /\ shifters' = shifters /\ lost' = lost
      BY <1>6 DEF pcap, history
    <3> QED BY <2>2, <2>5, <3>1, <3>2 DEF Typed, N
  <2>7. MetFlags'
    <3> DEFINE met2 == Of("PS")' \cup {k \in {N'} : pc' \in AtPart /\ Part'.kind = "PS"}
    <3>1. met2 = Of("PS")
      BY <1>6, <2>1, ImageSame DEF AtPart
    <3> HIDE DEF met2
    <3>2. IF ExecAddress' = 0 THEN met2 = {}
          ELSE ExecAddress' \in met2 /\ \A k \in met2 : ExecAddress' <= k
      BY <1>3, <1>6, <3>1
    <3>3. BitstreamFlag' <=> Met("PL")'
      BY <1>6, <2>1, <2>2, <2>5, ImageSame DEF Met
    <3> QED BY <1>6, <3>2, <3>3 DEF MetFlags, met2
  <2>8. OneTransfer'
    BY <1>4, <1>6, <2>1, <2>2, ImageSame DEF OneTransfer, pcap, Waiting
  <2>9. Own' /\ Here' /\ Connected'
    BY <1>2, <1>6, <2>1, ImageSame DEF Own, Here, Connected, pcap
  <2>10. ShiftersFollowPl'
    BY <1>2, <1>6 DEF ShiftersFollowPl
  <2>11. ~Spoilt => InPlace'
    BY <1>1, <1>6, <2>1, <2>2, ImageSame DEF InPlace, InImage
  <2> QED BY <1>6, <2>1, <2>4, <2>6, <2>7, <2>8, <2>9, <2>10, <2>11
<1>7. ASSUME ~LastPartition, Accepted, Part.mine, pc' = "move", SetFlags,
             ExecAddress' = (IF Part.kind = "PS" /\ ExecAddress = 0
                             THEN PartitionNum ELSE ExecAddress),
             UNCHANGED PartitionNum,
             UNCHANGED <<board, slot, reboot, SystemInitFlag, ddr, pl, shifters, pcap, history>>
      PROVE  IInv'
  <2>1. /\ SameImage /\ (Spoilt' <=> Spoilt)
        /\ Unguarded(slot)' <=> Unguarded(slot)
    BY <1>7, SlotSame DEF SameImage, history
  <2>2. device' = device /\ fuses' = fuses /\ flash' = flash /\ N' = N /\ slot' = slot
    BY <1>7 DEF board, N
  <2>3. N <= Len(Image.parts) /\ ~EndsList(slot, N)
    <3>1. N <= Len(Image.parts)
      BY <1>1, <1>7 DEF LastPartition, N
    <3>2. Part.head
      BY <1>7 DEF Accepted
    <3> QED BY <1>5, <1>7, <3>1, <3>2
  <2>4. AtImage'
    BY <1>1, <1>2, <1>7, <2>1, <2>2, <2>3, ImageSame DEF AtImage, AtPart, AllSlots
  <2>5. /\ BitstreamFlag' \in BOOLEAN /\ ApplicationFlag' \in BOOLEAN
        /\ BitstreamFlag' <=> Of("PL") # {} \/ Part.kind = "PL"
        /\ ApplicationFlag' <=> Of("PS") # {} \/ Part.kind = "PS"
    BY <1>3, <1>7 DEF SetFlags
  <2>6. Typed'
    <3>1. pc' \in InImage
      BY <1>7 DEF InImage, AtPart
    <3>2. ExecAddress' \in Nat
      BY <1>7 DEF Typed, N
    <3>3. ddr' = ddr /\ filling' = filling /\ shifters' = shifters /\ lost' = lost
      BY <1>7 DEF pcap, history
    <3> QED BY <2>2, <2>5, <3>1, <3>2, <3>3 DEF Typed, N
  <2>7. MetFlags'
    <3> DEFINE met2 == Of("PS")' \cup {k \in {N'} : pc' \in AtPart /\ Part'.kind = "PS"}
    <3>1. met2 = Of("PS") \cup (IF Part.kind = "PS" THEN {N} ELSE {})
      BY <1>7, <2>1, <2>2, ImageSame DEF AtPart
    <3>2. \A k \in Of("PS") : k \in Nat /\ k < N
      <4>1. Mine(slot) \subseteq Nat
        <5>1. flash[slot].parts \in Seq(Parts)
          BY <1>1, ImageType DEF Images, Image
        <5> QED BY <5>1 DEF Mine
      <4> QED BY <4>1 DEF Of, Done
    <3> HIDE DEF met2
    <3>3. IF ExecAddress' = 0 THEN met2 = {}
          ELSE ExecAddress' \in met2 /\ \A k \in met2 : ExecAddress' <= k
      <4>1. CASE Part.kind = "PS" /\ ExecAddress = 0
        BY <1>1, <1>3, <1>7, <3>1, <4>1 DEF N
      <4>2. CASE Part.kind = "PS" /\ ExecAddress # 0
        BY <1>1, <1>3, <1>7, <3>1, <3>2, <4>2
      <4>3. CASE Part.kind # "PS"
        BY <1>3, <1>7, <3>1, <4>3
      <4> QED BY <4>1, <4>2, <4>3
    <3>4. /\ BitstreamFlag' <=> Met("PL")'
          /\ ApplicationFlag' <=> Met("PS")'
      BY <1>7, <2>1, <2>2, <2>3, <2>5, ImageSame DEF Met, AtPart
    <3> QED BY <1>7, <3>3, <3>4 DEF MetFlags, met2
  <2>8. OneTransfer'
    BY <1>4, <1>7, <2>1, <2>2, ImageSame DEF OneTransfer, pcap, Waiting
  <2>9. Own' /\ Here' /\ Connected'
    BY <1>2, <1>7, <2>1, ImageSame DEF Own, Here, Connected, pcap
  <2>10. ShiftersFollowPl'
    BY <1>2, <1>7 DEF ShiftersFollowPl
  <2>11. ~Spoilt => InPlace'
    BY <1>1, <1>7, <2>1, <2>2, ImageSame DEF InPlace, InImage
  <2> QED BY <1>7, <2>1, <2>4, <2>6, <2>7, <2>8, <2>9, <2>10, <2>11
<1>8. ASSUME ~LastPartition, ~Part.mine, PartitionNum' = PartitionNum + 1,
             UNCHANGED <<pc, BitstreamFlag, ApplicationFlag, ExecAddress>>,
             UNCHANGED <<board, slot, reboot, SystemInitFlag, ddr, pl, shifters, pcap, history>>
      PROVE  IInv'
  <2>1. N <= Len(Image.parts)
    BY <1>1, <1>8 DEF LastPartition, N
  <2>2. /\ Image' = Image /\ N' = N + 1 /\ Done' = Done
        /\ \A kind : Of(kind)' = Of(kind)
        /\ \A k : EndsList(slot, k)' = EndsList(slot, k) /\ Placed(k)' = Placed(k)
        /\ (Spoilt' <=> Spoilt) /\ (Unguarded(slot)' <=> Unguarded(slot))
    BY <1>1, <1>8, <2>1, NextDone, SlotSame DEF history
  <2>3. device' = device /\ fuses' = fuses /\ flash' = flash /\ slot' = slot /\ Linear' = Linear
    BY <1>8 DEF board, Linear
  <2>4. Typed'
    BY <1>1, <1>8, <2>2, <2>3 DEF Typed, pcap, history
  <2>5. AtImage'
    BY <1>1, <1>2, <1>8, <2>1, <2>2, <2>3 DEF AtImage, AtPart, AllSlots
  <2>6. MetFlags'
    <3> DEFINE met2 == Of("PS")' \cup {k \in {N'} : pc' \in AtPart /\ Part'.kind = "PS"}
    <3>1. met2 = Of("PS")
      BY <1>1, <1>8, <2>2 DEF AtPart
    <3> HIDE DEF met2
    <3>2. IF ExecAddress' = 0 THEN met2 = {}
          ELSE ExecAddress' \in met2 /\ \A k \in met2 : ExecAddress' <= k
      BY <1>3, <1>8, <3>1
    <3>3. /\ BitstreamFlag' <=> Met("PL")'
          /\ ApplicationFlag' <=> Met("PS")'
      BY <1>1, <1>3, <1>8, <2>2 DEF Met, AtPart
    <3> QED BY <1>1, <1>8, <3>2, <3>3 DEF MetFlags, met2
  <2>7. OneTransfer'
    BY <1>1, <1>4, <1>8, <2>2, <2>3 DEF OneTransfer, pcap, Waiting
  <2>8. Own' /\ Here' /\ Connected'
    BY <1>1, <1>2, <1>8, <2>2 DEF Own, Here, Connected, pcap
  <2>9. ShiftersFollowPl'
    BY <1>1, <1>2, <1>8 DEF ShiftersFollowPl
  <2>10. ~Spoilt => InPlace'
    BY <1>1, <1>8, <2>2, <2>3 DEF InPlace, InImage
  <2> QED BY <1>8, <2>2, <2>4, <2>5, <2>6, <2>7, <2>8, <2>9, <2>10
<1> QED BY <1>1, <1>6, <1>7, <1>8, FallbackIInv DEF Partition, Reject, Loading

-----------------------------------------------------------------------------
(* The steps of a partition. *)

\* A partition that was accepted keeps what is known of the image.
LEMMA WithinPart ==
  ASSUME IInv, pc \in AtPart, pc' \in AtPart, UNCHANGED <<board, slot, loader>>,
         shifters' \in {shifters, FALSE}
  PROVE  /\ slot \in AllSlots /\ N <= Len(Image.parts) /\ SameImage
         /\ AtImage' /\ MetFlags' /\ ShiftersFollowPl' /\ shifters' = FALSE
         /\ Linear' = Linear /\ fuses' = fuses
         /\ Unguarded(slot)' <=> Unguarded(slot)
         /\ lost' = lost /\ faults' = faults => (Spoilt' <=> Spoilt)
         /\ (lost => lost') /\ faults' = faults => (Spoilt => Spoilt')
<1> USE DEF IInv
<1>1. SameImage /\ device' = device /\ fuses' = fuses /\ N' = N /\ slot' = slot
  BY DEF SameImage, loader, board, N
<1>2. slot \in AllSlots /\ N <= Len(Image.parts)
  BY DEF AtImage, InImage
<1>3. AtImage'
  BY <1>1, ImageSame DEF AtImage, AtPart, InImage, AllSlots
<1>4. \A kind : Met(kind)' = Met(kind)
  BY <1>1, ImageSame DEF Met
<1>5. MetFlags'
  <2> DEFINE met == Of("PS") \cup {k \in {N} : pc \in AtPart /\ Part.kind = "PS"}
             met2 == Of("PS")' \cup {k \in {N'} : pc' \in AtPart /\ Part'.kind = "PS"}
  <2>1. met2 = met
    BY <1>1, ImageSame
  <2>2. IF ExecAddress = 0 THEN met = {}
        ELSE ExecAddress \in met /\ \A k \in met : ExecAddress <= k
    BY DEF MetFlags, InImage
  <2> HIDE DEF met, met2
  <2>3. IF ExecAddress' = 0 THEN met2 = {}
        ELSE ExecAddress' \in met2 /\ \A k \in met2 : ExecAddress' <= k
    BY <2>1, <2>2 DEF loader
  <2>4. /\ BitstreamFlag' <=> Met("PL")'
        /\ ApplicationFlag' <=> Met("PS")'
    BY <1>4 DEF MetFlags, InImage, AtPart, loader
  <2>5. pc' # "running"
    BY DEF AtPart
  <2> QED BY <2>3, <2>4, <2>5 DEF MetFlags, met2
<1>6. shifters' = FALSE
  BY DEF Connected, AtPart, Typed
<1>7. ShiftersFollowPl'
  BY <1>6 DEF ShiftersFollowPl, AtPart
<1> QED BY <1>1, <1>2, <1>3, <1>5, <1>6, <1>7, ImageSame, SlotSame

\* What is typed, when only the data change.
LEMMA TypedData ==
  ASSUME Typed, UNCHANGED <<board, slot, loader>>, pc' \in InImage,
         shifters' = FALSE, lost' \in BOOLEAN,
         ddr' \in [Temp..MaxParts -> Contents \cup {Junk}], filling' \in Contents \cup {None}
  PROVE  Typed'
  BY DEF Typed, board, loader, N

LEMMA MoveIInv ==
  ASSUME IInv, Move
  PROVE  IInv'
<1> USE DEF IInv
<1>1. /\ pc = "move" /\ pc' = AfterMove /\ pc' \in {"transfer", "configure", "verify"}
      /\ UNCHANGED <<board, slot, loader, pl, shifters, dma, int_sts, filling>>
  BY DEF Move, AfterMove, pcap
<1>2. /\ slot \in AllSlots /\ N <= Len(Image.parts) /\ SameImage
      /\ AtImage' /\ MetFlags' /\ ShiftersFollowPl' /\ shifters' = FALSE
      /\ Linear' = Linear /\ fuses' = fuses
      /\ Unguarded(slot)' <=> Unguarded(slot)
      /\ Spoilt => Spoilt'
  <2>1. (lost => lost') /\ faults' = faults
    BY DEF Move
  <2> QED BY <1>1, <2>1, WithinPart DEF AtPart
<1>3. /\ Part.kind \in {"PS", "PL"} /\ Area \in Temp..MaxParts /\ Raw \in Contents
      /\ (Area = Temp <=> Part.kind = "PL")
  BY <1>2, PartType DEF Parts
<1>5. \/ Linear /\ UNCHANGED <<ddr, lost>>
      \/ ~Linear /\ ddr' = [ddr EXCEPT ![Area] = Raw] /\ UNCHANGED lost
      \/ device = "sd" /\ lost' = TRUE /\ UNCHANGED ddr
  BY DEF Move, Raw
<1>6. Typed'
  <2>1. ddr' \in [Temp..MaxParts -> Contents \cup {Junk}]
    BY <1>3, <1>5 DEF Typed
  <2>2. lost' \in BOOLEAN /\ filling' \in Contents \cup {None}
    BY <1>1, <1>5 DEF Typed
  <2>3. pc' \in InImage
    BY <1>1 DEF InImage, AtPart
  <2> QED BY <1>1, <1>2, <2>1, <2>2, <2>3, TypedData
<1>7. OneTransfer'
  <2> SUFFICES ASSUME dma # <<>> PROVE OneTransfer'
    BY <1>1 DEF OneTransfer
  <2>1. /\ "aes" \in fuses /\ dma[1].dst # ToPL
        /\ Done = {} \/ Unguarded(slot)
        /\ ~Linear => dma[1].dst = Dropped \/ (dma[1].dst > Temp /\ dma[1].secure)
    BY <1>1 DEF OneTransfer, Waiting
  <2>2. Linear => pc' = "transfer" \/ (pc' = "configure" /\ ~Checked(Part))
    BY <1>1, <1>3 DEF AfterMove
  <2>3. pc' = "verify" => Checked(Part) \/ ~Part.enc
    BY <1>1, <1>3 DEF AfterMove
  <2>4. Done' = Done /\ Part' = Part /\ Checked(Part)' = Checked(Part)
    BY <1>2, ImageSame DEF Checked
  <2> QED BY <1>1, <1>2, <2>1, <2>2, <2>3, <2>4 DEF OneTransfer, Waiting
<1>8. Own'
  <2>1. pc' = "transfer" => (~Linear => Part.kind = "PS" /\ Part.enc /\ ~Checked(Part))
                           /\ (Part.kind = "PS" \/ Checked(Part))
    BY <1>1, <1>3 DEF AfterMove
  <2>2. pc' = "verify" => Part.kind = "PS" \/ Checked(Part)
    BY <1>1, <1>3 DEF AfterMove
  <2>3. pc' = "configure" => Part.kind = "PL"
    BY <1>1, <1>3 DEF AfterMove
  <2>4. Part' = Part /\ Checked(Part)' = Checked(Part)
    BY <1>2, ImageSame DEF Checked
  <2> QED BY <1>1, <1>2, <2>1, <2>2, <2>3, <2>4 DEF Own
<1>9. Connected'
  BY <1>1, <1>2, ImageSame DEF Connected, InImage, AtPart
<1>10. ASSUME ~Spoilt' PROVE Here' /\ InPlace'
  <2>1. ~Spoilt /\ (Linear \/ ddr'[Area] = Raw)
    BY <1>2, <1>3, <1>5, <1>10 DEF Typed, Spoilt
  <2>2. Here'
    <3>1. pc' = "transfer" /\ ~Linear => Held(ddr'[Area])
      BY <2>1 DEF Held
    <3>2. pc' = "verify" => /\ ~(Part.enc /\ Part.kind = "PS" /\ ~Checked(Part))
                           /\ Held(ddr'[Area])
      BY <1>1, <1>3, <2>1 DEF AfterMove, Held
    <3>3. pc' = "configure" => (Linear /\ ~Checked(Part)) \/ ddr'[Temp] = Raw
      BY <1>1, <1>3, <2>1 DEF AfterMove
    <3>4. /\ Part' = Part /\ Checked(Part)' = Checked(Part) /\ Area' = Area /\ Raw' = Raw
          /\ \A c : Held(c)' = Held(c)
      BY <1>2, ImageSame DEF Checked
    <3> QED BY <1>1, <1>2, <3>1, <3>2, <3>3, <3>4 DEF Here
  <2>3. \A k \in Done : ddr'[k] = ddr[k]
    BY <1>2, <1>5, Elsewhere DEF Typed
  <2>4. InPlace'
    BY <1>1, <1>2, <2>1, <2>3, ImageSame DEF InPlace, InImage, AtPart, Of, SameImage, board
  <2> QED BY <2>2, <2>4
<1> QED BY <1>2, <1>6, <1>7, <1>8, <1>9, <1>10

\* A transfer is started.
LEMMA TransferStarts ==
  ASSUME Typed, slot \in AllSlots, N <= Len(Image.parts), dma = <<>>,
         NEW src \in {FromFlash} \cup Temp..MaxParts, NEW dst \in {ToPL} \cup Temp..MaxParts,
         NEW secure \in BOOLEAN, Started(src, dst, secure)
  PROVE  /\ \E t \in Transfers : dma' = <<t>>
         /\ dma' # <<>> /\ int_sts' = {}
         /\ dma'[1].dst = dst /\ dma'[1].secure = secure
         /\ dma'[1].content = IF src = FromFlash THEN Raw ELSE ddr[src]
<1> DEFINE content == IF src = FromFlash THEN Raw ELSE ddr[src]
           t == [src |-> src, content |-> content, dst |-> dst, secure |-> secure]
<1>1. dma' = <<t>> /\ int_sts' = {}
  BY DEF Started, Raw
<1>2. content \in Contents \cup {Junk}
  BY PartType DEF Typed
<1>3. t \in Transfers
  BY <1>2 DEF Transfers
<1> QED BY <1>1, <1>3

LEMMA TransferIInv ==
  ASSUME IInv, Transfer
  PROVE  IInv'
<1> USE DEF IInv
<1> DEFINE src == IF Linear /\ pc = "transfer" THEN FromFlash ELSE Area
           secure == Part.enc /\ Part.kind = "PS" /\ (pc = "decrypt" \/ ~Checked(Part))
<1>1. pc \in {"transfer", "decrypt"}
  BY DEF Transfer
<1>2. ASSUME dma = <<>>, Started(src, Area, secure),
             pc' = (IF pc = "transfer" THEN "transferring" ELSE "decrypting"),
             UNCHANGED <<board, slot, reboot, loader, ddr, pl, shifters, filling, history>>
      PROVE  IInv'
  <2>1. /\ slot \in AllSlots /\ N <= Len(Image.parts) /\ SameImage
        /\ AtImage' /\ MetFlags' /\ ShiftersFollowPl' /\ shifters' = FALSE
        /\ Linear' = Linear /\ fuses' = fuses
        /\ (Spoilt' <=> Spoilt) /\ (Unguarded(slot)' <=> Unguarded(slot))
    BY <1>1, <1>2, WithinPart DEF AtPart, history
  <2>2. Area \in Temp..MaxParts /\ FromFlash \notin Temp..MaxParts
    BY <2>1, PartType DEF FromFlash, Temp
  <2>3. src \in {FromFlash} \cup Temp..MaxParts /\ secure \in BOOLEAN
    BY <2>2
  <2> HIDE DEF src, secure
  <2>4. /\ \E t \in Transfers : dma' = <<t>>
        /\ dma' # <<>> /\ int_sts' = {}
        /\ dma'[1].dst = Area /\ dma'[1].secure = secure
        /\ dma'[1].content = IF src = FromFlash THEN Raw ELSE ddr[src]
    BY <1>2, <2>1, <2>2, <2>3, TransferStarts
  <2>5. dma'[1].content = IF Linear /\ pc = "transfer" THEN Raw ELSE ddr[Area]
    BY <2>2, <2>4 DEF src
  <2>6. Typed'
    <3>1. pc' \in InImage
      BY <1>2 DEF InImage, AtPart
    <3> QED BY <1>2, <2>1, <3>1, TypedData DEF Typed, history
  <2>7. OneTransfer'
    BY <1>1, <1>2, <2>4 DEF OneTransfer, Waiting
  <2>8. /\ Part' = Part /\ Checked(Part)' = Checked(Part) /\ Area' = Area /\ Raw' = Raw
        /\ \A c : Held(c)' = Held(c)
    BY <2>1, ImageSame DEF Checked
  <2>9. Own'
    <3>1. CASE pc = "transfer"
      BY <1>2, <2>1, <2>4, <2>8, <3>1 DEF Own, secure
    <3>2. CASE pc = "decrypt"
      BY <1>2, <2>1, <2>4, <2>8, <3>2 DEF Own, secure
    <3> QED BY <1>1, <3>1, <3>2
  <2>10. Connected'
    BY <1>1, <1>2, <2>1, ImageSame DEF Connected, InImage, AtPart
  <2>11. ASSUME ~Spoilt PROVE Here' /\ InPlace'
    <3>1. ASSUME pc = "transfer" PROVE Here'
      <4>1. ~Linear => Held(ddr[Area]) /\ secure
        BY <2>11, <3>1 DEF Here, Own, secure
      <4>2. Held(Raw)
        BY DEF Held
      <4>3. Held(dma'[1].content) /\ (~secure => dma'[1].content = Raw)
        BY <2>5, <3>1, <4>1, <4>2
      <4> QED BY <1>2, <2>4, <2>8, <3>1, <4>3 DEF Here
    <3>2. ASSUME pc = "decrypt" PROVE Here'
      <4>1. Held(dma'[1].content)
        BY <2>5, <2>11, <3>2 DEF Here
      <4> QED BY <1>2, <2>4, <2>8, <3>2, <4>1 DEF Here
    <3>3. InPlace'
      BY <1>1, <1>2, <2>1, <2>11, ImageSame DEF InPlace, InImage, AtPart, SameImage, board
    <3> QED BY <1>1, <3>1, <3>2, <3>3
  <2> QED BY <1>2, <2>1, <2>6, <2>7, <2>9, <2>10, <2>11 DEF history
<1>3. pc \in Loading
  BY <1>1 DEF Loading
<1> QED BY <1>2, <1>3, FallbackIInv DEF Transfer, ClearPcapStatus

LEMMA TransferredIInv ==
  ASSUME IInv, Transferred
  PROVE  IInv'
<1> USE DEF IInv
<1>1. /\ pc \in {"transferring", "decrypting"} /\ dma = <<>>
      /\ slot \in AllSlots /\ N <= Len(Image.parts) /\ filling = None
  BY DEF Transferred, OneTransfer, Waiting, AtImage, InImage, AtPart, Connected
<1>2. ASSUME "ERROR" \notin int_sts, pc = "transferring", pc' = "verify",
             UNCHANGED <<board, slot, loader, ddr, pl, shifters, dma, filling, history>>
      PROVE  IInv'
  <2>1. /\ SameImage /\ AtImage' /\ MetFlags' /\ ShiftersFollowPl' /\ shifters' = FALSE
        /\ Linear' = Linear /\ fuses' = fuses
        /\ (Spoilt' <=> Spoilt) /\ (Unguarded(slot)' <=> Unguarded(slot))
    BY <1>2, WithinPart DEF AtPart, history
  <2>2. Typed'
    <3>1. pc' \in InImage
      BY <1>2 DEF InImage, AtPart
    <3> QED BY <1>2, <2>1, <3>1, TypedData DEF Typed, history
  <2>3. OneTransfer' /\ Connected'
    BY <1>1, <1>2, <2>1, ImageSame DEF OneTransfer, Connected, InImage, AtPart
  <2>4. /\ Part' = Part /\ Checked(Part)' = Checked(Part) /\ Area' = Area /\ Clean' = Clean
        /\ \A c : Held(c)' = Held(c)
    BY <2>1, ImageSame DEF Checked
  <2>5. Own'
    BY <1>2, <2>4 DEF Own
  <2>6. ASSUME ~Spoilt PROVE Here' /\ InPlace'
    <3>1. IF Part.enc /\ Part.kind = "PS" /\ ~Checked(Part)
          THEN ddr[Area] = Clean /\ Part.good ELSE Held(ddr[Area])
      BY <1>1, <1>2, <2>6 DEF Here, Held
    <3>2. Here'
      BY <1>2, <2>4, <3>1 DEF Here
    <3>3. InPlace'
      BY <1>2, <2>1, <2>6, ImageSame DEF InPlace, InImage, AtPart, SameImage, board
    <3> QED BY <3>2, <3>3
  <2> QED BY <1>2, <2>1, <2>2, <2>3, <2>5, <2>6 DEF history
<1>3. ASSUME "ERROR" \notin int_sts, pc = "decrypting", pc' = "partition",
             PartitionNum' = PartitionNum + 1,
             UNCHANGED <<board, slot, BitstreamFlag, ApplicationFlag, ExecAddress,
                         ddr, pl, shifters, dma, filling, history>>
      PROVE  IInv'
  <2>1. Part.kind = "PS" /\ Part.good
    BY <1>3 DEF Own
  <2>2. ~Spoilt => ddr[N] = Placed(N)
    BY <1>1, <1>3, <2>1 DEF Here, Area, Clean, Content, Placed, N
  <2> QED BY <1>1, <1>3, <2>1, <2>2, NextPartition DEF AtPart, history
<1>4. pc \in Loading
  BY <1>1 DEF Loading
<1>5. ASSUME "ERROR" \notin int_sts PROVE IInv'
  <2>1. CASE pc = "transferring"
    BY <1>2, <1>5, <2>1 DEF Transferred, loader
  <2>2. CASE pc = "decrypting"
    BY <1>3, <1>5, <2>2 DEF Transferred
  <2> QED BY <1>1, <2>1, <2>2
<1> QED BY <1>4, <1>5, FallbackIInv DEF Transferred, Reject

LEMMA VerifyIInv ==
  ASSUME IInv, Verify
  PROVE  IInv'
<1> USE DEF IInv
<1>1. /\ pc = "verify" /\ slot \in AllSlots /\ N <= Len(Image.parts) /\ filling = None
      /\ pc \in Loading /\ Accepted /\ Part.mine /\ (Part.kind = "PS" \/ Checked(Part))
  BY DEF Verify, AtImage, InImage, AtPart, Connected, Loading, Own
<1>2. Part.kind \in {"PS", "PL"} /\ Part.enc \in BOOLEAN
  BY <1>1, PartType DEF Parts
<1>3. ASSUME (Part.chk => ddr[Area] = Raw /\ Part.good) /\ ~Part.signed,
             UNCHANGED <<board, slot, BitstreamFlag, ApplicationFlag, ExecAddress,
                         ddr, pl, shifters, pcap, history>>
      PROVE  /\ Checked(Part) /\ Part.kind = "PL" /\ pc' = "configure"
                /\ UNCHANGED loader => IInv'
             /\ Checked(Part) /\ Part.kind = "PS" /\ Part.enc /\ pc' = "decrypt"
                /\ UNCHANGED loader => IInv'
             /\ ~(Checked(Part) /\ (Part.kind = "PL" \/ Part.enc)) /\ pc' = "partition"
                /\ PartitionNum' = PartitionNum + 1 => IInv'
  <2>1. Checked(Part) <=> Part.chk
    BY <1>3 DEF Checked
  <2>2. dma # <<>> =>
          /\ "aes" \in fuses /\ dma[1].dst # ToPL /\ ~Linear
          /\ Done = {} \/ Unguarded(slot)
          /\ Checked(Part) \/ ~Part.enc
          /\ dma[1].dst = Dropped \/ (dma[1].dst > Temp /\ dma[1].secure)
    BY <1>1 DEF OneTransfer, Waiting
  <2>3. ASSUME pc' \in {"configure", "decrypt"}, UNCHANGED loader, Checked(Part),
               pc' = "configure" => Part.kind = "PL",
               pc' = "decrypt" => Part.kind = "PS" /\ Part.enc
        PROVE  IInv'
    <3>1. /\ SameImage /\ AtImage' /\ MetFlags' /\ ShiftersFollowPl' /\ shifters' = FALSE
          /\ Linear' = Linear /\ fuses' = fuses
          /\ (Spoilt' <=> Spoilt) /\ (Unguarded(slot)' <=> Unguarded(slot))
      BY <1>1, <1>3, <2>3, WithinPart DEF AtPart, history
    <3>2. Typed'
      <4>1. pc' \in InImage
        BY <2>3 DEF InImage, AtPart
      <4> QED BY <1>3, <2>3, <3>1, <4>1, TypedData DEF Typed, history, pcap
    <3>3. /\ Part' = Part /\ Checked(Part)' = Checked(Part) /\ Area' = Area /\ Raw' = Raw
          /\ Done' = Done /\ \A c : Held(c)' = Held(c)
      BY <3>1, ImageSame DEF Checked
    <3>4. OneTransfer'
      <4>1. CASE dma = <<>>
        BY <1>3, <4>1 DEF OneTransfer, pcap
      <4>2. CASE dma # <<>>
        BY <1>3, <2>2, <2>3, <3>1, <3>3, <4>2 DEF OneTransfer, pcap, Waiting
      <4> QED BY <4>1, <4>2
    <3>5. Own'
      BY <1>3, <2>1, <2>3, <3>3 DEF Own
    <3>6. Connected'
      BY <1>1, <1>3, <2>3, <3>1, ImageSame DEF Connected, InImage, AtPart, pcap
    <3>7. ASSUME ~Spoilt PROVE Here' /\ InPlace'
      <4>1. ddr[Area] = Raw
        BY <1>3, <2>1, <2>3
      <4>2. pc' = "configure" => ddr[Temp] = Raw
        BY <2>3, <4>1 DEF Area
      <4>3. Held(ddr[Area])
        BY <4>1 DEF Held
      <4>4. Here'
        BY <1>3, <2>3, <3>3, <4>2, <4>3 DEF Here
      <4>5. InPlace'
        BY <1>1, <1>3, <2>3, <3>1, <3>7, ImageSame DEF InPlace, InImage, AtPart, SameImage, board
      <4> QED BY <4>4, <4>5
    <3> QED BY <1>3, <3>1, <3>2, <3>4, <3>5, <3>6, <3>7 DEF history
  <2>4. ASSUME ~(Checked(Part) /\ (Part.kind = "PL" \/ Part.enc)), pc' = "partition",
               PartitionNum' = PartitionNum + 1
        PROVE  IInv'
    <3>1. Part.kind = "PS"
      BY <1>1, <1>2, <2>4
    <3>2. dma # <<>> => Unguarded(slot)
      <4> SUFFICES ASSUME dma # <<>>, Done = {} PROVE Unguarded(slot)
        BY <2>2
      <4>1. ~Part.enc
        BY <2>2, <2>4, <3>1
      <4> QED BY <1>1, <2>2, <3>1, <4>1, PlainFirst DEF AtPart
    <3>3. ASSUME ~Spoilt PROVE ddr[N] = Placed(N) /\ (Part.chk \/ Part.enc => Part.good)
      <4>1. Area = N /\ Clean = Placed(N)
        BY <3>1 DEF Area, Clean, Content, Placed, N
      <4>2. CASE Part.enc
        BY <1>1, <1>3, <2>1, <2>4, <3>1, <3>3, <4>1, <4>2 DEF Here
      <4>3. CASE ~Part.enc
        <5>1. Held(ddr[Area])
          BY <1>1, <3>1, <3>3, <4>3 DEF Here
        <5>2. Raw = Clean
          BY <1>2, <4>3 DEF Raw, Clean
        <5> QED BY <1>3, <4>1, <4>3, <5>1, <5>2 DEF Held
      <4> QED BY <4>2, <4>3
    <3> QED BY <1>1, <1>3, <2>4, <3>1, <3>2, <3>3, NextPartition DEF AtPart, pcap, history
  <2> QED BY <2>3, <2>4
<1>4. ASSUME ~((Part.chk => ddr[Area] = Content(Part.enc) /\ Part.good) /\ ~Part.signed)
      PROVE  IInv'
  BY <1>1, <1>4, FallbackIInv DEF Verify, Reject
<1> QED BY <1>3, <1>4 DEF Verify, Raw, loader

LEMMA ConfigureIInv ==
  ASSUME IInv, Configure
  PROVE  IInv'
<1> USE DEF IInv
<1> DEFINE src == IF Linear /\ ~Checked(Part) THEN FromFlash ELSE Temp
<1>1. pc = "configure" /\ pc \in Loading
  BY DEF Configure, Loading
<1>2. ASSUME dma = <<>>, FabricInit, Started(src, ToPL, Part.enc), pc' = "configuring",
             UNCHANGED <<board, slot, reboot, loader, ddr, history>>
      PROVE  IInv'
  <2>1. /\ slot \in AllSlots /\ N <= Len(Image.parts) /\ SameImage
        /\ AtImage' /\ MetFlags' /\ ShiftersFollowPl' /\ shifters' = FALSE
        /\ Linear' = Linear /\ fuses' = fuses
        /\ (Spoilt' <=> Spoilt) /\ (Unguarded(slot)' <=> Unguarded(slot))
    BY <1>1, <1>2, WithinPart DEF AtPart, FabricInit, history
  <2>2. Part.enc \in BOOLEAN /\ src \in {FromFlash} \cup Temp..MaxParts
    BY <2>1, PartType, BoardAssumption DEF Parts, Temp
  <2>3. /\ \E t \in Transfers : dma' = <<t>>
        /\ dma' # <<>> /\ int_sts' = {}
        /\ dma'[1].dst = ToPL /\ dma'[1].secure = Part.enc
        /\ dma'[1].content = IF src = FromFlash THEN Raw ELSE ddr[src]
    BY <1>2, <2>1, <2>2, TransferStarts
  <2>4. Typed'
    <3>1. pc' \in InImage
      BY <1>2 DEF InImage, AtPart
    <3>2. ddr' = ddr /\ filling' = None /\ lost' = lost
      BY <1>2 DEF FabricInit, history
    <3> QED BY <1>2, <2>1, <3>1, <3>2, TypedData DEF Typed
  <2>5. OneTransfer'
    BY <1>2, <2>3 DEF OneTransfer, Waiting
  <2>6. Part' = Part /\ Checked(Part)' = Checked(Part) /\ Area' = Area /\ Raw' = Raw
    BY <2>1, ImageSame DEF Checked
  <2>7. Own'
    BY <1>1, <1>2, <2>3, <2>6 DEF Own
  <2>8. Connected'
    BY <1>2, <2>1, <2>3 DEF Connected, FabricInit
  <2>9. ASSUME ~Spoilt PROVE Here' /\ InPlace'
    <3>1. dma'[1].content = Raw
      BY <1>1, <2>3, <2>9 DEF Here, Temp, FromFlash
    <3>2. Here'
      BY <1>2, <2>3, <2>6, <3>1 DEF Here, FabricInit
    <3>3. InPlace'
      BY <1>1, <1>2, <2>1, <2>9, ImageSame DEF InPlace, InImage, AtPart, SameImage, board
    <3> QED BY <3>2, <3>3
  <2> QED BY <1>2, <2>1, <2>4, <2>5, <2>7, <2>8, <2>9 DEF history
<1> QED BY <1>1, <1>2, FallbackIInv DEF Configure, ClearPcapStatus

LEMMA ConfiguringIInv ==
  ASSUME IInv, Configuring
  PROVE  IInv'
<1> USE DEF IInv
<1>1. pc = "configuring" /\ pc \in Loading /\ dma = <<>>
  BY DEF Configuring, Loading, OneTransfer, Waiting
<1>2. ASSUME pc' = "starting", int_sts' = int_sts \ {"DMA_DONE"},
             UNCHANGED <<board, slot, reboot, loader, ddr, pl, shifters, dma, filling, history>>
      PROVE  IInv'
  <2>1. /\ slot \in AllSlots /\ N <= Len(Image.parts) /\ SameImage
        /\ AtImage' /\ MetFlags' /\ ShiftersFollowPl' /\ shifters' = FALSE
        /\ (Spoilt' <=> Spoilt) /\ (Unguarded(slot)' <=> Unguarded(slot))
    BY <1>1, <1>2, WithinPart DEF AtPart, history
  <2>2. Typed'
    <3>1. pc' \in InImage
      BY <1>2 DEF InImage, AtPart
    <3> QED BY <1>2, <2>1, <3>1, TypedData DEF Typed, history
  <2>3. OneTransfer' /\ Connected' /\ Own'
    BY <1>1, <1>2, <2>1, ImageSame DEF OneTransfer, Connected, Own
  <2>4. ASSUME ~Spoilt PROVE Here' /\ InPlace'
    BY <1>1, <1>2, <2>1, <2>4, ImageSame DEF Here, InPlace, InImage, AtPart, SameImage, board
  <2> QED BY <1>2, <2>1, <2>2, <2>3, <2>4 DEF history
<1> QED BY <1>1, <1>2, FallbackIInv DEF Configuring, Reject

LEMMA ConfiguredIInv ==
  ASSUME IInv, Configured
  PROVE  IInv'
<1> USE DEF IInv
<1>1. CASE "ERROR" \in int_sts
  BY <1>1, FallbackIInv DEF Configured, Reject, Loading
<1>2. CASE "ERROR" \notin int_sts
  <2>1. pc = "starting" /\ "PCFG_DONE" \in int_sts
    BY <1>2 DEF Configured
  <2>2. dma = <<>> /\ filling = None /\ pl # None /\ Part.kind = "PL"
    BY <2>1 DEF Connected, Own
  <2>3. ~Spoilt => pl = Placed(N)
    BY <2>1 DEF Here, Clean, Content, Placed, N
  <2> QED BY <1>2, <2>1, <2>2, <2>3, NextPartition DEF Configured, AtPart, history
<1> QED BY <1>1, <1>2

-----------------------------------------------------------------------------
(* Handoff. *)

\* At the end, what is behind the loader is all that there is to load.
LEMMA LoadedDone ==
  ASSUME IInv, pc \in {"handoff", "running"}
  PROVE  Loaded(slot) = Done /\ \A kind : Kind(slot, kind) = Of(kind)
<1> USE DEF IInv
<1>1. /\ slot \in AllSlots /\ \A k \in Done : ~EndsList(slot, k)
      /\ N > Len(Image.parts) \/ (Part.mine /\ EndsList(slot, N))
      /\ N \in Nat \ {0}
  BY DEF AtImage, InImage, Typed
<1>2. flash[slot].parts \in Seq(Parts) /\ Len(flash[slot].parts) \in Nat
  BY <1>1, ImageType DEF Images, Image
<1>3. \A k \in Mine(slot) : k \in Nat /\ k <= Len(flash[slot].parts)
  BY <1>2 DEF Mine
<1>4. N \in Mine(slot) \/ N > Len(flash[slot].parts)
  BY <1>1, <1>2 DEF Mine, Image, Part, N
<1>5. Done \subseteq Loaded(slot)
  <2> SUFFICES ASSUME NEW k \in Done, NEW j \in Mine(slot), j <= k PROVE ~EndsList(slot, j)
    BY DEF Loaded, Done
  <2>1. j \in Done
    BY <1>1, <1>3 DEF Done
  <2> QED BY <1>1, <2>1
<1>6. Loaded(slot) \subseteq Done
  <2> SUFFICES ASSUME NEW k \in Loaded(slot), ~(k < N) PROVE FALSE
    BY DEF Loaded, Done
  <2>1. k \in Mine(slot) /\ k \in Nat /\ k <= Len(flash[slot].parts) /\ N <= k
    BY <1>1, <1>3 DEF Loaded
  <2>2. N \in Mine(slot) /\ EndsList(slot, N)
    BY <1>1, <1>2, <1>4, <2>1 DEF Image
  <2> QED BY <2>1, <2>2 DEF Loaded
<1>7. Loaded(slot) = Done
  BY <1>5, <1>6
<1> QED BY <1>7 DEF Kind, Of

LEMMA HandoffIInv ==
  ASSUME IInv, Handoff
  PROVE  IInv'
<1> USE DEF IInv
<1>1. /\ pc = "handoff" /\ slot \in AllSlots /\ device # "jtag" /\ filling = None
      /\ shifters = FALSE /\ (Of("PL") # {} => pl # None)
      /\ N > Len(Image.parts) \/ (Part.mine /\ EndsList(slot, N))
      /\ N \in Nat \ {0} /\ Len(Image.parts) \in Nat
  BY ImageType DEF Handoff, AtImage, InImage, Connected, Typed
<1>2. /\ pc' = IF ExecAddress = 0 THEN "jtag" ELSE "running"
      /\ shifters' = (shifters \/ BitstreamFlag)
      /\ UNCHANGED <<board, slot, loader, ddr, pl, pcap, history>>
  BY DEF Handoff
<1>3. /\ SameImage /\ device' = device /\ fuses' = fuses /\ flash' = flash /\ N' = N
      /\ slot' = slot /\ (Spoilt' <=> Spoilt) /\ (Unguarded(slot)' <=> Unguarded(slot))
  BY <1>2, SlotSame DEF SameImage, loader, board, history, N
<1>4. BitstreamFlag <=> Of("PL") # {} \/ (N <= Len(Image.parts) /\ Part.kind = "PL")
  BY <1>1 DEF MetFlags, Met, InImage
<1>5. IF ExecAddress = 0 THEN Of("PS") = {}
      ELSE ExecAddress \in Of("PS") /\ \A k \in Of("PS") : ExecAddress <= k
  <2> DEFINE met == Of("PS") \cup {k \in {N} : pc \in AtPart /\ Part.kind = "PS"}
  <2>1. IF ExecAddress = 0 THEN met = {}
        ELSE ExecAddress \in met /\ \A k \in met : ExecAddress <= k
    BY <1>1 DEF MetFlags, InImage
  <2>2. met = Of("PS")
    BY <1>1 DEF AtPart
  <2> HIDE DEF met
  <2> QED BY <2>1, <2>2
<1>6. dma # <<>> =>
        /\ "aes" \in fuses /\ dma[1].dst # ToPL
        /\ Done = {} \/ Unguarded(slot)
        /\ ~Linear => dma[1].dst = Dropped \/ (dma[1].dst > Temp /\ dma[1].secure)
  BY <1>1 DEF OneTransfer, Waiting
<1>7. N <= Len(Image.parts) => /\ N \in Mine(slot) /\ flash[slot].parts[N] = Part
                               /\ EndsList(slot, N)
  <2>1. flash[slot].parts \in Seq(Parts)
    BY <1>1, ImageType DEF Images, Image
  <2> QED BY <1>1, <2>1 DEF Mine, Part, Image, N
<1>8. shifters' \in BOOLEAN
  BY <1>1, <1>2 DEF Typed
<1>9. Typed'
  <2>1. pc' \in InImage \cup {"jtag"}
    BY <1>2 DEF InImage
  <2>2. /\ BitstreamFlag' = BitstreamFlag /\ ApplicationFlag' = ApplicationFlag
        /\ ExecAddress' = ExecAddress /\ ddr' = ddr /\ filling' = filling /\ lost' = lost
    BY <1>2 DEF loader, pcap, history
  <2> QED BY <1>3, <1>8, <2>1, <2>2 DEF Typed, N
<1>10. CASE ExecAddress = 0
  <2>1. pc' = "jtag" /\ Of("PS") = {}
    BY <1>2, <1>5, <1>10
  <2>2. shifters' => pl' # None
    <3> SUFFICES ASSUME shifters' PROVE pl # None
      BY <1>2
    <3>1. Of("PL") # {} \/ (N <= Len(Image.parts) /\ Part.kind = "PL")
      BY <1>1, <1>2, <1>4
    <3>2. ~(N <= Len(Image.parts) /\ Part.kind = "PL")
      <4> SUFFICES ASSUME N <= Len(Image.parts), Part.kind = "PL" PROVE FALSE
        OBVIOUS
      <4>1. \E j \in Mine(slot) : j < N /\ flash[slot].parts[j].kind = "PS"
        BY <1>7 DEF EndsList
      <4>2. Of("PS") # {}
        BY <4>1 DEF Of, Done
      <4> QED BY <2>1, <4>2
    <3> QED BY <1>1, <3>1, <3>2
  <2>3. OneTransfer'
    BY <1>2, <1>3, <1>6, <2>1, ImageSame DEF OneTransfer, pcap, Waiting
  <2>4. AtImage'
    BY <2>1 DEF AtImage, InImage, AtPart
  <2> QED BY <1>1, <1>2, <1>9, <2>1, <2>2, <2>3, <2>4, Outside DEF InImage, AtPart, pcap
<1>11. CASE ExecAddress # 0
  <2>1. pc' = "running" /\ ExecAddress \in Of("PS")
    BY <1>2, <1>5, <1>11
  <2>2. dma' = dma
    BY <1>2 DEF pcap
  <2>3. AtImage'
    BY <1>1, <1>3, <2>1, ImageSame DEF AtImage, InImage, AtPart, AllSlots
  <2>4. MetFlags'
    <3> DEFINE met2 == Of("PS")' \cup {k \in {N'} : pc' \in AtPart /\ Part'.kind = "PS"}
    <3>1. met2 = Of("PS")
      BY <1>3, <2>1, ImageSame DEF AtPart
    <3> HIDE DEF met2
    <3>2. IF ExecAddress' = 0 THEN met2 = {}
          ELSE ExecAddress' \in met2 /\ \A k \in met2 : ExecAddress' <= k
      BY <1>2, <1>5, <3>1 DEF loader
    <3>3. BitstreamFlag' <=> Met("PL")'
      BY <1>2, <1>3, <1>4, <2>1, ImageSame DEF Met, loader
    <3>4. ExecAddress' # 0
      BY <1>2, <1>11 DEF loader
    <3> QED BY <2>1, <3>2, <3>3, <3>4 DEF MetFlags, met2
  <2>5. OneTransfer'
    BY <1>2, <1>3, <1>6, <2>1, <2>2, ImageSame DEF OneTransfer, Waiting
  <2>6. Own' /\ Here'
    BY <2>1 DEF Own, Here
  <2>7. Connected'
    BY <1>1, <1>2, <1>3, <2>1, ImageSame DEF Connected, InImage, pcap
  <2>8. ~Spoilt => InPlace'
    BY <1>1, <1>2, <1>3, <2>1, ImageSame DEF InPlace, InImage
  <2>9. ShiftersFollowPl'
    <3>1. shifters' => \/ pl' # None
                       \/ \E k \in Mine(slot) : flash[slot].parts[k].kind = "PL" /\ EndsList(slot, k)
      BY <1>1, <1>2, <1>4, <1>7
    <3>2. Kind(slot, "PL") # {} => shifters'
      BY <1>1, <1>2, <1>4, LoadedDone
    <3>3. /\ Mine(slot)' = Mine(slot) /\ Kind(slot, "PL")' = Kind(slot, "PL")
          /\ \A k : EndsList(slot, k)' = EndsList(slot, k)
      BY <1>3 DEF Mine, EndsList, Kind, Loaded
    <3> QED BY <1>3, <3>1, <3>2, <3>3 DEF ShiftersFollowPl
  <2> QED BY <1>2, <1>3, <1>9, <2>3, <2>4, <2>5, <2>6, <2>7, <2>8, <2>9
<1> QED BY <1>10, <1>11

-----------------------------------------------------------------------------
(* The invariant. *)

LEMMA StutterIInv ==
  ASSUME IInv, UNCHANGED vars
  PROVE  IInv'
<1> USE DEF IInv
<1>1. SameImage /\ UNCHANGED <<pc, loader, ddr, pl, shifters, dma, int_sts, filling, lost>>
  BY DEF vars, SameImage, loader, pcap, history
<1>2. /\ AtImage' /\ MetFlags' /\ ShiftersFollowPl'
      /\ (Spoilt' <=> Spoilt) /\ (Unguarded(slot)' <=> Unguarded(slot))
  <2>1. faults' = faults
    BY DEF vars, history
  <2> QED BY <1>1, <2>1, FrameImage, FrameShifters, SlotSame DEF loader, SameImage
<1>3. Typed'
  BY <1>1 DEF Typed, SameImage, board, loader, N
<1>4. OneTransfer' /\ Own' /\ Connected'
  <2>1. Checked(Part)' = Checked(Part) /\ fuses' = fuses
    BY <1>1, ImageSame DEF Checked, SameImage, board
  <2> QED BY <1>1, <1>2, <2>1, ImageSame DEF OneTransfer, Own, Connected
<1>5. ~Spoilt => Here' /\ InPlace'
  BY <1>1, ImageSame DEF Here, InPlace, SameImage, board
<1> QED BY <1>1, <1>2, <1>3, <1>4, <1>5

LEMMA NextIInv == IInv /\ [Next]_vars => IInv'
<1> SUFFICES ASSUME IInv, [Next]_vars PROVE IInv'
  OBVIOUS
<1>1. CASE GiveUp
  <2>1. pc \in Loading
    BY <1>1 DEF GiveUp, Loading
  <2> QED BY <1>1, <2>1, FallbackIInv DEF GiveUp
<1>2. CASE Exception
  BY <1>2, FallbackIInv DEF Exception
<1> QED BY <1>1, <1>2, BootRomIInv, StartIInv, SelectDeviceIInv, LoadIInv, PartitionIInv, MoveIInv,
           TransferIInv, TransferredIInv, VerifyIInv, ConfigureIInv, ConfiguringIInv,
           ConfiguredIInv, HandoffIInv, DmaEndsIInv, PlStartsIInv, StutterIInv DEF Next, Software

\* The boot loader keeps its invariant, whatever the images, the fuses and the
\* faults are: a transfer that was given up may run beside the partitions that were
\* placed only in an image that is Unguarded.
THEOREM FsblInvariant == Spec => []IInv
<1>1. Init => IInv
  BY InitIInv
<1>2. IInv /\ [Next]_vars => IInv'
  BY NextIInv
<1> QED BY <1>1, <1>2, PTL DEF Spec

\* The application is started only with every partition of its own image in place,
\* decrypted and checked, and with the image's last bitstream in the PL, whatever
\* failed before. A transfer that an earlier image gave up can change that only for
\* an image that starts with a plain partition, with the key in the fuses and flash
\* that is not read like memory (Overwritten).
THEOREM FsblHandsOffLoadedImage == Spec => []HandoffToLoadedImage
<1>1. IInv => HandoffToLoadedImage
  <2> SUFFICES ASSUME IInv, pc = "running", ~Spoilt
               PROVE  /\ \A k \in Of("PS") :
                           /\ ddr[k] = Placed(k)
                           /\ flash[slot].parts[k].chk \/ flash[slot].parts[k].enc
                                => flash[slot].parts[k].good
                      /\ \A k \in Of("PL") : (\A j \in Of("PL") : j <= k) => pl = Placed(k)
                      /\ ExecAddress \in Of("PS")
                      /\ \A k \in Of("PS") : ExecAddress <= k
    BY LoadedDone DEF HandoffToLoadedImage, Placed, Spoilt
  <2>1. InPlace /\ MetFlags /\ pc \in InImage /\ pc \notin {"configuring", "starting"}
    BY DEF IInv, InImage
  <2>2. ExecAddress \in Of("PS") /\ \A k \in Of("PS") : ExecAddress <= k
    <3> DEFINE met == Of("PS") \cup {k \in {N} : pc \in AtPart /\ Part.kind = "PS"}
    <3>1. met = Of("PS")
      BY DEF AtPart
    <3>2. ExecAddress \in met /\ \A k \in met : ExecAddress <= k
      BY <2>1 DEF MetFlags
    <3> HIDE DEF met
    <3> QED BY <3>1, <3>2
  <2> QED BY <2>1, <2>2 DEF InPlace
<1> QED BY <1>1, FsblInvariant, PTL

\* The PL is connected when it is configured, and only then.
THEOREM FsblShiftersFollowPl == Spec => []ShiftersFollowPl
<1>1. IInv => ShiftersFollowPl
  BY DEF IInv
<1> QED BY <1>1, FsblInvariant, PTL
=============================================================================
