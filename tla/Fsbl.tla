-------------------------------- MODULE Fsbl --------------------------------
(* The first stage boot loader (main.c, image_mover.c, pcap.c): started by    *)
(* the boot ROM from an image in flash, it moves, checks, decrypts and        *)
(* configures the partitions of the image one by one and hands off, or falls  *)
(* back to the next image. The boot ROM, the flash and the device             *)
(* configuration unit with its DMA (PCAP) are external.                       *)
EXTENDS Integers, Sequences, FiniteSets

CONSTANTS
  Slots,     \* image slots of the boot device
  MaxParts,  \* partitions of an image, the FSBL's own not counted
  Flashes,   \* contents of the boot device, [0..Slots-1 -> images]
  Devices,   \* "qspi", "nor", "sd", "jtag": where the boot mode pins point to
  None, Junk \* no content, content of no partition

\* Fuses that are blown: the key lies in the fuses (AES_FUSE), encryption is
\* mandatory (EFUSE_SEC_EN), signatures are mandatory (RSA_ENABLE).
Fuses == {"aes", "sec", "rsa"}

\* Where data may lie besides the load addresses, which are named 1, 2, ... by
\* partition: DDR_TEMP_START_ADDR, the flash, the PL, and nowhere.
Temp == 0
FromFlash == -1
ToPL == -2
Dropped == -3

AllSlots == 0..Slots-1

\* A partition: its kind; if its owner is the FSBL; if its header is good; if it is
\* encrypted, has a checksum or a signature; where it is to be loaded; if its
\* data are good.
Parts == [kind : {"PL", "PS"}, mine : BOOLEAN, head : BOOLEAN, enc : BOOLEAN,
          chk : BOOLEAN, signed : BOOLEAN, load : {"ddr", "zero", "low"},
          good : BOOLEAN]
Images == [valid : BOOLEAN, header : BOOLEAN, parts : Seq(Parts)]

\* What lies somewhere: a partition of an image, still encrypted or not.
Contents == [slot : AllSlots, part : 1..MaxParts, enc : BOOLEAN]

ASSUME BoardAssumption ==
  /\ Slots \in Nat /\ MaxParts \in Nat
  /\ Flashes \subseteq {f \in [AllSlots -> Images] :
                          \A s \in AllSlots : Len(f[s].parts) <= MaxParts}
  /\ None \notin Contents /\ Junk \notin Contents /\ None # Junk

VARIABLES
  fuses, device, flash,
  pc,        \* where the program is
  slot,      \* MULTIBOOT
  reboot,    \* the mark in REBOOT_STATUS: "none", "in", "fail"
  SystemInitFlag, BitstreamFlag, ApplicationFlag,
  PartitionNum,
  ExecAddress,  \* 0, or the partition that it is in
  ddr,       \* what lies at the load address of each partition, and in Temp
  pl,        \* what the PL is configured with, or None
  shifters,  \* the level shifters between PS and PL are open
  dma,       \* the command queue of PCAP, its head under way
  int_sts,   \* flags of PCAP
  filling,   \* the bitstream that the PL has taken and not started yet
  faults,    \* history: slots whose loading was disturbed
  lost       \* history: an error of the SD card was dropped

board == <<fuses, device, flash>>
loader == <<SystemInitFlag, BitstreamFlag, ApplicationFlag, PartitionNum, ExecAddress>>
pcap == <<dma, int_sts, filling>>
history == <<faults, lost>>
vars == <<board, pc, slot, reboot, loader, ddr, pl, shifters, pcap, history>>

Image == flash[slot]
Part == Image.parts[PartitionNum]
Content(enc) == [slot |-> slot, part |-> PartitionNum, enc |-> enc]
Intact(c) == flash[c.slot].parts[c.part].good

\* The flash can be read like memory: NOR, and QSPI up to 16 MB.
Linear == device = "nor"
Checked(p) == p.chk \/ p.signed
Area == IF Part.kind = "PL" THEN Temp ELSE PartitionNum
Loading == {"load", "partition", "move", "transfer", "transferring", "verify",
            "decrypt", "decrypting", "configure", "configuring", "starting"}
Ends == {"running", "jtag", "hang", "locked"}
-----------------------------------------------------------------------------
(* The device configuration unit. *)

\* Slip: the command queue is not looked at.
SlipClear == TRUE

\* ClearPcapStatus: the flags go, and nothing may be under way.
ClearPcapStatus == dma = <<>>

\* XDcfg_Transfer, from the flash or from memory.
Started(src, dst, secure) ==
  /\ LET content == IF src = FromFlash THEN Content(Part.enc) ELSE ddr[src]
     IN dma' = Append(dma, [src |-> src, content |-> content, dst |-> dst, secure |-> secure])
  /\ int_sts' = {}

\* What a transfer delivers: the secure one checks what it decrypts.
Delivered(d) == IF ~d.secure THEN d.content
                ELSE IF d.content # Junk /\ d.content.enc /\ Intact(d.content)
                THEN [d.content EXCEPT !.enc = FALSE] ELSE Junk

\* A transfer that was given up ends in what another image has put there since.
LateHit(d) ==
  /\ pc \notin {"transferring", "decrypting", "configuring"}
  /\ d.dst >= Temp /\ ddr[d.dst] # Junk /\ ddr[d.dst].slot = slot

\* The DMA ends: an error, or the data is in memory or in the PL. It goes wrong if
\* the data in memory was replaced meanwhile.
DmaEnds ==
  /\ dma # <<>>
  /\ LET d == Head(dma)
         same == d.src = FromFlash \/ ddr[d.src] = d.content
         out == IF same THEN Delivered(d) ELSE Junk
     IN /\ int_sts' = int_sts \cup {"DMA_DONE"} \cup (IF out = Junk THEN {"ERROR"} ELSE {})
        /\ ddr' = IF d.dst \in {ToPL, Dropped} THEN ddr ELSE [ddr EXCEPT ![d.dst] = out]
        /\ filling' = IF d.dst = ToPL /\ out # Junk THEN out ELSE filling
        /\ faults' = IF LateHit(d) THEN faults \cup {slot} ELSE faults
  /\ dma' = Tail(dma)
  /\ UNCHANGED <<board, pc, slot, reboot, loader, pl, shifters, lost>>

\* The PL starts with its bitstream.
PlStarts ==
  /\ filling # None
  /\ pl' = filling /\ filling' = None
  /\ int_sts' = int_sts \cup {"PCFG_DONE"}
  /\ UNCHANGED <<board, pc, slot, reboot, loader, ddr, shifters, dma, history>>

\* FabricInit: the level shifters are closed, PROG_B empties the PL.
FabricInit ==
  /\ shifters' = FALSE
  /\ pl' = None /\ filling' = None
-----------------------------------------------------------------------------
(* Fallback. *)

\* Slip: the register is left alone.
SlipUpdate == slot

\* Update_MultiBootRegister
Update_MultiBootRegister == slot + 1

\* Slip: the search starts behind the slot.
SlipValid(s) == {t \in AllSlots : t > s /\ flash[t].valid}

\* The images NextValidImageCheck may stop at, from slot s on.
ValidFrom(s) == {t \in AllSlots : t >= s /\ flash[t].valid}

\* ClearFSBLIn, FsblHookFallback
Hang == pc' = "hang" /\ reboot' = "none" /\ UNCHANGED <<loader, ddr>>

\* With the key in the fuses the loader goes on with the next image itself, without
\* a reset. A read error makes it pass an image over.
FallbackInPlace(bad) ==
  LET from == Update_MultiBootRegister
  IN \/ /\ SystemInitFlag /\ FabricInit
        /\ dma' = [i \in DOMAIN dma |-> IF dma[i].dst = ToPL
                                        THEN [dma[i] EXCEPT !.dst = Dropped] ELSE dma[i]]
        /\ \/ \E s \in ValidFrom(from) :
                /\ slot' = s /\ pc' = "load" /\ reboot' = "fail"
                /\ faults' = bad \cup {t \in ValidFrom(from) : t < s}
           \/ Hang /\ slot' = from /\ faults' = bad \cup ValidFrom(from)
        /\ UNCHANGED <<loader, ddr, int_sts>>
     \* FabricInit fails, or nothing is initialised yet.
     \/ /\ Hang /\ slot' = from /\ faults' = AllSlots
        /\ UNCHANGED <<pl, shifters, pcap>>

\* Otherwise the reset starts the boot ROM again; the PL may survive it.
FallbackReset(bad) ==
  /\ slot' = Update_MultiBootRegister
  /\ reboot' = "fail"
  /\ pc' = "rom"
  /\ pl' \in {pl, None} /\ shifters' = FALSE
  /\ dma' = <<>> /\ int_sts' = {} /\ filling' = None
  /\ faults' = bad
  /\ UNCHANGED <<loader, ddr>>

\* FsblFallback, with the faults so far.
FsblFallback(bad) ==
  /\ CASE device \in {"sd", "jtag"} ->
            Hang /\ faults' = bad /\ UNCHANGED <<slot, pl, shifters, pcap>>
       [] "aes" \in fuses /\ device \notin {"sd", "jtag"} -> FallbackInPlace(bad)
       [] OTHER -> FallbackReset(bad)
  /\ UNCHANGED <<board, lost>>

\* The check of a step: it fails for what the image is.
Reject == FsblFallback(faults)
-----------------------------------------------------------------------------
(* main *)

BootRom ==
  /\ pc = "rom"
  /\ \/ device = "jtag" /\ pc' = "start" /\ UNCHANGED slot
     \/ /\ device # "jtag"
        /\ LET found == IF device = "sd" THEN ValidFrom(0) \cap {0} ELSE ValidFrom(slot)
           IN \/ found = {} /\ pc' = "locked" /\ UNCHANGED slot
              \/ \E s \in found : /\ \A t \in found : s <= t
                                  /\ pc' = "start" /\ slot' = s
  /\ UNCHANGED <<board, reboot, loader, ddr, pl, shifters, pcap, history>>

\* ps7_init, DDRInitCheck, InitPcap: an error ends the boot without fallback.
Start ==
  /\ pc = "start"
  /\ \/ pc' = "hang" /\ faults' = AllSlots /\ UNCHANGED reboot
     \/ pc' = "select" /\ reboot' = (IF reboot = "fail" THEN "fail" ELSE "in")
        /\ UNCHANGED faults
  /\ SystemInitFlag' = FALSE /\ BitstreamFlag' = FALSE /\ ApplicationFlag' = FALSE
  /\ PartitionNum' = 1 /\ ExecAddress' = 0
  /\ UNCHANGED <<board, slot, ddr, pl, shifters, pcap, lost>>

\* The boot mode: the device is initialised, or JTAG takes over.
SelectDevice ==
  /\ pc = "select"
  /\ \/ /\ device # "jtag"
        /\ pc' = "load" /\ SystemInitFlag' = TRUE
        /\ UNCHANGED <<board, slot, reboot, BitstreamFlag, ApplicationFlag, PartitionNum,
                       ExecAddress, ddr, pl, shifters, pcap, history>>
     \/ /\ device = "jtag"
        /\ pc' = "jtag" /\ reboot' = "none" /\ shifters' = (pl # None)
        /\ UNCHANGED <<board, slot, loader, ddr, pl, pcap, history>>
     \/ device = "sd" /\ FsblFallback(faults \cup {slot})
-----------------------------------------------------------------------------
(* LoadBootImage *)

\* Slip: the flags of the last image stay.
SlipClearFlags == UNCHANGED <<BitstreamFlag, ApplicationFlag>>

ClearFlags == BitstreamFlag' = FALSE /\ ApplicationFlag' = FALSE

\* GetPartitionHeaderInfo; RSA is fused but not built in.
Load ==
  /\ pc = "load"
  /\ IF Image.header /\ Image.parts # <<>> /\ "rsa" \notin fuses
     THEN /\ ClearFlags
          /\ pc' = "partition" /\ PartitionNum' = 1 /\ ExecAddress' = 0
          /\ UNCHANGED <<board, slot, reboot, SystemInitFlag, ddr, pl, shifters, pcap, history>>
     ELSE Reject

\* The end of the list, or a partition behind which no more are loaded.
OrderInvalid == Part.kind = "PL" /\ ApplicationFlag
NoLoad == Part.kind = "PS" /\ Part.load = "zero" /\ ~Part.enc /\ ~Part.signed
LastPartition ==
  \/ PartitionNum > Len(Image.parts)
  \/ Part.head /\ Part.mine /\ (OrderInvalid \/ (NoLoad /\ "sec" \notin fuses))

\* ValidateHeader, encryption where it is mandatory, the load address.
Accepted ==
  /\ Part.head
  /\ Part.mine => /\ "sec" \in fuses => Part.enc
                  /\ Part.kind = "PS" => Part.load = "ddr"

\* BitstreamFlag is set before the order is looked at.
SetFlags ==
  /\ BitstreamFlag' = (BitstreamFlag \/ Part.kind = "PL")
  /\ ApplicationFlag' = (ApplicationFlag \/ Part.kind = "PS")

Partition ==
  /\ pc = "partition"
  /\ IF LastPartition
     THEN /\ pc' = "handoff"
          /\ IF PartitionNum <= Len(Image.parts)
             THEN SetFlags ELSE UNCHANGED <<BitstreamFlag, ApplicationFlag>>
          /\ UNCHANGED <<board, slot, reboot, SystemInitFlag, PartitionNum, ExecAddress,
                         ddr, pl, shifters, pcap, history>>
     ELSE IF ~Accepted THEN Reject
     ELSE /\ IF Part.mine
             THEN /\ pc' = "move"
                  /\ SetFlags
                  /\ ExecAddress' = IF Part.kind = "PS" /\ ExecAddress = 0
                                    THEN PartitionNum ELSE ExecAddress
                  /\ UNCHANGED PartitionNum
             ELSE /\ PartitionNum' = PartitionNum + 1
                  /\ UNCHANGED <<pc, BitstreamFlag, ApplicationFlag, ExecAddress>>
          /\ UNCHANGED <<board, slot, reboot, SystemInitFlag, ddr, pl, shifters, pcap, history>>

\* PartitionMove: from the device to its place, the PL's to Temp.
AfterMove ==
  CASE Part.kind = "PS" /\ (Linear \/ (Part.enc /\ ~Checked(Part))) -> "transfer"
    [] Part.kind = "PL" /\ Linear /\ Checked(Part) -> "transfer"
    [] Part.kind = "PL" /\ ~Checked(Part) -> "configure"
    [] OTHER -> "verify"

Move ==
  /\ pc = "move"
  /\ pc' = AfterMove
  /\ \/ Linear /\ UNCHANGED <<ddr, lost>>
     \/ ~Linear /\ ddr' = [ddr EXCEPT ![Area] = Content(Part.enc)] /\ UNCHANGED lost
     \/ device = "sd" /\ lost' = TRUE /\ UNCHANGED ddr     \* SDAccess
  /\ UNCHANGED <<board, slot, reboot, loader, pl, shifters, pcap, faults>>

\* PcapDataTransfer starts, for PartitionMove or for DecryptPartition.
Transfer ==
  /\ pc \in {"transfer", "decrypt"}
  /\ IF ClearPcapStatus
     THEN /\ Started(IF Linear /\ pc = "transfer" THEN FromFlash ELSE Area, Area,
                     Part.enc /\ Part.kind = "PS" /\ (pc = "decrypt" \/ ~Checked(Part)))
          /\ pc' = IF pc = "transfer" THEN "transferring" ELSE "decrypting"
          /\ UNCHANGED <<board, slot, reboot, loader, ddr, pl, shifters, filling, history>>
     ELSE FsblFallback(faults \cup {slot})

\* XDcfgPollDone and the check of the error flags.
Transferred ==
  /\ pc \in {"transferring", "decrypting"}
  /\ "DMA_DONE" \in int_sts
  /\ IF "ERROR" \in int_sts THEN Reject
     ELSE /\ pc' = IF pc = "transferring" THEN "verify" ELSE "partition"
          /\ PartitionNum' = IF pc = "transferring" THEN PartitionNum ELSE PartitionNum + 1
          /\ int_sts' = int_sts \ {"DMA_DONE"}
          /\ UNCHANGED <<board, slot, reboot, SystemInitFlag, BitstreamFlag, ApplicationFlag,
                         ExecAddress, ddr, pl, shifters, dma, filling, history>>

\* ValidateParition compares MD5 sums; a signature is never accepted.
Verify ==
  /\ pc = "verify"
  /\ IF (Part.chk => ddr[Area] = Content(Part.enc) /\ Part.good) /\ ~Part.signed
     THEN /\ \/ Checked(Part) /\ Part.kind = "PL" /\ pc' = "configure" /\ UNCHANGED PartitionNum
             \/ Checked(Part) /\ Part.kind = "PS" /\ Part.enc /\ pc' = "decrypt"
                /\ UNCHANGED PartitionNum
             \/ ~(Checked(Part) /\ (Part.kind = "PL" \/ Part.enc))
                /\ pc' = "partition" /\ PartitionNum' = PartitionNum + 1
          /\ UNCHANGED <<board, slot, reboot, SystemInitFlag, BitstreamFlag, ApplicationFlag,
                         ExecAddress, ddr, pl, shifters, pcap, history>>
     ELSE Reject

\* PcapLoadPartition starts.
Configure ==
  /\ pc = "configure"
  /\ IF ClearPcapStatus
     THEN /\ FabricInit
          /\ Started(IF Linear /\ ~Checked(Part) THEN FromFlash ELSE Temp, ToPL, Part.enc)
          /\ pc' = "configuring"
          /\ UNCHANGED <<board, slot, reboot, loader, ddr, history>>
     ELSE FsblFallback(faults \cup {slot})

\* It polls DMA_DONE: the loop sees an error, but not the first look before it.
Configuring ==
  /\ pc = "configuring" /\ "DMA_DONE" \in int_sts
  /\ \/ /\ pc' = "starting" /\ int_sts' = int_sts \ {"DMA_DONE"}
        /\ UNCHANGED <<board, slot, reboot, loader, ddr, pl, shifters, dma, filling, history>>
     \/ "ERROR" \in int_sts /\ Reject

\* It polls PCFG_DONE, and checks the error flags at the end.
Configured ==
  /\ pc = "starting" /\ int_sts \cap {"PCFG_DONE", "ERROR"} # {}
  /\ IF "ERROR" \in int_sts THEN Reject
     ELSE /\ pc' = "partition" /\ PartitionNum' = PartitionNum + 1
          /\ int_sts' = int_sts \ {"PCFG_DONE"}
          /\ UNCHANGED <<board, slot, reboot, SystemInitFlag, BitstreamFlag, ApplicationFlag,
                         ExecAddress, ddr, pl, shifters, dma, filling, history>>

\* A poll gives up; the transfer goes on.
GiveUp ==
  /\ pc \in {"transferring", "decrypting", "configuring", "starting"}
  /\ FsblFallback(faults \cup {slot})

\* ErrorLockdown: an exception, or a device that fails.
Exception == pc \in Loading /\ FsblFallback(faults \cup {slot})

\* FsblHandoff
Handoff ==
  /\ pc = "handoff"
  /\ shifters' = (shifters \/ BitstreamFlag)
  /\ reboot' = "none"
  /\ pc' = IF ExecAddress = 0 THEN "jtag" ELSE "running"
  /\ UNCHANGED <<board, slot, loader, ddr, pl, pcap, history>>
-----------------------------------------------------------------------------
Init ==
  /\ fuses \in SUBSET Fuses /\ device \in Devices /\ flash \in Flashes
  /\ pc = "rom" /\ slot = 0 /\ reboot = "none"
  /\ SystemInitFlag = FALSE /\ BitstreamFlag = FALSE /\ ApplicationFlag = FALSE
  /\ PartitionNum = 1 /\ ExecAddress = 0
  /\ ddr = [a \in Temp..MaxParts |-> Junk]
  /\ pl \in (IF device = "jtag" THEN {None, Junk} ELSE {None})   \* by the debugger
  /\ shifters = FALSE
  /\ dma = <<>> /\ int_sts = {} /\ filling = None
  /\ faults = {} /\ lost = FALSE

Software ==
  \/ BootRom \/ Start \/ SelectDevice \/ Load \/ Partition \/ Move \/ Transfer
  \/ Transferred \/ Verify \/ Configure \/ Configuring \/ Configured \/ GiveUp
  \/ Exception \/ Handoff

Next == Software \/ DmaEnds \/ PlStarts

Spec == Init /\ [][Next]_vars

\* The processor runs; the hardware it polls may never answer.
FairSpec == Spec /\ WF_vars(Software)
-----------------------------------------------------------------------------
(* Properties. *)

\* The partitions of slot s that are loaded: those of the FSBL, up to one that
\* ends the list.
Mine(s) == {k \in DOMAIN flash[s].parts : flash[s].parts[k].mine}
EndsList(s, k) ==
  LET p == flash[s].parts[k]
  IN \/ p.kind = "PL" /\ \E j \in Mine(s) : j < k /\ flash[s].parts[j].kind = "PS"
     \/ p.kind = "PS" /\ p.load = "zero" /\ ~p.enc /\ ~p.signed /\ "sec" \notin fuses
Loaded(s) == {k \in Mine(s) : \A j \in Mine(s) : j <= k => ~EndsList(s, j)}
Kind(s, kind) == {k \in Loaded(s) : flash[s].parts[k].kind = kind}

\* A plain partition that is the first to be loaded is copied by the processor: no
\* ClearPcapStatus waits for a transfer that an earlier image gave up in place.
Unguarded(s) ==
  /\ "aes" \in fuses /\ ~Linear
  /\ \E k \in Loaded(s) : /\ \A j \in Loaded(s) : k <= j
                         /\ flash[s].parts[k].kind = "PS" /\ ~flash[s].parts[k].enc
Overwritten(s) == s \in faults /\ Unguarded(s)

\* The program runs with every partition of its own image in place, decrypted,
\* and checked where there is something to check, and with the last bitstream of
\* its image in the PL, whatever failed before. But for an error of the SD card,
\* which SDAccess drops, and for an image that starts with a plain partition
\* (Unguarded): a late transfer may overwrite it, before or after it is started.
HandoffToLoadedImage ==
  pc = "running" /\ ~lost /\ ~Overwritten(slot) =>
    /\ \A k \in Kind(slot, "PS") :
         /\ ddr[k] = [slot |-> slot, part |-> k, enc |-> FALSE]
         /\ flash[slot].parts[k].chk \/ flash[slot].parts[k].enc => flash[slot].parts[k].good
    /\ \A k \in Kind(slot, "PL") :
         (\A j \in Kind(slot, "PL") : j <= k) => pl = [slot |-> slot, part |-> k, enc |-> FALSE]
    /\ ExecAddress \in Kind(slot, "PS")
    /\ \A k \in Kind(slot, "PS") : ExecAddress <= k

\* What can be loaded: nothing in it is rejected, the header of the partition that
\* ends the list included.
Loadable(s) ==
  /\ flash[s].valid /\ flash[s].header /\ flash[s].parts # <<>> /\ "rsa" \notin fuses
  /\ \A k \in DOMAIN flash[s].parts :
       (\A j \in Mine(s) : j < k => ~EndsList(s, j)) =>
         LET p == flash[s].parts[k]
         IN /\ p.head
            /\ p.mine /\ ~EndsList(s, k) =>
                 /\ ~p.signed
                 /\ p.kind = "PS" => p.load = "ddr"
                 /\ "sec" \in fuses => p.enc
                 /\ p.chk \/ p.enc => p.good

\* No image is passed over: when the boot ends, every image before the one that
\* runs, or every image at all, could not be loaded or its loading was disturbed.
FirstGoodImage ==
  pc \in Ends /\ device \in {"qspi", "nor"} =>
    \A s \in AllSlots :
      s < slot \/ pc \in {"hang", "locked"} => ~Loadable(s) \/ s \in faults

\* The PL is connected when it is configured, and only then; but a bitstream
\* behind the application is not loaded and connects it all the same.
ShiftersFollowPl ==
  /\ shifters => \/ pl # None
                 \/ \E k \in Mine(slot) : flash[slot].parts[k].kind = "PL" /\ EndsList(slot, k)
  /\ pc = "running" /\ Kind(slot, "PL") # {} => shifters

\* Every boot ends, and who is started finds no mark of the loader.
BootEnds == <>[](pc \in Ends /\ (pc \in {"running", "jtag"} => reboot = "none"))
=============================================================================
