-------------------------------- MODULE Boot --------------------------------
(* The boot program (main.c of cpu_proj): it copies two files into the       *)
(* memory of the core, then starts the core through the controller. Later    *)
(* the processor may access the controller as it likes.                      *)
EXTENDS Controller, Sequences

CONSTANTS
  WordBytes,   \* bytes of a word of memory (4)
  ChunkBytes,  \* bytes asked of f_read at once (4096)
  Sizes        \* lengths of files, in bytes

ASSUME ChunkAssumption ==
  /\ WordBytes \in Nat \ {0} /\ ChunkBytes \in Nat \ {0}
  /\ ChunkBytes % WordBytes = 0
  /\ Sizes \subseteq Nat

VARIABLES
  at,      \* where main is: "open", "read", "start" or "spin"
  file,    \* the file being deployed
  length,  \* file -> its length, once it was opened
  left,    \* bytes of the file that were not read yet
  buff,    \* the bytes of buff: a byte of the file is named by its offset
  mem,     \* file -> the words written at its address; Running when it is the
           \* core's
  failed   \* a call of f_open or f_read failed

boot == <<at, file, length, left, buff, mem, failed>>
bootVars == <<boot, vars>>

Files == {"kernel", "fs"}
Running == <<>>
Empty == [k \in 1..ChunkBytes |-> -1]   \* buff before the first read

-----------------------------------------------------------------------------
\* Words 0, 1, ... of the first n bytes of buff b; a word that n ends in the
\* middle of is copied whole.
WordsOf(b, n) ==
  [k \in 1..((n + WordBytes - 1) \div WordBytes) |->
     SubSeq(b, WordBytes * (k - 1) + 1, WordBytes * k)]

\* b with n more bytes of the file from offset pos in front.
Filled(b, pos, n) == [k \in DOMAIN b |-> IF k <= n THEN pos + k - 1 ELSE b[k]]

\* deploy_to_ram returns, and buff with it: the next file, or the start.
Deployed ==
  /\ left' = 0 /\ buff' = Empty
  /\ IF file = "kernel" THEN at' = "open" /\ file' = "fs"
     ELSE at' = "start" /\ UNCHANGED file

BootInit ==
  /\ Init
  /\ at = "open" /\ file = "kernel"
  /\ length = [f \in Files |-> 0]
  /\ left = 0
  /\ buff = Empty
  /\ mem = [f \in Files |-> <<>>]
  /\ failed = FALSE

\* f_mount, f_open: a file of any length, or an error that skips the file.
Open ==
  /\ at = "open"
  /\ \/ /\ \E n \in Sizes : length' = [length EXCEPT ![file] = n] /\ left' = n
        /\ at' = "read"
        /\ UNCHANGED <<file, buff, failed>>
     \/ failed' = TRUE /\ Deployed /\ UNCHANGED length
  /\ UNCHANGED <<vars, mem>>

\* Slip: a file is over when a whole chunk was read.
SlipIsLast(num) == num <= ChunkBytes

\* num < 4096
IsLast(num) == num < ChunkBytes

\* f_read and the copy of what it read. The result of a read that fails is
\* dropped: the bytes it got so far are taken for the end of the file.
Read ==
  /\ at = "read"
  /\ LET full == IF left < ChunkBytes THEN left ELSE ChunkBytes
         pos == length[file] - left
     IN \E num \in 0..full :
          /\ failed' = (failed \/ num < full)
          /\ mem' = [mem EXCEPT ![file] = @ \o WordsOf(Filled(buff, pos, num), num)]
          /\ IF IsLast(num) THEN Deployed
             ELSE /\ buff' = Filled(buff, pos, num) /\ left' = left - num
                  /\ UNCHANGED <<at, file>>
  /\ UNCHANGED <<vars, length>>

\* CEXEC = 1; while (1) {}
Start ==
  /\ at = "start"
  /\ aw = None
  /\ aw' = <<"CEXEC", 1>>
  /\ at' = "spin"
  /\ UNCHANGED <<ar, writeside, readside, exec, CEXEC, REG, reg, since, history,
                 file, length, left, buff, mem, failed>>

\* The clocks run and the controller works. They are followed from the start
\* on: before it no access is made, and the controller idles. What the core does
\* to the memory once it runs is not followed.
Circuit(step) ==
  /\ at \in {"start", "spin"}
  /\ step
  /\ IF CEXEC /\ since' = 0
     THEN mem' = Running /\ length' = [f \in Files |-> 0] /\ failed' = FALSE
     ELSE UNCHANGED <<mem, length, failed>>
  /\ UNCHANGED <<at, file, left, buff>>

\* Accesses of the processor after the core was started.
Access == mem = Running /\ MasterSends /\ UNCHANGED boot

BootNext ==
  \/ Open \/ Read \/ Start \/ Access
  \/ Circuit(Edge) \/ Circuit(CoreEdge) \/ Circuit(AxiReset)

BootSpec == BootInit /\ [][BootNext]_bootVars

FairBootSpec ==
  BootSpec /\ WF_bootVars(Circuit(Edge)) /\ WF_bootVars(Circuit(CoreEdge))
-----------------------------------------------------------------------------
\* When the core is started, both files are in the memory, every byte in its
\* place, and nothing behind them but the rest of the last word - unless a
\* call of the file system failed, which the program ignores.
HoldsFile(words, n) ==
  /\ Len(words) = (n + WordBytes - 1) \div WordBytes
  /\ \A k \in 1..n :
       words[((k - 1) \div WordBytes) + 1][((k - 1) % WordBytes) + 1] = k - 1

LoadedBeforeStart ==
  CEXEC /\ mem # Running /\ ~failed => \A f \in Files : HoldsFile(mem[f], length[f])
=============================================================================
