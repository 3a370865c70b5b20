----------------------------- MODULE BootProofs -----------------------------
(* Proof about the boot program: what is in the memory of the core when it is  *)
(* started, for every word size, every buffer of whole words and all files.    *)
EXTENDS Boot, SequenceTheorems, TLAPS

\* A memory of bytes, named by their offsets, in words.
Words == Seq(Seq(Int))

\* The bytes of the file that were read so far.
Position == length[file] - left

BootTyped ==
  /\ at \in {"open", "read", "start", "spin"} /\ file \in Files
  /\ length \in [Files -> Nat]
  /\ buff \in [1..ChunkBytes -> Int]
  /\ failed \in BOOLEAN

\* Before the start the core does not run, and the files go to its memory one
\* by one, a file in whole words while a part of it is to come.
Deploying ==
  /\ ~CEXEC
  /\ mem \in [Files -> Words]
  /\ file = "kernel" => mem["fs"] = <<>>
  /\ ~failed /\ file = "fs" => HoldsFile(mem["kernel"], length["kernel"])
  /\ at = "open" => mem[file] = <<>>
  /\ at = "read" => left \in Nat /\ left <= length[file]
  /\ at = "read" /\ ~failed =>
       /\ WordBytes * Len(mem[file]) = Position
       /\ HoldsFile(mem[file], Position)

LoadInv ==
  /\ BootTyped
  /\ at \in {"open", "read"} => Deploying
  /\ at \in {"start", "spin"} /\ mem # Running /\ ~failed =>
       \A f \in Files : HoldsFile(mem[f], length[f])

-----------------------------------------------------------------------------
LEMMA BufferSize == \E c \in Nat \ {0} : ChunkBytes = WordBytes * c
  BY ChunkAssumption

\* Where a byte is: the word and the place in it.
LEMMA Division ==
  ASSUME NEW n \in Nat
  PROVE  /\ n \div WordBytes \in Nat /\ n % WordBytes \in Nat
         /\ n % WordBytes < WordBytes
         /\ n = WordBytes * (n \div WordBytes) + (n % WordBytes)
<1>1. WordBytes \in Nat /\ WordBytes > 0
  BY ChunkAssumption
<1>2. n % WordBytes \in Nat /\ n % WordBytes < WordBytes
  BY <1>1
<1>3. n = WordBytes * (n \div WordBytes) + (n % WordBytes)
  BY <1>1
<1>4. n \div WordBytes \in Nat
  BY <1>1
<1> QED BY <1>2, <1>3, <1>4

\* ... and only there.
LEMMA DivisionUnique ==
  ASSUME NEW n \in Nat, NEW q \in Nat, NEW r \in Nat, r < WordBytes,
         n = WordBytes * q + r
  PROVE  n \div WordBytes = q /\ n % WordBytes = r
<1>1. WordBytes \in Nat /\ WordBytes > 0
  BY ChunkAssumption
<1>2. PICK d \in Nat, m \in Nat :
        d = n \div WordBytes /\ m = n % WordBytes /\ m < WordBytes /\ n = WordBytes * d + m
  BY Division
<1>3. \A x, y \in Nat : x < y => WordBytes * x + WordBytes <= WordBytes * y
  <2> SUFFICES ASSUME NEW x \in Nat, NEW y \in Nat, x < y
               PROVE  WordBytes * x + WordBytes <= WordBytes * y
    OBVIOUS
  <2>1. PICK z \in Nat : y = x + 1 + z
    <3>1. y - x - 1 \in Nat /\ y = x + 1 + (y - x - 1)
      OBVIOUS
    <3> QED BY <3>1
  <2>2. WordBytes * (x + 1 + z) = WordBytes * x + WordBytes + WordBytes * z
    BY <1>1
  <2>3. WordBytes * z >= 0 /\ WordBytes * z \in Int /\ WordBytes * x \in Int
    BY <1>1
  <2> QED BY <1>1, <2>1, <2>2, <2>3
<1>4. WordBytes * d \in Int /\ WordBytes * q \in Int
  BY <1>1
<1>5. d = q
  <2>1. ~(d < q)
    BY <1>1, <1>2, <1>3, <1>4
  <2>2. ~(q < d)
    BY <1>1, <1>2, <1>3, <1>4
  <2> QED BY <2>1, <2>2
<1> QED BY <1>2, <1>4, <1>5

\* How many words n bytes take.
WordCount(n) == (n + WordBytes - 1) \div WordBytes

\* Whole words before n bytes, and the last word of those.
LEMMA WordCounts ==
  ASSUME NEW p \in Nat, NEW n \in Nat
  PROVE  /\ WordCount(n) \in Nat
         /\ WordCount(WordBytes * p + n) = p + WordCount(n)
         /\ \A k \in 1..n : (k - 1) \div WordBytes + 1 \in 1..WordCount(n)
         /\ WordCount(0) = 0
<1>1. WordBytes \in Nat /\ WordBytes > 0
  BY ChunkAssumption
<1>2. PICK q \in Nat, r \in Nat :
        /\ q = WordCount(n) /\ r < WordBytes
        /\ n + WordBytes - 1 = WordBytes * q + r
  <2>1. n + WordBytes - 1 \in Nat
    BY <1>1
  <2> QED BY <2>1, Division DEF WordCount
<1>3. WordBytes * p \in Nat /\ WordBytes * q \in Nat /\ WordBytes * (p + q) = WordBytes * p + WordBytes * q
  BY <1>1
<1>4. WordCount(WordBytes * p + n) = p + q
  <2>1. WordBytes * p + n + WordBytes - 1 = WordBytes * (p + q) + r
    BY <1>1, <1>2, <1>3
  <2>2. WordBytes * p + n + WordBytes - 1 \in Nat /\ p + q \in Nat
    BY <1>1, <1>3
  <2> QED BY <1>2, <2>1, <2>2, DivisionUnique DEF WordCount
<1>5. ASSUME NEW k \in 1..n PROVE (k - 1) \div WordBytes + 1 \in 1..q
  <2>1. PICK d \in Nat, m \in Nat :
          /\ d = (k - 1) \div WordBytes /\ m < WordBytes
          /\ k - 1 = WordBytes * d + m
    <3>1. k - 1 \in Nat
      OBVIOUS
    <3> QED BY <3>1, Division
  <2>2. d < q
    <3>1. CASE q <= d
      <4>1. WordBytes * q <= WordBytes * d /\ WordBytes * d \in Int
        <5>1. PICK z \in Nat : d = q + z
          <6>1. d - q \in Nat /\ d = q + (d - q)
            BY <3>1
          <6> QED BY <6>1
        <5>2. WordBytes * (q + z) = WordBytes * q + WordBytes * z /\ WordBytes * z \in Nat
          BY <1>1
        <5> QED BY <1>1, <1>3, <5>1, <5>2
      <4>2. k - 1 <= n - 1
        OBVIOUS
      <4> QED BY <1>1, <1>2, <1>3, <2>1, <4>1, <4>2
    <3> QED BY <3>1
  <2> QED BY <2>1, <2>2
<1>6. WordCount(0) = 0
  <2>1. WordBytes - 1 \in Nat /\ WordBytes - 1 = WordBytes * 0 + (WordBytes - 1) /\ 0 + WordBytes - 1 = WordBytes - 1
    BY <1>1
  <2> QED BY <1>1, <2>1, DivisionUnique DEF WordCount
<1> QED BY <1>2, <1>4, <1>5, <1>6

\* A byte behind whole words is in the word and at the place it would have
\* without them.
LEMMA BehindWords ==
  ASSUME NEW p \in Nat, NEW j \in Nat \ {0}
  PROVE  /\ (WordBytes * p + j - 1) \div WordBytes = p + (j - 1) \div WordBytes
         /\ (WordBytes * p + j - 1) % WordBytes = (j - 1) % WordBytes
<1>1. WordBytes \in Nat /\ WordBytes > 0
  BY ChunkAssumption
<1>2. PICK d \in Nat, m \in Nat :
        /\ d = (j - 1) \div WordBytes /\ m = (j - 1) % WordBytes /\ m < WordBytes
        /\ j - 1 = WordBytes * d + m
  <2>1. j - 1 \in Nat
    OBVIOUS
  <2> QED BY <2>1, Division
<1>3. WordBytes * p \in Nat /\ WordBytes * d \in Nat /\ WordBytes * (p + d) = WordBytes * p + WordBytes * d
  BY <1>1
<1>4. WordBytes * p + j - 1 = WordBytes * (p + d) + m /\ WordBytes * p + j - 1 \in Nat /\ p + d \in Nat
  BY <1>2, <1>3
<1> QED BY <1>2, <1>4, DivisionUnique

\* The words of the first n bytes of the buffer.
LEMMA WordsOfBuffer ==
  ASSUME NEW b \in [1..ChunkBytes -> Int], NEW n \in 0..ChunkBytes
  PROVE  /\ WordsOf(b, n) \in Words
         /\ Len(WordsOf(b, n)) = WordCount(n)
         /\ \A k \in 1..n :
              WordsOf(b, n)[(k - 1) \div WordBytes + 1][((k - 1) % WordBytes) + 1] = b[k]
<1>1. WordBytes \in Nat /\ WordBytes > 0 /\ ChunkBytes \in Nat
  BY ChunkAssumption
<1> DEFINE word(k) == SubSeq(b, WordBytes * (k - 1) + 1, WordBytes * k)
<1>2. WordCount(n) \in Nat
  BY WordCounts
<1>3. b \in Seq(Int) /\ Len(b) = ChunkBytes
  BY <1>1
<1>4. ASSUME NEW k \in 1..WordCount(n)
      PROVE  /\ word(k) \in Seq(Int)
             /\ \A i \in 1..WordBytes : word(k)[i] = b[WordBytes * (k - 1) + i]
  <2>1. PICK c \in Nat : ChunkBytes = WordBytes * c
    BY BufferSize
  <2>2. WordCount(n) <= c
    <3>1. PICK q \in Nat, r \in Nat :
            q = WordCount(n) /\ r < WordBytes /\ n + WordBytes - 1 = WordBytes * q + r
      <4>1. n + WordBytes - 1 \in Nat
        BY <1>1
      <4> QED BY <4>1, Division DEF WordCount
    <3>2. CASE q > c
      <4>1. PICK z \in Nat : q = c + 1 + z
        <5>1. q - c - 1 \in Nat /\ q = c + 1 + (q - c - 1)
          BY <3>2
        <5> QED BY <5>1
      <4>2. WordBytes * (c + 1 + z) = WordBytes * c + WordBytes + WordBytes * z
        BY <1>1
      <4>3. WordBytes * z \in Nat /\ n <= WordBytes * c /\ WordBytes * c \in Int
        BY <1>1, <2>1
      <4> QED BY <1>1, <3>1, <4>1, <4>2, <4>3
    <3> QED BY <3>1, <3>2
  <2>3. PICK z \in Nat : c = k + z
    <3>1. c - k \in Nat /\ c = k + (c - k)
      BY <1>2, <2>2
    <3> QED BY <3>1
  <2>4. /\ WordBytes * (k + z) = WordBytes * k + WordBytes * z
        /\ WordBytes * k = WordBytes * (k - 1) + WordBytes
        /\ WordBytes * k \in Nat /\ WordBytes * z \in Nat /\ WordBytes * (k - 1) \in Nat
    BY <1>1, <1>2
  <2>5. PICK l \in Nat, h \in Nat :
          l = WordBytes * (k - 1) /\ h = WordBytes * k /\ h <= ChunkBytes /\ h = l + WordBytes
    BY <2>1, <2>3, <2>4
  <2>6. word(k) = [i \in 1..WordBytes |-> b[l + i]]
    <3>1. word(k) = SubSeq(b, l + 1, h)
      BY <2>5
    <3>2. SubSeq(b, l + 1, h) = [i \in 1..(1 + h - (l + 1)) |-> b[i + (l + 1) - 1]]
      BY <1>1, <1>3, <2>5 DEF SubSeq
    <3>3. 1 + h - (l + 1) = WordBytes /\ \A i \in 1..WordBytes : i + (l + 1) - 1 = l + i
      BY <1>1, <2>5
    <3> QED BY <3>1, <3>2, <3>3
  <2>7. \A i \in 1..WordBytes : l + i \in 1..ChunkBytes
    BY <1>1, <2>5
  <2> QED BY <1>1, <2>5, <2>6, <2>7
<1>5. WordsOf(b, n) = [k \in 1..WordCount(n) |-> word(k)]
  BY DEF WordsOf, WordCount
<1> HIDE DEF word
<1>6. WordsOf(b, n) \in Words /\ Len(WordsOf(b, n)) = WordCount(n)
  BY <1>2, <1>4, <1>5 DEF Words
<1>7. ASSUME NEW k \in 1..n
      PROVE  WordsOf(b, n)[(k - 1) \div WordBytes + 1][((k - 1) % WordBytes) + 1] = b[k]
  <2>1. PICK d \in Nat, m \in Nat :
          /\ d = (k - 1) \div WordBytes /\ m = (k - 1) % WordBytes /\ m < WordBytes
          /\ k - 1 = WordBytes * d + m
    <3>1. k - 1 \in Nat
      OBVIOUS
    <3> QED BY <3>1, Division
  <2>2. n \in Nat
    BY <1>1
  <2>3. d + 1 \in 1..WordCount(n)
    BY <2>1, <2>2, WordCounts
  <2>4. m + 1 \in 1..WordBytes
    BY <1>1, <2>1
  <2>5. word(d + 1)[m + 1] = b[WordBytes * ((d + 1) - 1) + (m + 1)]
    BY <1>4, <2>3, <2>4
  <2>6. WordBytes * ((d + 1) - 1) + (m + 1) = k
    <3>1. (d + 1) - 1 = d
      OBVIOUS
    <3>2. PICK e \in Int : e = WordBytes * d
      BY <1>1
    <3>3. WordBytes * ((d + 1) - 1) = e
      BY <3>1, <3>2
    <3>4. k - 1 = e + m /\ k \in Int
      BY <2>1, <2>2, <3>2
    <3>5. e + (m + 1) = k
      BY <3>4
    <3> QED BY <3>3, <3>5
  <2> QED BY <1>5, <2>1, <2>3, <2>5, <2>6
<1> QED BY <1>6, <1>7

\* What Read appends to whole words of a file continues it.
LEMMA Continued ==
  ASSUME NEW ws \in Words, NEW p \in Nat, Len(ws) = p, HoldsFile(ws, WordBytes * p),
         NEW b \in [1..ChunkBytes -> Int], NEW n \in 0..ChunkBytes,
         \A k \in 1..n : b[k] = WordBytes * p + k - 1
  PROVE  /\ ws \o WordsOf(b, n) \in Words
         /\ Len(ws \o WordsOf(b, n)) = WordCount(WordBytes * p + n)
         /\ HoldsFile(ws \o WordsOf(b, n), WordBytes * p + n)
<1>1. WordBytes \in Nat /\ WordBytes > 0 /\ ChunkBytes \in Nat /\ n \in Nat /\ WordBytes * p \in Nat
  BY ChunkAssumption
<1> DEFINE new == WordsOf(b, n)
           all == ws \o new
<1>2. new \in Words /\ Len(new) = WordCount(n) /\ WordCount(n) \in Nat
  BY <1>1, WordsOfBuffer, WordCounts
<1> HIDE DEF new, all
<1>3. /\ all \in Words /\ Len(all) = p + WordCount(n)
      /\ \A i \in 1..p : all[i] = ws[i]
      /\ \A i \in 1..WordCount(n) : all[p + i] = new[i]
  <2>1. ws \in Seq(Seq(Int)) /\ new \in Seq(Seq(Int))
    BY <1>2 DEF Words
  <2>a. /\ all \in Seq(Seq(Int)) /\ Len(all) = Len(ws) + Len(new)
        /\ \A i \in 1..(Len(ws) + Len(new)) :
             all[i] = IF i <= Len(ws) THEN ws[i] ELSE new[i - Len(ws)]
    BY <2>1, ConcatProperties DEF all
  <2>2. all \in Seq(Seq(Int)) /\ Len(all) = p + WordCount(n)
    BY <1>2, <2>a
  <2>3. \A i \in 1..(p + WordCount(n)) : all[i] = IF i <= p THEN ws[i] ELSE new[i - p]
    BY <1>2, <2>a
  <2>4. \A i \in 1..p : all[i] = ws[i]
    BY <1>2, <2>3
  <2>5. ASSUME NEW i \in 1..WordCount(n) PROVE all[p + i] = new[i]
    <3>1. p + i \in 1..(p + WordCount(n)) /\ ~(p + i <= p) /\ (p + i) - p = i
      BY <1>2
    <3>2. all[p + i] = new[(p + i) - p]
      BY <2>3, <3>1
    <3> QED BY <3>1, <3>2
  <2> QED BY <2>2, <2>4, <2>5 DEF Words
<1>4. Len(all) = WordCount(WordBytes * p + n)
  BY <1>1, <1>3, WordCounts
<1>5. ASSUME NEW k \in 1..(WordBytes * p + n)
      PROVE  all[((k - 1) \div WordBytes) + 1][((k - 1) % WordBytes) + 1] = k - 1
  <2>1. CASE k <= WordBytes * p
    <3>1. k \in 1..(WordBytes * p)
      BY <1>1, <2>1
    <3>2. (k - 1) \div WordBytes + 1 \in 1..p
      <4>1. WordCount(WordBytes * p) = p
        <5>1. WordBytes * p + 0 = WordBytes * p /\ p + 0 = p
          BY <1>1
        <5> QED BY <5>1, WordCounts
      <4> QED BY <1>1, <3>1, <4>1, WordCounts
    <3> QED BY <1>3, <3>1, <3>2 DEF HoldsFile
  <2>2. CASE k > WordBytes * p
    <3>1. PICK j \in Nat \ {0} : k = WordBytes * p + j /\ j <= n
      <4>1. k - WordBytes * p \in Nat \ {0} /\ k = WordBytes * p + (k - WordBytes * p)
        BY <1>1, <2>2
      <4> QED BY <1>1, <4>1
    <3>2. /\ (k - 1) \div WordBytes = p + (j - 1) \div WordBytes
          /\ (k - 1) % WordBytes = (j - 1) % WordBytes
      <4>1. k - 1 = WordBytes * p + j - 1
        BY <1>1, <3>1
      <4>2. /\ (WordBytes * p + j - 1) \div WordBytes = p + (j - 1) \div WordBytes
            /\ (WordBytes * p + j - 1) % WordBytes = (j - 1) % WordBytes
        BY BehindWords
      <4> QED BY <4>1, <4>2
    <3>3. j \in 1..n
      BY <1>1, <3>1
    <3>4. PICK d \in Nat : d = (j - 1) \div WordBytes /\ d + 1 \in 1..WordCount(n)
      <4>1. j - 1 \in Nat
        BY <3>1
      <4>2. (j - 1) \div WordBytes + 1 \in 1..WordCount(n)
        BY <1>1, <3>3, WordCounts
      <4>3. (j - 1) \div WordBytes \in Nat
        BY <4>1, Division
      <4> QED BY <4>2, <4>3
    <3>5. all[p + (d + 1)] = new[d + 1] /\ (p + d) + 1 = p + (d + 1)
      <4>1. all[p + (d + 1)] = new[d + 1]
        BY <1>3, <3>4
      <4> QED BY <4>1
    <3>6. new[d + 1][((j - 1) % WordBytes) + 1] = b[j]
      BY <3>3, <3>4, WordsOfBuffer DEF new
    <3>7. b[j] = k - 1
      BY <1>1, <3>1, <3>3
    <3> QED BY <3>2, <3>4, <3>5, <3>6, <3>7
  <2>3. k \in Int /\ WordBytes * p \in Int
    BY <1>1
  <2> QED BY <2>1, <2>2, <2>3
<1> QED BY <1>3, <1>4, <1>5 DEF HoldsFile, WordCount, all, new

-----------------------------------------------------------------------------
LEMMA BootInitLoadInv == BootInit => LoadInv
<1> SUFFICES ASSUME BootInit PROVE LoadInv
  OBVIOUS
<1>1. BootTyped
  <2>1. buff \in [1..ChunkBytes -> Int]
    BY DEF BootInit, Empty
  <2>2. length \in [Files -> Nat]
    BY DEF BootInit
  <2> QED BY <2>1, <2>2 DEF BootInit, BootTyped, Files
<1>2. Deploying
  BY DEF BootInit, Init, Deploying, Words, Files
<1> QED BY <1>1, <1>2 DEF LoadInv, BootInit

\* A file of no bytes is loaded.
LEMMA NothingLoaded == HoldsFile(<<>>, 0) /\ WordBytes * Len(<<>>) = 0
  BY WordCounts, ChunkAssumption DEF HoldsFile, WordCount

\* When deploy_to_ram returns, the file it was called for is there, or failed is set.
LEMMA DeployedLoadInv ==
  ASSUME BootTyped, Deployed, failed' \in BOOLEAN, length' \in [Files -> Nat],
         UNCHANGED CEXEC, ~CEXEC,
         mem' \in [Files -> Words],
         file = "kernel" => mem'["fs"] = <<>>,
         ~failed' => /\ HoldsFile(mem'[file], length'[file])
                     /\ file = "fs" => HoldsFile(mem'["kernel"], length'["kernel"])
  PROVE  LoadInv'
<1>1. BootTyped'
  BY ChunkAssumption DEF BootTyped, Deployed, Empty, Files
<1>2. CASE file = "kernel"
  <2>1. at' = "open" /\ file' = "fs"
    BY <1>2 DEF Deployed
  <2>2. Deploying'
    BY <1>2, <2>1 DEF Deploying
  <2> QED BY <1>1, <2>1, <2>2 DEF LoadInv
<1>3. CASE file = "fs"
  <2>1. at' = "start"
    BY <1>3 DEF Deployed
  <2> QED BY <1>1, <1>3, <2>1 DEF LoadInv, Files
<1> QED BY <1>2, <1>3 DEF BootTyped, Files

LEMMA OpenLoadInv == LoadInv /\ Open => LoadInv'
<1> SUFFICES ASSUME LoadInv, Open PROVE LoadInv'
  OBVIOUS
<1>1. BootTyped /\ Deploying /\ mem' = mem /\ UNCHANGED CEXEC /\ mem[file] = <<>>
  BY DEF LoadInv, Open, vars, Deploying
<1>2. ASSUME NEW n \in Sizes, length' = [length EXCEPT ![file] = n], left' = n,
             at' = "read", UNCHANGED <<file, buff, failed>>
      PROVE  LoadInv'
  <2>1. n \in Nat
    BY ChunkAssumption
  <2>2. BootTyped'
    BY <1>1, <1>2, <2>1 DEF BootTyped
  <2>3. length'[file] = n /\ Position' = 0 /\ (file = "fs" => length'["kernel"] = length["kernel"])
    BY <1>1, <1>2, <2>1 DEF BootTyped, Position
  <2>4. Deploying'
    BY <1>1, <1>2, <2>1, <2>3, NothingLoaded DEF Deploying
  <2> QED BY <1>2, <2>2, <2>4 DEF LoadInv
<1>3. CASE failed' = TRUE /\ Deployed /\ UNCHANGED length
  BY <1>1, <1>3, DeployedLoadInv DEF BootTyped, Deploying
<1> QED BY <1>2, <1>3 DEF Open

LEMMA ReadLoadInv == LoadInv /\ Read => LoadInv'
<1> SUFFICES ASSUME LoadInv, Read PROVE LoadInv'
  OBVIOUS
<1> DEFINE full == IF left < ChunkBytes THEN left ELSE ChunkBytes
<1>1. /\ BootTyped /\ Deploying /\ UNCHANGED <<CEXEC, length>> /\ ~CEXEC
      /\ left \in Nat /\ left <= length[file] /\ Position \in Nat /\ file \in Files
      /\ length[file] \in Nat /\ ChunkBytes \in Nat /\ length[file] = Position + left
  BY ChunkAssumption DEF LoadInv, Read, vars, Deploying, BootTyped, Position
<1>2. PICK num \in 0..full :
        LET b == Filled(buff, Position, num) IN
        /\ failed' = (failed \/ num < full)
        /\ mem' = [mem EXCEPT ![file] = @ \o WordsOf(b, num)]
        /\ IF IsLast(num) THEN Deployed
           ELSE buff' = b /\ left' = left - num /\ UNCHANGED <<at, file>>
  BY DEF Read, Position
<1> DEFINE b == Filled(buff, Position, num)
<1>3. num \in 0..ChunkBytes /\ num \in Nat /\ num <= left
  BY <1>1, <1>2
<1>4. b \in [1..ChunkBytes -> Int] /\ \A k \in 1..num : b[k] = Position + k - 1
  BY <1>1, <1>3 DEF BootTyped, Filled
<1> HIDE DEF b
<1>5. WordsOf(b, num) \in Words
  BY <1>3, <1>4, WordsOfBuffer
<1>6. /\ mem' \in [Files -> Words] /\ mem'[file] = mem[file] \o WordsOf(b, num)
      /\ \A f \in Files \ {file} : mem'[f] = mem[f]
  <2>1. mem \in [Files -> Words] /\ mem[file] \o WordsOf(b, num) \in Words
    BY <1>1, <1>5, ConcatProperties DEF Deploying, Words
  <2> QED BY <1>1, <1>2, <2>1 DEF b
<1>7. ASSUME ~failed'
      PROVE  /\ num = full
             /\ HoldsFile(mem'[file], Position + num)
             /\ num = ChunkBytes => WordBytes * Len(mem'[file]) = Position + num
  <2>1. ~failed /\ num = full
    <3>1. ~failed /\ ~(num < full)
      BY <1>2, <1>7, Zenon
    <3>2. num <= full /\ full \in Nat
      BY <1>1, <1>2
    <3> QED BY <1>3, <3>1, <3>2
  <2>2. PICK p \in Nat : p = Len(mem[file]) /\ Position = WordBytes * p
    BY <1>1, <2>1 DEF Deploying, Words, Read
  <2>3. HoldsFile(mem[file], WordBytes * p) /\ mem[file] \in Words
    BY <1>1, <2>1, <2>2 DEF Deploying, Read
  <2>4. /\ HoldsFile(mem'[file], Position + num)
        /\ Len(mem'[file]) = WordCount(WordBytes * p + num)
    <3>1. \A k \in 1..num : b[k] = WordBytes * p + k - 1
      BY <1>4, <2>2
    <3>2. /\ HoldsFile(mem[file] \o WordsOf(b, num), WordBytes * p + num)
          /\ Len(mem[file] \o WordsOf(b, num)) = WordCount(WordBytes * p + num)
      BY <1>3, <1>4, <2>2, <2>3, <3>1, Continued
    <3> QED BY <1>6, <2>2, <3>2
  <2>5. CASE num = ChunkBytes
    <3>1. PICK c \in Nat : ChunkBytes = WordBytes * c
      BY BufferSize
    <3>2. WordBytes \in Nat /\ WordBytes * (p + c) = WordBytes * p + WordBytes * c
      BY ChunkAssumption
    <3>3. WordCount(WordBytes * (p + c)) = p + c
      <4>1. WordBytes * (p + c) + 0 = WordBytes * (p + c) /\ (p + c) + 0 = p + c /\ p + c \in Nat
        BY <3>2
      <4> QED BY <4>1, WordCounts
    <3> QED BY <2>1, <2>2, <2>4, <2>5, <3>1, <3>2, <3>3
  <2> QED BY <2>1, <2>4, <2>5
<1>8. file = "kernel" => mem'["fs"] = <<>>
  BY <1>1, <1>6 DEF Deploying, Files
<1>9. ~failed' /\ file = "fs" => HoldsFile(mem'["kernel"], length'["kernel"])
  BY <1>1, <1>2, <1>6 DEF Deploying, Files
<1>10. CASE IsLast(num)
  <2>1. ~failed' => num = left
    BY <1>1, <1>7, <1>10 DEF IsLast
  <2>2. failed' \in BOOLEAN /\ Deployed
    BY <1>2, <1>10 DEF BootTyped
  <2> QED BY <1>1, <1>6, <1>7, <1>8, <1>9, <2>1, <2>2, DeployedLoadInv DEF BootTyped
<1>11. CASE ~IsLast(num)
  <2>1. num = ChunkBytes
    BY <1>1, <1>3, <1>11 DEF IsLast
  <2>2. /\ buff' = b /\ left' = left - num /\ UNCHANGED <<at, file>> /\ at = "read"
        /\ failed' \in BOOLEAN
    BY <1>2, <1>11 DEF b, Read, BootTyped
  <2>3. BootTyped'
    BY <1>1, <1>4, <2>2 DEF BootTyped
  <2>4. left' \in Nat /\ left' <= length'[file'] /\ Position' = Position + num
    BY <1>1, <1>3, <2>2 DEF Position
  <2>5. Deploying'
    BY <1>1, <1>6, <1>7, <1>8, <1>9, <2>1, <2>2, <2>4 DEF Deploying
  <2> QED BY <2>2, <2>3, <2>5 DEF LoadInv
<1> QED BY <1>10, <1>11

\* From the start on the memory is the program's, or the core's.
LEMMA CircuitLoadInv ==
  ASSUME LoadInv, at \in {"start", "spin"},
         UNCHANGED <<file, buff>>, at' \in {"start", "spin"},
         \/ UNCHANGED <<mem, length, failed>>
         \/ mem' = Running /\ length' = [f \in Files |-> 0] /\ failed' = FALSE
  PROVE  LoadInv'
<1>1. BootTyped'
  <2>1. length' \in [Files -> Nat] /\ failed' \in BOOLEAN
    <3>1. CASE UNCHANGED <<mem, length, failed>>
      BY <3>1 DEF LoadInv, BootTyped
    <3>2. CASE length' = [f \in Files |-> 0] /\ failed' = FALSE
      <4>1. [f \in Files |-> 0] \in [Files -> Nat]
        OBVIOUS
      <4> QED BY <3>2, <4>1, Zenon
    <3> QED BY <3>1, <3>2
  <2> QED BY <2>1 DEF LoadInv, BootTyped
<1> QED BY <1>1 DEF LoadInv

\* Bytes are lost, doubled or out of place in no run: when CEXEC rises, both files
\* are in the memory as they were read, unless a call of the file system failed.
THEOREM BootLoadsFirst == BootSpec => []LoadedBeforeStart
<1>1. LoadInv /\ [BootNext]_bootVars => LoadInv'
  <2> SUFFICES ASSUME LoadInv, [BootNext]_bootVars PROVE LoadInv'
    OBVIOUS
  <2>1. CASE Open
    BY <2>1, OpenLoadInv
  <2>2. CASE Read
    BY <2>2, ReadLoadInv
  <2>3. CASE Start
    BY <2>3, CircuitLoadInv DEF Start
  <2>4. CASE Access
    <3>1. BootTyped' /\ at' = at /\ mem' = mem /\ mem = Running
      BY <2>4 DEF Access, boot, LoadInv, BootTyped
    <3>2. at \notin {"open", "read"}
      BY <3>1 DEF LoadInv, Deploying, Running, Files
    <3> QED BY <3>1, <3>2 DEF LoadInv
  <2>5. CASE Circuit(Edge) \/ Circuit(CoreEdge) \/ Circuit(AxiReset)
    <3>1. /\ at \in {"start", "spin"} /\ UNCHANGED <<at, file, left, buff>>
          /\ \/ UNCHANGED <<mem, length, failed>>
             \/ mem' = Running /\ length' = [f \in Files |-> 0] /\ failed' = FALSE
      BY <2>5 DEF Circuit
    <3> QED BY <3>1, CircuitLoadInv
  <2>6. CASE UNCHANGED bootVars
    BY <2>6 DEF bootVars, boot, vars, LoadInv, BootTyped, Deploying, Position
  <2> QED BY <2>1, <2>2, <2>3, <2>4, <2>5, <2>6 DEF BootNext
<1>2. LoadInv => LoadedBeforeStart
  BY DEF LoadInv, LoadedBeforeStart, BootTyped, Deploying
<1> QED BY <1>1, <1>2, BootInitLoadInv, PTL DEF BootSpec
=============================================================================
