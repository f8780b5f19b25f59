--------------------------- MODULE StartupProofs ---------------------------
(***************************************************************************)
(* The kernel is loaded whole from a disk that is as the loader counts it, *)
(* and kernel_main uses nothing before it is set up, whatever the size of  *)
(* the kernel, the length of the messages and the keys that are pressed    *)
(* meanwhile.                                                              *)
(***************************************************************************)
EXTENDS Startup, TLAPS

\* Time for the provers.
USE SMTT(20), ZenonT(20)

-----------------------------------------------------------------------------
(* The loader.                                                             *)

\* Sectors that are in the buffer, from its beginning.
Read == KERNEL_SECTORS - sectors_left

\* The number that stage 2 takes a cylinder, head and sector to be.
Position(c, h, s) == (c * HEADS + h) * SECTORS_PER_TRACK + s - 1

\* The disk is as stage 2 counts it.
AsCounted == disk = <<SECTORS_PER_TRACK, HEADS>>

\* The first n sectors of s are those of kernel.bin on drive 0x80.
HoldsKernel(s, n) ==
    AsCounted => \A i \in 0..(n - 1) : s[i] = Sector(HARD_DISK, 9 + i)

\* The destination and the position on the disk advance together: the next
\* sector to be read is the one that belongs at the next place.  After the last
\* read, which may end within a track, the position means nothing.
BootInv ==
    /\ BootTypeOK
    /\ DOMAIN buffer = 0..127 /\ DOMAIN image = 0..(BSS_END - 1)
    /\ pc \in {"read_loop", "reading"} =>
          /\ cur_sect >= 1
          /\ bx = 512 * Read
          /\ HoldsKernel(buffer, Read)
          /\ sectors_left > 0 => Position(cur_cyl, cur_head, cur_sect) = 9 + Read
    /\ pc = "reading" =>
          /\ sectors_left > 0
          /\ this_read \in {TrackRest, sectors_left}
          /\ this_read <= TrackRest /\ this_read <= sectors_left
          /\ done <= this_read
          /\ HoldsKernel(buffer, Read + done)
    /\ pc = "pm_entry" => HoldsKernel(buffer, KERNEL_SECTORS)
    /\ pc = "entry" => HoldsKernel(image, IMAGE_SECTORS)
    /\ pc = "kernel_main" =>
          /\ HoldsKernel(image, IMAGE_SECTORS)
          /\ \A i \in IMAGE_SECTORS..(BSS_END - 1) : image[i] = ZERO

-----------------------------------------------------------------------------
(* Tracks.                                                                 *)

\* Multiplication keeps the order.
LEMMA Times ==
    ASSUME NEW a \in Int, NEW b \in Int, NEW c \in Nat \ {0}
    PROVE  a <= b <=> a * c <= b * c
  OBVIOUS

\* The disk, and the kernel on it.
LEMMA Geometry ==
    /\ HEADS \in Nat /\ HEADS >= 1
    /\ SECTORS_PER_TRACK \in Nat /\ 10 <= SECTORS_PER_TRACK /\ SECTORS_PER_TRACK <= 63
    /\ KERNEL_SECTORS \in Nat /\ 1 <= KERNEL_SECTORS /\ KERNEL_SECTORS <= 127
    /\ IMAGE_SECTORS \in 1..KERNEL_SECTORS
    /\ BSS_END \in Nat /\ BSS_END >= IMAGE_SECTORS
<1>1. HEADS \in 1..255 /\ SECTORS_PER_TRACK \in 10..63
  BY BootAssumption
<1>2. /\ KERNEL_SECTORS \in 1..127 /\ IMAGE_SECTORS \in 1..KERNEL_SECTORS
      /\ BSS_END \in Nat /\ BSS_END >= IMAGE_SECTORS
  BY BootAssumption
<1> QED BY <1>1, <1>2

\* The number of a track, and of its first sector.
LEMMA Tracks ==
    ASSUME NEW c \in Nat, NEW h \in Nat
    PROVE  /\ c * HEADS + h \in Nat /\ c <= c * HEADS + h
           /\ (c * HEADS + h) * SECTORS_PER_TRACK \in Nat
           /\ 10 * c <= (c * HEADS + h) * SECTORS_PER_TRACK
<1> DEFINE n == c * HEADS + h
<1>1. HEADS \in Nat \ {0} /\ SECTORS_PER_TRACK \in Nat /\ SECTORS_PER_TRACK >= 10
  BY Geometry
<1>2. c * HEADS \in Nat /\ c * 1 <= c * HEADS
  BY <1>1
<1>3. n \in Nat /\ c <= n
  BY <1>2
<1> HIDE DEF n
<1>4. n * SECTORS_PER_TRACK \in Nat /\ n * 10 <= n * SECTORS_PER_TRACK
  BY <1>1, <1>3
<1>5. 10 * c <= n * SECTORS_PER_TRACK
  BY <1>3, <1>4
<1> QED BY <1>3, <1>4, <1>5 DEF n

\* The sector after the last of a track is the first of the next.
LEMMA TrackEnd ==
    ASSUME BootTypeOK, cur_sect >= 1, NextTrack, Position(cur_cyl, cur_head, cur_sect) <= 136
    PROVE  /\ cur_cyl' \in 0..255 /\ cur_head' \in 0..(HEADS - 1) /\ cur_sect' = 1
           /\ Position(cur_cyl', cur_head', cur_sect')
                = Position(cur_cyl, cur_head, cur_sect) + TrackRest
<1> DEFINE n == cur_cyl * HEADS + cur_head
           m == cur_cyl' * HEADS + cur_head'
<1>1. /\ cur_cyl \in Nat /\ cur_head \in Nat /\ cur_head <= HEADS - 1 /\ cur_sect \in Nat
      /\ HEADS \in Nat /\ HEADS >= 1 /\ SECTORS_PER_TRACK \in Nat
  <2>1. cur_cyl \in 0..255 /\ cur_head \in 0..HEADS - 1 /\ cur_sect \in 0..SECTORS_PER_TRACK
    BY DEF BootTypeOK
  <2> QED BY <2>1, Geometry
<1>2. n \in Nat /\ n * SECTORS_PER_TRACK \in Nat /\ 10 * cur_cyl <= n * SECTORS_PER_TRACK
  BY <1>1, Tracks
<1>3. n * SECTORS_PER_TRACK + cur_sect - 1 <= 136
  BY DEF Position
<1>4. cur_cyl <= 14
  BY <1>1, <1>2, <1>3
<1>5. /\ cur_sect' = 1
      /\ cur_head' = (IF cur_head + 1 < HEADS THEN cur_head + 1 ELSE 0)
      /\ cur_cyl' = (IF cur_head + 1 < HEADS THEN cur_cyl ELSE cur_cyl + 1)
  BY <1>1, <1>4 DEF NextTrack
<1>6. m = n + 1
  <2>1. (cur_cyl + 1) * HEADS = cur_cyl * HEADS + HEADS
    BY <1>1
  <2> QED BY <1>1, <1>5, <2>1
<1> HIDE DEF n, m
<1>7. m * SECTORS_PER_TRACK = n * SECTORS_PER_TRACK + SECTORS_PER_TRACK
  BY <1>1, <1>2, <1>6
<1>8. Position(cur_cyl', cur_head', cur_sect') = m * SECTORS_PER_TRACK
  <2>1. Position(cur_cyl', cur_head', cur_sect') = m * SECTORS_PER_TRACK + 1 - 1
    BY <1>5 DEF Position, m
  <2> QED BY <1>1, <1>2, <1>7, <2>1
<1>9. Position(cur_cyl, cur_head, cur_sect) = n * SECTORS_PER_TRACK + cur_sect - 1
  BY DEF Position, n
<1>10. cur_cyl' \in 0..255 /\ cur_head' \in 0..(HEADS - 1)
  BY <1>1, <1>4, <1>5
<1> QED BY <1>1, <1>2, <1>5, <1>7, <1>8, <1>9, <1>10 DEF TrackRest

\* As many sectors are read as the track and the kernel still have.
LEMMA ReadSize ==
    ASSUME BootTypeOK, cur_sect >= 1, sectors_left > 0
    PROVE  /\ ThisRead \in 0..SECTORS_PER_TRACK /\ ThisRead \in {TrackRest, sectors_left}
           /\ ThisRead <= TrackRest /\ ThisRead <= sectors_left
<1>1. /\ cur_sect \in Nat /\ cur_sect <= SECTORS_PER_TRACK /\ SECTORS_PER_TRACK \in Nat
      /\ SECTORS_PER_TRACK <= 63 /\ sectors_left \in Nat /\ 1 <= sectors_left /\ sectors_left <= 127
  <2>1. cur_sect \in 0..SECTORS_PER_TRACK /\ sectors_left \in 0..KERNEL_SECTORS
    BY DEF BootTypeOK
  <2> QED BY <2>1, Geometry
<1>2. TrackRest \in Nat /\ 1 <= TrackRest /\ TrackRest <= 63 /\ TrackRest <= SECTORS_PER_TRACK
  BY <1>1 DEF TrackRest
<1>3. sectors_left % 256 = sectors_left
  BY <1>1
<1>4. Signed(TrackRest) = TrackRest /\ Signed(sectors_left) = sectors_left
  BY <1>1, <1>2 DEF Signed
<1>5. ThisRead = IF TrackRest <= sectors_left THEN TrackRest ELSE sectors_left
  BY <1>3, <1>4 DEF ThisRead
<1> QED BY <1>1, <1>2, <1>5

\* A place in the buffer.
LEMMA BufferPlace ==
    ASSUME NEW n \in 0..127
    PROVE  /\ ((512 * n) % WORD) \div 512 = n /\ (512 * n) % WORD = 512 * n
           /\ 512 * n < WORD /\ n % WORD = n
  BY DEF WORD
-----------------------------------------------------------------------------
(* The loader keeps its invariant.                                         *)

\* At first there is nothing to be said of the buffer.
LEMMA InitBootInv == BootInit => BootInv
<1> SUFFICES ASSUME BootInit PROVE BootInv
  OBVIOUS
<1>1. BootTypeOK
  BY Geometry DEF BootInit, BootTypeOK, WORD
<1>2. DOMAIN buffer = 0..127 /\ DOMAIN image = 0..(BSS_END - 1) /\ pc = "stage1"
  BY DEF BootInit
<1> QED BY <1>1, <1>2 DEF BootInv

\* Stage 1, and the start of stage 2.
LEMMA StageStep == BootInv /\ (stage1 \/ start \/ ReadFails) => BootInv'
<1> SUFFICES ASSUME BootInv, stage1 \/ start \/ ReadFails PROVE BootInv'
  OBVIOUS
<1>0. BootTypeOK /\ DOMAIN buffer = 0..127 /\ DOMAIN image = 0..(BSS_END - 1)
  BY DEF BootInv
<1>1. CASE stage1
  <2>1. pc' \in {"start", "disk_error"} /\ UNCHANGED <<buffer, image>>
    BY <1>1 DEF stage1
  <2>2. BootTypeOK'
    BY <1>0, <1>1 DEF stage1, chs, BootTypeOK
  <2> QED BY <1>0, <2>1, <2>2 DEF BootInv
<1>2. CASE start
  <2>1. /\ pc' = "read_loop" /\ UNCHANGED <<buffer, image>>
        /\ cur_head' = 0 /\ cur_cyl' = 0 /\ cur_sect' = 10
        /\ sectors_left' = KERNEL_SECTORS /\ bx' = 0 /\ UNCHANGED <<drive, disk, this_read, done>>
    BY <1>2 DEF start
  <2>2. BootTypeOK'
    BY <1>0, <2>1, Geometry DEF BootTypeOK, WORD
  <2>3. Position(cur_cyl, cur_head, cur_sect)' = 9
    <3>1. (0 * HEADS + 0) * SECTORS_PER_TRACK = 0
      BY Geometry
    <3> QED BY <2>1, <3>1 DEF Position
  <2>4. Read' = 0
    BY <2>1, Geometry DEF Read
  <2>5. HoldsKernel(buffer, Read)'
    BY <2>4 DEF HoldsKernel
  <2> QED BY <1>0, <2>1, <2>2, <2>3, <2>4, <2>5 DEF BootInv
<1>3. CASE ReadFails
  <2>1. pc' = "disk_error" /\ UNCHANGED <<buffer, image>>
    BY <1>3 DEF ReadFails
  <2>2. BootTypeOK'
    BY <1>0, <1>3 DEF ReadFails, chs, BootTypeOK
  <2> QED BY <1>0, <2>1, <2>2 DEF BootInv
<1> QED BY <1>1, <1>2, <1>3

\* The next read goes as far as the track or the kernel.
LEMMA LoopStep == BootInv /\ read_loop => BootInv'
<1> SUFFICES ASSUME BootInv, read_loop PROVE BootInv'
  OBVIOUS
<1>0. /\ BootTypeOK /\ DOMAIN buffer = 0..127 /\ DOMAIN image = 0..(BSS_END - 1)
      /\ pc = "read_loop" /\ cur_sect >= 1 /\ bx = 512 * Read /\ HoldsKernel(buffer, Read)
      /\ sectors_left > 0 => Position(cur_cyl, cur_head, cur_sect) = 9 + Read
  BY DEF BootInv, read_loop
<1>1. UNCHANGED <<drive, disk, chs, sectors_left, bx, buffer, image>>
  BY DEF read_loop
<1>2. /\ cur_cyl' = cur_cyl /\ cur_head' = cur_head /\ cur_sect' = cur_sect
      /\ Read' = Read /\ TrackRest' = TrackRest /\ AsCounted' = AsCounted
  BY <1>1 DEF chs, Read, TrackRest, AsCounted
<1>3. sectors_left \in Nat /\ Read \in Nat /\ KERNEL_SECTORS \in Nat
  BY <1>0, Geometry DEF BootTypeOK, Read
<1>4. CASE sectors_left = 0
  <2>1. pc' = "pm_entry" /\ UNCHANGED <<this_read, done>>
    BY <1>4 DEF read_loop
  <2>2. BootTypeOK'
    BY <1>0, <1>1, <1>2, <2>1 DEF BootTypeOK
  <2>3. HoldsKernel(buffer, KERNEL_SECTORS)'
    BY <1>0, <1>1, <1>2, <1>3, <1>4, Geometry DEF HoldsKernel, Read
  <2> QED BY <1>0, <1>1, <2>1, <2>2, <2>3 DEF BootInv
<1>5. CASE sectors_left # 0
  <2>1. pc' = "reading" /\ this_read' = ThisRead /\ done' = 0
    BY <1>5 DEF read_loop
  <2>2. sectors_left > 0
    BY <1>3, <1>5
  <2>3. /\ ThisRead \in 0..SECTORS_PER_TRACK /\ ThisRead \in {TrackRest, sectors_left}
        /\ ThisRead <= TrackRest /\ ThisRead <= sectors_left
    BY <1>0, <2>2, ReadSize
  <2>4. BootTypeOK'
    BY <1>0, <1>1, <1>2, <1>3, <2>1, <2>3 DEF BootTypeOK
  <2>5. HoldsKernel(buffer, Read)' /\ HoldsKernel(buffer, Read + done)'
    BY <1>0, <1>1, <1>2, <1>3, <2>1 DEF HoldsKernel
  <2>6. done' <= this_read'
    BY <2>1, <2>3
  <2>7. Position(cur_cyl, cur_head, cur_sect)' = 9 + Read'
    BY <1>0, <1>2, <2>2 DEF Position
  <2> QED BY <1>0, <1>1, <1>2, <2>1, <2>2, <2>3, <2>4, <2>5, <2>6, <2>7 DEF BootInv
<1> QED BY <1>4, <1>5

\* A sector goes to the place after those that are read.
LEMMA TransferStep == BootInv /\ Transfer => BootInv'
<1> SUFFICES ASSUME BootInv, Transfer PROVE BootInv'
  OBVIOUS
<1>0. /\ BootTypeOK /\ DOMAIN buffer = 0..127 /\ DOMAIN image = 0..(BSS_END - 1)
      /\ pc = "reading" /\ cur_sect >= 1 /\ bx = 512 * Read /\ HoldsKernel(buffer, Read)
      /\ sectors_left > 0 /\ Position(cur_cyl, cur_head, cur_sect) = 9 + Read
      /\ this_read \in {TrackRest, sectors_left}
      /\ this_read <= TrackRest /\ this_read <= sectors_left
      /\ done < this_read /\ HoldsKernel(buffer, Read + done)
  BY DEF BootInv, Transfer
<1>1. /\ UNCHANGED <<pc, drive, disk, chs, this_read, sectors_left, bx, image>>
      /\ done' = done + 1
      /\ buffer' = [buffer EXCEPT ![((bx + done * 512) % WORD) \div 512] =
                      Sector(HARD_DISK, Lba(cur_cyl, cur_head, cur_sect + done))]
  BY DEF Transfer
<1>2. /\ pc' = pc /\ drive' = drive /\ disk' = disk
      /\ this_read' = this_read /\ sectors_left' = sectors_left
      /\ bx' = bx /\ image' = image
      /\ cur_cyl' = cur_cyl /\ cur_head' = cur_head /\ cur_sect' = cur_sect
      /\ Read' = Read /\ TrackRest' = TrackRest /\ AsCounted' = AsCounted
  BY <1>1 DEF chs, Read, TrackRest, AsCounted
<1>3. /\ sectors_left \in Nat /\ sectors_left <= KERNEL_SECTORS /\ this_read \in Nat
      /\ cur_cyl \in Nat /\ cur_head \in Nat /\ cur_sect \in Nat /\ done \in Nat
      /\ KERNEL_SECTORS \in Nat /\ 1 <= KERNEL_SECTORS /\ KERNEL_SECTORS <= 127
  BY <1>0, Geometry DEF BootTypeOK
<1>4. Read \in Nat /\ Read + done \in 0..126 /\ done + 1 <= KERNEL_SECTORS
  BY <1>0, <1>3 DEF Read
<1> DEFINE k == Read + done
<1>5. ((bx + done * 512) % WORD) \div 512 = k
  <2>1. bx + done * 512 = 512 * k
    BY <1>0, <1>3, <1>4
  <2>2. k \in 0..127
    BY <1>4
  <2> HIDE DEF k
  <2> QED BY <2>1, <2>2, BufferPlace
<1>6. AsCounted => Lba(cur_cyl, cur_head, cur_sect + done) = 9 + k
  <2>1. (cur_cyl * HEADS + cur_head) * SECTORS_PER_TRACK \in Nat
    BY <1>3, Tracks
  <2>2. Position(cur_cyl, cur_head, cur_sect + done) = 9 + k
    BY <1>0, <1>3, <1>4, <2>1 DEF Position
  <2>3. ASSUME AsCounted
        PROVE  Lba(cur_cyl, cur_head, cur_sect + done)
                 = Position(cur_cyl, cur_head, cur_sect + done)
    <3>1. disk[1] = SECTORS_PER_TRACK /\ disk[2] = HEADS
      BY <2>3 DEF AsCounted
    <3> QED BY Zenon, <3>1 DEF Lba, Position
  <2> QED BY <2>2, <2>3
<1>7. /\ DOMAIN buffer' = 0..127
      /\ AsCounted => buffer'[k] = Sector(HARD_DISK, 9 + k)
      /\ \A i \in 0..(k - 1) : buffer'[i] = buffer[i]
  <2> DEFINE v == Sector(HARD_DISK, Lba(cur_cyl, cur_head, cur_sect + done))
  <2>1. buffer' = [buffer EXCEPT ![k] = v]
    BY <1>1, <1>5, ZenonT(30)
  <2>2. AsCounted => v = Sector(HARD_DISK, 9 + k)
    BY Zenon, <1>6
  <2>3. k \in 0..127
    BY <1>4
  <2> HIDE DEF k, v
  <2> QED BY <1>0, <2>1, <2>2, <2>3
<1>8. HoldsKernel(buffer, Read + done)' /\ HoldsKernel(buffer, Read)'
  <2> SUFFICES ASSUME AsCounted
               PROVE  /\ \A i \in 0..((Read + done)' - 1) : buffer'[i] = Sector(HARD_DISK, 9 + i)
                      /\ \A i \in 0..(Read' - 1) : buffer'[i] = Sector(HARD_DISK, 9 + i)
    BY Zenon, <1>2 DEF HoldsKernel
  <2>1. \A i \in 0..k : buffer'[i] = Sector(HARD_DISK, 9 + i)
    <3>1. \A i \in 0..(k - 1) : buffer[i] = Sector(HARD_DISK, 9 + i)
      BY Zenon, <1>0 DEF HoldsKernel
    <3>2. k \in Nat
      BY <1>4
    <3> HIDE DEF k
    <3> QED BY <1>7, <3>1, <3>2
  <2>2. (Read + done)' - 1 = k
    BY <1>1, <1>2, <1>3, <1>4
  <2>3. \A i \in 0..(Read' - 1) : i \in 0..k
    BY <1>2, <1>3, <1>4
  <2> QED BY Zenon, <2>1, <2>2, <2>3
<1>9. BootTypeOK'
  <2>1. done' \in 0..KERNEL_SECTORS
    BY <1>1, <1>3, <1>4
  <2> QED BY <1>0, <1>2, <2>1 DEF BootTypeOK
<1>10. done' <= this_read' /\ Position(cur_cyl, cur_head, cur_sect)' = 9 + Read'
  BY <1>0, <1>1, <1>2, <1>3 DEF Position
<1> QED BY <1>0, <1>2, <1>7, <1>8, <1>9, <1>10 DEF BootInv

\* A read that is complete ends at the end of its track, or is the last.
LEMMA AdvanceStep == BootInv /\ Advance => BootInv'
<1> SUFFICES ASSUME BootInv, Advance PROVE BootInv'
  OBVIOUS
<1>0. /\ BootTypeOK /\ DOMAIN buffer = 0..127 /\ DOMAIN image = 0..(BSS_END - 1)
      /\ cur_sect >= 1 /\ bx = 512 * Read
      /\ sectors_left > 0 /\ Position(cur_cyl, cur_head, cur_sect) = 9 + Read
      /\ this_read \in {TrackRest, sectors_left} /\ this_read <= sectors_left
      /\ done = this_read /\ HoldsKernel(buffer, Read + done)
  BY DEF BootInv, Advance
<1>1. /\ bx' = (bx + this_read * 512) % WORD
      /\ sectors_left' = (sectors_left - this_read) % WORD
      /\ pc' = "read_loop" /\ NextTrack
      /\ UNCHANGED <<drive, disk, this_read, done, buffer, image>>
  BY DEF Advance
<1>2. /\ sectors_left \in Nat /\ sectors_left <= KERNEL_SECTORS /\ this_read \in Nat
      /\ KERNEL_SECTORS \in Nat /\ 1 <= KERNEL_SECTORS /\ KERNEL_SECTORS <= 127
  BY <1>0, Geometry DEF BootTypeOK
<1>3. Read \in Nat /\ Read <= 126
  BY <1>0, <1>2 DEF Read
<1>4. sectors_left' = sectors_left - this_read
  <2>1. sectors_left - this_read \in 0..127
    BY <1>0, <1>2
  <2> QED BY <1>1, <2>1, BufferPlace
<1>5. Read' = Read + this_read /\ Read' \in 0..127
  BY <1>0, <1>2, <1>3, <1>4 DEF Read
<1>6. bx' = 512 * Read'
  <2>1. bx + this_read * 512 = 512 * Read'
    BY <1>0, <1>2, <1>3, <1>5
  <2> QED BY <1>1, <1>5, <2>1, BufferPlace
<1>7. /\ cur_cyl' \in 0..255 /\ cur_head' \in 0..(HEADS - 1) /\ cur_sect' = 1
      /\ Position(cur_cyl', cur_head', cur_sect') = 9 + Read + TrackRest
  <2>1. Position(cur_cyl, cur_head, cur_sect) <= 136
    BY <1>0, <1>3
  <2> QED BY <1>0, <1>1, <2>1, TrackEnd
<1>8. sectors_left' > 0 => Position(cur_cyl, cur_head, cur_sect)' = 9 + Read'
  <2>1. sectors_left' > 0 => this_read = TrackRest
    BY <1>0, <1>2, <1>4
  <2>2. Position(cur_cyl, cur_head, cur_sect)' = Position(cur_cyl', cur_head', cur_sect')
    BY DEF Position
  <2> QED BY <1>2, <1>3, <1>5, <1>7, <2>1, <2>2
<1>9. HoldsKernel(buffer, Read)'
  <2>1. buffer' = buffer /\ Read' = Read + done /\ AsCounted' = AsCounted
    BY <1>0, <1>1, <1>5, Zenon DEF AsCounted
  <2> QED BY Zenon, <1>0, <2>1 DEF HoldsKernel
<1>10. BootTypeOK'
  <2>1. bx' \in Nat /\ bx' < WORD
    BY <1>5, <1>6, BufferPlace
  <2>2. sectors_left' \in 0..KERNEL_SECTORS
    BY <1>0, <1>2, <1>4
  <2>3. cur_sect' \in 0..SECTORS_PER_TRACK
    BY <1>7, Geometry
  <2>4. pc' = "read_loop" /\ UNCHANGED <<drive, disk, this_read, done>>
    BY <1>1, Zenon
  <2> QED BY <1>0, <1>7, <2>1, <2>2, <2>3, <2>4 DEF BootTypeOK
<1> QED BY <1>0, <1>1, <1>6, <1>7, <1>8, <1>9, <1>10 DEF BootInv

\* The copy to 1 MB and the zeros of .bss.
LEMMA CopyStep == BootInv /\ (pm_entry \/ _start) => BootInv'
<1> SUFFICES ASSUME BootInv, pm_entry \/ _start PROVE BootInv'
  OBVIOUS
<1>0. /\ BootTypeOK /\ DOMAIN buffer = 0..127 /\ DOMAIN image = 0..(BSS_END - 1)
      /\ KERNEL_SECTORS \in Nat /\ 1 <= KERNEL_SECTORS /\ KERNEL_SECTORS <= 127
      /\ IMAGE_SECTORS \in 1..KERNEL_SECTORS
      /\ BSS_END \in Nat /\ BSS_END >= IMAGE_SECTORS
  BY Geometry DEF BootInv
<1>1. CASE pm_entry
  <2>1. /\ HoldsKernel(buffer, KERNEL_SECTORS) /\ pc' = "entry" /\ UNCHANGED <<buffer, disk>>
        /\ image' = [i \in DOMAIN image |->
                       IF i < KERNEL_SECTORS THEN buffer[i] ELSE image[i]]
    BY <1>1 DEF BootInv, pm_entry
  <2>2. BootTypeOK'
    BY <1>0, <1>1 DEF pm_entry, chs, BootTypeOK
  <2>3. DOMAIN image' = 0..(BSS_END - 1) /\ HoldsKernel(image', IMAGE_SECTORS)
    BY <1>0, <2>1 DEF HoldsKernel
  <2> QED BY ZenonT(30), <1>0, <2>1, <2>2, <2>3 DEF BootInv, HoldsKernel, AsCounted
<1>2. CASE _start
  <2>1. /\ HoldsKernel(image, IMAGE_SECTORS) /\ pc' = "kernel_main" /\ UNCHANGED <<buffer, disk>>
        /\ image' = [i \in DOMAIN image |-> IF i < IMAGE_SECTORS THEN image[i] ELSE ZERO]
    BY <1>2 DEF BootInv, _start
  <2>2. BootTypeOK'
    BY <1>0, <1>2 DEF _start, chs, BootTypeOK
  <2>3. /\ DOMAIN image' = 0..(BSS_END - 1) /\ HoldsKernel(image', IMAGE_SECTORS)
        /\ \A i \in IMAGE_SECTORS..(BSS_END - 1) : image'[i] = ZERO
    BY <1>0, <2>1 DEF HoldsKernel
  <2> QED BY <1>0, <2>1, <2>2, <2>3 DEF BootInv, HoldsKernel, AsCounted
<1> QED BY <1>1, <1>2

\* Every step of the loader keeps the invariant.
LEMMA LoaderStep == BootInv /\ (Loader \/ UNCHANGED bootVars) => BootInv'
<1>1. BootInv /\ UNCHANGED bootVars => BootInv'
  <2> SUFFICES ASSUME BootInv, UNCHANGED bootVars PROVE BootInv'
    BY Zenon
  <2>1. UNCHANGED <<pc, drive, disk, cur_cyl, cur_head, cur_sect, this_read, sectors_left, bx,
                    done, buffer, image>>
    BY Zenon DEF bootVars
  <2>2. BootTypeOK'
    <3>1. BootTypeOK
      BY Zenon DEF BootInv
    <3> QED BY ONLY <2>1, <3>1 DEF BootTypeOK
  <2>3. Read' = Read /\ TrackRest' = TrackRest
    BY Zenon, <2>1 DEF Read, TrackRest
  <2> QED BY ZenonT(30), <2>1, <2>2, <2>3 DEF BootInv, HoldsKernel, AsCounted, Position
<1> QED BY <1>1, StageStep, LoopStep, TransferStep, AdvanceStep, CopyStep DEF Loader

-----------------------------------------------------------------------------
(* The order of things.                                                    *)

STEPS ==
    {"message", "scheduler_init", "gdt_init", "hal_cpu_init", "pic_init", "idt_init",
     "tss_init", "page_tables", "vmm_switch_directory", "vmm_enable_paging",
     "hal_timer_init", "hal_serial_init", "enable", "ask", "read", "write", "data", "scan",
     "dma_init", "pic_enable_irq0", "pic_enable_irq1", "sti", "kmalloc_init",
     "hal_set_timer_frequency", "commands", "run_command_interpreter"}

\* Concatenation.
LEMMA Concat ==
    ASSUME NEW s \in Seq(STEPS), NEW t \in Seq(STEPS)
    PROVE  /\ s \o t \in Seq(STEPS) /\ Len(s \o t) = Len(s) + Len(t)
           /\ \A i \in 1..Len(s) : (s \o t)[i] = s[i]
           /\ \A i \in 1..Len(t) : (s \o t)[Len(s) + i] = t[i]
  OBVIOUS

\* hal_init, step by step.
LEMMA HalInit ==
    /\ hal_init \in Seq(STEPS) /\ Len(hal_init) = 23
    /\ hal_init[1] = "gdt_init" /\ hal_init[2] = "hal_cpu_init" /\ hal_init[3] = "pic_init"
    /\ hal_init[4] = "idt_init" /\ hal_init[5] = "tss_init" /\ hal_init[6] = "page_tables"
    /\ hal_init[7] = "message" /\ hal_init[8] = "vmm_switch_directory"
    /\ hal_init[9] = "message" /\ hal_init[10] = "vmm_enable_paging"
    /\ hal_init[11] = "message" /\ hal_init[12] = "hal_timer_init"
    /\ hal_init[13] = "hal_serial_init" /\ hal_init[14] = "enable" /\ hal_init[15] = "ask"
    /\ hal_init[16] = "read" /\ hal_init[17] = "write" /\ hal_init[18] = "data"
    /\ hal_init[19] = "scan" /\ hal_init[20] = "dma_init"
    /\ hal_init[21] = "pic_enable_irq0" /\ hal_init[22] = "pic_enable_irq1"
    /\ hal_init[23] = "sti"
<1> DEFINE a == <<"gdt_init", "hal_cpu_init">>
           b == <<"tss_init">>
           c == <<"hal_timer_init", "hal_serial_init">>
           d == <<"dma_init", "pic_enable_irq0", "pic_enable_irq1", "sti">>
           p1 == a \o hal_interrupt_init
           p2 == p1 \o b
           p3 == p2 \o vmm_init
           p4 == p3 \o c
           p5 == p4 \o hal_keyboard_init
           p6 == p5 \o d
<1>1. /\ a \in Seq(STEPS) /\ Len(a) = 2 /\ a[1] = "gdt_init" /\ a[2] = "hal_cpu_init"
      /\ b \in Seq(STEPS) /\ Len(b) = 1 /\ b[1] = "tss_init"
      /\ c \in Seq(STEPS) /\ Len(c) = 2 /\ c[1] = "hal_timer_init"
      /\ c[2] = "hal_serial_init"
  BY DEF STEPS
<1>2. /\ d \in Seq(STEPS) /\ Len(d) = 4 /\ d[1] = "dma_init" /\ d[2] = "pic_enable_irq0"
      /\ d[3] = "pic_enable_irq1" /\ d[4] = "sti"
  BY DEF STEPS
<1>3. /\ hal_interrupt_init \in Seq(STEPS) /\ Len(hal_interrupt_init) = 2
      /\ hal_interrupt_init[1] = "pic_init" /\ hal_interrupt_init[2] = "idt_init"
  BY DEF STEPS, hal_interrupt_init
<1>4. /\ vmm_init \in Seq(STEPS) /\ Len(vmm_init) = 6
      /\ vmm_init[1] = "page_tables" /\ vmm_init[2] = "message"
      /\ vmm_init[3] = "vmm_switch_directory" /\ vmm_init[4] = "message"
      /\ vmm_init[5] = "vmm_enable_paging" /\ vmm_init[6] = "message"
  BY DEF STEPS, vmm_init
<1>5. /\ hal_keyboard_init \in Seq(STEPS) /\ Len(hal_keyboard_init) = 6
      /\ hal_keyboard_init[1] = "enable" /\ hal_keyboard_init[2] = "ask"
      /\ hal_keyboard_init[3] = "read" /\ hal_keyboard_init[4] = "write"
      /\ hal_keyboard_init[5] = "data" /\ hal_keyboard_init[6] = "scan"
  BY DEF STEPS, hal_keyboard_init
<1>6. hal_init = p6
  BY DEF hal_init
<1> HIDE DEF a, b, c, d
<1>sa. a \in Seq(STEPS) /\ Len(a) = 2
  BY <1>1
<1>sb. b \in Seq(STEPS) /\ Len(b) = 1
  BY <1>1
<1>sc. c \in Seq(STEPS) /\ Len(c) = 2
  BY <1>1
<1>sd. d \in Seq(STEPS) /\ Len(d) = 4
  BY <1>2
<1>si. hal_interrupt_init \in Seq(STEPS) /\ Len(hal_interrupt_init) = 2
  BY <1>3
<1>sv. vmm_init \in Seq(STEPS) /\ Len(vmm_init) = 6
  BY <1>4
<1>sk. hal_keyboard_init \in Seq(STEPS) /\ Len(hal_keyboard_init) = 6
  BY <1>5
<1>7. /\ p1 \in Seq(STEPS) /\ Len(p1) = Len(a) + Len(hal_interrupt_init)
      /\ \A i \in 1..Len(a) : p1[i] = a[i]
      /\ \A i \in 1..Len(hal_interrupt_init) : p1[Len(a) + i] = hal_interrupt_init[i]
  BY <1>sa, <1>si, Concat, Zenon
<1> HIDE DEF p1
<1>7t. p1 \in Seq(STEPS) /\ Len(p1) = 4
  BY <1>7, <1>sa, <1>si
<1>7l. \A i \in 1..2 : p1[i] = a[i]
  BY <1>7, <1>sa
<1>7r. \A i \in 1..2 : p1[2 + i] = hal_interrupt_init[i]
  BY <1>7, <1>sa, <1>si
<1>8. /\ p2 \in Seq(STEPS) /\ Len(p2) = Len(p1) + Len(b)
      /\ \A i \in 1..Len(p1) : p2[i] = p1[i]
      /\ \A i \in 1..Len(b) : p2[Len(p1) + i] = b[i]
  BY <1>7t, <1>sb, Concat, Zenon
<1> HIDE DEF p2
<1>8t. p2 \in Seq(STEPS) /\ Len(p2) = 5
  BY <1>8, <1>7t, <1>sb
<1>8l. \A i \in 1..4 : p2[i] = p1[i]
  BY <1>8, <1>7t
<1>8r. \A i \in 1..1 : p2[4 + i] = b[i]
  BY <1>8, <1>7t, <1>sb
<1>9. /\ p3 \in Seq(STEPS) /\ Len(p3) = Len(p2) + Len(vmm_init)
      /\ \A i \in 1..Len(p2) : p3[i] = p2[i]
      /\ \A i \in 1..Len(vmm_init) : p3[Len(p2) + i] = vmm_init[i]
  BY <1>8t, <1>sv, Concat, Zenon
<1> HIDE DEF p3
<1>9t. p3 \in Seq(STEPS) /\ Len(p3) = 11
  BY <1>9, <1>8t, <1>sv
<1>9l. \A i \in 1..5 : p3[i] = p2[i]
  BY <1>9, <1>8t
<1>9r. \A i \in 1..6 : p3[5 + i] = vmm_init[i]
  BY <1>9, <1>8t, <1>sv
<1>10. /\ p4 \in Seq(STEPS) /\ Len(p4) = Len(p3) + Len(c)
       /\ \A i \in 1..Len(p3) : p4[i] = p3[i]
       /\ \A i \in 1..Len(c) : p4[Len(p3) + i] = c[i]
  BY <1>9t, <1>sc, Concat, Zenon
<1> HIDE DEF p4
<1>10t. p4 \in Seq(STEPS) /\ Len(p4) = 13
  BY <1>10, <1>9t, <1>sc
<1>10l. \A i \in 1..11 : p4[i] = p3[i]
  BY <1>10, <1>9t
<1>10r. \A i \in 1..2 : p4[11 + i] = c[i]
  BY <1>10, <1>9t, <1>sc
<1>11. /\ p5 \in Seq(STEPS) /\ Len(p5) = Len(p4) + Len(hal_keyboard_init)
       /\ \A i \in 1..Len(p4) : p5[i] = p4[i]
       /\ \A i \in 1..Len(hal_keyboard_init) : p5[Len(p4) + i] = hal_keyboard_init[i]
  BY <1>10t, <1>sk, Concat, Zenon
<1> HIDE DEF p5
<1>11t. p5 \in Seq(STEPS) /\ Len(p5) = 19
  BY <1>11, <1>10t, <1>sk
<1>11l. \A i \in 1..13 : p5[i] = p4[i]
  BY <1>11, <1>10t
<1>11r. \A i \in 1..6 : p5[13 + i] = hal_keyboard_init[i]
  BY Zenon, <1>11, <1>10t, <1>sk
<1>12. /\ p6 \in Seq(STEPS) /\ Len(p6) = Len(p5) + Len(d)
       /\ \A i \in 1..Len(p5) : p6[i] = p5[i]
       /\ \A i \in 1..Len(d) : p6[Len(p5) + i] = d[i]
  BY <1>11t, <1>sd, Concat, Zenon
<1> HIDE DEF p6
<1>12t. p6 \in Seq(STEPS) /\ Len(p6) = 23
  BY <1>12, <1>11t, <1>sd
<1>12l. \A i \in 1..19 : p6[i] = p5[i]
  BY Zenon, <1>12, <1>11t
<1>12r. \A i \in 1..4 : p6[19 + i] = d[i]
  BY Zenon, <1>12, <1>11t, <1>sd
<1>13. \A i \in 1..4 : p6[i] = p1[i]
  BY <1>8l, <1>9l, <1>10l, <1>11l, <1>12l
<1>14. \A i \in 1..6 : p6[5 + i] = vmm_init[i]
  BY <1>9r, <1>10l, <1>11l, <1>12l
<1>15. \A i \in 1..6 : p6[13 + i] = hal_keyboard_init[i]
  BY <1>11r, <1>12l
<1>16. /\ p6[1] = a[1] /\ p6[2] = a[2] /\ p6[3] = hal_interrupt_init[1]
       /\ p6[4] = hal_interrupt_init[2] /\ p6[5] = b[1]
  <2>1. p6[5] = b[1]
    BY <1>8r, <1>9l, <1>10l, <1>11l, <1>12l
  <2> QED BY <1>7l, <1>7r, <1>13, <2>1
<1>17. /\ p6[6] = vmm_init[1] /\ p6[7] = vmm_init[2] /\ p6[8] = vmm_init[3]
       /\ p6[9] = vmm_init[4] /\ p6[10] = vmm_init[5] /\ p6[11] = vmm_init[6]
  BY <1>14
<1>18. p6[12] = c[1] /\ p6[13] = c[2]
  BY <1>10r, <1>11l, <1>12l
<1>19. /\ p6[14] = hal_keyboard_init[1] /\ p6[15] = hal_keyboard_init[2]
       /\ p6[16] = hal_keyboard_init[3] /\ p6[17] = hal_keyboard_init[4]
       /\ p6[18] = hal_keyboard_init[5] /\ p6[19] = hal_keyboard_init[6]
  BY <1>15
<1>20. p6[20] = d[1] /\ p6[21] = d[2] /\ p6[22] = d[3] /\ p6[23] = d[4]
  BY <1>12r
<1>21. /\ p6[1] = "gdt_init" /\ p6[2] = "hal_cpu_init" /\ p6[3] = "pic_init"
       /\ p6[4] = "idt_init" /\ p6[5] = "tss_init" /\ p6[6] = "page_tables"
       /\ p6[7] = "message" /\ p6[8] = "vmm_switch_directory" /\ p6[9] = "message"
       /\ p6[10] = "vmm_enable_paging" /\ p6[11] = "message" /\ p6[12] = "hal_timer_init"
  BY <1>1, <1>3, <1>4, <1>16, <1>17, <1>18
<1>22. /\ p6[13] = "hal_serial_init" /\ p6[14] = "enable" /\ p6[15] = "ask"
       /\ p6[16] = "read" /\ p6[17] = "write" /\ p6[18] = "data" /\ p6[19] = "scan"
       /\ p6[20] = "dma_init" /\ p6[21] = "pic_enable_irq0" /\ p6[22] = "pic_enable_irq1"
       /\ p6[23] = "sti"
  BY <1>1, <1>2, <1>5, <1>18, <1>19, <1>20
<1> QED BY <1>6, <1>12t, <1>21, <1>22

\* kernel_main, step by step.
LEMMA KernelMain ==
    /\ kernel_main \in Seq(STEPS) /\ Len(kernel_main) = 34
    /\ kernel_main[1] = "message" /\ kernel_main[2] = "scheduler_init"
    /\ kernel_main[3] = "message" /\ kernel_main[4] = "gdt_init"
    /\ kernel_main[5] = "hal_cpu_init" /\ kernel_main[6] = "pic_init"
    /\ kernel_main[7] = "idt_init" /\ kernel_main[8] = "tss_init"
    /\ kernel_main[9] = "page_tables" /\ kernel_main[10] = "message"
    /\ kernel_main[11] = "vmm_switch_directory" /\ kernel_main[12] = "message"
    /\ kernel_main[13] = "vmm_enable_paging" /\ kernel_main[14] = "message"
    /\ kernel_main[15] = "hal_timer_init" /\ kernel_main[16] = "hal_serial_init"
    /\ kernel_main[17] = "enable" /\ kernel_main[18] = "ask" /\ kernel_main[19] = "read"
    /\ kernel_main[20] = "write" /\ kernel_main[21] = "data" /\ kernel_main[22] = "scan"
    /\ kernel_main[23] = "dma_init" /\ kernel_main[24] = "pic_enable_irq0"
    /\ kernel_main[25] = "pic_enable_irq1" /\ kernel_main[26] = "sti"
    /\ kernel_main[27] = "message" /\ kernel_main[28] = "kmalloc_init"
    /\ kernel_main[29] = "message" /\ kernel_main[30] = "hal_set_timer_frequency"
    /\ kernel_main[31] = "message" /\ kernel_main[32] = "commands"
    /\ kernel_main[33] = "message" /\ kernel_main[34] = "run_command_interpreter"
<1> DEFINE a == <<"message", "scheduler_init", "message">>
           b == <<"message", "kmalloc_init", "message", "hal_set_timer_frequency", "message",
                  "commands", "message", "run_command_interpreter">>
           p == a \o hal_init
           q == p \o b
<1>1. /\ a \in Seq(STEPS) /\ Len(a) = 3 /\ a[1] = "message" /\ a[2] = "scheduler_init"
      /\ a[3] = "message"
  BY DEF STEPS
<1>2. /\ b \in Seq(STEPS) /\ Len(b) = 8 /\ b[1] = "message" /\ b[2] = "kmalloc_init"
      /\ b[3] = "message" /\ b[4] = "hal_set_timer_frequency" /\ b[5] = "message"
      /\ b[6] = "commands" /\ b[7] = "message" /\ b[8] = "run_command_interpreter"
  BY DEF STEPS
<1>3. kernel_main = q
  BY DEF kernel_main
<1> HIDE DEF a, b
<1>4. hal_init \in Seq(STEPS) /\ Len(hal_init) = 23
  BY HalInit
<1>sa. a \in Seq(STEPS) /\ Len(a) = 3
  BY <1>1
<1>sb. b \in Seq(STEPS) /\ Len(b) = 8
  BY <1>2
<1>5. /\ p \in Seq(STEPS) /\ Len(p) = Len(a) + Len(hal_init)
      /\ \A i \in 1..Len(a) : p[i] = a[i]
      /\ \A i \in 1..Len(hal_init) : p[Len(a) + i] = hal_init[i]
  BY <1>sa, <1>4, Concat, Zenon
<1> HIDE DEF p
<1>5t. p \in Seq(STEPS) /\ Len(p) = 26
  BY <1>5, <1>sa, <1>4
<1>5l. \A i \in 1..3 : p[i] = a[i]
  BY <1>5, <1>sa
<1>5r. \A i \in 1..23 : p[3 + i] = hal_init[i]
  BY Zenon, <1>5, <1>sa, <1>4
<1>6. /\ q \in Seq(STEPS) /\ Len(q) = Len(p) + Len(b)
      /\ \A i \in 1..Len(p) : q[i] = p[i]
      /\ \A i \in 1..Len(b) : q[Len(p) + i] = b[i]
  BY <1>5t, <1>sb, Concat, Zenon
<1> HIDE DEF q
<1>6t. q \in Seq(STEPS) /\ Len(q) = 34
  BY <1>6, <1>5t, <1>sb
<1>6l. \A i \in 1..26 : q[i] = p[i]
  BY Zenon, <1>6, <1>5t
<1>6r. \A i \in 1..8 : q[26 + i] = b[i]
  BY Zenon, <1>6, <1>5t, <1>sb
<1>7. \A i \in 1..23 : q[3 + i] = hal_init[i]
  BY <1>5r, <1>6l
<1>8. q[1] = a[1] /\ q[2] = a[2] /\ q[3] = a[3]
  BY <1>5l, <1>6l
<1>9. /\ q[27] = b[1] /\ q[28] = b[2] /\ q[29] = b[3] /\ q[30] = b[4] /\ q[31] = b[5]
      /\ q[32] = b[6] /\ q[33] = b[7] /\ q[34] = b[8]
  BY <1>6r
<1>10. /\ q[4] = hal_init[1] /\ q[5] = hal_init[2] /\ q[6] = hal_init[3] /\ q[7] = hal_init[4]
       /\ q[8] = hal_init[5] /\ q[9] = hal_init[6] /\ q[10] = hal_init[7] /\ q[11] = hal_init[8]
       /\ q[12] = hal_init[9] /\ q[13] = hal_init[10] /\ q[14] = hal_init[11] /\ q[15] = hal_init[12]
  BY <1>7
<1>11. /\ q[16] = hal_init[13] /\ q[17] = hal_init[14] /\ q[18] = hal_init[15] /\ q[19] = hal_init[16]
       /\ q[20] = hal_init[17] /\ q[21] = hal_init[18] /\ q[22] = hal_init[19] /\ q[23] = hal_init[20]
       /\ q[24] = hal_init[21] /\ q[25] = hal_init[22] /\ q[26] = hal_init[23]
  BY <1>7
<1>12. /\ q[1] = "message" /\ q[2] = "scheduler_init" /\ q[3] = "message"
  BY <1>1, <1>8
<1>13. /\ q[27] = "message" /\ q[28] = "kmalloc_init" /\ q[29] = "message"
       /\ q[30] = "hal_set_timer_frequency" /\ q[31] = "message" /\ q[32] = "commands"
       /\ q[33] = "message" /\ q[34] = "run_command_interpreter"
  BY <1>2, <1>9
<1>14. /\ hal_init[1] = "gdt_init" /\ hal_init[2] = "hal_cpu_init"
       /\ hal_init[3] = "pic_init" /\ hal_init[4] = "idt_init" /\ hal_init[5] = "tss_init"
       /\ hal_init[6] = "page_tables" /\ hal_init[7] = "message"
       /\ hal_init[8] = "vmm_switch_directory" /\ hal_init[9] = "message"
       /\ hal_init[10] = "vmm_enable_paging" /\ hal_init[11] = "message"
       /\ hal_init[12] = "hal_timer_init"
  BY HalInit
<1>15. /\ hal_init[13] = "hal_serial_init" /\ hal_init[14] = "enable"
       /\ hal_init[15] = "ask" /\ hal_init[16] = "read" /\ hal_init[17] = "write"
       /\ hal_init[18] = "data" /\ hal_init[19] = "scan" /\ hal_init[20] = "dma_init"
       /\ hal_init[21] = "pic_enable_irq0" /\ hal_init[22] = "pic_enable_irq1"
       /\ hal_init[23] = "sti"
  BY HalInit
<1>16. /\ q[4] = "gdt_init" /\ q[5] = "hal_cpu_init" /\ q[6] = "pic_init"
       /\ q[7] = "idt_init" /\ q[8] = "tss_init" /\ q[9] = "page_tables"
       /\ q[10] = "message" /\ q[11] = "vmm_switch_directory" /\ q[12] = "message"
       /\ q[13] = "vmm_enable_paging" /\ q[14] = "message" /\ q[15] = "hal_timer_init"
  BY <1>10, <1>14
<1>17. /\ q[16] = "hal_serial_init" /\ q[17] = "enable" /\ q[18] = "ask" /\ q[19] = "read"
       /\ q[20] = "write" /\ q[21] = "data" /\ q[22] = "scan" /\ q[23] = "dma_init"
       /\ q[24] = "pic_enable_irq0" /\ q[25] = "pic_enable_irq1" /\ q[26] = "sti"
  BY <1>11, <1>15
<1> QED BY <1>3, <1>6t, <1>12, <1>13, <1>16, <1>17

-----------------------------------------------------------------------------
(* kernel_main.                                                            *)

\* The place of a step in kernel_main, and whether it is over.
PLACE ==
    [scheduler_init |-> 2, gdt_init |-> 4, hal_cpu_init |-> 5, pic_init |-> 6, idt_init |-> 7,
     tss_init |-> 8, page_tables |-> 9, vmm_switch_directory |-> 11, vmm_enable_paging |-> 13,
     hal_timer_init |-> 15, hal_serial_init |-> 16, enable |-> 17, ask |-> 18, read |-> 19,
     write |-> 20, data |-> 21, scan |-> 22, dma_init |-> 23,
     pic_enable_irq0 |-> 24, pic_enable_irq1 |-> 25, sti |-> 26, kmalloc_init |-> 28,
     commands |-> 32]
Over(step) == at > PLACE[step]

DIVISOR == 11931
CPU == [if : BOOLEAN, cr0 : SUBSET {0, 1, 4, PG}, cr3 : {"none", "kernel_page_directory"},
        cr4 : SUBSET {9, 10}, gdtr : {"loader", "kernel"}, idtr : {"bios", "kernel"},
        tr : {0, 5}]
KBC == [obf : {"none", "code", "config", "ack"}, int1 : BOOLEAN, off : BOOLEAN,
        ibf : {"none", "0xAE", "0x20", "0x60", "status", "0xF4"},
        pending : SUBSET {"config", "ack"}, rest : {"config", "code", "ack"}]
PARTS == {"scheduler_init", "page_tables", "dma_init", "kmalloc_init", "commands"}

\* What the steps that are over have set up in the processor,
CpuInv ==
    /\ cpu \in CPU
    /\ cpu.if <=> Over("sti")
    /\ cpu.cr0 = {0} \cup (IF Over("hal_cpu_init") THEN {1, 4} ELSE {})
                     \cup (IF Over("vmm_enable_paging") THEN {PG} ELSE {})
    /\ cpu.cr3 = IF Over("vmm_switch_directory") THEN "kernel_page_directory" ELSE "none"
    /\ cpu.gdtr = IF Over("gdt_init") THEN "kernel" ELSE "loader"
    /\ cpu.idtr = IF Over("idt_init") THEN "kernel" ELSE "bios"
    /\ cpu.tr = IF Over("tss_init") THEN 5 ELSE 0

\* in its tables,
TablesInv ==
    /\ DOMAIN gdt = 0..5
    /\ Over("gdt_init") => gdt[1] = "kernel code"
    /\ Over("tss_init") => gdt[5] = "tss"
    /\ idt = IF Over("idt_init") THEN (0..47) \cup {128} ELSE {}

\* and in memory.
PartsInv ==
    /\ ready \subseteq PARTS
    /\ \A part \in PARTS : part \in ready <=> Over(part)

\* The next step, and the timer.
StepInv ==
    /\ at \in Nat /\ 1 <= at /\ at <= 34 /\ byte \in 0..(MESSAGE - 1)
    /\ pit \in Nat /\ 2 <= pit /\ pit <= WORD
    /\ Over("hal_timer_init") => pit = DIVISOR

CoreInv == StepInv /\ CpuInv /\ TablesInv /\ PartsInv

\* The controllers are remapped and masked before the lines are opened.
PicInv ==
    /\ pic \in [base : {8, 32}, mask : SUBSET LINES, irr : SUBSET {0, 1}]
    /\ pic.base = IF Over("pic_init") THEN 32 ELSE 8
    /\ Over("pic_init") =>
          pic.mask = LINES \ ((IF Over("pic_enable_irq0") THEN {0} ELSE {})
                                \cup (IF Over("pic_enable_irq1") THEN {1} ELSE {}))

\* What is in the holding register is the byte written last, and after
\* hal_serial_init nothing is lost.
SerialInv ==
    /\ written \in Nat /\ before_init \in 0..written
    /\ uart \in {NONE, written} /\ wire \in Seq(1..written)
    /\ uart # NONE => \A i \in DOMAIN wire : wire[i] < uart
    /\ SerialDelivers

\* From the moment hal_keyboard_init has emptied the output buffer, a line that
\* is high has its request; and no step goes beyond "scan", the 22nd, before the
\* controller has taken the new configuration.
KeyboardInv ==
    /\ kbc \in KBC
    /\ keys \in 0..MAX_KEYS
    /\ status \in {"none", "config", "code", "ack"}
    /\ Over("read") => status # "none"
    /\ kbc.ibf = "status" => at = 22
    /\ ~kbc.off
    /\ Over("read") /\ LineHigh(kbc) => 1 \in pic.irr
    /\ at = 22 => kbc.ibf \in {"none", "status"}
    /\ (at = 22 /\ kbc.ibf = "none") \/ Over("scan") => kbc.int1

StartupInv ==
    /\ BootInv /\ CoreInv /\ PicInv /\ SerialInv /\ KeyboardInv
    /\ pc # "kernel_main" => at = 1

\* A step is done at its place only.
LEMMA Places ==
    ASSUME at \in Nat /\ 1 <= at /\ at <= 34
    PROVE  /\ kernel_main[at] = "message" => at \in {1, 3, 10, 12, 14, 27, 29, 31, 33}
           /\ kernel_main[at] = "run_command_interpreter" <=> at = 34
           /\ kernel_main[at] = "scheduler_init" => at = 2
           /\ kernel_main[at] = "gdt_init" => at = 4
           /\ kernel_main[at] = "hal_cpu_init" => at = 5
           /\ kernel_main[at] = "pic_init" => at = 6
           /\ kernel_main[at] = "idt_init" => at = 7
           /\ kernel_main[at] = "tss_init" => at = 8
           /\ kernel_main[at] = "page_tables" => at = 9
           /\ kernel_main[at] = "vmm_switch_directory" => at = 11
           /\ kernel_main[at] = "vmm_enable_paging" => at = 13
           /\ kernel_main[at] = "hal_timer_init" => at = 15
           /\ kernel_main[at] = "hal_serial_init" => at = 16
           /\ kernel_main[at] = "enable" => at = 17
           /\ kernel_main[at] = "ask" => at = 18
           /\ kernel_main[at] = "read" => at = 19
           /\ kernel_main[at] = "write" => at = 20
           /\ kernel_main[at] = "data" => at = 21
           /\ kernel_main[at] = "scan" => at = 22
           /\ kernel_main[at] = "dma_init" => at = 23
           /\ kernel_main[at] = "pic_enable_irq0" => at = 24
           /\ kernel_main[at] = "pic_enable_irq1" => at = 25
           /\ kernel_main[at] = "sti" => at = 26
           /\ kernel_main[at] = "kmalloc_init" => at = 28
           /\ kernel_main[at] = "hal_set_timer_frequency" => at = 30
           /\ kernel_main[at] = "commands" => at = 32
<1>1. /\ kernel_main[1] = "message" /\ kernel_main[2] = "scheduler_init"
      /\ kernel_main[3] = "message" /\ kernel_main[4] = "gdt_init"
      /\ kernel_main[5] = "hal_cpu_init" /\ kernel_main[6] = "pic_init"
      /\ kernel_main[7] = "idt_init" /\ kernel_main[8] = "tss_init"
      /\ kernel_main[9] = "page_tables" /\ kernel_main[10] = "message"
      /\ kernel_main[11] = "vmm_switch_directory" /\ kernel_main[12] = "message"
      /\ kernel_main[13] = "vmm_enable_paging" /\ kernel_main[14] = "message"
      /\ kernel_main[15] = "hal_timer_init" /\ kernel_main[16] = "hal_serial_init"
      /\ kernel_main[17] = "enable" /\ kernel_main[18] = "ask" /\ kernel_main[19] = "read"
      /\ kernel_main[20] = "write" /\ kernel_main[21] = "data" /\ kernel_main[22] = "scan"
      /\ kernel_main[23] = "dma_init" /\ kernel_main[24] = "pic_enable_irq0"
      /\ kernel_main[25] = "pic_enable_irq1" /\ kernel_main[26] = "sti"
      /\ kernel_main[27] = "message" /\ kernel_main[28] = "kmalloc_init"
      /\ kernel_main[29] = "message" /\ kernel_main[30] = "hal_set_timer_frequency"
      /\ kernel_main[31] = "message" /\ kernel_main[32] = "commands"
      /\ kernel_main[33] = "message" /\ kernel_main[34] = "run_command_interpreter"
  BY KernelMain
<1>2. \/ at \in {1, 3, 10, 12, 14, 27, 29, 31, 33}
      \/ at \in {2, 4, 5, 6, 7, 8, 9, 11, 13, 15, 16, 17}
      \/ at \in {18, 19, 20, 21, 22, 23, 24, 25, 26, 28, 30, 32, 34}
  OBVIOUS
<1>3. CASE at \in {1, 3, 10, 12, 14, 27, 29, 31, 33}
  BY <1>1, <1>3
<1>4. CASE at \in {2, 4, 5, 6, 7, 8, 9, 11, 13, 15, 16, 17}
  BY <1>1, <1>4
<1>5. CASE at \in {18, 19, 20, 21, 22, 23, 24, 25, 26, 28, 30, 32, 34}
  BY <1>1, <1>5
<1> QED BY Zenon, <1>2, <1>3, <1>4, <1>5

\* What PLACE says.
LEMMA Overs ==
    /\ Over("scheduler_init") <=> at > 2
    /\ Over("gdt_init") <=> at > 4
    /\ Over("hal_cpu_init") <=> at > 5
    /\ Over("pic_init") <=> at > 6
    /\ Over("idt_init") <=> at > 7
    /\ Over("tss_init") <=> at > 8
    /\ Over("page_tables") <=> at > 9
    /\ Over("vmm_switch_directory") <=> at > 11
    /\ Over("vmm_enable_paging") <=> at > 13
    /\ Over("hal_timer_init") <=> at > 15
    /\ Over("read") <=> at > 19
    /\ Over("data") <=> at > 21
    /\ Over("scan") <=> at > 22
    /\ Over("dma_init") <=> at > 23
    /\ Over("pic_enable_irq0") <=> at > 24
    /\ Over("pic_enable_irq1") <=> at > 25
    /\ Over("sti") <=> at > 26
    /\ Over("kmalloc_init") <=> at > 28
    /\ Over("commands") <=> at > 32
  BY ZenonT(30) DEF Over, PLACE

LEMMA OversNext ==
    /\ Over("scheduler_init")' <=> at' > 2
    /\ Over("gdt_init")' <=> at' > 4
    /\ Over("hal_cpu_init")' <=> at' > 5
    /\ Over("pic_init")' <=> at' > 6
    /\ Over("idt_init")' <=> at' > 7
    /\ Over("tss_init")' <=> at' > 8
    /\ Over("page_tables")' <=> at' > 9
    /\ Over("vmm_switch_directory")' <=> at' > 11
    /\ Over("vmm_enable_paging")' <=> at' > 13
    /\ Over("hal_timer_init")' <=> at' > 15
    /\ Over("read")' <=> at' > 19
    /\ Over("data")' <=> at' > 21
    /\ Over("scan")' <=> at' > 22
    /\ Over("dma_init")' <=> at' > 23
    /\ Over("pic_enable_irq0")' <=> at' > 24
    /\ Over("pic_enable_irq1")' <=> at' > 25
    /\ Over("sti")' <=> at' > 26
    /\ Over("kmalloc_init")' <=> at' > 28
    /\ Over("commands")' <=> at' > 32
  BY Zenon DEF Over, PLACE

\* The steps that set up a part in memory are five different ones.
LEMMA PartPlaces ==
    /\ PLACE["scheduler_init"] = 2 /\ PLACE["page_tables"] = 9 /\ PLACE["dma_init"] = 23
    /\ PLACE["kmalloc_init"] = 28 /\ PLACE["commands"] = 32
    /\ \A part \in PARTS : PLACE[part] \in Nat /\ PLACE[part] \in {2, 9, 23, 28, 32}
    /\ \A part, other \in PARTS : part # other => PLACE[part] # PLACE[other]
<1>1. /\ PLACE["scheduler_init"] = 2 /\ PLACE["page_tables"] = 9 /\ PLACE["dma_init"] = 23
      /\ PLACE["kmalloc_init"] = 28 /\ PLACE["commands"] = 32
  BY Zenon DEF PLACE
<1> QED BY <1>1 DEF PARTS

\* What KeyboardInv says with the numbers of the steps, before a step
LEMMA KeyboardFacts ==
    ASSUME KeyboardInv
    PROVE  /\ kbc \in KBC /\ ~kbc.off /\ keys \in 0..MAX_KEYS
           /\ status \in {"none", "config", "code", "ack"}
           /\ at > 19 => status # "none"
           /\ kbc.ibf = "status" => at = 22
           /\ at > 19 => (LineHigh(kbc) => 1 \in pic.irr)
           /\ at = 22 => kbc.ibf \in {"none", "status"}
           /\ (at = 22 /\ kbc.ibf = "none") \/ at > 22 => kbc.int1
  BY Overs, Zenon DEF KeyboardInv

\* and after it.
LEMMA KeyboardNext ==
    ASSUME kbc' \in KBC, ~kbc'.off, keys' \in 0..MAX_KEYS,
           status' \in {"none", "config", "code", "ack"},
           at' > 19 => status' # "none",
           kbc'.ibf = "status" => at' = 22,
           at' > 19 => (LineHigh(kbc)' => 1 \in pic'.irr),
           at' = 22 => kbc'.ibf \in {"none", "status"},
           (at' = 22 /\ kbc'.ibf = "none") \/ at' > 22 => kbc'.int1
    PROVE  KeyboardInv'
<1>1. KBC' = KBC
  BY Zenon DEF KBC
<1> QED BY <1>1, OversNext, Zenon DEF KeyboardInv

\* At the start nothing is set up and no byte is written.
LEMMA InitStartupInv == StartupInit => StartupInv
<1> SUFFICES ASSUME StartupInit PROVE StartupInv
  OBVIOUS
<1>1. BootInv
  BY ZenonT(30), InitBootInv DEF StartupInit
<1>2. at = 1 /\ byte = 0 /\ pit = WORD /\ WORD \in Nat /\ 2 <= WORD /\ idt = {} /\ ready = {}
  <2>1. at = 1 /\ byte = 0 /\ pit = WORD /\ idt = {} /\ ready = {}
    BY Zenon DEF StartupInit
  <2> QED BY <2>1 DEF WORD
<1>3. /\ cpu.if = FALSE /\ cpu.cr0 = {0} /\ cpu.cr3 = "none" /\ cpu.cr4 = {}
      /\ cpu.gdtr = "loader" /\ cpu.idtr = "bios" /\ cpu.tr = 0
      /\ cpu \in CPU /\ gdt = [i \in 0..5 |-> "null"]
  BY ZenonT(30) DEF StartupInit, CPU
<1>4. CoreInv
  <2>1. ~(1 > 2) /\ ~(1 > 4) /\ ~(1 > 5) /\ ~(1 > 7) /\ ~(1 > 8) /\ ~(1 > 9) /\ ~(1 > 11)
        /\ ~(1 > 13) /\ ~(1 > 15) /\ ~(1 > 23) /\ ~(1 > 26) /\ ~(1 > 28) /\ ~(1 > 32)
    OBVIOUS
  <2>2. StepInv
    BY <1>2, Overs, StartupAssumption DEF StepInv
  <2>3. CpuInv
    <3>1. /\ ~Over("sti") /\ ~Over("hal_cpu_init") /\ ~Over("vmm_enable_paging")
          /\ ~Over("vmm_switch_directory") /\ ~Over("gdt_init") /\ ~Over("idt_init")
          /\ ~Over("tss_init")
      BY Zenon, <1>2, <2>1, Overs
    <3> QED BY ZenonT(30), <1>3, <3>1 DEF CpuInv
  <2>4. TablesInv
    BY ZenonT(30), <1>2, <1>3, <2>1, Overs DEF TablesInv
  <2>5. PartsInv
    BY ZenonT(30), <1>2, <2>1, Overs DEF PartsInv, PARTS
  <2> QED BY Zenon, <2>2, <2>3, <2>4, <2>5 DEF CoreInv
<1>5. PicInv
  <2>1. ~Over("pic_init")
    BY <1>2, Overs
  <2>2. pic \in [base : {8, 32}, mask : SUBSET LINES, irr : SUBSET {0, 1}] /\ pic.base = 8
    BY ZenonT(30) DEF StartupInit
  <2> QED BY Zenon, <2>1, <2>2 DEF PicInv
<1>6. SerialInv
  <2>1. written = 0 /\ before_init = 0 /\ uart = NONE /\ wire = <<>>
    BY Zenon DEF StartupInit
  <2> QED BY ONLY <2>1 DEF SerialInv, SerialDelivers, NONE
<1>7. KeyboardInv
  <2>1. ~Over("read") /\ ~Over("scan") /\ at # 22
    BY <1>2, Overs
  <2>2. keys \in 0..MAX_KEYS
    BY StartupAssumption DEF StartupInit
  <2>3. kbc \in KBC /\ kbc.ibf = "none" /\ ~kbc.off /\ status = "none"
    <3>1. PICK obf \in {"none", "code"}, int1 \in BOOLEAN :
            kbc = [obf |-> obf, ibf |-> "none", pending |-> {}, int1 |-> int1, off |-> FALSE,
                   rest |-> "config"]
      BY Zenon DEF StartupInit
    <3>2. status = "none"
      BY Zenon DEF StartupInit
    <3> QED BY ONLY <3>1, <3>2 DEF KBC
  <2> QED BY Zenon, <2>1, <2>2, <2>3 DEF KeyboardInv
<1> QED BY <1>1, <1>2, <1>4, <1>5, <1>6, <1>7 DEF StartupInv

\* What a step of the kernel leaves alone keeps its part of the invariant.
LEMMA SerialSame == SerialInv /\ UNCHANGED serialVars => SerialInv'
  BY DEF SerialInv, SerialDelivers, serialVars

\* Steps of kernel_main that set up nothing in the processor,
LEMMA CpuKept ==
    ASSUME CpuInv, cpu' = cpu, at \in Nat /\ 1 <= at /\ at <= 34,
           at' = at \/ (at' = at + 1 /\ at \notin {4, 5, 7, 8, 11, 13, 26})
    PROVE  CpuInv'
<1>1. \A k \in {4, 5, 7, 8, 11, 13, 26} : at' > k <=> at > k
  OBVIOUS
<1>2. /\ Over("gdt_init")' <=> Over("gdt_init")
      /\ Over("hal_cpu_init")' <=> Over("hal_cpu_init")
      /\ Over("idt_init")' <=> Over("idt_init")
      /\ Over("tss_init")' <=> Over("tss_init")
      /\ Over("vmm_switch_directory")' <=> Over("vmm_switch_directory")
      /\ Over("vmm_enable_paging")' <=> Over("vmm_enable_paging")
      /\ Over("sti")' <=> Over("sti")
  BY <1>1, Overs, OversNext
<1> QED BY <1>2 DEF CpuInv

\* in its tables,
LEMMA TablesKept ==
    ASSUME TablesInv, UNCHANGED <<gdt, idt>>, at \in Nat /\ 1 <= at /\ at <= 34,
           at' = at \/ (at' = at + 1 /\ at \notin {4, 7, 8})
    PROVE  TablesInv'
<1>1. \A k \in {4, 7, 8} : at' > k <=> at > k
  OBVIOUS
<1>2. /\ Over("gdt_init")' <=> Over("gdt_init")
      /\ Over("idt_init")' <=> Over("idt_init")
      /\ Over("tss_init")' <=> Over("tss_init")
  BY <1>1, Overs, OversNext
<1> QED BY Zenon, <1>2 DEF TablesInv

\* and in memory.
LEMMA PartsKept ==
    ASSUME PartsInv, ready' = ready, at \in Nat /\ 1 <= at /\ at <= 34,
           at' = at \/ (at' = at + 1 /\ at \notin {2, 9, 23, 28, 32})
    PROVE  PartsInv'
<1>1. \A part \in PARTS : at' > PLACE[part] <=> at > PLACE[part]
  BY PartPlaces
<1>2. ready \subseteq PARTS /\ \A part \in PARTS : part \in ready <=> at > PLACE[part]
  BY DEF PartsInv, Over
<1> QED BY <1>1, <1>2 DEF PartsInv, Over, PARTS

\* The steps follow each other, and the timer is set at two of them.
LEMMA StepKept ==
    ASSUME StepInv, pit' = pit, byte' \in 0..(MESSAGE - 1),
           at' = at \/ (at' = at + 1 /\ at \notin {15, 34})
    PROVE  StepInv'
<1>1. at \in Nat /\ 1 <= at /\ at <= 34
  BY DEF StepInv
<1>2. at' \in Nat /\ 1 <= at' /\ at' <= 34 /\ (at' > 15 <=> at > 15)
  BY <1>1
<1>3. Over("hal_timer_init")' <=> Over("hal_timer_init")
  BY <1>2, Overs, OversNext
<1> QED BY <1>2, <1>3 DEF StepInv

\* Changes of the requests only.
LEMMA PicKept ==
    ASSUME PicInv, at \in Nat /\ 1 <= at /\ at <= 34, at' = at \/ (at' = at + 1 /\ at \notin {6, 24, 25}),
           pic' = pic \/ \E irr \in SUBSET {0, 1} : pic' = [pic EXCEPT !.irr = irr]
    PROVE  PicInv'
<1>1. \A k \in {6, 24, 25} : at' > k <=> at > k
  OBVIOUS
<1>2. /\ Over("pic_init")' <=> Over("pic_init")
      /\ Over("pic_enable_irq0")' <=> Over("pic_enable_irq0")
      /\ Over("pic_enable_irq1")' <=> Over("pic_enable_irq1")
  BY <1>1, Overs, OversNext
<1>3. /\ pic' \in [base : {8, 32}, mask : SUBSET LINES, irr : SUBSET {0, 1}]
      /\ pic'.base = pic.base /\ pic'.mask = pic.mask
  BY DEF PicInv
<1> QED BY <1>2, <1>3 DEF PicInv

\* Steps before and after hal_keyboard_init.
LEMMA KeyboardKept ==
    ASSUME KeyboardInv, at \in Nat /\ 1 <= at /\ at <= 34, at' = at \/ (at' = at + 1 /\ at \notin 17..22),
           UNCHANGED <<kbc, keys, status>>, at > 19 /\ 1 \in pic.irr => 1 \in pic'.irr
    PROVE  KeyboardInv'
<1>1. /\ at' > 19 <=> at > 19
      /\ at' > 22 <=> at > 22
      /\ at' = 22 <=> at = 22
  OBVIOUS
<1>2. LineHigh(kbc)' <=> LineHigh(kbc)
  BY DEF LineHigh
<1>3. at > 19 => (LineHigh(kbc)' => 1 \in pic'.irr)
  BY <1>2, KeyboardFacts
<1> QED BY <1>1, <1>3, KeyboardFacts, KeyboardNext

-----------------------------------------------------------------------------
(* Every step keeps the invariant.                                         *)

\* What a step of Tables finds and leaves alone.
LEMMA TablesFrame ==
    ASSUME StartupInv, Tables
    PROVE  /\ StepInv /\ CpuInv /\ TablesInv /\ PartsInv /\ PicInv /\ KeyboardInv
           /\ at \in Nat /\ 1 <= at /\ at <= 34 /\ at' = at + 1 /\ byte' \in 0..(MESSAGE - 1)
           /\ SerialInv' /\ kbc' = kbc /\ keys' = keys
<1>1. StepInv /\ CpuInv /\ TablesInv /\ PartsInv /\ PicInv /\ KeyboardInv /\ SerialInv
  BY DEF StartupInv, CoreInv
<1>2. at' = at + 1 /\ byte' = 0 /\ UNCHANGED <<serialVars, keyVars>>
  BY DEF Tables, Done
<1>3. SerialInv'
  BY <1>1, <1>2, SerialSame
<1>4. kbc' = kbc /\ keys' = keys
  BY <1>2 DEF keyVars
<1>5. byte' \in 0..(MESSAGE - 1)
  BY <1>2, StartupAssumption
<1> QED BY <1>1, <1>2, <1>3, <1>4, <1>5 DEF StepInv

\* The registers and the tables of the processor.
LEMMA RegistersStep ==
    ASSUME StartupInv, Tables,
           gdt_init \/ hal_cpu_init \/ idt_init \/ tss_init \/ vmm_switch_directory
             \/ vmm_enable_paging \/ sti
    PROVE  CoreInv' /\ PicInv' /\ SerialInv' /\ KeyboardInv'
<1>1. /\ StepInv /\ CpuInv /\ TablesInv /\ PartsInv /\ PicInv /\ KeyboardInv
      /\ at \in Nat /\ 1 <= at /\ at <= 34 /\ at' = at + 1 /\ byte' \in 0..(MESSAGE - 1)
      /\ SerialInv' /\ kbc' = kbc /\ keys' = keys
  BY TablesFrame
<1>2. UNCHANGED <<ready, pit, status, pic>>
  BY Zenon DEF gdt_init, hal_cpu_init, idt_init, tss_init, vmm_switch_directory, vmm_enable_paging, sti
<1>3. at \in {4, 5, 7, 8, 11, 13, 26}
  BY Zenon, <1>1, Places DEF gdt_init, hal_cpu_init, idt_init, tss_init, vmm_switch_directory,
                      vmm_enable_paging, sti, Doing
<1>4. StepInv'
  BY <1>1, <1>2, <1>3, StepKept
<1>5. PicInv'
  BY <1>1, <1>2, <1>3, PicKept
<1>6. KeyboardInv'
  BY <1>1, <1>2, <1>3, KeyboardKept
<1>7. PartsInv'
  BY <1>1, <1>2, <1>3, PartsKept
<1>8. CASE gdt_init
  <2>1. at = 4 /\ at' = 5
    <3>1. Doing("gdt_init")
      BY Zenon, <1>8 DEF gdt_init
    <3>2. at = 4
      BY Zenon, <1>1, <3>1, Places DEF Doing
    <3> QED BY <1>1, <3>2
  <2>2. cpu' = [cpu EXCEPT !.gdtr = "kernel"]
    BY Zenon, <1>8 DEF gdt_init
  <2>3. /\ cpu' \in CPU /\ cpu'.gdtr = "kernel"
        /\ cpu'.if = cpu.if /\ cpu'.cr0 = cpu.cr0 /\ cpu'.cr3 = cpu.cr3 /\ cpu'.idtr = cpu.idtr /\ cpu'.tr = cpu.tr
    BY <1>1, <2>2 DEF CpuInv, CPU, PG
  <2>4. /\ ~Over("gdt_init") /\ Over("gdt_init")'
        /\ Over("hal_cpu_init")' <=> Over("hal_cpu_init")
        /\ Over("idt_init")' <=> Over("idt_init")
        /\ Over("tss_init")' <=> Over("tss_init")
        /\ Over("vmm_switch_directory")' <=> Over("vmm_switch_directory")
        /\ Over("vmm_enable_paging")' <=> Over("vmm_enable_paging")
        /\ Over("sti")' <=> Over("sti")
    BY <2>1, Overs, OversNext
  <2>5. CpuInv'
    BY ZenonT(30), <1>1, <2>3, <2>4 DEF CpuInv
  <2>6. TablesInv'
    <3>1. 1 \in 0..5 /\ 1 # 2 /\ 1 # 3 /\ 1 # 4
      OBVIOUS
    <3>2. gdt' = [i \in 0..5 |-> CASE i = 1 -> "kernel code" [] i = 2 -> "kernel data"
                                   [] i = 3 -> "user code" [] i = 4 -> "user data"
                                   [] OTHER -> "null"]
      BY Zenon, <1>8 DEF gdt_init
    <3>3. DOMAIN gdt' = 0..5 /\ gdt'[1] = "kernel code"
      BY <3>1, <3>2, Zenon
    <3>4. idt' = idt
      BY Zenon, <1>8 DEF gdt_init
    <3>5. ~Over("tss_init")' /\ ~Over("idt_init") /\ ~Over("idt_init")'
      <4>1. ~(at > 7) /\ ~(at' > 7) /\ ~(at' > 8)
        BY <2>1
      <4> QED BY Zenon, <4>1, Overs, OversNext
    <3> QED BY Zenon, <1>1, <3>3, <3>4, <3>5 DEF TablesInv
  <2> QED BY <1>1, <1>4, <1>5, <1>6, <1>7, <2>5, <2>6 DEF CoreInv
<1>9. CASE hal_cpu_init
  <2>1. at = 5 /\ at' = 6
    <3>1. Doing("hal_cpu_init")
      BY <1>9 DEF hal_cpu_init
    <3>2. at = 5
      BY Zenon, <1>1, <3>1, Places DEF Doing
    <3> QED BY <1>1, <3>2
  <2>2. cpu' = [cpu EXCEPT !.cr0 = (@ \cap {0, PG}) \cup {1, 4}, !.cr4 = @ \cup {9, 10}]
    BY <1>9 DEF hal_cpu_init
  <2>3. /\ cpu' \in CPU /\ cpu'.cr0 = (cpu.cr0 \cap {0, PG}) \cup {1, 4}
        /\ cpu'.if = cpu.if /\ cpu'.cr3 = cpu.cr3 /\ cpu'.gdtr = cpu.gdtr /\ cpu'.idtr = cpu.idtr /\ cpu'.tr = cpu.tr
    BY Zenon, <1>1, <2>2 DEF CpuInv, CPU, PG
  <2>4. /\ Over("gdt_init")' <=> Over("gdt_init")
        /\ ~Over("hal_cpu_init") /\ Over("hal_cpu_init")'
        /\ Over("idt_init")' <=> Over("idt_init")
        /\ Over("tss_init")' <=> Over("tss_init")
        /\ Over("vmm_switch_directory")' <=> Over("vmm_switch_directory")
        /\ Over("vmm_enable_paging")' <=> Over("vmm_enable_paging")
        /\ Over("sti")' <=> Over("sti")
    BY <2>1, Overs, OversNext
  <2>5. CpuInv'
    BY ZenonT(30), <1>1, <2>3, <2>4 DEF CpuInv
  <2>6. TablesInv'
    <3>1. UNCHANGED <<gdt, idt>>
      BY <1>9 DEF hal_cpu_init
    <3> QED BY <1>1, <2>1, <3>1, TablesKept
  <2> QED BY <1>1, <1>4, <1>5, <1>6, <1>7, <2>5, <2>6 DEF CoreInv
<1>10. CASE idt_init
  <2>1. at = 7 /\ at' = 8
    <3>1. Doing("idt_init")
      BY <1>10 DEF idt_init
    <3>2. at = 7
      BY Zenon, <1>1, <3>1, Places DEF Doing
    <3> QED BY <1>1, <3>2
  <2>2. cpu' = [cpu EXCEPT !.idtr = "kernel"]
    BY <1>10 DEF idt_init
  <2>3. /\ cpu' \in CPU /\ cpu'.idtr = "kernel"
        /\ cpu'.if = cpu.if /\ cpu'.cr0 = cpu.cr0 /\ cpu'.cr3 = cpu.cr3 /\ cpu'.gdtr = cpu.gdtr /\ cpu'.tr = cpu.tr
    BY <1>1, <2>2 DEF CpuInv, CPU, PG
  <2>4. /\ Over("gdt_init")' <=> Over("gdt_init")
        /\ Over("hal_cpu_init")' <=> Over("hal_cpu_init")
        /\ ~Over("idt_init") /\ Over("idt_init")'
        /\ Over("tss_init")' <=> Over("tss_init")
        /\ Over("vmm_switch_directory")' <=> Over("vmm_switch_directory")
        /\ Over("vmm_enable_paging")' <=> Over("vmm_enable_paging")
        /\ Over("sti")' <=> Over("sti")
    BY <2>1, Overs, OversNext
  <2>5. CpuInv'
    BY ZenonT(30), <1>1, <2>3, <2>4 DEF CpuInv
  <2>6. TablesInv'
    <3>1. idt' = (0..47) \cup {128} /\ gdt' = gdt
      BY <1>10 DEF idt_init
    <3> QED BY Zenon, <1>1, <2>1, <2>4, <3>1, Overs, OversNext DEF TablesInv
  <2> QED BY <1>1, <1>4, <1>5, <1>6, <1>7, <2>5, <2>6 DEF CoreInv
<1>11. CASE tss_init
  <2>1. at = 8 /\ at' = 9
    <3>1. Doing("tss_init")
      BY <1>11 DEF tss_init
    <3>2. at = 8
      BY Zenon, <1>1, <3>1, Places DEF Doing
    <3> QED BY <1>1, <3>2
  <2>2. cpu' = [cpu EXCEPT !.tr = 5]
    BY <1>11 DEF tss_init
  <2>3. /\ cpu' \in CPU /\ cpu'.tr = 5
        /\ cpu'.if = cpu.if /\ cpu'.cr0 = cpu.cr0 /\ cpu'.cr3 = cpu.cr3 /\ cpu'.gdtr = cpu.gdtr /\ cpu'.idtr = cpu.idtr
    BY <1>1, <2>2 DEF CpuInv, CPU, PG
  <2>4. /\ Over("gdt_init")' <=> Over("gdt_init")
        /\ Over("hal_cpu_init")' <=> Over("hal_cpu_init")
        /\ Over("idt_init")' <=> Over("idt_init")
        /\ ~Over("tss_init") /\ Over("tss_init")'
        /\ Over("vmm_switch_directory")' <=> Over("vmm_switch_directory")
        /\ Over("vmm_enable_paging")' <=> Over("vmm_enable_paging")
        /\ Over("sti")' <=> Over("sti")
    BY <2>1, Overs, OversNext
  <2>5. CpuInv'
    BY ZenonT(30), <1>1, <2>3, <2>4 DEF CpuInv
  <2>6. TablesInv'
    <3>1. gdt' = [gdt EXCEPT ![5] = "tss"] /\ idt' = idt
      BY <1>11 DEF tss_init
    <3>2. DOMAIN gdt = 0..5
      BY Zenon, <1>1 DEF TablesInv
    <3>3. DOMAIN gdt' = 0..5 /\ gdt'[1] = gdt[1] /\ gdt'[5] = "tss"
      BY <3>1, <3>2
    <3> QED BY Zenon, <1>1, <2>4, <3>1, <3>3 DEF TablesInv
  <2> QED BY <1>1, <1>4, <1>5, <1>6, <1>7, <2>5, <2>6 DEF CoreInv
<1>12. CASE vmm_switch_directory
  <2>1. at = 11 /\ at' = 12
    <3>1. Doing("vmm_switch_directory")
      BY <1>12 DEF vmm_switch_directory
    <3>2. at = 11
      BY Zenon, <1>1, <3>1, Places DEF Doing
    <3> QED BY <1>1, <3>2
  <2>2. cpu' = [cpu EXCEPT !.cr3 = "kernel_page_directory"]
    BY <1>12 DEF vmm_switch_directory
  <2>3. /\ cpu' \in CPU /\ cpu'.cr3 = "kernel_page_directory"
        /\ cpu'.if = cpu.if /\ cpu'.cr0 = cpu.cr0 /\ cpu'.gdtr = cpu.gdtr /\ cpu'.idtr = cpu.idtr /\ cpu'.tr = cpu.tr
    BY <1>1, <2>2 DEF CpuInv, CPU, PG
  <2>4. /\ Over("gdt_init")' <=> Over("gdt_init")
        /\ Over("hal_cpu_init")' <=> Over("hal_cpu_init")
        /\ Over("idt_init")' <=> Over("idt_init")
        /\ Over("tss_init")' <=> Over("tss_init")
        /\ ~Over("vmm_switch_directory") /\ Over("vmm_switch_directory")'
        /\ Over("vmm_enable_paging")' <=> Over("vmm_enable_paging")
        /\ Over("sti")' <=> Over("sti")
    BY <2>1, Overs, OversNext
  <2>5. CpuInv'
    BY ZenonT(30), <1>1, <2>3, <2>4 DEF CpuInv
  <2>6. TablesInv'
    <3>1. UNCHANGED <<gdt, idt>>
      BY <1>12 DEF vmm_switch_directory
    <3> QED BY <1>1, <2>1, <3>1, TablesKept
  <2> QED BY <1>1, <1>4, <1>5, <1>6, <1>7, <2>5, <2>6 DEF CoreInv
<1>13. CASE vmm_enable_paging
  <2>1. at = 13 /\ at' = 14
    <3>1. Doing("vmm_enable_paging")
      BY <1>13 DEF vmm_enable_paging
    <3>2. at = 13
      BY Zenon, <1>1, <3>1, Places DEF Doing
    <3> QED BY <1>1, <3>2
  <2>2. cpu' = [cpu EXCEPT !.cr0 = @ \cup {PG}]
    BY <1>13 DEF vmm_enable_paging
  <2>3. /\ cpu' \in CPU /\ cpu'.cr0 = cpu.cr0 \cup {PG}
        /\ cpu'.if = cpu.if /\ cpu'.cr3 = cpu.cr3 /\ cpu'.gdtr = cpu.gdtr /\ cpu'.idtr = cpu.idtr /\ cpu'.tr = cpu.tr
    BY <1>1, <2>2 DEF CpuInv, CPU, PG
  <2>4. /\ Over("gdt_init")' <=> Over("gdt_init")
        /\ Over("hal_cpu_init")' <=> Over("hal_cpu_init")
        /\ Over("idt_init")' <=> Over("idt_init")
        /\ Over("tss_init")' <=> Over("tss_init")
        /\ Over("vmm_switch_directory")' <=> Over("vmm_switch_directory")
        /\ ~Over("vmm_enable_paging") /\ Over("vmm_enable_paging")'
        /\ Over("sti")' <=> Over("sti")
    BY <2>1, Overs, OversNext
  <2>5. CpuInv'
    BY ZenonT(30), <1>1, <2>3, <2>4 DEF CpuInv
  <2>6. TablesInv'
    <3>1. UNCHANGED <<gdt, idt>>
      BY <1>13 DEF vmm_enable_paging
    <3> QED BY <1>1, <2>1, <3>1, TablesKept
  <2> QED BY <1>1, <1>4, <1>5, <1>6, <1>7, <2>5, <2>6 DEF CoreInv
<1>14. CASE sti
  <2>1. at = 26 /\ at' = 27
    <3>1. Doing("sti")
      BY <1>14 DEF sti
    <3>2. at = 26
      BY Zenon, <1>1, <3>1, Places DEF Doing
    <3> QED BY <1>1, <3>2
  <2>2. cpu' = [cpu EXCEPT !.if = TRUE]
    BY <1>14 DEF sti
  <2>3. /\ cpu' \in CPU /\ cpu'.if = TRUE
        /\ cpu'.cr0 = cpu.cr0 /\ cpu'.cr3 = cpu.cr3 /\ cpu'.gdtr = cpu.gdtr /\ cpu'.idtr = cpu.idtr /\ cpu'.tr = cpu.tr
    BY Zenon, <1>1, <2>2 DEF CpuInv, CPU, PG
  <2>4. /\ Over("gdt_init")' <=> Over("gdt_init")
        /\ Over("hal_cpu_init")' <=> Over("hal_cpu_init")
        /\ Over("idt_init")' <=> Over("idt_init")
        /\ Over("tss_init")' <=> Over("tss_init")
        /\ Over("vmm_switch_directory")' <=> Over("vmm_switch_directory")
        /\ Over("vmm_enable_paging")' <=> Over("vmm_enable_paging")
        /\ ~Over("sti") /\ Over("sti")'
    BY <2>1, Overs, OversNext
  <2>5. CpuInv'
    BY ZenonT(30), <1>1, <2>3, <2>4 DEF CpuInv
  <2>6. TablesInv'
    <3>1. UNCHANGED <<gdt, idt>>
      BY <1>14 DEF sti
    <3> QED BY <1>1, <2>1, <3>1, TablesKept
  <2> QED BY <1>1, <1>4, <1>5, <1>6, <1>7, <2>5, <2>6 DEF CoreInv
<1> QED BY <1>8, <1>9, <1>10, <1>11, <1>12, <1>13, <1>14

\* The larger and the smaller of two numbers.
LEMMA MaxOfTwo ==
    ASSUME NEW a \in Int, NEW b \in Int, a >= b
    PROVE  Max({a, b}) = a
<1>1. \E x \in {a, b} : \A y \in {a, b} : x >= y
  OBVIOUS
<1>2. Max({a, b}) \in {a, b} /\ \A y \in {a, b} : Max({a, b}) >= y
  BY <1>1, Zenon DEF Max
<1> QED BY <1>2, SMT

LEMMA MinOfTwo ==
    ASSUME NEW a \in Int, NEW b \in Int, a <= b
    PROVE  Min({a, b}) = a
<1>1. \E x \in {a, b} : \A y \in {a, b} : x <= y
  OBVIOUS
<1>2. Min({a, b}) \in {a, b} /\ \A y \in {a, b} : Min({a, b}) <= y
  BY <1>1, Zenon DEF Min
<1> QED BY <1>2, SMT

\* At 100 Hz the divisor is within its bounds.
LEMMA Divisor == pit_set_frequency(100) => pit' = DIVISOR
<1>1. DIVISOR \in Int /\ 2 \in Int /\ DIVISOR >= 2 /\ PIT_HZ \div 100 = DIVISOR
  BY SMT DEF DIVISOR, PIT_HZ
<1>2. Max({PIT_HZ \div 100, 2}) = DIVISOR
  BY <1>1, MaxOfTwo, SMT
<1>3. DIVISOR <= WORD - 1 /\ WORD - 1 \in Int
  BY SMT DEF DIVISOR, WORD
<1>4. Min({DIVISOR, WORD - 1}) = DIVISOR
  BY <1>1, <1>3, MinOfTwo, SMT
<1> QED BY <1>2, <1>4, Zenon DEF pit_set_frequency

\* The timer.
LEMMA TimerStep ==
    ASSUME StartupInv, Tables, pit_init
    PROVE  CoreInv' /\ PicInv' /\ SerialInv' /\ KeyboardInv'
<1>1. /\ StepInv /\ CpuInv /\ TablesInv /\ PartsInv /\ PicInv /\ KeyboardInv
      /\ at \in Nat /\ 1 <= at /\ at <= 34 /\ at' = at + 1 /\ byte' \in 0..(MESSAGE - 1)
      /\ SerialInv' /\ kbc' = kbc /\ keys' = keys
  BY TablesFrame
<1>2. UNCHANGED <<cpu, gdt, idt, ready, status, pic>> /\ pit' = DIVISOR
  BY Divisor DEF pit_init
<1>3. at \in {15, 30}
  <2>1. Doing("hal_timer_init") \/ Doing("hal_set_timer_frequency")
    BY DEF pit_init
  <2> QED BY <1>1, <2>1, Places DEF Doing
<1>4. StepInv'
  <2>1. at' \in Nat /\ 1 <= at' /\ at' <= 34
    BY <1>1, <1>3
  <2>2. DIVISOR \in Nat /\ 2 <= DIVISOR /\ DIVISOR <= WORD
    BY SMT DEF DIVISOR, WORD
  <2> QED BY <1>1, <1>2, <2>1, <2>2 DEF StepInv
<1>5. CpuInv'
  BY <1>1, <1>2, <1>3, CpuKept
<1>6. TablesInv'
  BY <1>1, <1>2, <1>3, TablesKept
<1>7. PartsInv'
  BY <1>1, <1>2, <1>3, PartsKept
<1>8. PicInv'
  BY <1>1, <1>2, <1>3, PicKept
<1>9. KeyboardInv'
  BY <1>1, <1>2, <1>3, KeyboardKept
<1> QED BY <1>1, <1>4, <1>5, <1>6, <1>7, <1>8, <1>9 DEF CoreInv

\* What is initialised in memory.
LEMMA InMemoryStep ==
    ASSUME StartupInv, Tables, InMemory
    PROVE  CoreInv' /\ PicInv' /\ SerialInv' /\ KeyboardInv'
<1>1. /\ StepInv /\ CpuInv /\ TablesInv /\ PartsInv /\ PicInv /\ KeyboardInv
      /\ at \in Nat /\ 1 <= at /\ at <= 34 /\ at' = at + 1 /\ byte' \in 0..(MESSAGE - 1)
      /\ SerialInv' /\ kbc' = kbc /\ keys' = keys
  BY TablesFrame
<1>2. UNCHANGED <<cpu, gdt, idt, pit, status, pic>>
  BY DEF InMemory
<1>3. PICK part \in PARTS : Doing(part) /\ ready' = ready \cup {part}
  BY DEF InMemory, PARTS
<1>4. at = PLACE[part] /\ at \in {2, 9, 23, 28, 32}
  <2>1. kernel_main[at] = part
    BY <1>3 DEF Doing
  <2>2. /\ part = "scheduler_init" => at = 2
        /\ part = "page_tables" => at = 9
        /\ part = "dma_init" => at = 23
        /\ part = "kmalloc_init" => at = 28
        /\ part = "commands" => at = 32
    BY Zenon, <1>1, <2>1, Places
  <2>3. at = PLACE[part]
    BY <1>3, <2>2, PartPlaces, Zenon DEF PARTS
  <2> QED BY <1>3, <2>3, PartPlaces
<1>5. StepInv'
  BY <1>1, <1>2, <1>4, StepKept
<1>6. CpuInv'
  BY <1>1, <1>2, <1>4, CpuKept
<1>7. TablesInv'
  BY <1>1, <1>2, <1>4, TablesKept
<1>8. PicInv'
  BY <1>1, <1>2, <1>4, PicKept
<1>9. KeyboardInv'
  BY <1>1, <1>2, <1>4, KeyboardKept
<1>10. PartsInv'
  <2>1. ASSUME NEW other \in PARTS, other # part
        PROVE  at' > PLACE[other] <=> at > PLACE[other]
    <3>1. PLACE[other] \in Nat /\ PLACE[other] # at
      BY <1>3, <1>4, <2>1, PartPlaces
    <3> QED BY <1>1, <3>1
  <2>2. at' > PLACE[part] /\ part \in PARTS
    BY <1>1, <1>4
  <2>3. ready \subseteq PARTS /\ \A other \in PARTS : other \in ready <=> at > PLACE[other]
    BY <1>1 DEF PartsInv, Over
  <2>4. /\ ready' \subseteq PARTS
        /\ \A other \in PARTS : other \in ready' <=> at' > PLACE[other]
    BY <1>3, <2>1, <2>2, <2>3
  <2> QED BY <2>4 DEF PartsInv, Over, PARTS
<1> QED BY <1>1, <1>5, <1>6, <1>7, <1>8, <1>9, <1>10 DEF CoreInv

\* The interrupt controllers: a request of the keyboard is dropped only before
\* hal_keyboard_init.
LEMMA PicStep ==
    ASSUME StartupInv, Tables, pic_init \/ pic_enable_irq
    PROVE  CoreInv' /\ PicInv' /\ SerialInv' /\ KeyboardInv'
<1>1. /\ StepInv /\ CpuInv /\ TablesInv /\ PartsInv /\ PicInv /\ KeyboardInv
      /\ at \in Nat /\ 1 <= at /\ at <= 34 /\ at' = at + 1 /\ byte' \in 0..(MESSAGE - 1)
      /\ SerialInv' /\ kbc' = kbc /\ keys' = keys
  BY TablesFrame
<1>2. UNCHANGED <<cpu, gdt, idt, ready, pit, status>>
  BY DEF pic_init, pic_enable_irq, coreVars
<1>3. \/ at = 6 /\ pic' = [base |-> 32, mask |-> LINES, irr |-> {}]
      \/ at = 24 /\ pic' = [pic EXCEPT !.mask = @ \ {0}]
      \/ at = 25 /\ pic' = [pic EXCEPT !.mask = @ \ {1}]
  BY <1>1, Places DEF pic_init, pic_enable_irq, Doing
<1>4. at \in {6, 24, 25}
  BY <1>3
<1>5. StepInv'
  BY <1>1, <1>2, <1>4, StepKept
<1>6. CpuInv'
  BY <1>1, <1>2, <1>4, CpuKept
<1>7. TablesInv'
  BY <1>1, <1>2, <1>4, TablesKept
<1>8. PartsInv'
  BY <1>1, <1>2, <1>4, PartsKept
<1>9. at > 19 => pic'.irr = pic.irr
  BY <1>1, <1>3 DEF PicInv
<1>10. KeyboardInv'
  BY <1>1, <1>2, <1>4, <1>9, KeyboardKept
<1>11. PicInv'
  <2>1. CASE at = 6
    BY <1>1, <1>3, <2>1, OversNext DEF PicInv, LINES
  <2>2. CASE at = 24
    BY <1>1, <1>3, <2>2, Overs, OversNext DEF PicInv, LINES
  <2>3. CASE at = 25
    BY <1>1, <1>3, <2>3, Overs, OversNext DEF PicInv, LINES
  <2> QED BY <1>4, <2>1, <2>2, <2>3
<1> QED BY <1>1, <1>5, <1>6, <1>7, <1>8, <1>10, <1>11 DEF CoreInv

-----------------------------------------------------------------------------
(* The serial port.                                                        *)

\* Steps that set up nothing but the serial port or the keyboard.
LEMMA CoreKept ==
    ASSUME CoreInv, UNCHANGED <<cpu, gdt, idt, ready, pit>>, byte' \in 0..(MESSAGE - 1),
           at' = at \/ (at' = at + 1 /\ at \in {1, 3, 10, 12, 14, 16, 27, 29, 31, 33} \cup 17..22)
    PROVE  CoreInv'
<1>1. StepInv /\ CpuInv /\ TablesInv /\ PartsInv /\ at \in Nat /\ 1 <= at /\ at <= 34
  BY DEF CoreInv, StepInv
<1>2. \/ at' = at
      \/ at' = at + 1 /\ at \notin {2, 4, 5, 7, 8, 9, 11, 13, 15, 23, 26, 28, 32, 34}
  OBVIOUS
<1>3. StepInv'
  BY <1>1, <1>2, StepKept
<1>4. CpuInv'
  BY <1>1, <1>2, CpuKept
<1>5. TablesInv'
  BY <1>1, <1>2, TablesKept
<1>6. PartsInv'
  BY <1>1, <1>2, PartsKept
<1> QED BY <1>3, <1>4, <1>5, <1>6 DEF CoreInv

\* A byte is written only into an empty holding register.
LEMMA WriteStep ==
    ASSUME StartupInv, hal_serial_write
    PROVE  CoreInv' /\ PicInv' /\ SerialInv' /\ KeyboardInv'
<1>1. CoreInv /\ PicInv /\ SerialInv /\ KeyboardInv /\ at \in Nat /\ 1 <= at /\ at <= 34 /\ byte \in 0..(MESSAGE - 1)
  BY DEF StartupInv, CoreInv, StepInv
<1>2. /\ uart = NONE /\ uart' = written + 1 /\ written' = written + 1
      /\ wire' = wire /\ before_init' = before_init
      /\ UNCHANGED <<cpu, gdt, idt, ready, pit, status, pic, kbc, keys>>
  BY DEF hal_serial_write, serial_write_byte, coreVars, keyVars
<1>3. at \in {1, 3, 10, 12, 14, 27, 29, 31, 33}
  BY Zenon, <1>1, Places DEF hal_serial_write, Doing
<1>4. (at' = at \/ at' = at + 1) /\ byte' \in 0..(MESSAGE - 1)
  BY <1>1, StartupAssumption DEF hal_serial_write, Done
<1>5. CoreInv'
  BY <1>1, <1>2, <1>3, <1>4, CoreKept
<1>6. PicInv'
  BY <1>1, <1>2, <1>3, <1>4, PicKept
<1>7. KeyboardInv'
  BY <1>1, <1>2, <1>3, <1>4, KeyboardKept
<1>8. SerialInv'
  <2>1. /\ written \in Nat /\ before_init \in 0..written /\ wire \in Seq(1..written)
        /\ SerialDelivers
    BY <1>1 DEF SerialInv
  <2>2. wire' \in Seq(1..written') /\ \A i \in DOMAIN wire : wire[i] \in 1..written
    BY <1>2, <2>1
  <2>3. (\A i, j \in DOMAIN wire : i < j => wire[i] < wire[j])'
    BY <1>2, <2>1 DEF SerialDelivers
  <2>4. ((before_init + 1)..written \subseteq Range(wire) \cup {uart})'
    <3>1. \A n \in (before_init + 1)..written : n \in Range(wire)
      BY <1>2, <2>1 DEF SerialDelivers, NONE
    <3> QED BY <1>2, <2>1, <3>1
  <2>5. SerialDelivers'
    BY <2>3, <2>4 DEF SerialDelivers
  <2>6. (uart # NONE => \A i \in DOMAIN wire : wire[i] < uart)'
    BY <1>2, <2>1, <2>2
  <2> QED BY <1>2, <2>1, <2>2, <2>5, <2>6 DEF SerialInv
<1> QED BY <1>5, <1>6, <1>7, <1>8

\* hal_serial_init may drop the byte in the holding register.
LEMMA SerialInitStep ==
    ASSUME StartupInv, hal_serial_init
    PROVE  CoreInv' /\ PicInv' /\ SerialInv' /\ KeyboardInv'
<1>1. CoreInv /\ PicInv /\ SerialInv /\ KeyboardInv /\ at \in Nat /\ 1 <= at /\ at <= 34
  BY DEF StartupInv, CoreInv, StepInv
<1>2. /\ uart' = NONE /\ before_init' = written /\ wire' = wire /\ written' = written
      /\ UNCHANGED <<cpu, gdt, idt, ready, pit, status, pic, kbc, keys>>
      /\ at' = at + 1 /\ byte' = 0
  BY DEF hal_serial_init, coreVars, keyVars, Done
<1>3. at = 16 /\ byte' \in 0..(MESSAGE - 1)
  <2>1. at = 16
    BY Zenon, <1>1, Places DEF hal_serial_init, Doing
  <2> QED BY <1>2, <2>1, StartupAssumption
<1>4. CoreInv'
  BY <1>1, <1>2, <1>3, CoreKept
<1>5. PicInv'
  BY <1>1, <1>2, <1>3, PicKept
<1>6. KeyboardInv'
  <2>1. at \notin 17..22
    BY <1>3
  <2> QED BY ZenonT(30), <1>1, <1>2, <2>1, KeyboardKept
<1>7. SerialInv'
  <2>1. (before_init' + 1)..written' = {}
    BY <1>1, <1>2 DEF SerialInv
  <2> QED BY <1>1, <1>2, <2>1 DEF SerialInv, SerialDelivers
<1> QED BY <1>4, <1>5, <1>6, <1>7

\* The byte that is sent comes after all those sent before.
LEMMA SendStep ==
    ASSUME StartupInv, Send
    PROVE  CoreInv' /\ PicInv' /\ SerialInv' /\ KeyboardInv'
<1>1. CoreInv /\ PicInv /\ SerialInv /\ KeyboardInv /\ at \in Nat /\ 1 <= at /\ at <= 34 /\ byte \in 0..(MESSAGE - 1)
  BY DEF StartupInv, CoreInv, StepInv
<1>2. /\ uart # NONE /\ uart' = NONE /\ wire' = Append(wire, uart)
      /\ UNCHANGED <<at, byte, cpu, gdt, idt, ready, pit, status, pic, kbc, keys>>
      /\ UNCHANGED <<written, before_init>>
  BY DEF Send, coreVars, keyVars
<1>3. CoreInv'
  BY <1>1, <1>2, CoreKept
<1>4. PicInv'
  BY <1>1, <1>2, PicKept
<1>5. KeyboardInv'
  BY <1>1, <1>2, KeyboardKept
<1>6. SerialInv'
  <2>1. /\ written \in Nat /\ before_init \in 0..written /\ wire \in Seq(1..written)
        /\ uart = written /\ uart \in 1..written
        /\ \A i \in DOMAIN wire : wire[i] < uart
        /\ \A i, j \in DOMAIN wire : i < j => wire[i] < wire[j]
        /\ (before_init + 1)..written \subseteq Range(wire) \cup {uart}
    BY <1>1, <1>2 DEF SerialInv, SerialDelivers, NONE
  <2>2. /\ wire' \in Seq(1..written) /\ Len(wire') = Len(wire) + 1
        /\ \A i \in 1..Len(wire) : wire'[i] = wire[i]
        /\ wire'[Len(wire) + 1] = uart
        /\ DOMAIN wire = 1..Len(wire) /\ DOMAIN wire' = 1..(Len(wire) + 1) /\ Len(wire) \in Nat
    BY <1>2, <2>1
  <2>3. Range(wire) \cup {uart} \subseteq Range(wire')
    BY <2>2 DEF Range
  <2>4. \A i, j \in DOMAIN wire' : i < j => wire'[i] < wire'[j]
    <3> SUFFICES ASSUME NEW i \in DOMAIN wire', NEW j \in DOMAIN wire', i < j
                 PROVE  wire'[i] < wire'[j]
      OBVIOUS
    <3>1. i \in DOMAIN wire /\ wire'[i] = wire[i] /\ (j \in DOMAIN wire \/ j = Len(wire) + 1)
      BY <2>2
    <3>2. CASE j \in DOMAIN wire
      BY <2>1, <2>2, <3>1, <3>2
    <3>3. CASE j = Len(wire) + 1
      BY <2>1, <2>2, <3>1, <3>3
    <3> QED BY <3>1, <3>2, <3>3
  <2>5. SerialDelivers'
    BY <1>2, <2>1, <2>3, <2>4 DEF SerialDelivers
  <2> QED BY ZenonT(30), <1>2, <2>1, <2>2, <2>5 DEF SerialInv
<1> QED BY <1>3, <1>4, <1>5, <1>6

-----------------------------------------------------------------------------
(* The keyboard controller and the interrupts.                             *)

\* A line that is high has its request if it had it before.
LEMMA Becoming ==
    ASSUME PicInv, at \in Nat /\ 1 <= at /\ at <= 34, at' = at \/ (at' = at + 1 /\ at \notin {6, 24, 25}),
           NEW k, Becomes(k)
    PROVE  /\ PicInv' /\ kbc' = k
           /\ LineHigh(k) /\ (LineHigh(kbc) => 1 \in pic.irr) => 1 \in pic'.irr
<1>1. PICK irr \in CASE LineHigh(k) /\ ~LineHigh(kbc) -> {pic.irr \cup {1}}
                     [] ~LineHigh(k) /\ LineHigh(kbc) -> {pic.irr, pic.irr \ {1}}
                     [] OTHER -> {pic.irr} :
          pic' = [pic EXCEPT !.irr = irr]
  BY Zenon DEF Becomes
<1>2. /\ LineHigh(k) /\ ~LineHigh(kbc) => irr \in {pic.irr \cup {1}}
      /\ LineHigh(k) /\ LineHigh(kbc) => irr \in {pic.irr}
      /\ ~LineHigh(k) /\ LineHigh(kbc) => irr \in {pic.irr, pic.irr \ {1}}
      /\ ~LineHigh(k) /\ ~LineHigh(kbc) => irr \in {pic.irr}
  BY <1>1, Zenon
<1>3. irr = pic.irr \/ irr = pic.irr \cup {1} \/ irr = pic.irr \ {1}
  BY <1>2, Zenon
<1>4. pic' = [pic EXCEPT !.irr = irr] /\ kbc' = k
  BY <1>1, Zenon DEF Becomes
<1>5. pic \in [base : {8, 32}, mask : SUBSET LINES, irr : SUBSET {0, 1}]
  BY DEF PicInv
<1>6. irr \in SUBSET {0, 1}
  BY <1>3, <1>5
<1>7. PicInv'
  BY <1>4, <1>6, PicKept
<1>8. pic'.irr = irr
  BY <1>4, <1>5
<1>9. LineHigh(k) => irr = pic.irr \cup {1} \/ (irr = pic.irr /\ LineHigh(kbc))
  BY <1>2, Zenon
<1> QED BY <1>4, <1>7, <1>8, <1>9

\* What the devices leave alone.
LEMMA DeviceFrame ==
    ASSUME StartupInv, UNCHANGED <<at, byte, coreVars, serialVars>>
    PROVE  /\ CoreInv' /\ SerialInv' /\ PicInv /\ KeyboardInv
           /\ at \in Nat /\ 1 <= at /\ at <= 34 /\ at' = at /\ status' = status
<1>1. CoreInv /\ PicInv /\ SerialInv /\ KeyboardInv /\ at \in Nat /\ 1 <= at /\ at <= 34 /\ byte \in 0..(MESSAGE - 1)
  BY DEF StartupInv, CoreInv, StepInv
<1>2. UNCHANGED <<at, byte, cpu, gdt, idt, ready, pit, status>>
  BY DEF coreVars
<1>3. CoreInv'
  BY <1>1, <1>2, CoreKept
<1>4. SerialInv'
  BY <1>1, SerialSame
<1> QED BY <1>1, <1>2, <1>3, <1>4

\* What KeyboardInv says where nothing moves on.
LEMMA KeyboardHolds ==
    ASSUME KeyboardInv, at \in Nat /\ 1 <= at /\ at <= 34, at' = at, status' = status,
           kbc' \in KBC, keys' \in 0..MAX_KEYS, ~kbc'.off,
           kbc'.ibf \in {"none", kbc.ibf},
           kbc'.int1 <=> (kbc.int1 \/ (kbc.ibf = "status" /\ kbc'.ibf = "none")),
           at > 19 /\ LineHigh(kbc') => 1 \in pic'.irr
    PROVE  KeyboardInv'
<1>4. /\ status \in {"none", "config", "code", "ack"}
      /\ at > 19 => status # "none"
      /\ kbc.ibf = "status" => at = 22
      /\ at = 22 => kbc.ibf \in {"none", "status"}
      /\ (at = 22 /\ kbc.ibf = "none") \/ at > 22 => kbc.int1
  BY ZenonT(30), KeyboardFacts
<1>5. /\ kbc'.ibf = "status" => at = 22
      /\ at = 22 => kbc'.ibf \in {"none", "status"}
      /\ (at = 22 /\ kbc'.ibf = "none") \/ at > 22 => kbc'.int1
  BY ZenonT(30), <1>4
<1>6. at > 19 => (LineHigh(kbc)' => 1 \in pic'.irr)
  BY DEF LineHigh
<1> QED BY ZenonT(30), <1>4, <1>5, <1>6, KeyboardNext

\* Answers and scan codes.
LEMMA BufferStep ==
    ASSUME StartupInv, Answer \/ Keyboard
    PROVE  CoreInv' /\ PicInv' /\ SerialInv' /\ KeyboardInv'
<1>1. PICK k : k \in KBC /\ ~k.off /\ k.ibf = kbc.ibf /\ k.int1 = kbc.int1
                 /\ Becomes(k) /\ keys' \in 0..MAX_KEYS
  <2>1. kbc \in KBC /\ ~kbc.off /\ keys \in 0..MAX_KEYS
    BY KeyboardFacts DEF StartupInv
  <2>2. CASE Answer
    <3>1. PICK a \in kbc.pending : Becomes([kbc EXCEPT !.obf = a, !.pending = @ \ {a}])
      BY Zenon, <2>2 DEF Answer
    <3>2. PICK k : k = [kbc EXCEPT !.obf = a, !.pending = @ \ {a}]
      OBVIOUS
    <3>3. k \in KBC /\ ~k.off /\ k.ibf = kbc.ibf /\ k.int1 = kbc.int1
      BY Zenon, <2>1, <3>2 DEF KBC
    <3>4. keys' = keys
      BY Zenon, <2>2 DEF Answer
    <3> QED BY Zenon, <2>1, <3>1, <3>2, <3>3, <3>4
  <2>3. CASE Keyboard
    <3>1. PICK k : k = [kbc EXCEPT !.obf = "code"]
      BY Zenon
    <3>2. Becomes(k) /\ keys > 0 /\ keys' = keys - 1
      BY <2>3, <3>1 DEF Keyboard
    <3>3. k \in KBC /\ ~k.off /\ k.ibf = kbc.ibf /\ k.int1 = kbc.int1
      BY <2>1, <3>1 DEF KBC
    <3>4. keys' \in 0..MAX_KEYS
      BY <2>1, <3>2, StartupAssumption
    <3> QED BY Zenon, <3>2, <3>3, <3>4
  <2> QED BY <2>2, <2>3
<1>2. UNCHANGED <<at, byte, coreVars, serialVars>>
  BY Zenon DEF Answer, Keyboard
<1>3. /\ CoreInv' /\ SerialInv' /\ PicInv /\ KeyboardInv
      /\ at \in Nat /\ 1 <= at /\ at <= 34 /\ at' = at /\ status' = status
  BY <1>2, DeviceFrame
<1>4. /\ PicInv' /\ kbc' = k
      /\ LineHigh(k) /\ (LineHigh(kbc) => 1 \in pic.irr) => 1 \in pic'.irr
  BY ZenonT(30), <1>1, <1>3, Becoming
<1>5. at > 19 => (LineHigh(kbc) => 1 \in pic.irr)
  BY ZenonT(30), <1>3, KeyboardFacts
<1>6. kbc.ibf = "status" => kbc'.ibf # "none"
  BY <1>1, <1>4
<1>7. KeyboardInv'
  BY ZenonT(30), <1>1, <1>3, <1>4, <1>5, <1>6, KeyboardHolds
<1> QED BY <1>3, <1>4, <1>7

\* The controller takes a byte.
LEMMA ControllerStep ==
    ASSUME StartupInv, Controller
    PROVE  CoreInv' /\ PicInv' /\ SerialInv' /\ KeyboardInv'
<1>1. UNCHANGED <<at, byte, coreVars, serialVars>> /\ keys' = keys /\ kbc.ibf # "none"
  BY Zenon DEF Controller
<1>2. /\ CoreInv' /\ SerialInv' /\ PicInv /\ KeyboardInv
      /\ at \in Nat /\ 1 <= at /\ at <= 34 /\ at' = at /\ status' = status
  BY <1>1, DeviceFrame
<1>3. /\ kbc \in KBC /\ ~kbc.off /\ keys \in 0..MAX_KEYS
      /\ kbc.ibf = "status" => status \in {"config", "code", "ack"}
      /\ at > 19 => (LineHigh(kbc) => 1 \in pic.irr)
  <2>1. at = 22 => at > 19
    OBVIOUS
  <2> QED BY ZenonT(30), <1>2, <2>1, KeyboardFacts
<1>4. PICK taken : taken = [kbc EXCEPT !.ibf = "none"]
  BY Zenon
<1>5. PICK k : k = CASE kbc.ibf = "0xAE" -> [taken EXCEPT !.off = FALSE]
                     [] kbc.ibf = "0x20" -> [taken EXCEPT !.pending = @ \cup {"config"}]
                     [] kbc.ibf = "0x60" -> taken
                     [] kbc.ibf = "status" -> [taken EXCEPT !.int1 = TRUE, !.off = FALSE,
                                                            !.rest = status]
                     [] kbc.ibf = "0xF4" -> [taken EXCEPT !.pending = @ \cup {"ack"}]
  BY Zenon
<1>6. Becomes(k)
  BY <1>4, <1>5, Zenon DEF Controller
<1>7. /\ kbc.ibf = "0xAE" => k = [taken EXCEPT !.off = FALSE]
      /\ kbc.ibf = "0x20" => k = [taken EXCEPT !.pending = @ \cup {"config"}]
      /\ kbc.ibf = "0x60" => k = taken
      /\ kbc.ibf = "status" => k = [taken EXCEPT !.int1 = TRUE, !.off = FALSE, !.rest = status]
      /\ kbc.ibf = "0xF4" => k = [taken EXCEPT !.pending = @ \cup {"ack"}]
  <2>1. kbc.ibf = "0xAE" => k = [taken EXCEPT !.off = FALSE]
    BY <1>5, Zenon
  <2>2. kbc.ibf = "0x20" => k = [taken EXCEPT !.pending = @ \cup {"config"}]
    BY <1>5, Zenon
  <2>3. kbc.ibf = "0x60" => k = taken
    BY <1>5, Zenon
  <2>4. kbc.ibf = "status" => k = [taken EXCEPT !.int1 = TRUE, !.off = FALSE, !.rest = status]
    BY <1>5, Zenon
  <2>5. kbc.ibf = "0xF4" => k = [taken EXCEPT !.pending = @ \cup {"ack"}]
    BY <1>5, Zenon
  <2> QED BY <2>1, <2>2, <2>3, <2>4, <2>5
<1>8. kbc.ibf \in {"0xAE", "0x20", "0x60", "status", "0xF4"}
  BY ZenonT(30), <1>1, <1>3 DEF KBC
<1>9. /\ k \in KBC /\ ~k.off /\ k.ibf = "none"
      /\ k.int1 <=> (kbc.int1 \/ kbc.ibf = "status")
  <2>1. taken \in KBC /\ ~taken.off /\ taken.ibf = "none" /\ taken.int1 = kbc.int1
    BY <1>3, <1>4 DEF KBC
  <2>2. CASE kbc.ibf = "0xAE"
    BY Zenon, <1>7, <2>1, <2>2 DEF KBC
  <2>3. CASE kbc.ibf = "0x20"
    BY <1>7, <2>1, <2>3 DEF KBC
  <2>4. CASE kbc.ibf = "0x60"
    BY <1>7, <2>1, <2>4 DEF KBC
  <2>5. CASE kbc.ibf = "status"
    BY ZenonT(30), <1>3, <1>7, <2>1, <2>5 DEF KBC
  <2>6. CASE kbc.ibf = "0xF4"
    BY <1>7, <2>1, <2>6 DEF KBC
  <2> QED BY Zenon, <1>8, <2>2, <2>3, <2>4, <2>5, <2>6
<1>10. /\ PicInv' /\ kbc' = k
       /\ LineHigh(k) /\ (LineHigh(kbc) => 1 \in pic.irr) => 1 \in pic'.irr
  BY ZenonT(30), <1>2, <1>6, Becoming
<1>11. KeyboardInv'
  BY ZenonT(30), <1>1, <1>2, <1>3, <1>9, <1>10, KeyboardHolds
<1> QED BY <1>2, <1>10, <1>11

\* Ticks and interrupts: irq1_handler lowers the line with the request.
LEMMA InterruptStep ==
    ASSUME StartupInv, Tick \/ irq0_handler \/ irq1_handler
    PROVE  CoreInv' /\ PicInv' /\ SerialInv' /\ KeyboardInv'
<1>1. UNCHANGED <<at, byte, coreVars, serialVars>> /\ keys' = keys
  BY DEF Tick, irq0_handler, irq1_handler, keyVars
<1>2. /\ CoreInv' /\ SerialInv' /\ PicInv /\ KeyboardInv
      /\ at \in Nat /\ 1 <= at /\ at <= 34 /\ at' = at /\ status' = status
  BY <1>1, DeviceFrame
<1>3. /\ pic \in [base : {8, 32}, mask : SUBSET LINES, irr : SUBSET {0, 1}]
      /\ kbc \in KBC /\ ~kbc.off /\ keys \in 0..MAX_KEYS
      /\ at > 19 => (LineHigh(kbc) => 1 \in pic.irr)
  BY <1>2, KeyboardFacts DEF PicInv
<1>4. PICK irr \in SUBSET {0, 1} :
        /\ pic' = [pic EXCEPT !.irr = irr]
        /\ \/ kbc' = kbc /\ (1 \in pic.irr => 1 \in irr)
           \/ kbc' = [kbc EXCEPT !.obf = "none"]
  <2>1. CASE Tick
    BY <1>3, <2>1 DEF Tick, keyVars
  <2>2. CASE irq0_handler
    BY <1>3, <2>2 DEF irq0_handler, keyVars
  <2>3. CASE irq1_handler
    BY Zenon, <1>3, <2>3 DEF irq1_handler
  <2> QED BY <2>1, <2>2, <2>3
<1>5. PicInv' /\ pic'.irr = irr
  BY <1>2, <1>3, <1>4, PicKept
<1>6. /\ kbc' \in KBC /\ ~kbc'.off /\ kbc'.ibf = kbc.ibf /\ kbc'.int1 = kbc.int1
      /\ at > 19 /\ LineHigh(kbc') => 1 \in pic'.irr
  BY <1>3, <1>4, <1>5 DEF KBC, LineHigh
<1>7. kbc.ibf = "status" => kbc'.ibf # "none"
  BY <1>6
<1>8. KeyboardInv'
  BY Zenon, <1>1, <1>2, <1>3, <1>6, <1>7, KeyboardHolds
<1> QED BY <1>2, <1>5, <1>8

\* hal_keyboard_init: it goes on only when the controller has taken the byte
\* before, and with "read" the line falls.
LEMMA KeyboardInitStep ==
    ASSUME StartupInv, KeyboardInit
    PROVE  CoreInv' /\ PicInv' /\ SerialInv' /\ KeyboardInv'
<1>1. /\ CoreInv /\ PicInv /\ SerialInv /\ KeyboardInv /\ at \in Nat /\ 1 <= at /\ at <= 34
      /\ at' = at + 1 /\ byte' = 0 /\ UNCHANGED <<cpu, gdt, idt, ready, pit>>
      /\ UNCHANGED serialVars /\ keys' = keys
  BY DEF StartupInv, CoreInv, StepInv, KeyboardInit, Done
<1>2. SerialInv' /\ byte' \in 0..(MESSAGE - 1)
  BY <1>1, SerialSame, StartupAssumption
<1>3. /\ kbc \in KBC /\ ~kbc.off /\ keys \in 0..MAX_KEYS
      /\ status \in {"none", "config", "code", "ack"}
      /\ at > 19 => status # "none"
      /\ at > 19 => (LineHigh(kbc) => 1 \in pic.irr)
      /\ at = 22 /\ kbc.ibf = "none" => kbc.int1
  BY ZenonT(30), <1>1, KeyboardFacts
<1>5. ASSUME NEW step, NEW what \in {"0xAE", "0x20", "0x60", "status", "0xF4"},
             Outb(step, what), at \in {17, 18, 20, 21, 22},
             what = "status" <=> at = 21
      PROVE  PicInv' /\ KeyboardInv'
  <2>1. PICK k : k = [kbc EXCEPT !.ibf = what]
    BY Zenon
  <2>2. Becomes(k) /\ status' = status /\ kbc.ibf = "none"
    BY <1>5, <2>1 DEF Outb
  <2>3. k \in KBC /\ ~k.off /\ k.ibf = what /\ k.int1 = kbc.int1 /\ k.obf = kbc.obf
    BY <1>3, <2>1 DEF KBC
  <2>4. /\ PicInv' /\ kbc' = k
        /\ LineHigh(k) /\ (LineHigh(kbc) => 1 \in pic.irr) => 1 \in pic'.irr
    <3>1. at \notin {6, 24, 25}
      BY <1>5
    <3> QED BY ZenonT(30), <1>1, <2>2, <3>1, Becoming
  <2>5. LineHigh(kbc)' <=> LineHigh(k)
    BY <2>4 DEF LineHigh
  <2>6. at' > 19 => at > 19
    BY <1>1, <1>5
  <2>7. at' > 19 => status' # "none"
    BY <1>3, <2>2, <2>6
  <2>8. at' > 19 => (LineHigh(kbc)' => 1 \in pic'.irr)
    BY ZenonT(30), <1>3, <2>4, <2>5, <2>6
  <2>9. kbc'.ibf = "status" => at' = 22
    <3>1. at = 21 => at' = 22
      BY <1>1
    <3> QED BY Zenon, <1>5, <2>3, <2>4, <3>1
  <2>10. at' = 22 => kbc'.ibf = "status"
    <3>1. at' = 22 => at = 21
      BY <1>1
    <3> QED BY Zenon, <1>5, <2>3, <2>4, <3>1
  <2>11. at' > 22 => at = 22
    BY <1>1, <1>5
  <2>12. at' > 22 => kbc'.int1
    BY Zenon, <1>3, <2>2, <2>3, <2>4, <2>11
  <2> QED BY ZenonT(30), <1>1, <1>3, <2>2, <2>3, <2>4, <2>7, <2>8, <2>9, <2>10, <2>12, KeyboardNext
<1>6. CASE ReadConfiguration
  <2>1. PICK k : k = [kbc EXCEPT !.obf = "none"]
    BY Zenon
  <2>2. /\ Becomes(k) /\ status' = (IF kbc.obf = "config" THEN kbc.rest ELSE kbc.obf)
        /\ kbc.obf # "none"
    BY <1>6, <2>1 DEF ReadConfiguration
  <2>3. at = 19
    BY <1>1, <1>6, Places DEF ReadConfiguration, Doing
  <2>4. k \in KBC /\ ~k.off /\ k.ibf = kbc.ibf /\ ~LineHigh(k)
    BY <1>3, <2>1 DEF KBC, LineHigh
  <2>5. status' \in {"config", "code", "ack"}
    BY <1>3, <2>2 DEF KBC
  <2>6. PicInv' /\ kbc' = k
    <3>1. at \notin {6, 24, 25}
      BY <2>3
    <3> QED BY ZenonT(30), <1>1, <2>2, <3>1, Becoming
  <2>7. kbc.ibf # "status"
    <3>1. at # 22
      BY <2>3
    <3> QED BY Zenon, <1>1, <3>1, KeyboardFacts
  <2>8. ~LineHigh(kbc)'
    BY <2>4, <2>6 DEF LineHigh
  <2>9. CoreInv'
    BY <1>1, <1>2, <2>3, CoreKept
  <2>10. at' = 20
    BY <1>1, <2>3
  <2>11. kbc' \in KBC /\ ~kbc'.off /\ kbc'.ibf # "status" /\ status' # "none"
    BY <2>4, <2>5, <2>6, <2>7
  <2>12. KeyboardInv'
    <3>1. at' # 22 /\ ~(at' > 22)
      BY <2>10
    <3>2. status' \in {"none", "config", "code", "ack"}
      BY Zenon, <2>5
    <3>3. keys' \in 0..MAX_KEYS
      BY Zenon, <1>1, <1>3
    <3> QED BY ZenonT(30), <2>8, <2>11, <3>1, <3>2, <3>3, KeyboardNext
  <2> QED BY <1>2, <2>6, <2>9, <2>12
<1>7. \/ at = 17 /\ Outb("enable", "0xAE")
      \/ at = 18 /\ Outb("ask", "0x20")
      \/ at = 20 /\ Outb("write", "0x60")
      \/ at = 21 /\ Outb("data", "status")
      \/ at = 22 /\ Outb("scan", "0xF4")
      \/ ReadConfiguration
  <2>1. \/ Outb("enable", "0xAE") \/ Outb("ask", "0x20") \/ ReadConfiguration
        \/ Outb("write", "0x60") \/ Outb("data", "status") \/ Outb("scan", "0xF4")
    BY DEF KeyboardInit
  <2>2. \A step, what : Outb(step, what) => Doing(step)
    BY DEF Outb
  <2>3. /\ Doing("enable") => at = 17
        /\ Doing("ask") => at = 18
        /\ Doing("write") => at = 20
        /\ Doing("data") => at = 21
        /\ Doing("scan") => at = 22
    BY ZenonT(30), <1>1, Places DEF Doing
  <2> QED BY <2>1, <2>2, <2>3, Zenon
<1>8. CASE ~ReadConfiguration
  <2>1. at \in {17, 18, 20, 21, 22}
    BY <1>7, <1>8
  <2>2. CoreInv'
    BY <1>1, <1>2, <2>1, CoreKept
  <2>3. PicInv' /\ KeyboardInv'
    BY <1>5, <1>7, <1>8, <2>1
  <2> QED BY <1>2, <2>2, <2>3
<1> QED BY <1>6, <1>8

-----------------------------------------------------------------------------
(* The invariant, and what follows from it.                                *)

\* Every step of the loader, the kernel and the devices keeps the invariant.
LEMMA StartupStep ==
    ASSUME StartupInv, [StartupNext]_allVars
    PROVE  StartupInv'
<1>1. CASE pc = "kernel_main" /\ (Kernel \/ Devices) /\ UNCHANGED bootVars
  <2>1. BootInv' /\ pc' = "kernel_main"
    <3>1. BootInv'
      BY <1>1, LoaderStep DEF StartupInv
    <3>2. pc' = "kernel_main"
      BY <1>1 DEF bootVars
    <3> QED BY <3>1, <3>2
  <2>2. CASE Tables
    <3>1. \/ gdt_init \/ hal_cpu_init \/ idt_init \/ tss_init \/ vmm_switch_directory
             \/ vmm_enable_paging \/ sti
          \/ pit_init
          \/ InMemory
          \/ pic_init \/ pic_enable_irq
      BY <2>2, Zenon DEF Tables
    <3>2. CoreInv' /\ PicInv' /\ SerialInv' /\ KeyboardInv'
      BY <2>2, <3>1, RegistersStep, TimerStep, InMemoryStep, PicStep
    <3> QED BY <2>1, <3>2 DEF StartupInv
  <2>3. CASE hal_serial_write
    BY <2>1, <2>3, WriteStep DEF StartupInv
  <2>4. CASE hal_serial_init
    BY <2>1, <2>4, SerialInitStep DEF StartupInv
  <2>5. CASE KeyboardInit
    BY <2>1, <2>5, KeyboardInitStep DEF StartupInv
  <2>6. CASE Send
    BY <2>1, <2>6, SendStep DEF StartupInv
  <2>7. CASE Controller
    BY <2>1, <2>7, ControllerStep DEF StartupInv
  <2>8. CASE Answer \/ Keyboard
    BY <2>1, <2>8, BufferStep DEF StartupInv
  <2>9. CASE Tick \/ irq0_handler \/ irq1_handler
    BY <2>1, <2>9, InterruptStep DEF StartupInv
  <2>10. \/ Tables \/ hal_serial_write \/ hal_serial_init \/ KeyboardInit \/ Send \/ Controller
         \/ Answer \/ Keyboard
         \/ Tick \/ irq0_handler \/ irq1_handler
    BY <1>1 DEF Kernel, Devices
  <2> QED BY <2>2, <2>3, <2>4, <2>5, <2>6, <2>7, <2>8, <2>9, <2>10
<1>2. CASE (Loader \/ UNCHANGED bootVars) /\ UNCHANGED startVars
  <2>1. UNCHANGED <<at, byte, coreVars, serialVars, pic, kbc, keys>>
    BY <1>2 DEF startVars, keyVars
  <2>2. BootInv'
    BY <1>2, LoaderStep DEF StartupInv
  <2>3. /\ CoreInv' /\ SerialInv' /\ PicInv /\ KeyboardInv
        /\ at \in Nat /\ 1 <= at /\ at <= 34 /\ at' = at /\ status' = status
    BY <2>1, DeviceFrame
  <2>4. PicInv'
    BY <2>1, <2>3, PicKept
  <2>5. KeyboardInv'
    BY Zenon, <2>1, <2>3, KeyboardKept
  <2>6. pc' # "kernel_main" => at' = 1
    <3>1. pc = "kernel_main" => ~Loader
      BY ZenonT(30)
      DEF Loader, stage1, start, read_loop, Transfer, ReadFails, Advance, pm_entry, _start
    <3>2. pc = "kernel_main" => pc' = "kernel_main"
      BY <1>2, <3>1 DEF bootVars
    <3> QED BY <2>3, <3>2 DEF StartupInv
  <2> QED BY <2>2, <2>3, <2>4, <2>5, <2>6 DEF StartupInv
<1>3. \/ pc = "kernel_main" /\ (Kernel \/ Devices) /\ UNCHANGED bootVars
      \/ (Loader \/ UNCHANGED bootVars) /\ UNCHANGED startVars
  BY DEF StartupNext, Running, allVars
<1> QED BY <1>1, <1>2, <1>3

LEMMA StartupInvariant == StartupSpec => []StartupInv
<1>1. StartupSpec => StartupInit /\ [][StartupNext]_allVars
  BY PTL DEF StartupSpec
<1>2. StartupInit => StartupInv
  BY InitStartupInv
<1>3. StartupInv /\ [StartupNext]_allVars => StartupInv'
  BY StartupStep
<1> QED BY <1>1, <1>2, <1>3, PTL

\* Whenever kernel_main runs, memory holds the sectors of the boot drive's kernel.bin
\* in order, if the machine booted from drive 0x80 and that disk is as stage 2
\* counts it, and zeros after them in any case (the read loop and _start of the boot
\* loader): for all constants of stage 2 and a kernel of any size that
\* BootAssumption allows.
THEOREM KernelLoadedAlways == StartupSpec => []KernelLoaded
<1>1. ASSUME BootInv PROVE KernelLoaded
  <2>1. BootTypeOK /\ DOMAIN image = 0..(BSS_END - 1)
    BY <1>1 DEF BootInv
  <2>2. ASSUME pc = "kernel_main", NEW i \in DOMAIN image
        PROVE  IF i < IMAGE_SECTORS THEN KernelOnDisk => image[i] = Sector(drive, 9 + i)
               ELSE image[i] = ZERO
    <3>1. i \in Int /\ 0 <= i /\ i <= BSS_END - 1 /\ IMAGE_SECTORS \in Int /\ BSS_END \in Int
      BY <2>1, <2>2, Geometry
    <3>2. /\ HoldsKernel(image, IMAGE_SECTORS)
          /\ \A j \in IMAGE_SECTORS..(BSS_END - 1) : image[j] = ZERO
      BY <1>1, <2>2 DEF BootInv
    <3>3. KernelOnDisk => AsCounted /\ drive = HARD_DISK
      BY Zenon DEF KernelOnDisk, AsCounted
    <3>4. ASSUME i < IMAGE_SECTORS, KernelOnDisk PROVE image[i] = Sector(drive, 9 + i)
      <4>1. i \in 0..(IMAGE_SECTORS - 1)
        BY <3>1, <3>4
      <4> QED BY Zenon, <3>2, <3>3, <3>4, <4>1 DEF HoldsKernel
    <3>5. ASSUME ~(i < IMAGE_SECTORS) PROVE image[i] = ZERO
      BY <3>1, <3>2, <3>5
    <3> QED BY <3>4, <3>5
  <2> QED BY <2>1, <2>2 DEF KernelLoaded
<1>2. StartupInv => KernelLoaded
  BY <1>1 DEF StartupInv
<1> QED BY <1>2, StartupInvariant, PTL

\* The types of the startup follow from the invariant.
LEMMA StartupTypes ==
    ASSUME StartupInv
    PROVE  StartupTypeOK
<1>1. /\ StepInv /\ CpuInv /\ TablesInv /\ PartsInv /\ PicInv /\ SerialInv /\ KeyboardInv
      /\ cpu \in CPU /\ at \in Nat /\ 1 <= at /\ at <= 34
  BY Zenon DEF StartupInv, CoreInv, StepInv, CpuInv
<1>2. at \in DOMAIN kernel_main /\ \A i \in 1..34 : kernel_main[i] \in Range(kernel_main)
  <2>1. kernel_main \in Seq(STEPS) /\ Len(kernel_main) = 34
    BY KernelMain, Zenon
  <2>2. DOMAIN kernel_main = 1..34
    BY <2>1
  <2>3. at \in 1..34
    BY <1>1
  <2> QED BY <2>2, <2>3, Zenon DEF Range
<1>3. PARTS \subseteq Range(kernel_main)
  <2>1. /\ kernel_main[2] = "scheduler_init" /\ kernel_main[9] = "page_tables"
        /\ kernel_main[23] = "dma_init" /\ kernel_main[28] = "kmalloc_init"
        /\ kernel_main[32] = "commands"
    BY KernelMain, Zenon
  <2>2. 2 \in 1..34 /\ 9 \in 1..34 /\ 23 \in 1..34 /\ 28 \in 1..34 /\ 32 \in 1..34
    OBVIOUS
  <2>3. /\ "scheduler_init" \in Range(kernel_main) /\ "page_tables" \in Range(kernel_main)
        /\ "dma_init" \in Range(kernel_main) /\ "kmalloc_init" \in Range(kernel_main)
        /\ "commands" \in Range(kernel_main)
    BY <1>2, <2>1, <2>2, Zenon
  <2> QED BY <2>3, Zenon DEF PARTS
<1>4. ready \subseteq Range(kernel_main)
  BY <1>1, <1>3 DEF PartsInv
<1>5. /\ cpu.if \in BOOLEAN /\ cpu.cr0 \subseteq {0, 1, 4, PG} /\ cpu.cr4 \subseteq {9, 10}
      /\ cpu.cr3 \in {"none", "kernel_page_directory"} /\ cpu.tr \in {0, 5}
      /\ cpu.gdtr \in {"loader", "kernel"} /\ cpu.idtr \in {"bios", "kernel"}
  BY <1>1 DEF CPU
<1>6. DOMAIN gdt = 0..5 /\ cpu.tr \in DOMAIN gdt /\ idt \subseteq 0..255
  <2>1. DOMAIN gdt = 0..5 /\ (idt = (0..47) \cup {128} \/ idt = {})
    BY <1>1, Zenon DEF TablesInv
  <2>2. cpu.tr \in 0..5
    <3>1. cpu.tr = 0 \/ cpu.tr = 5
      BY <1>5, Zenon
    <3> QED BY <3>1
  <2>3. idt \subseteq 0..255
    BY <2>1
  <2> QED BY <2>1, <2>2, <2>3, Zenon
<1>7. pit \in Nat /\ 2 <= pit /\ pit <= WORD
  BY <1>1 DEF StepInv
<1>8. pic \in [base : {8, 32}, mask : SUBSET LINES, irr : SUBSET {0, 1}]
  BY <1>1 DEF PicInv
<1>9. /\ written \in Nat /\ before_init \in 0..written
      /\ uart \in 0..written /\ wire \in Seq(1..written)
  BY <1>1 DEF SerialInv, NONE
<1>10. /\ kbc \in [obf : {"none", "code", "config", "ack"}, int1 : BOOLEAN, off : BOOLEAN,
                   ibf : {"none", "0xAE", "0x20", "0x60", "status", "0xF4"},
                   pending : SUBSET {"config", "ack"}, rest : {"config", "code", "ack"}]
       /\ status \in {"none", "config", "code", "ack"} /\ keys \in 0..MAX_KEYS
  BY Zenon, <1>1 DEF KeyboardInv, KBC
<1>11. byte \in 0..(MESSAGE - 1)
  BY <1>1 DEF StepInv
<1> QED BY <1>2, <1>4, <1>5, <1>6, <1>7, <1>8, <1>9, <1>10, <1>11, Zenon DEF StartupTypeOK

\* Nothing is used before kernel_main and hal_init have set it up: gates, segments,
\* the scheduler, the page tables and the TSS; and at the prompt all is ready.
THEOREM SetupBeforeUseAlways == StartupSpec => []SetupBeforeUse
<1>1. ASSUME StartupInv PROVE SetupBeforeUse
  <2>1. /\ StepInv /\ CpuInv /\ TablesInv /\ PartsInv /\ PicInv /\ cpu \in CPU /\ at \in Nat /\ 1 <= at /\ at <= 34
    BY Zenon, <1>1 DEF StartupInv, CoreInv, StepInv, CpuInv
  <2>2. StartupTypeOK
    BY <1>1, StartupTypes
  <2>3. Accepted # {} =>
          /\ cpu.idtr = "kernel" /\ {pic.base + n : n \in Accepted} \subseteq idt
          /\ cpu.gdtr = "kernel" /\ gdt[1] = "kernel code"
          /\ "scheduler_init" \in ready
    <3> SUFFICES ASSUME Accepted # {}
                 PROVE  /\ cpu.idtr = "kernel" /\ {pic.base + n : n \in Accepted} \subseteq idt
                        /\ cpu.gdtr = "kernel" /\ gdt[1] = "kernel code"
                        /\ "scheduler_init" \in ready
      BY Zenon
    <3>1. cpu.if /\ Accepted = pic.irr \ pic.mask
      BY DEF Accepted
    <3>2. at > 26
      BY ZenonT(30), <2>1, <3>1, Overs DEF CpuInv
    <3>3. cpu.idtr = "kernel" /\ cpu.gdtr = "kernel"
      <4>1. Over("idt_init") /\ Over("gdt_init")
        BY <2>1, <3>2, Overs
      <4> QED BY Zenon, <2>1, <4>1 DEF CpuInv
    <3>4. gdt[1] = "kernel code" /\ idt = (0..47) \cup {128}
      <4>1. Over("gdt_init") /\ Over("idt_init")
        BY <2>1, <3>2, Overs
      <4> QED BY <2>1, <4>1, Zenon DEF TablesInv
    <3>5. "scheduler_init" \in ready
      BY <2>1, <3>2, Overs DEF PartsInv, PARTS
    <3>6. Accepted \subseteq {0, 1} /\ pic.base = 32
      <4>1. Over("pic_init")
        BY <2>1, <3>2, Overs
      <4> QED BY Zenon, <2>1, <3>1, <4>1 DEF PicInv
    <3>7. {pic.base + n : n \in Accepted} \subseteq idt
      <4>1. \A n \in Accepted : n = 0 \/ n = 1
        BY <3>6, Zenon
      <4>2. \A n \in Accepted : pic.base + n \in 0..47
        BY <3>6, <4>1
      <4> QED BY <3>4, <4>2, Zenon
    <3> QED BY Zenon, <3>3, <3>4, <3>5, <3>7
  <2>4. PG \in cpu.cr0 => cpu.cr3 = "kernel_page_directory" /\ "page_tables" \in ready
    <3> SUFFICES ASSUME PG \in cpu.cr0
                 PROVE  cpu.cr3 = "kernel_page_directory" /\ "page_tables" \in ready
      OBVIOUS
    <3>1. at > 13
      <4>1. Over("vmm_enable_paging")
        <5>1. PG # 0 /\ PG # 1 /\ PG # 4
          BY DEF PG
        <5> QED BY Zenon, <2>1, <5>1 DEF CpuInv
      <4> QED BY Zenon, <4>1, Overs
    <3>2. cpu.cr3 = "kernel_page_directory"
      <4>1. Over("vmm_switch_directory")
        <5>1. at > 11
          BY <2>1, <3>1
        <5> QED BY Zenon, <5>1, Overs
      <4> QED BY Zenon, <2>1, <4>1 DEF CpuInv
    <3>3. "page_tables" \in ready
      <4>1. Over("page_tables")
        <5>1. at > 9
          BY <2>1, <3>1
        <5> QED BY Zenon, <5>1, Overs
      <4> QED BY Zenon, <2>1, <4>1 DEF PartsInv, PARTS
    <3> QED BY <3>2, <3>3
  <2>5. cpu.tr # 0 => cpu.gdtr = "kernel" /\ gdt[cpu.tr] = "tss"
    <3> SUFFICES ASSUME cpu.tr # 0 PROVE cpu.gdtr = "kernel" /\ gdt[cpu.tr] = "tss"
      OBVIOUS
    <3>1. at > 8 /\ cpu.tr = 5
      BY ZenonT(30), <2>1, Overs DEF CpuInv
    <3>2. cpu.gdtr = "kernel"
      <4>1. Over("gdt_init")
        BY <2>1, <3>1, Overs
      <4> QED BY Zenon, <2>1, <4>1 DEF CpuInv
    <3>3. gdt[5] = "tss"
      BY Zenon, <2>1, <3>1, Overs DEF TablesInv
    <3> QED BY <3>1, <3>2, <3>3
  <2>6. Prompt =>
          /\ ready = {"scheduler_init", "page_tables", "dma_init", "kmalloc_init", "commands"}
          /\ {0, PG} \subseteq cpu.cr0 /\ cpu.cr0 \cap {2, 3} = {}
          /\ cpu.if /\ pic.mask = LINES \ {0, 1} /\ PIT_HZ \div pit = 100
    <3> SUFFICES ASSUME Prompt
                 PROVE  /\ ready = {"scheduler_init", "page_tables", "dma_init", "kmalloc_init",
                                    "commands"}
                        /\ {0, PG} \subseteq cpu.cr0 /\ cpu.cr0 \cap {2, 3} = {}
                        /\ cpu.if /\ pic.mask = LINES \ {0, 1} /\ PIT_HZ \div pit = 100
      OBVIOUS
    <3>1. at = 34
      BY Zenon, <2>1, Places DEF Prompt, Doing
    <3>2. ready = PARTS
      <4>1. \A part \in PARTS : Over(part)
        BY <3>1, Overs DEF PARTS
      <4> QED BY <2>1, <4>1, Zenon DEF PartsInv
    <3>3. {0, PG} \subseteq cpu.cr0 /\ cpu.cr0 \cap {2, 3} = {}
      <4>1. Over("hal_cpu_init") /\ Over("vmm_enable_paging")
        BY <3>1, Overs
      <4>2. cpu.cr0 = {0} \cup {1, 4} \cup {PG}
        BY Zenon, <2>1, <4>1 DEF CpuInv
      <4> QED BY ONLY <4>2 DEF PG
    <3>4. cpu.if
      <4>1. Over("sti")
        BY <3>1, Overs
      <4> QED BY Zenon, <2>1, <4>1 DEF CpuInv
    <3>5. pic.mask = LINES \ {0, 1}
      <4>1. Over("pic_init") /\ Over("pic_enable_irq0") /\ Over("pic_enable_irq1")
        BY <3>1, Overs
      <4>2. pic.mask = LINES \ ({0} \cup {1})
        BY Zenon, <2>1, <4>1 DEF PicInv
      <4> QED BY Zenon, <4>2
    <3>6. pit = DIVISOR
      BY <2>1, <3>1, Overs DEF StepInv
    <3>7. PIT_HZ \div pit = 100
      BY <3>6, SMT DEF DIVISOR, PIT_HZ
    <3> QED BY <3>2, <3>3, <3>4, <3>5, <3>7, Zenon DEF PARTS
  <2> QED BY <2>2, <2>3, <2>4, <2>5, <2>6, Zenon DEF SetupBeforeUse
<1> QED BY <1>1, StartupInvariant, PTL

\* What hal_serial_write writes is sent in order, and after hal_serial_init without
\* a loss, for messages of any length.
THEOREM SerialDeliversAlways == StartupSpec => []SerialDelivers
<1>1. StartupInv => SerialDelivers
  BY DEF StartupInv, SerialInv
<1> QED BY <1>1, StartupInvariant, PTL

\* After sti a byte in the keyboard's output buffer has its interrupt requested, and
\* hal_keyboard_init has left the interrupt and the clock on, for any number of keys.
THEOREM KeyboardAliveAlways == StartupSpec => []KeyboardAlive
<1>1. ASSUME StartupInv, cpu.if
      PROVE  (kbc.obf # "none" => 1 \in pic.irr) /\ kbc.int1 /\ ~kbc.off
  <2>1. CpuInv /\ KeyboardInv
    BY <1>1 DEF StartupInv, CoreInv
  <2>2. Over("sti") /\ Over("read") /\ Over("scan")
    <3>1. Over("sti") /\ at \in Nat /\ 1 <= at /\ at <= 34
      BY ZenonT(30), <1>1, <2>1 DEF CpuInv, StartupInv, CoreInv, StepInv
    <3> QED BY <3>1, Overs
  <2>3. kbc.int1 /\ ~kbc.off /\ (LineHigh(kbc) => 1 \in pic.irr)
    BY Zenon, <2>1, <2>2 DEF KeyboardInv
  <2> QED BY <2>3 DEF LineHigh
<1>2. StartupInv => KeyboardAlive
  BY <1>1, Zenon DEF KeyboardAlive
<1> QED BY <1>2, StartupInvariant, PTL

=============================================================================
