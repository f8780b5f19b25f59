-------------------------------- MODULE Boot --------------------------------
(***************************************************************************)
(* The way from the BIOS to kernel_main: stage 1 (boot.asm) loads stage 2  *)
(* from the drive the BIOS booted from; stage 2 (boot2.asm) reads the      *)
(* kernel track by track into a buffer below 1 MB, enters protected mode   *)
(* and copies it to 1 MB; entry.asm zeroes .bss.  Memory and disk are      *)
(* modelled in sectors.  Stage 2 reads drive 0x80, whatever drive stage 1  *)
(* came from, and counts 18 sectors and 2 heads, whatever that disk has.   *)
(***************************************************************************)
EXTENDS Integers

CONSTANTS
    SECTORS_PER_TRACK, HEADS,   \* the geometry stage 2 counts in
    GEOMETRIES,                 \* <<sectors, heads>> that drive 0x80 may have
    KERNEL_SECTORS,             \* sectors that stage 2 loads
    IMAGE_SECTORS,              \* sectors of kernel.bin
    BSS_END,                    \* sectors from 1 MB to the end of .bss
    DRIVES                      \* drives the BIOS may boot from

\* Stage 2 compares sectors as signed bytes, and its destination is one
\* segment.
ASSUME BootAssumption ==
    /\ SECTORS_PER_TRACK \in 10..63 /\ HEADS \in 1..255
    /\ GEOMETRIES \subseteq (Nat \ {0}) \X (Nat \ {0})
    /\ KERNEL_SECTORS \in 1..127
    /\ IMAGE_SECTORS \in 1..KERNEL_SECTORS
    /\ BSS_END \in Nat /\ BSS_END >= IMAGE_SECTORS
    /\ DRIVES \subseteq 0..255

WORD == 65536                   \* 16-bit registers and variables wrap around
FLOPPY == 0
HARD_DISK == 128

VARIABLES
    pc,                         \* where the loader is
    drive,                      \* the drive the BIOS booted from
    disk,                       \* the geometry of drive 0x80
    cur_cyl, cur_head, cur_sect,
    this_read, sectors_left,
    bx,                         \* offset of the destination in its segment
    done,                       \* sectors of the current read transferred
    buffer,                     \* what the buffer holds, by sector
    image                       \* what memory from 1 MB on holds

bootVars == <<pc, drive, disk, cur_cyl, cur_head, cur_sect, this_read, sectors_left, bx,
              done, buffer, image>>
chs == <<cur_cyl, cur_head, cur_sect>>

Sector(d, lba) == [drive |-> d, lba |-> lba]
OLD == Sector(-1, 0)            \* whatever was in memory
ZERO == Sector(-1, 1)

BootTypeOK ==
    /\ pc \in {"stage1", "start", "read_loop", "reading", "pm_entry", "entry",
               "kernel_main", "disk_error"}
    /\ drive \in DRIVES /\ disk \in GEOMETRIES
    /\ cur_cyl \in 0..255 /\ cur_head \in 0..HEADS - 1
    /\ cur_sect \in 0..SECTORS_PER_TRACK
    /\ sectors_left \in 0..KERNEL_SECTORS
    /\ bx \in Nat /\ bx < WORD
    /\ done \in 0..KERNEL_SECTORS
    /\ this_read \in 0..SECTORS_PER_TRACK

BootInit ==
    /\ pc = "stage1"
    /\ drive \in DRIVES /\ disk \in GEOMETRIES
    /\ cur_cyl = 0 /\ cur_head = 0 /\ cur_sect = 0
    /\ this_read = 0 /\ sectors_left = 0
    /\ bx = 0
    /\ done = 0
    /\ buffer = [i \in 0..127 |-> OLD]
    /\ image = [i \in 0..BSS_END - 1 |-> OLD]

\* Stage 1 reads the eight sectors of stage 2, or fails.
stage1 ==
    /\ pc = "stage1"
    /\ pc' \in {"start", "disk_error"}
    /\ UNCHANGED <<drive, disk, chs, this_read, sectors_left, bx, done, buffer, image>>

\* Stage 2 starts at sector 10 of the first track.
start ==
    /\ pc = "start"
    /\ cur_head' = 0 /\ cur_cyl' = 0 /\ cur_sect' = 10
    /\ sectors_left' = KERNEL_SECTORS
    /\ bx' = 0
    /\ pc' = "read_loop"
    /\ UNCHANGED <<drive, disk, this_read, done, buffer, image>>

-----------------------------------------------------------------------------
(* Reading.                                                                *)

Signed(b) == IF b >= 128 THEN b - 256 ELSE b

\* Sectors from cur_sect to the end of the track.
TrackRest == SECTORS_PER_TRACK - cur_sect + 1

\* The rest of the track or of the kernel, compared as signed bytes.
ThisRead ==
    IF Signed(TrackRest) <= Signed(sectors_left % 256) THEN TrackRest
    ELSE sectors_left % 256

read_loop ==
    /\ pc = "read_loop"
    /\ IF sectors_left = 0
       THEN /\ pc' = "pm_entry"
            /\ UNCHANGED <<this_read, done>>
       ELSE /\ pc' = "reading"
            /\ this_read' = ThisRead
            /\ done' = 0
    /\ UNCHANGED <<drive, disk, chs, sectors_left, bx, buffer, image>>

\* Linear number of a sector of the disk given by cylinder, head and sector.
Lba(c, h, s) == (c * disk[2] + h) * disk[1] + s - 1

\* The BIOS transfers the sectors one by one from drive 0x80, and may fail at
\* each.  It refuses a head or a first sector that the disk does not have; at the
\* end of a track it goes on, or fails.
Transfer ==
    /\ pc = "reading" /\ done < this_read
    /\ cur_sect <= disk[1] /\ cur_head < disk[2]
    /\ buffer' = [buffer EXCEPT ![((bx + done * 512) % WORD) \div 512] =
                    Sector(HARD_DISK, Lba(cur_cyl, cur_head, cur_sect + done))]
    /\ done' = done + 1
    /\ UNCHANGED <<pc, drive, disk, chs, this_read, sectors_left, bx, image>>

\* Faulty variant: a failed read is tried again.
ReadAgain ==
    /\ pc = "reading" /\ done < this_read
    /\ pc' = "read_loop"
    /\ UNCHANGED <<drive, disk, chs, this_read, sectors_left, bx, done, buffer, image>>

ReadFails ==
    /\ pc = "reading" /\ done < this_read
    /\ pc' = "disk_error"
    /\ UNCHANGED <<drive, disk, chs, this_read, sectors_left, bx, done, buffer, image>>

\* Faulty variant: the head wraps but the cylinder stays.
NextTrackSameCylinder ==
    /\ cur_sect' = 1
    /\ cur_head' = (cur_head + 1) % HEADS
    /\ cur_cyl' = cur_cyl

\* On to sector 1 of the next head, and after the last head the next cylinder.
NextTrack ==
    /\ cur_sect' = 1
    /\ cur_head' = (IF cur_head + 1 < HEADS THEN cur_head + 1 ELSE 0)
    /\ cur_cyl' = (IF cur_head + 1 < HEADS THEN cur_cyl ELSE (cur_cyl + 1) % 256)

\* The destination, the count and the position on the disk move on.
Advance ==
    /\ pc = "reading" /\ done = this_read
    /\ bx' = (bx + this_read * 512) % WORD
    /\ sectors_left' = (sectors_left - this_read) % WORD
    /\ NextTrack
    /\ pc' = "read_loop"
    /\ UNCHANGED <<drive, disk, this_read, done, buffer, image>>

-----------------------------------------------------------------------------
(* Protected mode.                                                         *)

\* The copy to 1 MB, and the jump to it.
pm_entry ==
    /\ pc = "pm_entry"
    /\ image' = [i \in DOMAIN image |->
                   IF i < KERNEL_SECTORS THEN buffer[i] ELSE image[i]]
    /\ pc' = "entry"
    /\ UNCHANGED <<drive, disk, chs, this_read, sectors_left, bx, done, buffer>>

\* Faulty variant: .bss is taken to begin where the loaded sectors end.
EntryBssLate ==
    /\ pc = "entry"
    /\ image' = [i \in DOMAIN image |-> IF i < KERNEL_SECTORS THEN image[i] ELSE ZERO]
    /\ pc' = "kernel_main"
    /\ UNCHANGED <<drive, disk, chs, this_read, sectors_left, bx, done, buffer>>

\* The copy of .data is onto itself, because its load address is its address;
\* .bss, which begins where kernel.bin ends, is zeroed.
_start ==
    /\ pc = "entry"
    /\ image' = [i \in DOMAIN image |-> IF i < IMAGE_SECTORS THEN image[i] ELSE ZERO]
    /\ pc' = "kernel_main"
    /\ UNCHANGED <<drive, disk, chs, this_read, sectors_left, bx, done, buffer>>

Loader ==
    stage1 \/ start \/ read_loop \/ Transfer \/ ReadFails \/ Advance \/ pm_entry
    \/ _start

-----------------------------------------------------------------------------
(* Properties.                                                             *)

\* Stage 2 finds the kernel: the machine booted from drive 0x80, and that disk
\* has the geometry stage 2 counts in.
KernelOnDisk == drive = HARD_DISK /\ disk = <<SECTORS_PER_TRACK, HEADS>>

\* When entry.asm is done, memory from 1 MB on holds the sectors of kernel.bin,
\* which the Makefile puts at sector 9 of the boot drive, in order, if they are
\* where stage 2 looks for them; and after them a .bss of zeros, whatever was
\* loaded there and from whichever disk.
KernelLoaded ==
    /\ BootTypeOK
    /\ pc = "kernel_main" =>
          \A i \in DOMAIN image :
              IF i < IMAGE_SECTORS THEN KernelOnDisk => image[i] = Sector(drive, 9 + i)
              ELSE image[i] = ZERO

-----------------------------------------------------------------------------
(* What the Makefile and a comment say and the code does not do.           *)

\* The Makefile makes "floppy image: boot sector + stage2 + kernel" and boots
\* from it: the kernel comes from the drive that stage 1 came from.
KernelFromBootDrive ==
    pc = "kernel_main" => \A i \in 0..IMAGE_SECTORS - 1 : image[i].drive = drive

\* "LOAD KERNEL (CHS, chunked to respect 18 sectors/track limit)": the sectors are
\* those of the kernel on whatever disk.
KernelOnAnyDisk ==
    pc = "kernel_main" => \A i \in 0..IMAGE_SECTORS - 1 : image[i].lba = 9 + i

=============================================================================
