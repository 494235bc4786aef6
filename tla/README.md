# A formal model of rubic-fpga

This directory holds a TLA+ model of the parts of the repository that carry its
own logic, the TLC runs that check it on small instances, and theorems that the
TLA+ proof system checks for every value of the constants. It is meant to be
read next to the sources; `C` below stands for
`boards/Cineraria_DE0nano_DVI`, `N` for `C/software/nano_bmpwav`.

Run a check with `tlc -config <run>.cfg <module>`, a proof with
`tlapm <module>.tla`. `PROJECT.json` lists all the runs, the faults that each
property was shown to catch, the lines each definition models, the hazards and
the findings.

## 1. The system

The repository is a microcomputer in an FPGA: a Nios II CPU with peripherals of
the authors' own (in VHDL), and the software that runs on it (in C).

| Part | Where | State it keeps | What it does, and with whom | What is hard | What makes it correct |
|---|---|---|---|---|---|
| MMC/SD byte engine | `C/mmcdma/avalonif_mmc.vhd` | shifter state, divider, byte registers, chip select, timeout counter | sends and receives one byte when a register is written; counts down to a timeout | a write is taken in IDLE only; flags lag the state by a cycle | a byte is whole when `exit` rises; the timer is exact |
| MMC/SD read DMA | `C/mmcdma/avalonif_mmcdma.vhd`, `_hw.tcl` | transfer state, counters, error flags, read buffer | takes the byte engine over, polls the card for the start token, stores a block | CPU and state machine share the engine; timeouts race tokens; bus wait states | all bytes in order or an error and an untouched buffer; it ends |
| device functions | `N/mmcfs/mmc_spi.c` | chip select copy, locals | drive both over the bus: send, receive, DMA receive, timers | what a poll saw may be stale when the write arrives; odd counts | no start is lost; what they return is what the card sent; they return |
| disk layer | `N/mmcfs/fatfs/mmcbb.c` | `Stat`, `CardType` | status, initialisation, reads, writes, sync of a card | cards that come and go between two commands, lost answers, refused blocks | a success is true of the card that was initialised; a sync is durable |
| FatFs, file functions | `N/mmcfs/fatfs/ff.c` | the mounted volume, file objects | file functions over the disk layer | a card exchanged under open files; an access that fails half way | no file of another card, no pointer behind the end, a close is stored |
| FatFs, volume | the same | a window of one sector, a sector buffer for each file, `last_clust` | cluster chains, the FAT, directory entries | the newest bytes are in the window, in a buffer or on the card; the power goes between two writes; a full disk | the card stays sound, files stay apart, what was closed stays, no cluster is lost, calls end |
| file system device | `N/mmcfs/mmcfs.c` | a stack of free slots, `FIL` objects | connects the HAL's descriptors with FatFs | two tables of descriptors, one flags word with two meanings | one owner per object; no slot is lost |
| HAL descriptors | `C/software/*_bsp/HAL/src/alt_*.c` | `alt_fd_list` | open, close, read, write, lseek, fcntl | (vendor code) | - |
| SPU bus interface | `C/loreley/loreley_businterface.vhd` | system registers, a read-modify-write state machine | CPU accesses to registers that the hardware also writes | a lock that arrives in the middle of an access | no update of either side is lost |
| SPU slot engine | `C/loreley/loreley_slotengine.vhd`, `loreley_core.vhd`, ... | slot registers in RAM, wave cache | plays up to 63 slots in every sample period, writes their status back | shares each status word with the CPU | a key on or off is taken once; an interrupt is raised once |
| SPU interrupt encoder | `C/loreley/loreley_irqencode.vhd` | a bit per slot, a scan | shows the number of the first slot with an interrupt | set, clear and scan overlap | the number shown is the first set bit, soon |
| SPU outputs | `C/loreley/wsg_*.vhd`, `loreley_dacif_*.vhd`, ... | shift registers | S/PDIF, delta-sigma, DAC | - | - |
| VGA controller | `C/vga_component/*.vhd`, `N/nd_lib/nd_egl.c` | frame and line counters, a line buffer, a status register | fetches each line by DMA just before and while it is shown; the program sets pages after the vsync | three clock domains, a burst that is late, a status word that both sides write | a frame shows its own lines, a page is shown whole, a late burst is reported |
| DVI transmitter | `C/dvi_tx_pdiff/*.vhd` | running disparity | TMDS encoding | a small signed counter | decodable, balanced, no overflow |
| pixel instructions | `C/custom_intsr_pixel/*.vhd` | pipeline registers | blend, saturate, YUV | widths and signs | equals the arithmetic it stands for |
| UART console | `boards/HDMI_UartKbd_Demo/console_buf/*.vhd` | text, colour and font RAMs, a pipeline | shows text that the CPU writes | pipeline delays | - |
| WAV player | `N/playwav.c` | ring buffer offset, the file | fills the rings that two slots of the SPU play | the SPU reads while the program writes, through lines of a cache without tags | no sample is torn or skipped, both channels are together |
| ELF loader | `C/software/Cineraria_nano_elfload` | one volume, one file, the place in it | loads a program from the card at start | borders of sectors, clusters and pieces; accesses that fail; chains from the card | what is started was loaded as its headers say; it ends |
| BMP viewer, drawing, tests | `N/loadbmp.c`, `N/nd_lib`, `N/file_test.c` | - | sequential programs | - | - |
| ELF converter, boot loader | `C/software/elfconv_v0.4` | - | host tool, start-up assembler | - | - |
| Nios II system, software package | generated | - | CPU, bus, SDRAM, PLL, drivers | - | - |

The parts form two stacks. From a file down to the wire: program → HAL → `mmcfs.c`
→ `ff.c` → `mmcbb.c` → `mmc_spi.c` → (bus, with wait states) → read DMA → byte
engine → card. From a tune to the ear: program → `playwav.c` → (bus) → SPU bus
interface ↔ slot engine → outputs. The only software is one thread without
interrupts; concurrency is between the CPU and the hardware (clock by clock),
between the hardware's own state machines, and between all of them and a person
who pulls the card out.

## 2. The modules

| Module | Models | Composed of |
|---|---|---|
| `MmcSpi` | the byte engine; one operator, `SpiClock`, per rising edge | |
| `MmcDma` | the read DMA with the byte engine behind its multiplexer; a step is a clock edge | extends `MmcSpi` |
| `BlockReader` | the promise of a transfer to the software: abstract specification | |
| `MmcDriver` | `mmc_spi.c`, access by access with the wait states of the bus, the peripheral underneath, and a card | extends `MmcDma` |
| `MmcDriverProofs` | theorems about `MmcDma` and `MmcDriver` | extends `MmcDriver` |
| `SdDisk` | `mmcbb.c`, an exchange with the card per step, and cards of four kinds | |
| `SdDiskProofs` | theorems about `SdDisk` | extends `SdDisk` |
| `FatVolume` | the volume layer of `ff.c`: window, FAT, directory entries, chains, buffers; a disk access per step | |
| `FatVolumeProofs` | theorems about `FatVolume` | extends `FatVolume` |
| `Mmcfs` | `mmcfs.c`, the file functions of `ff.c`, the HAL's descriptors; a call per step | |
| `MmcfsProofs` | theorems about `Mmcfs` | extends `Mmcfs` |
| `LoreleyRmw` | the bus state machine of the SPU, which reads a register, merges a write into it and writes it back | |
| `LoreleySlotengine` | the slot engine and the register file it shares with the bus | extends `LoreleyRmw` |
| `LoreleyIrqbit` | the interrupt bits | |
| `LoreleyCore` | the SPU: bus, sync bit, engine and interrupt bits at one clock | extends `LoreleySlotengine`, `LoreleyIrqbit` |
| `LoreleyIrqencode` | the priority encoder behind the bits | extends `LoreleyIrqbit` |
| `LoreleyProofs` | theorems about `LoreleyCore` and `LoreleyIrqencode` | extends both |
| `LoreleyVoice` | what a slot does in a sample: wave reads through the slot's cache, the next play address | |
| `WavStream` | `playwav.c` with the two slots that play its rings | extends `LoreleyVoice` |
| `WavStreamProofs` | theorems about `WavStream` | extends `WavStream` |
| `VgaFetch` | the sync generator, the line buffer and the machine that fills it; a tick of either clock per step | |
| `Vga` | the control registers (a third clock) and the program that sets pages | extends `VgaFetch` |
| `VgaProofs` | theorems about `Vga` | extends `Vga` |
| `PetitFat` | `pff.c`, the boot loader's file system; a read of the card per step | |
| `ElfLoad` | `nd_elf3.c`, from the mount to the jump | extends `PetitFat` |
| `ElfLoadProofs` | theorems about `PetitFat` and `ElfLoad` | extends `ElfLoad` |
| `MCMmcDma`, `MCMmcDriver`, `MCLoreley`, `MCFatVolume`, `MCElfLoad` | values for TLC | |

Each layer is modelled at the grain at which its hazards live, and the one above
uses what the one below was shown to do. `MmcDriver` does not assume the rules
under which the transfer works: it is proved to keep them (`KeepsRules`), so that
everything proved of `PoliteSpec` holds of the driver with the peripheral. `SdDisk` takes a call of `mmc_spi_DmaRecv` as "a block arrives
or an error is returned", which is `BlockDelivered` and `ErrorReported`. `Mmcfs`
takes a disk access as "succeeds only on the card that was initialised, or
fails", which is `ReadTrue` and `WritesAsked`. `FatVolume` takes a write as "the
last block may be in the card's buffer until the next command", and a sync as "it is
not", which is `SyncDurable`; and a failed read as one that leaves the buffer alone.

`FatVolume` and `Mmcfs` model the same functions at two grains. `Mmcfs` has
descriptors, several objects on one name and cards that are exchanged; `FatVolume` has what
happens inside a call, on one card.

### State and actions

*MmcSpi, MmcDma.* The variables are the registers of the entities under their
own names. An action is a branch of a `case` or `if` of a process:
`StartByte`, `SelectOnly` and `SetDivider` are the three outcomes of a write in
IDLE, `Hold`, `DriveBit`, `SampleBit` and `Finish` the divided clock;
`BeginTransfer`, `AwaitByte`, `TokenArrives`, `PollAgain`, `DataError`,
`TimeOut`, `StoreByte` and `DropStrobe` the transfer. `DmaClock` is all the
processes at one edge. A byte travels whole; while it is partly shifted in, the
register holds `Mixed`, which is no byte, so that anything that reads it early
shows.

*MmcDriver.* `pc` is the place in the running function, `op` which one it is.
A step is one clock edge in which the CPU presents an access, waits for it or
does something else (`Stall`, at any time and for any time). `readdara` and
`memq` are the registers on the way from the peripheral to the bus. `bytes`, `elapsed` and
`before` are observers: the bytes of the call, the cycles of a wait, and what the card was doing
when the transfer was asked for.

*SdDisk.* `pc` is the next exchange with the card, named after the command or
block. The card has a mode, blocks accepted but not programmed (`cache`) and
blocks that are there for good (`media`). Time limits are the answer 255, at any
moment.

*FatVolume.* `call` holds the place in the running function and its locals,
`win` the window, `obj` the `FIL` objects. `Need` is the sector that the next step must have in
the window; `FlushWindow` and `LoadWindow` are `move_window`. Names such as `FindCreates`,
`Free`, `Stretch`, `ScanPasses`, `Link`, `FlushBuffer`, `WritePart`, `Entry` and `Sync` are the
stretches of code between two accesses. `card` is what the card holds once it has programmed
everything, `safe` what it holds if the power goes now. A failed write may have been done.
`Restart` is the power going at any moment. The bytes of a sector are one value: whether they are
the newest that a program wrote to that place of a file. `kept` and `good` are observers.

*Mmcfs.* A HAL call is a step; `view` is the directory as the mounted volume sees
it, `dir` what is on each card. `acked` and `alone` are what an observer notes
and no guard reads.

*LoreleyRmw, LoreleySlotengine, LoreleyCore.* The actions are the branches of the
two `case state`; `CoreNext` is one edge of all processes. A status word is five
fields: `busy`, `key_on`, `key_off`, `irqflag`, which the two sides change in
different ways, and `cfg`, which only the CPU changes. `ram` is the register file
as it stands, `regq` and `extq` are what its two ports deliver a cycle later; a word
read by one port while the other writes it is any word, as the RAM is generated
with `DONT_CARE`. The sync pulse may come at any edge, so also before the
engine has gone through its slots. What the sound decides (end of the wave, end of
the envelope, wave memory ready) may happen or not. `wanted`, `due` and `rest` are
observers. Registers that are loaded before they are looked at are blank in between.

*LoreleyIrqbit, LoreleyIrqencode.* A set and a clear are delayed by a register, the
encoder tree by two more. The scan judges in DET*n* the word it loaded three
states earlier. In `LoreleyCore` the engine drives the bits; in `LoreleyIrqencode`
anything may.

*LoreleyVoice, WavStream.* A word of wave memory is the number of a sample of the file.
`Voice` is what the engine does with a slot in a sample (`WaveRead` the cache, `Onward` the
address, `Rested` a slot that is silent). The steps of the SPU are the beginning of a
sample and its two slots; those of the program the writes of `spu_stream_play`, a
word pair of `spu_bufferfill` each, its end, and `spu_stream_stop`.

*VgaFetch, Vga.* `beam` is the sync generator, `bus` the machine of `vga_avm`, `pixel` the reading
side, `status` the control registers. `Pixel`, `Memory` and `ControlTick` are the ticks of
the three clocks. The memory may keep the machine waiting for ever, and the count of words
that the pixel clock takes over may be any mixture of the bits before and after a tick. A word of
the picture is the line it is of.

*PetitFat, ElfLoad.* `fs` is `FATFS`, `dj` the `DIR`, `call` the function in progress; `PetitStep`
are the steps of `pf_mount`, `pf_open`, `pf_lseek` and `pf_read`, each ending at a read of the card.
`at` is the call that the loader waits for. A unit is 32 bytes: a directory entry, or a piece of the
file, named by its position in it, so that a wrong unit in memory shows. `faults` counts accesses that failed, `typeFaults` apart from them
the reads of the type of a boot record, which `check_fs` forgets. What is on a card is a record; `chain`, `size`
and `dirs` say once more which clusters and units the file has and which sectors each directory, so that the properties and
`CardsAssumption` can speak of them: the actions do not read them.

## 3. The runs

| Run | Question | Instance |
|---|---|---|
| `dma_any_cpu` | Whatever register the CPU writes in whatever cycle: who owns the engine, can the timeout be disturbed? | 2 bits a byte, 2 bytes, a timer of 9 |
| `driver` | All functions of the driver in any order, with pauses of the CPU and any card: is a start lost, is what they return what the card sent, does the peripheral do what `BlockReader` promises, do they return? | one-bit bytes, a buffer of 12 bytes (3 words), blocks read as far as 8, of whose bytes one looks like a start token and one like a busy card |
| `sd_disk` | Are reads, writes and syncs true when cards come and go; is the card known for what it is, and a good one initialised; do the functions return? | 4 cards (MMC, SD 1, 2, HC; one protected), 2 sectors, calls of up to 2, 2 attempts |
| `volume` | Accesses that fail and the power going between any two: is the card sound, what was closed kept, what was written read, no cluster lost; does every call return? | 2 clusters; one file of 3 bytes with 2 faults, or two files with 1 |
| `fat_start` (violated) | The first cluster of an empty file | the same |
| `fs` | Two descriptors that are opened, read, written, cut, stretched and closed, two cards exchanged between any calls | 1 name, 1 byte, 3 mounts |
| `spu` | CPU and engine write the same words and the sync pulse comes at any time: is a write lost, a stale word merged, a key on missed; does an access end? | 2 slots, 2 sets of settings, accesses to slot 1 and the sync bit |
| `spu_busy` (violated) | The bits that the bus must not write | the same |
| `spu_irq` | Interrupts set and cleared at any edge: is the number shown the lowest pending slot, does the scan end? | slots 0, 14, 29, 127 |
| `player` | Songs played, stopped and played again at three speeds: is a sample torn or skipped, do the channels stay together, is the end reached? | rings of 4 blocks of a line, a file of a lap and a half, 2 plays |
| `video` | A memory as slow as it likes, pages set at any time: does a frame show its lines, and one page; are late words reported? | 2 lines of 2 words, 5 lines a frame, 2 ticks of the memory to a pixel |
| `boot` | Right and wrong cards, any two segments, accesses that fail: is what is started in memory, is a right card started, does it end? | files of up to 8 units in up to 4 clusters, pieces of 3, two faults, chains with and without an end, 12 values of a directory's index |

What the violated runs show is a disagreement of the code with its own comments,
quoted in `PROJECT.json` under `findings`.

More things that the models show or that were met while they were written, on which no run is
spent. In the MMC/SD stack:

- The header of `avalonif_mmcdma.vhd` says that a transfer overwrites the registers
  of the byte engine. That is `RegistersOverwritten`, which needs a CPU that waits for
  a byte in flight first: under `Spec` in place of `PoliteSpec` it fails.
- `mmc_spi_SetCardDeselect` does not wait, so its write is lost while a byte of
  `mmc_spi_Sendbyte` is in flight. The next byte received repeats it, so that it is
  lost for nobody (`RecvAnswer`).
- With an odd count of half words the byte loop of `mmc_spi_DmaRecv` copies bytes out
  of a word it never read. No caller passes one, and `WordCounts` holds none.
- A transfer that is asked for while the card is still sending a block (after a read that ran into its time
  limit, or that took a part of the block) may take a byte of that block for its start token, when the block
  holds such a byte. `BlockDelivered` excepts it (`before`): what it promises otherwise, it promises of blocks
  of any bytes.
- `rcvr_datablock` discards the check sum, so a card that is pulled out inside a
  block leaves a block of nothing that is reported as read. `torn` notes it and
  `ReadTrue` excepts it.
- For the CSD `mmcbb.c:582` asks for 16 bytes and 32 are stored, 16 of them behind the array: the byte
  count is passed (`mmcbb.c:257`) to a function that takes a count of half words cut to eight bits
  (`mmc_spi.c:60-69`). 512 becomes 0 there, which happens to stand for 512 bytes.
- `mmcbb.c:446` sends ACMD41 whatever `cmd` was chosen at `mmcbb.c:443`, so that an MMC, which
  needs CMD1, is never initialised. `CardKnown` therefore promises it of SD cards only.
- A slot of `mmcfs.c` whose `f_close` fails is not given back (`mmcfs.c:115`), while the HAL frees the
  descriptor whatever close returns (`alt_close.c:57-59`): after as many failures as there are slots nothing can be
  opened.
- `mmcfs.c:93` puts the slot number into `fd_flags`, which the HAL takes for the access mode
  (`alt_read.c:98-100`). In slots 28 and 29 of the 32 a file is refused to `read` or `write` that was
  opened for it.

In FatFs (`fat_start` has the finding): `FatVolume` closes a file whose write was aborted like any other, and the
size in the entry is that of before the write; `CardSound` holds nevertheless.

In the sound:

- `loreley_slotengine.vhd:484` assigns nothing to the stop flag when a slot has an envelope
  and a key on. What counts then is the flag of the slot processed before it. If
  that one stops, the key on is taken and the voice does not start. `DecideStop`
  keeps the flag, and `KeysPlayed` says that a key on is taken, not that it sounds.
- `spu_stream_play` keys the slots on before the ring is filled, so the first lap begins with what wave
  memory held before; `Older` is that, and `NoTear` and `InOrder` allow it at the beginning only.
- The position of a slot that does not play is the next address computed for whatever slot was processed
  last (`Rested`). The player only reads it after the key was taken.
- `spu_stream_stop` may have the channels stop a sample apart, when a sample begins between its two writes;
  `InStep` excepts it. It also clears every other bit of the status words.
- `spu_bufferfill` returns 1, "再生終了フラグを返す" (`playwav.c:206`), when the file has been read to
  its end, which is up to a lap of the ring before the end is heard; `file_test.c:88-89` stops at once.
- What `fread` returns is not looked at, and the file pointer is kept after `fclose` (`playwav.c:223`): a second stop
  would close it again. No program of the repository does that.

In the picture:

- Word `w` can be shown when the count is above `w`, but only a count below `w` is reported: a line of which only the
  word being shown is missing may go by unreported, and so may a lost line start when the line before
  came completely. `FarReported` is about words further away than that.
- The count goes into the pixel clock's domain bit by bit, so that an overrun may be reported
  that was none.
- The controller is generated with 1024 active pixels for this board (`C/vga.vhd:84`), so that a whole line is
  512 words, and `datacount`, of which nine bits are compared (`vga_avm.vhd:192`), ends at 0. A line that came completely
  is then reported as an overrun. `FarReported` is proved for that width, too: a word that is far away has its number in nine bits.
- `vga_avm.vhd:39` says of the report "linebuffer overrun. clear for framestart signal"; it is cleared in
  the blanking of each line (`193-194`), and it is the edge in the control registers that lasts.
- `nd_GsVgaScanOn` and `Off` read the status register and write it back, in which a zero clears a flag: a
  report that comes in between is lost. `excused` notes it.
- When a line start is lost, because the burst before it has not ended (`vga_avm.vhd:127`), the rest of the
  frame is a line late. `RightLine` says that it ends with the frame.

In the boot loader:

- A read of the type of a boot record that fails is taken for a type that is not there (`pff.c:715`, `717`), although `check_fs` has an
  answer for errors ("3:Error", `pff.c:705`). A right card is then said to have no file system; or sector 0 of a volume is read as
  a table of partitions, whose first entry is whatever the boot code has there; or the mount goes on and is right, as the volume is FAT32,
  whose type is looked for in a second place, or is behind a table of partitions. `ProgramLoaded` excepts these reads
  when it says that no access has failed (`typeFaults`).
- How many bytes were read is not looked at (`nd_elf3.c:251`): a file that is cut short is loaded as far as it goes
  and started, and a header behind its end is the one read before it. `ProgramLoaded` is true as far as the file
  goes. Counting what was read in place of what was asked for would loop for ever, which is the fault
  `LoadByteRead`.
- Program headers are looked for behind the ELF header, not at `e_phoff`; memory behind a segment is not zeroed; and only a segment
  that begins exactly at the loader's own section is refused.

### Why the bounds are enough

The widths of the hardware's registers only appear in comparisons with their
first and last value (`bitcount = LastBit`, `divcount = 0`, `frc = 0`,
`dmaread_count = dmarefcount`), so two or three values each give all the branches;
the theorems remove the bound altogether. The timer values are chosen so that
it runs out before the token, together with it, between two bytes and not at
all. In `driver` a count of two words out of three has a first and a last word and
one behind the end, to aligned and unaligned buffers. In `sd_disk` a call of two
blocks has a first and a last one, and one at the last sector runs over the end
of the card; two values tell a written sector from a blank one; there is a card
of each kind to pull out and to put in. Two attempts of 1000 are one that is
repeated and the last. In `fs` a file is empty, has bytes, or is not there, and
the pointer can be asked to go behind the end of the card; three mounts
are the one before a card is exchanged, the one after, and one more with the first card back (`Fsid` cannot wrap,
which takes 65536 of them).

In `volume` a FAT entry fills a sector, so that each change of a chain goes through the window
and back, the order of writes with the most moments for the power to go. Two clusters are a chain
of one, a chain of two, a full disk, and a cluster that one file gives up and the other takes. A sector of
two bytes has a first and a last one. A run keeps to one of two bounds, as one file
with parts of sectors and two with whole ones together are too many states. `hints` are the values of
`last_clust` after a mount: none, and one behind the end of the volume or in it.

In `spu` the CPU accesses slot 1, the last of a sample, so that the engine comes to it from
another slot and leaves it for none; from a sample that is cut short it comes
to slot 2 again. The two settings differ in every bit the engine looks at except the mask;
the three writes set and do not set each of the key bits and clear and do not clear
the interrupt flag. `RestMax` counts the cycles in which no lock can appear; an
access takes seven. In `spu_irq` slots 14 and 29 are in two bytes of one word, 0 is the
slot that does not count and 127 the last bit of the last word; the theorem is for all.

In `player` a line of the cache is four words, as in the hardware, and a block is a line (128 words in the
code), so that a fill begins and ends where the SPU changes lines; a ring is four
blocks. The speeds are a quarter, one and seven quarters of a word a sample: below, at and close under the two
words a sample at which the cache's read ahead would not do. The file ends in the second lap, in the middle of
a line. In `video` the blanking is as short as `VgaAssumption` allows it (a line start is found three ticks
late), a word is two pixels, and two lines have a first, a last and a next one. The bits of the count have the
weights 1 and 2 (in the hardware 1 to 256): a mixture of two counts can be neither. In `boot`
a cluster is one sector or two, a sector has two units, so that there are files that end at the
border of a unit, a sector, a cluster and behind the last piece; a segment begins at each kind of border.
One card has a partition table and FAT32, the other has neither; each wrong card is wrong in one place. Of a card whose chains are
loops, that of a directory is left by what is found in it, or, if nothing is, when the index is 0 again (after 12 entries
here, in the middle of the second lap or at the end of the third; after 65536 in the code), and that of the file by the file's size. Two faults are
one read of the type that is forgotten and another one, of the type or of anything else.

### Fairness

- `FairDriverSpec`, `WF_drvvars(Resume)`: a function that has an access to make
  makes it in the end. There is no other master on this bus and no interrupt
  handler; the pauses between two accesses are finite but of any length. Nothing is assumed of
  the card: it is the timer that ends a transfer.
- `FairSdSpec`, `WF_sdvars(Exchange)`: each exchange ends, with or without an answer
  (which `FunctionReturns` shows of the functions it is made of, and the bounded
  loops of `wait_ready` and `send_cmd`). A flawless card ends its programming, too;
  any other may be busy for ever.
- `FairCoreSpec`, `WF_corevars(CoreNext)`: the clock does not stop. `AccessEnds` has a
  premise of its own, that the engine rests for `RestMax` cycles again and again: an
  overloaded engine that never rests can keep an access waiting for ever, as the
  lock it meets need never be the last.
- `FairSpec` of the encoder, `WF_vars(QuietNext)`: the clock does not stop. It speaks of the
  edges without a request because an edge with one is the engine's choice, which
  nothing forces.
- `FairSpec` of `FatVolume`, `WF_vars(Proceed /\ UNCHANGED bound)`: an access ends, with success or a failure, and the code goes
  on after it. Nothing is assumed of the program.
- `FairSpec` of `WavStream`: the SPU's clock runs (`WF_vars(Spu)`), and so does the loop of the program
  (`WF_vars(Program \/ FillBegins)`), which calls `spu_bufferfill` again and again (`file_test.c:88`).
- `FairSpec` of `ElfLoad`, `WF_vars(Next)`: each access to the card ends. The loader is all that runs.
- `Mmcfs` has no liveness: a call is a step. `Vga` has none: the memory may keep the picture waiting for ever.

Two models assume something of a program's speed, as an `InTime` in a guard, because the code does: the
player fills a block it has room for before the SPU comes to it, and a page that is set after the vsync is set
before the blanking of the frame ends. The player's other assumptions of time stand at the actions that make
them: opening a file or printing a line takes longer than a sample, and so does filling a block.

## 4. What is proved

Of `MmcDma`, in `MmcDriverProofs` (for all widths, buffer sizes, CPU writes and card bytes;
assumptions: `SpiAssumption`, `DmaAssumption`, that the constants are such
widths and the writes fit the registers):

- `TypeCorrect`: `Spec => []TypeOK`.
- `AnyCpuSafe`: `Ownership`, `BurstRequestAccepted` and `NoTornByte` for any CPU.
  The inductive invariant is `SafeInv`. It has to say, for each state of the transfer,
  what the byte engine can be doing at that moment: the hard case is READWAIT,
  where `exit = 1` must mean that the byte is complete, although the strobe that
  starts the byte and the flag that says so are a cycle apart.
- `TimeoutIsUndisturbed`: the action property, from the same invariant.
- `PoliteCpuSafe`: `RequestAccepted`, `CountBounded`, `RegistersOverwritten` under
  the rules of the driver, and `TypeOK`. `PoliteInv` adds that a transfer only begins while no
  byte is in flight.
- `TransferImplementsReader`: `PoliteSpec` implements `BlockReader`, with the
  mapping at the end of `MmcDma`: every clock edge is a `Begin`, `Store`,
  `Complete`, `Fail` or a stutter.

`MmcfsProofs` (for any number of descriptors, slots, names, cards and sizes;
assumption: `MmcfsAssumption`):

- `SlotsSafe`, `TypesKept`: no slot has two owners and the stack is not overrun. `SlotInv` adds to the property that `fd_flags` and `priv` of an open
  descriptor name the same slot: `dev_mmcfs_close` takes the number it gives back
  from one and the object it closes from the other. That the stack has room when a file is
  open is a counting argument (`RoomOnStack`: an injection into a smaller set).
- `CardSafe`, `PointerSafe`: what `validate()` lets pass was opened on the card in the socket, and a pointer behind the end belongs to an
  aborted object. `FileInv` adds that no identity is ahead of `Fsid`, and that a
  card that was put in is not live until it has been initialised.

Of `LoreleyIrqencode`, in `LoreleyProofs` (for any set of slots; assumption: `SlotNumsAssumption`, numbers of
seven bits):

- `EncoderCorrect`: `TypeOK` and `EncoderShows`. `PipeInv` says of each state of the scan
  which words are in the input, the first and the second stage of the encoder, and
  that the words already judged were empty; as a change of any bit restarts the
  scan, these are words of the bits as they are now. The lowest bit of the lowest byte of the lowest
  word that has one is then the lowest pending slot (`LowestOfByte`, `LowestOfWord`, `FirstIsLowest`).

Of `MmcDriver`, in `MmcDriverProofs` (for any size of the buffer, any block, any timers and any use the program makes of the
functions; assumptions: `DriverAssumption`, `AccessesAssumption`, and those of `MmcDma`):

- `DriverKeepsRules`: the functions of `mmc_spi.c` keep the rules of `PoliteSpec`, so that what is proved of
  `PoliteSpec` holds of the driver, and `DriverImplementsReader` follows from
  `TransferImplementsReader`. `FreeInv` is the heart of it: a poll says what was true two cycles
  before it arrives, and only because nobody else starts a byte is the engine still free when the write comes.
- `RecvAnswerHolds`: `Recvbyte` returns the answer of the card to its own byte. `RecvInv` counts the bytes since the
  last start.
- `BlockDeliveredHolds`: `BlockInv` keeps the card's place in the block and `dmaread_count` together, `CopyInv` and
  `WordInv` follow a word from the buffer through `memq` and `readdara` to the bytes of the caller.
- `ErrorReportedHolds`: `TimeInv` ties the timer to the cycles since it was set, `WaitInv` says that the flags the
  function reads at the end are of its own transfer. Two reads of the status between which the transfer ends
  are the hard case.

Of the model's constants the proofs ask that a count of half words is even: with an odd one the byte loop stores
what was never read (section 3), and no caller passes one.

`SdDiskProofs` (for any set of cards, any number of sectors and of attempts; assumption: `SdAssumption`):

- `ReadTrueHolds`, `WriteDoneHolds`, `SyncDurableHolds`, `CardKnownHolds`, and the action property `WritesAskedHolds`: what the disk layer
  reports is true, whatever cards come and go and whatever answers are lost. `HomeInv` carries it: a card that is not in
  its idle state is the one that was initialised last, or `Stat` says that there is none; since a card that is put in is idle, it refuses
  what is meant for the one before. `AttemptInv` is what the initialisation knows of the card after each answer, `FlawlessInv` the
  same of a card that answers all it is asked, `CallInv` and `DoneInv` what of a call has been done.

Of `LoreleyCore`, in `LoreleyProofs` (for any number of slots up to 63, any settings, and any accesses of whole words;
assumptions: `CoreAssumption`, `RequestsAssumption`, `ConfigsAssumption`, `SlotMaxAssumption`):

- `ReadFreshHolds`, `WritesKeptHolds`, `KeysPlayedHolds`. `EngineInv` says that the word which the engine has loaded agrees with the
  register file in all that the CPU may change, which is what the lock is for; `BusInv` that the word which the bus is
  going to write carries the data of the access and every key that is still wanted, also while its write
  enable is left on in RETRY.

`FatVolumeProofs` (for any number of clusters of one sector, of FAT entries in a sector and of units in a sector, for
any files, sizes of calls and number of faults; assumption: `FatAssumption`):

- `CardSoundHolds`, `ObjectsApartHolds`. `VolumeInv(own)` is the inductive invariant; `own`, the chain of each file, is no
  variable of the code, and each step says how it changes: a first cluster (`First`), a longer chain (`Longer`), all of it given back
  (`Freed`), or not at all. `Apart` says that chains share no cluster, `Linked` that the FAT leads along them, seen
  through the window (`FatNow`, `EntNow`), `FileOk` that an object is on the chain of its file, `PlaceOk` which cluster
  a call that is in the middle of something has in hand. `Solid` is why a power failure does no harm: the card, at any moment, has
  chains of its own, which are those of the last time the window was written back; a link reaches the card later than the cluster it
  leads to is taken, and an entry later than its chain. That a chain ends follows from that it is no longer than the volume (`WalkOnChain`,
  `ShortChain`, by the least index that contradicts it, since the walk is a recursion over data).
- `NothingLostHolds`: `LossInv` says where each used cluster hangs: in the chain of an entry (`Held`), in the chain of an open object whose
  entry is not yet written (`Hangs`), or in the hands of a call (`Hanging`); and if in none of them, that the failure which lost it is noted
  (`Noted`).
- `KeptOnCardHolds`, `ReadsBackHolds`: `ContentInv(own)` adds the bytes to the chains, in two halves. `KeptInv` is about what a close has
  promised: those sectors lie along the chain of the file (`KeptIn`) on three volumes at once, the card, the card as it was last
  safe, and the one the code sees through its window, because each of them becomes the next one when the window is
  written back or the power goes. `ByteInv` is about what the program knows of an open file: each byte of it is on the card or, while
  the buffer is dirty, in the buffer (`ObjOk`), a pointer inside a sector has that sector in the buffer (`Near`), and a call in
  progress has not passed the place from which it may take a promise back (`Fit`). At a restart the chain may be another one than
  the window showed; `KeptOnChain` says that a promise lies along any chain of its entry. The mark for "no promise" is -1: any natural
  number could be a promise when files have any size.

`VgaProofs` (for any geometry, any ratio of the clocks and any memory; assumptions: `VgaAssumption`,
`CountAssumption`, which the counts of nine bits satisfy by the lemma `NineBits`):

- `RightLineHolds`: `FilledInv`, `OffsInv` and `FollowInv` say which line each word of the buffer is of, and that the machine is
  at the line of the beam while no start was lost. An edge is three registers in another clock: `StrobeInv` and
  `VsyncInv` say from the place of the beam whether it has been found.
- `WholePagesHolds`: `ProgramInv` is where the program stands after the vsync, `PagesInv` that no line has been
  fetched where `top` may still change.
- `FarReportedHolds`: `OverrunInv` and `ReportInv` follow the report from the pixel to the register. A count
  that is taken over while its bits change may be any mixture; a word further away than one has been missing for long
  enough that the count rests.

`WavStreamProofs` (for rings, blocks, files and speeds of any size; assumptions: `WavAssumption`, `FracAssumption`):

- `NoTearHolds`, `InStepHolds`, and the action property `InOrderHolds`. `PairInv` keeps both channels at the same place, also between
  the two slots of a sample. `GapInv` says how far a channel is ahead of the place where the program writes, so that the
  sample in progress does not reach it; it rests on `InTime`, the one thing that is asked of the program's speed.
  `CacheOK` says that a line which a channel will read is what memory holds, although the cache has no tags:
  a line that is written is one that both will fill again first (`Unread`, `CacheStays`). `RingOK` says that the words
  of a ring follow each other everywhere but where the next one is written (`RingFilled`, and `RingEnds` for the copy of the
  first word behind the end).
- Before a song plays there is nothing of it anywhere (`AllOlder`), and `KeyInv` says which channel waits for its key, which is
  why both start in the same sample.

`ElfLoadProofs` (for sectors, clusters, directories, files, segments and pieces of any size, any number of segments
and of faults, and any set of cards; assumptions: `PetitAssumption`, `CardsAssumption`, `LoadAssumption`, `ProgramsAssumption`):

- `PlaceTrueHolds`: `SeekInv` and `ReadInv` are the place inside `pf_lseek` and `pf_read`. The place behind a cluster belongs to that
  cluster, the first unit of the next one does not: `ClusterPlaces` and `SectorPlaces` are the arithmetic of it, `ChainGoesOn` says
  that the FAT leads on as the chain does.
- `ProgramLoadedHolds`: `MountInv` and `DirInv` lead from the table of partitions to the entry of the file (`EntryForm`: what is looked
  at is an entry of the directory), `PosInv` says which units the loader gets from where it wants them, `LoadInv` which part of the
  program is in the memory. A header that is not there is the one before (`HeaderForm`), a segment that is laid over itself once
  more is the same. `FaultInv` is that no failed access is forgotten but the reads of `typeFaults`, and `MountInv` that what
  is mounted is the volume on the card however many of those were: a sector with another number is never taken for it.

The assumptions say what is asked of a card, of a wrong one too: the clusters of the file are linked, its units lie in them in their
order, a directory's clusters are its own, and the path leads from one directory to the next. A chain may be a loop, or lead anywhere
behind the file's size; one that is too short for the size ends. The file may be cut short, the path lead nowhere and the program
be none. TLC evaluates them on the cards of `boot`.

Where a proof failed for a good reason, the model was wrong or said less than it should, and was corrected: `VgaFetch` compared
the whole count where nine bits are compared; `SdDisk` resumed a call by a `CASE` with two arms that held at the same time; the block
of `MmcDriver` was assumed to hold no byte that looks like a token, which a block may, and the case
that needs it (`before`) is now stated where it belongs; and `WavStream` said nothing of a ring of a single block,
where the player has no room to fill: a ring is at least two blocks, which `WavAssumption` now says (in the code it is 127).
`ProgramLoaded` needs two things of a program that nothing said: segments do not overlap, and they fit in the memory.
`ProgramsAssumption` now says so.

`TypeOK`, `BurstRequestAccepted`, `NoTornByte` and the three of `PoliteCpuSafe` are proved and
stated by no run: where the code could break one of them on a small instance, one of the properties of `driver`
fails with it (a torn byte or a lost strobe as `RecvAnswer` or `BlockDelivered`, a counter that goes too
far as a step that is none of `BlockReader`'s).

Only model-checked: all liveness (`FunctionReturns`, `CallsReturn`, `CallsEnd`, `AccessEnds`, `ScanEnds`,
`Ends`, `Boots`; the prover does not do fairness), and `ClosedIsStored`, whose invariant needs the history of two objects on one
file. Every invariant of a passing run is stated by a theorem.

## 5. What is left out, and why

- Bits of a byte, formats of commands and the bytes of a file: no property tells them apart.
- The card's behaviour where its own specification leaves it open (a command in
  the middle of a transfer): the model lets the answer be lost.
- `fcntl(F_SETFL)`, which no program of the repository calls. It would write bits of
  the word in which `mmcfs.c` keeps the slot number.
- Of FatFs: the second FAT, which nothing reads, the count of free clusters in FSInfo, FAT12 entries
  that straddle two sectors, long names and directories that grow, and the functions that
  `mmcfs.c` does not call (`f_truncate`, `f_unlink`, `f_rename`, `f_mkdir`, `f_getfree`, `f_mkfs`, ...). A file is open
  once at a time in `FatVolume`: with `_FS_SHARE` = 0 that is the caller's duty.
- Of FatFs, in `FatVolume`: clusters of more than one sector. A read, a write or a seek to another sector of the same cluster
  (the branches of `ff.c:2400`, `2501` and `2886` in which `csect` is not 0), and a transfer of several sectors at once with
  what it does about a dirty buffer among them, are not reached, neither by the runs nor by the theorems: `ReadsBack`, `KeptOnCard` and the
  others are shown of volumes with a sector to a cluster.
- Of the SPU: the system registers other than the sync bit, accesses of less
  than a word, the ignition bit (1 here), zero slots (the engine then rests), and all
  arithmetic on sound. `slotnum` is a constant: a program sets it once. The play address and the cache are in
  `LoreleyVoice`, for words of 16 bits with a loop and interpolation, which is what the player uses.
- Of the player: the header of the file, volumes, reads of the file that fail.
- Of the picture: colours and dither, the interrupt and the count of vsyncs, which no program uses. There is at least one
  tick of the control registers' clock to a pixel, and it comes before the memory's.
- Of the boot loader: names, the widths of FAT entries and the thresholds between the kinds of FAT, the type and machine of an
  ELF file; and the parts of `pff.c` that are not compiled (`_USE_DIR`, `_USE_WRITE`). No sector but the first one of the volume and
  sector 0 is signed as a boot record: a second volume that a wrong entry of a table leads to is left out, and so is the file whose chain
  is a loop that is too short for its size. The disk layer below it is a file of the loader's own, `mmc.c`, of which only
  `disk_initialize` and `disk_readp` are called; they succeed or fail, without saying how.
- SPU outputs: serialisers with a free running counter each. Bitmaps, drawing, fonts, the host tool that
  converts ELF files, and the start-up assembler: sequential code in which no step of another part could
  contradict a state. Generated and vendor code.

Most of the repository's lines are of the last kind: fonts and code page tables (`fontx_k12x10.c`, `cc932.c`),
generated systems, and copies of the same sources (`pff.c` is there three times, the video entities twice). What the models cover is
the part with state that two actors share or a failure can leave half done.

## 6. Plan

What is left, in this order:

1. The other system registers of the SPU: overload, drive, a number of slots that changes while the engine runs; the
   handshake of the wave cache between its two clocks.
2. `Tmds`: the encoder against a reference decoder, and the range of its disparity. `PixelSimd`: saturation
   and blending against integer arithmetic. The UART console's pipeline.
