# KSP players, loader and builders: TLA+ models and proofs

The repository packs MSX music rips (KSS files) into compact archives and
plays them: on a PC (`src/kspplayer.c`, SDL and libkss) and on a real MSX
(`msx/KSPDOS2.asm`, a DOS2 loader, with `msx/KSPPLAYER.asm`, the resident
player it leaves in page 3). Python tools (`tools/*`, `ksp/*/*.py`) make the
archives: they trace a game's sound driver, move code and music into 16 KiB
pages and rewrite every pointer on the way. This directory models what keeps
state over time (threads, a disk cache in mapper RAM, a keyboard parser, a
resident player) and what must not change the music (the builders, whose
pages are read back by a model of the driver that plays them).

Paths below are relative to the repository's root. `PROJECT.json` maps every
definition to the lines it stands for.

## 1. The system

### Components

| component | source | state | operations |
| --- | --- | --- | --- |
| PC player | `src/kspplayer.c` | current song, emulation image, KCP page set, MWK kit, `state.done`, `kcp->failed`, frame counters, `stop_requested` | main loop in `play_audio`, `audio_callback`, `kcp_runtime_install`/`_memwrite`, `handle_interrupt` |
| terminal keys | `src/kspplayer.c` 162-265 | `escape_state`, `escape_waits`, the tty's queue | `terminal_poll_action` |
| DOS2 loader | `msx/KSPDOS2.asm` | mapper segment tables, sparse cache and its tags, file handle, staging mode | parse the command line, inspect, choose a mode, allocate, stage, hand over, take a track change back, serve page-0 reads |
| resident player | `msx/KSPPLAYER.asm` | current track, key latch, page table, directory cursors | run a KCP page, run a compact KSP, poll the keyboard, switch song, return to DOS |
| MWK uploader | `msx/KSPMWK.asm` | MoonSound RAM cursor | stream a wavekit from disk to the OPL4 |
| page builders | `tools/build_konami_complete_pages.py`, `build_snatcher_complete_page.py`, `ksp/haunted_*/*.py` | the page being built: free space, placed ranges | trace, cut into ranges, place, copy, patch, pack |
| bank builders | `tools/repack_quarth_banked.py`, `build_quarth_16k_*`, `build_salamander_*` | the banks written so far | move a common block and groups of songs |
| archive writers | `build_konami_*`, `convert_specialized_*`, `ksp/*/convert_sccplus_kcpx_to_kcpz.py` | the archive | template and overlays, compressed; records of two sizes; a gateway that turns pages |
| SCC+ bundles | `ksp/{Bomberman_94,Magical_Chase,Parodius}*` | engine: page, pointer, delay, registers | encode frames, cut into chunks, replay, compare |
| Haunted Castle engine | `ksp/haunted_*/build_haunted_castle_full_ksp_v2.py` | command, shadow bytes, chip registers | write and validate the .ksp; INIT, STOP, four gateways |
| batch tools | `tools/dmv_mwm_to_ksp.py`, `tools/mwk_usage.py` | files on disk; menus | extract, convert, be restarted; find a kit, list the samples it uses |
| container, codec, compaction, OPL4 glue, converters, wrappers | `src/ksp/*`, `src/zx0/*`, ... | none between calls | see section 5 |

### How they interact

* In the PC player the **main thread** and **SDL's audio thread** share the
  emulator and `state`. The main thread holds the callback off
  (`SDL_PauseAudioDevice`, `SDL_LockAudioDevice`) while it replaces the image,
  the kit, the driver and the page one after the other; only `state.done` and
  `kcp->failed` are read and written outside that section.
* The emulated driver calls back into the player through the **memwrite
  handler**: a write to the mailbox changes the KCP page set in the middle of
  `KSSPLAY_calc` or `KSSPLAY_reset`.
* On the MSX the **loader** stays resident in page 0. The **player** in page 3
  calls it for every Konami track change (`sparse_reload_entry`, a jump, not a
  call: the stack is rebuilt), and for direct reads of compact KSP files
  (`ksp_direct_helper`). What they share is the segment table
  `stage_segments`: the loader copies it to the player at each launch.
* For a compact KSP the player builds **every song anew** from the file, which
  stays open. Helper, MWK uploader and song share two mapper segments: the
  helper's cache line, which the uploader borrows as its DOS buffer, and the
  work segment, which holds the uploader, then packed streams, then the driver's
  work RAM.
* The **builders** meet the players only in files. A page that a builder made
  is stored as a template all pages share and an overlay of its own; the player
  lays one over the other and calls the driver in it. Where a track needs more
  pages than one, the driver in the page asks for the next: a gateway changes
  the page under the running driver, whose own variables must survive.
* `mbwave2ksp` is told by `dmv_mwm_to_ksp.py` which wave kit a song needs: the
  one the menu names, or else the song. `mwk_usage.py` chooses again among the
  same files, by the name in the song's own header.

### What is hard here

Switching a song is a sequence of steps, any of which may be refused after
earlier ones took effect; the end of a track is raised by one thread and acted
on by the other; the keyboard delivers bytes, not keys; the loader's cache may
skip the disk only if its tags are true, and its arithmetic is 8 and 16 bits
wide over 24-bit file offsets; the same sizes are added up in several places.
A builder that misses one pointer makes a page that plays most of its music
right. Operands are found by scanning bytes, so music can look like commands.
An event, a chunk, a page and a delay end at boundaries of their own, and an
interrupted batch leaves a file the next run will find. `PROJECT.json` lists
these hazards at their lines.

What makes each component correct:

* PC player: a block is never rendered from a half replaced song or from a
  deleted image; a `done` never ends another track than the one it was raised
  for; every track is followed by the next one or by the end.
* keys: the actions are those of the keys pressed, in order; Escape stops.
* sparse cache: whatever was played before, the segments of the playing song
  are where the table says they are.
* compact runtime: what plays is what was selected, whatever failed before; a
  key selects one song, however long it is held; a switch comes to an end.
* loader: what plays is staged, what is allocated is granted, what is refused
  had to be refused, no call is made on a closed file.
* builders: read by the same driver, the page plays what the source played.
* archives: a page read back is the page put in, also when a running track
  turns it; a stream lies where the MSX player can map it.
* SCC+ engine: chunks play like the uncut track, which plays what was traced.
* batch: an interruption damages one file at most, and nothing that is not made
  of that file; the analysis is about the samples that were packed.

## 2. Modules

| module | models | composed with |
| --- | --- | --- |
| `Playlist` | what a listener may expect of the PC player (abstract) | implemented by `PlayerLoop` |
| `PlayerLoop`, `PlayerLoop_proofs` | `play_audio`, `audio_callback`, the KCP page runtime, `handle_interrupt` | `Playlist` as `Listener` |
| `TerminalKeys`, `TerminalKeysInvariant` | `terminal_poll_action` on arbitrary chunks of bytes | gives `PlayerLoop!Poll` its key |
| `SparseStage` | `stage_sparse_file`, the segment cache, the reload entry | the step `StageSparse` of `Dos2Loader`; proved in `Loaders_proofs` |
| `CommandLine` | `parse_command_line`, its unbounded copy of the name included | the song number of `SparseStage`; proved in `Loaders_proofs` |
| `Dos2Loader`, `Dos2Loader_proofs` | `KSPPLAY.COM` from OPEN to the hand-over and back | |
| `CompactKsp`, `CompactKsp_proofs` | `ksp_runtime_path`, `ksp_switch_song`, the page-0 helper, the uploader, the frame loop with its keys | what `Dos2Loader` hands a compact KSP to; proved there and in `Loaders_proofs` |
| `CompletePages` | the Konami page builder | its pages are what `KcpArchive` stores |
| `SnatcherPages` | Snatcher's packer: holes, phrases, cut streams | |
| `MovedSongs` | the Quarth and Salamander banks and pages | its pages are the QCPX and SCPX sources of `KcpArchive` |
| `HauntedPages` | the Haunted Castle page builder | |
| `HauntedEngine`, `HauntedEngine_proofs` | the wrapper around the arcade driver; the .ksp file it is loaded from | implements `PcmChannels` |
| `PcmChannels` | two channels that do not disturb each other, and the selected song (abstract) | |
| `KcpArchive`, `KcpArchive_proofs` | three writers of KCPX/KCPZ archives; the gateway that turns pages | the page map of `SparseStage` reads its records |
| `ChunkedTrack`, `ChunkedTrack_proofs` | encoder, chunker, engine and validator of the SCC+ bundles | its pages are the `bundle` sources of `KcpArchive` |
| `AssetBatch`, `AssetBatchInvariant` | extraction, restarts, choice of kit and driver, conversion | `MwkUsage` reads the same songs; proved in `Builders_proofs` |
| `MwkUsage` | which samples of a kit a song can select | |
| `MC*` | the files, songs and archives the checks run on | |
| `MCLoaders`, `MCBuilders`, `Loaders_proofs`, `Builders_proofs` | several independent programs in one instance | |

**PlayerLoop.** `pc` is where the main thread is in `play_audio`; the actions
`Poll`, `Decide`, `Materialize`, `LoadKit`, `Attach`, `Reset`, `Install`,
`Release`, `Adopt` are the stretches of the loop between two points at which
the other thread, Ctrl-C or a refusal can matter. `held` is the device paused
and locked. libkss is external and is the record `emu`: which image it reads,
which song its driver was reset to, which page and kit it holds, and whether its
driver has turned the page since the song was installed. What a driver
does in a block is nondeterministic: it may write any page number to the
mailbox (a page the archive lacks raises `failed`), reach its loop point or
raise the stop flag. The archive says which images, kits and pages are refused;
it is `Unrefused` if no switch is refused once it has begun to change the emulator, and `Sound` if
none is refused at all. `Playlist` promises nothing for an archive that is not
unrefused, and that the list ends only for a sound one.
Frames are counted in coarse units; the clipping of a block at the time limit
and the order fade / limit / stop flag are those of the code.

**SparseStage.** File offsets are real 24-bit numbers and the loader's 16-bit
`ADD HL,DE / DEC HL / ADC A,0` is written out. `content` says which file
segment a mapper slot really holds, so that the table, the tags and the
protected segment (what the code keeps) can be compared with it. Every read may
fail. `SwitchSong` is the jump back from the player.

**TerminalKeys.** Keys are sequences of bytes; the terminal may deliver the
bytes of one key over several polls, and may hold several keys of a user who is
not `patient`. `Read` is one `read`, `Scan` one turn of the loop over its bytes
(`input`); an action drops the bytes behind it. Each byte carries the number of
its key, which no guard reads: `since` and `acted` say which key an action was
for.

**CommandLine** runs the three loops over the tail character by character; the
reference grammar in its properties is written with words and positions. The
loop that copies the file name counts no bytes: `Spill` is what a character
stored behind the 64 bytes of `filename` does to `song_number` and `scc_slot`,
which lie `SongCell` bytes from its start.

**Dos2Loader** carries the size arithmetic, the choice among whole-file,
sparse KCPZ and compact KSP staging, the allocations, the staging loops, the
closing of the file and the reload. Any DOS call may fail. The routine that
stages one segment of a compact KSP sets SEEK's method to 0 and then loads the
register with the top byte of the offset: `SeekMethod` is that byte, and `Landed`
what the slot holds after it. For a last segment of number 4 or more the method
is relative, or none DOS knows, and end of file counts as read there. `KspStaged`
is therefore all that `PlayedIsStaged` may promise of a compact file; the direct
helper's own SEEK is absolute (`KSPDOS2.asm` 1038-1042), and the player reads the
directory through it.

**CompactKsp.** The unit is the 16 KiB file segment: a directory, a stream or a
kit is the interval of segments it is read from, and `Fetch` is the first read
of each, through `ksp_direct_cache_segment`. A failed SEEK leaves the line
alone, a failed READ spoils it, and the caller goes on in both cases
(`map_source_page1` ignores the carry): `good` says whether all bytes read in
this switch were the file's, and bytes that are not may be refused or lead
anywhere (`Astray`). `tag` is what the code believes of the cache line, `line`
what it holds. `work` follows the work segment. The phases `trailer` to
`install` are those of `ksp_switch_song`; in `play` the keys are polled once per
frame, and keys are pressed and released at any time. The uploader is one step
with the outcomes its code has: the kit, a refusal, the endless loop over a
short last chunk, and the call into a segment that no longer holds it.

**Builders: one way of stating what is right.** `CompletePages`,
`SnatcherPages`, `MovedSongs` and `HauntedPages` are given an image of the
source (a function from addresses to small numbers) and build a memory of the
same kind. Each has an operator `Heard`: a reader of the song's streams, written
from the driver's command set as the builder itself knows it, that returns the
notes it comes by and the cells it reads. The property is that the notes heard
in what was built are those heard in the source. Nothing in it mentions ranges,
places or pointers, so any pointer left behind, rewritten twice, or written over
other data shows. A *trace* in the tools is a run of the original driver; in the
models it is the set of cells `Heard` reads of the source. The drivers' machine
code is external; the few operands the builders patch in it are cells with a
role.

* *CompletePages*: `Place` takes the next range (`todo`, ordered as
  `allocate_data_ranges` does), and puts it at any place `find_space` can
  return; `MakePage` copies and then patches code, song table, descriptors,
  pointer tables and streams in the code's order; `Pack` makes the template of
  all pages and an overlay per page.
* *SnatcherPages*: `FindPhrases` finds repetitions that may become calls,
  `PlaceRest`, `PlacePart` and `DoesNotFit` fill the largest hole first; a
  stream cut in two continues with a jump. The driver has one return slot, so a
  call inside a phrase loses the way back: `Nested` says that a shared passage
  lies inside a phrase the music calls. `MakePage` writes the driver's tables
  last, over what is there: `TablesKept` says that it is no music.
* *MovedSongs*: bytes are digits, words two of them, so operands can look like
  commands; streams are scanned byte by byte as the tools do. The property is
  restricted to songs whose streams contain no such look-alike before a
  command (`Plain`, `Closed`): outside them the tools do write other music.
* *HauntedPages*: parses the streams, unlike the others, and places what it
  found between parts with fixed addresses.

**KcpArchive.** A packed stream is a pair of its data and some size (the packer
is external), so that offsets cross the word limit and segment boundaries
anywhere. `Build` chooses the version of the records and lays out records and
streams. The tool for specialized pages stages its streams one by one instead
(`StartStaging`, `AppendStaged`, `WriteStaged`): while it does, `archive` is how
far the file reaches and where the streams so far are. `append_staged` may refuse
any of them for its offset; it does not look whether a stream fits a segment at
all, so `StagedWhole` speaks of those that do. `Validate` is a tool's own check before it replaces a file. `KcpxGateway` and `KcpPageGateway` turn the page of a running track;
`running` is the page the engine sees, in which it writes (`EngineStep`).
`Lengthened` is one turn of the loop that finds the runs in which a page differs
from the template, and `Offsets` adds the streams up as the writers do; both are
recursive functions, so that they can be proved about.

**ChunkedTrack.** `Init` converts a track and cuts it: `Stored` is the frame of
a record, `Cut` the loop of `split_track` with the bytes it counts. Then the Z80 engine and
the validator's reference are stepped tick by tick. `Continue`, `Restart` and
`LocalEnd` are what an engine does at the end of a chunk. An
event larger than a page, which `split_track` refuses, gets a chunk of its own
here; no input of the runs has one.

**HauntedEngine.** `Build`, `Validate` and `Load` take a song through the .ksp;
the gateways write chip registers from the driver's requests. Only the registers
are mapped to the state of `PcmChannels`, so what the code keeps in its shadow
bytes must be right for the refinement to hold.

**AssetBatch.** `OpenTarget` and `WriteTarget` are separate: `Restart` may come
between them and leaves a file that is cut short. The next run finds a file
of that name, and keeps it (`Keep`): the cut file stays for good, and the KSPs
are made of it. `KitName` and `Samplepack` are the batch's choice of a kit,
`OwnKit` and `FindMwk` the analyzer's: it reads the header of songs saved in
edit mode too, reads no menu, and counts kits of equal content as one.

**MwkUsage.** `ParseSong` and `ParseKit` read cells at the positions the code
computes; what the song and kit contain is kept next to the files, in the form
they were laid out from, and the properties use only that.

**MCLoaders, MCBuilders.** Independent programs share an instance: `program` or
`tool` says which of them runs, `w1`, `w2`, ... are its variables, and each module is
instantiated with its variables substituted. A behaviour is a run of one
program, so nothing is interleaved that is not in the code. A property holds
`tool = ... =>` the module's own.

## 3. Checks

| run | question | result |
| --- | --- | --- |
| `player` | archives every song of which can be switched to, and archives with songs that cannot be materialized, attached or installed: one song at a time with its own page and kit, `done` belongs to the loaded track, a refused switch leaves the old track, fades, images and Ctrl-C stay right, the play list ends, the loop implements `Playlist` | holds, with the premises below |
| `player_bad_kit` | an MWK that cannot be decoded | callback renders from a deleted image |
| `player_stuck` | a song that cannot be switched to, at the end of the track before it | retried for ever in silence |
| `loaders` | the sparse cache over every order of songs with every read failing; all command lines of up to three short words, and long names; four kinds of file in every mapper with every DOS failure; six compact files, every order of keys, a DOS failure at any segment; bytes of keys trickling in, typed ahead, cut anywhere | what plays is staged and is what was selected; nothing is refused without a cause; keys and words mean what was typed |
| `sparse_boundary` | a stream that ends on a 64 KiB boundary | refused although it fits |
| `command_slot` | a valid SCC slot argument | refused |
| `compact_last` | the last segment of a compact KSP, with its directory | not staged if it lies beyond 64 KiB |
| `compact_mwk` | songs with a sample kit | the uploader does not return |
| `builders` | what each tool makes of its inputs, an interruption of the batch at any step, gateways called in any order | plays what the source plays, with the exceptions below; an interruption damages one file; two channels stay apart |
| `chunked_loop` | a SCC+ track that loops | its voices are switched off from the second pass on |
| `haunted_init` | the init of a relocated arcade driver | clears its own song data |
| `snatcher_nested` | a repeated passage inside a phrase the music calls | is called, and the way back is lost |

Some properties have a premise, because the code does otherwise outside it.

* `OneSongRendered`, `AnnouncedIsRendered`, `DoneIsThisTrack` and the refinement
  are about `Unrefused` archives, `PlaylistEnds` about `Sound` ones; runs
  `player_bad_kit` and `player_stuck` show what happens in others.
  `RefusedLeavesTrack` is about every archive whose kits can be decoded, like all of
  run `player`: whatever step refuses a switch, the old song's driver, image and length remain, but for a KCP song without a page,
  which is refused only after the driver was reset to it.
* `AcceptedIsUnderstood` is about names that end before `song_number`.
* `PlayedIsStaged` leaves out the segment of run `compact_last`.
* `PackedPlaysSource` leaves out `Nested` pages, which run `snatcher_nested` is
  about, and pages whose tables are written over music.
* `BankPlaysSong` is about streams without look-alikes (`Plain`, `Closed`), and
  `MatchesReference` about tracks that no engine `EntersEarly`.
* `DamageIsLocal` has no premise: however often the batch was interrupted, and
  whatever the cut files do, at most one file per interruption differs from the
  archives', failures are counted, and a KSP differs from what an uninterrupted
  batch makes only by a cut song or driver, or by the kit a cut song names. That
  a later run repairs the file is not so.
* `ToolsAgree` is about songs for which both tools find a kit: the samples
  analyzed are then those packed, unless the menu names another kit than the
  song does, which only the batch knows. Either tool may find a kit where the
  other has none (an edit-mode song without a menu; several directories with the
  same kit).

### Bounds, and why they are enough

* `PlayerLoop`: three songs, so that a move has a nearest and a farther song
  and an archive can have a gap; two pages and two kits, one shared by songs; a
  limit of 5 units with blocks of 2 and a fade of 2, so that the last block is
  clipped, the fade starts before the limit, and INFO lengths below, above and
  at zero all occur; two key presses (`MaxKeys`), so that a move can be taken
  back while a track ends. The proofs do not depend on these numbers.
* `SparseStage`: four songs over 2 or 3 lines, so that a switch evicts what an
  earlier one left and two streams share a segment; streams in one segment,
  over two, over a 64 KiB boundary, at the end of the largest file, one too
  wide, and a gap in the page map.
* `TerminalKeys`: four presses (`MaxPresses`); one empty poll between bytes
  (`MaxLag`), because the second is what makes a lone Escape; reads of 4 bytes
  instead of 32, so that four keys are enough to have one cut. The proofs need
  only `MaxLag` (`KeyAssumption`): a terminal that pauses longer inside a key
  does turn a cursor key into an Escape.
* `CommandLine`: file words of up to two characters, song words that are small,
  256, 199 and not a number, slots that are primary, expanded and invalid; all
  combinations of no blank, one, two and a tab, and a trailing CR; names of 3 to
  8 characters around `song_number`, which is cell 6 here instead of 115
  (`SongCell`). The proofs do not depend on these numbers.
* `Dos2Loader`: sizes on both sides of 16 KiB, 64 KiB and 512 KiB, up to 4 MiB
  (`SizeLimit`), and free counts on both sides of what each mode needs.
* `CompactKsp`: files whose directory, streams and trailer share a segment,
  cross a boundary, or are far apart, in one to seven segments; packed and raw
  engines and songs; kits with and without a short last chunk; a song that is
  refused; a gap in the song numbers. Three presses: a failure in one switch,
  its consequence in the next, and a key held over both. The proofs do not
  depend on these numbers.
* `CompletePages`: two songs of two channels; streams that use every command,
  share a tail, jump from range to range, or have parameters that look like
  commands; pages in which there is room in one place only, or not enough.
  `Radix` in the other builders makes a word two digits; `MaxSteps`,
  `MaxStream` and `MaxHeard` exceed the longest stream of the inputs plus one
  turn of its loop, after which a driver is where it was before.
* `SnatcherPages`: a passage of eight or nine cells that occurs in one channel,
  in both, in a loop, or inside a phrase the music calls itself; holes that take all of a stream, a part, or none.
* `KcpArchive`: pages of four cells that agree, differ in one cell, in two runs
  or throughout (`KcpCells`, behind a header of `KcpFixed` cells); packed sizes
  (`KcpSizes`, per tool) that take two or three streams over the word limit and
  over the end of a segment. The proofs do not depend on these numbers.
* `ChunkedTrack`: every three frames of two voices, the middle one held for
  less or longer than the longest delay of an event (`ChunkedDelay`); pages with
  room for two or three events (`ChunkedCapacity`), behind one page of earlier
  tracks (`ChunkedFillers`). The proofs do not depend on these numbers.
  One voice of each chip stands for all: no code relates two.
* `HauntedEngine`: two addresses and two frequencies that differ in every byte
  that is written alone, silence and one volume, two banks with disjoint bits,
  two songs: enough for a channel to see a value that belongs to the other.
* `AssetBatch`: two archives, nine paths, one interruption (`MaxCrashes`) at any
  step: it leaves one cut file (a song, a kit or a driver), whose damage the next
  run's result is searched for. A second one would leave another such file; the
  proof is for any number.
* `MwkUsage`: three patterns in one to three groups, in both formats, kits of
  three tones; the tables of 220, 24, 48, 16 and 64 entries are cut to a few.

### Fairness

* `PlayerLoop`: `WF(Main)` because the main thread never blocks (`SDL_Delay`,
  a non-blocking `read`), and `WF(Callback)` because SDL calls it as long as
  the device runs. Nothing is assumed about keys, Ctrl-C or what a driver does.
* `TerminalKeys`: `WF(Poll)`, the loop polls every 25 ms; `WF(Arrive)`, bytes
  that were sent arrive.
* `Dos2Loader`: `WF(Step)`, DOS returns from each call, with success or not.
* `CompactKsp`: `WF(Player)`, the Z80 runs and DOS returns from each call.
  Nothing is assumed about the keys.
* In `loaders` these four conditions are imposed on whichever program runs
  (`LoadersSpec`).
* `ChunkedTrack`: the interrupt comes every frame; only safety is checked.
* All others state safety only and assume nothing.

### Disagreements between the code and what is written about it

1. `docs/KSPPLAYER.md` says that playback is paused while the image and the
   MoonSound state are replaced. If the next song's MWK is refused, its image is
   attached all the same, playback is resumed, and the image is then freed
   (`src/kspplayer.c` 1454). Theorem `ImageNeverDangles` shows that this is the
   only way: with kits that decode, no other refusal leaves a dangling image.
2. The same page says that tracks continue with the next track. If the next song
   cannot be switched to, the finished track is retried for ever (1382); the
   retry overwrites every key, so that only Ctrl-C ends the player.
3. `KSPDOS2.asm` 1191 computes the segment of a stream's last byte; for a
   stream that ends on a 64 KiB boundary it is four too high (1195) and the song
   is refused. Theorem `AlwaysStaged` shows that the error is never worse than a
   refusal.
4. The usage message names an SCC slot argument that the parser always refuses
   (400).
5. `KSPPLAYER.asm` 2504 says that MWK data is streamed into MoonSound during a
   reload. The uploader loops for ever on a last chunk below 16 KiB
   (`KSPMWK.asm` 418-425); a kit without one is loaded, but the uploader is then
   overwritten and the next song with a kit calls into what took its place
   (`KSPPLAYER.asm` 3056). `docs/README_KSPPLAY.md` supports only songs without a
   kit on this route; the loader does not refuse the others.
6. The Bomberman '94 engine is to play a track as a full loop. At the loop
   `silence` clears the byte that switches the five SCC+ voices on
   (`build_bomberman94_chunked.py` 144), which only init sets: they are silent
   from the second pass on. Its validator compares register writes and has the
   same omission.
7. The relocated arcade driver of Haunted Castle clears memory from a moved
   start to an end that was not moved (`build_haunted_castle_msx_complete_pages.py`
   289) and takes the song data of its page with it.
8. `KSPDOS2.asm` 860 says that the final segment of a compact KSP, with KDIR and
   META, is retained. From segment 4 on the SEEK to it is not absolute: register
   A, cleared for the method (969), is loaded with the offset's top byte before
   the call (971-975), and the end of file that READ meets is accepted (983-990).
   The player starts with something else in that slot. It is not heard: the
   directory is read from the file. Methods above 2 DOS may refuse, and such
   files (192 KiB and more) then do not start at all.
9. `build_snatcher_complete_page.py` 235-243 rejects repeated passages because
   "F9 has only one return slot and therefore cannot nest", but looks only for an
   F9 in the passage and for entries into it: one that lies wholly inside a phrase
   the music calls, behind its entry, becomes a call within a call, and the
   channel goes on playing after the wrong one. Phrases are factored only when a
   track does not fit without.

Limits that were met and are not the subject of a run:

* An Escape typed behind a cursor key in the same read is dropped by
  `terminal_poll_action` (`src/kspplayer.c` 259), as is one read in the very turn
  in which a track ends: the properties of `TerminalKeys` are those of a user who
  waits.
* The 8-bit count of `calculate_stage_count` (`KSPDOS2.asm` 724) wraps beyond
  4 MiB, where the loader accepts a file of which it stages a part.
* The driver's tables of a Snatcher page are written after the music; nothing
  but the choice of free space keeps them apart (`TablesKept`).
* A switch that is refused after its kit was loaded leaves the old song with the
  next one's kit (`src/kspplayer.c` 1416-1453), and a KCP song without a page is
  refused after its reset: the old song is announced over the next one's driver.
* A file name of 115 characters or more overwrites `song_number` and `scc_slot`
  (`KSPDOS2.asm` 371-380).
* A cut file of an interrupted batch is kept by every later run
  (`dmv_mwm_to_ksp.py` 126-138), as if it were a version of its own.
* The page gateway returns to a driver that believes its page was turned also
  when it was not (a page number the archive lacks).
* `MatchesReference` excludes one shape of Magical Chase tracks: an engine that
  enters the next page in the tick in which the reference still waits
  (`EntersEarly`).
* A last event's hold is dropped by the encoders when a track does not loop.

## 4. Proofs

All theorems hold for every value of the constants that satisfies the named
assumptions; TLAPS checks them to the last leaf.

Several models compute over data of any length: words of a command line, runs of
a page, offsets of streams, chunks of a track, a count of frames. TLAPS knows a
recursive function `f[n \in S] == ...` only as some function that solves the
equation, and no lemma with an operator parameter can be cited. Three lemmas
stand in for both, in each module that needs them: `LeastNumber` (a set of
numbers has a least one, from the well-foundedness of `<` in the library),
`Induction` (a *set* of numbers with 0 and every successor is all numbers), and
`Recursion` (a function defined by its value at 0 and a step, itself given as a
function, exists; hence so does the one `CHOOSE` takes, and the equation holds
of it).

**Loaders_proofs.** The five programs of run `loaders`, each for every value of
its constants. The sparse loader comes first, from `SizeAssumption` and
`ArchiveAssumption`. Its properties are not inductive: that the playing song's segments are staged
depends on what the two lookups before it did. The inductive invariant `Inv`
says, for each place of the loader, what the table and the tags already hold:
tags are true and distinct, segment 0 sits in slot 0 once initialized, after
the first lookup the stream's first segment is tagged and mapped and is the
protected one, and stays so during the second. The arithmetic lemmas show that
the 8-bit segment of an offset is its quotient by 16 KiB, and that a computed
end segment that equals the first or its successor is the true one. From it:
`TypeCorrect`, `TagsNeverLie`, `AlwaysStaged`, `SearchAlwaysEnds`,
`ReplayAlwaysHits`.

From `TailAssumption` (a tail is a sequence of characters) it proves of the
command line `AcceptedMeansTyped` (what is accepted was read as its words say, if
the name ends before `song_number`, `AcceptedIsUnderstood`) and `UsageIsAccepted` (a plain file name, or one with a
number, is not refused, `PlainUsageAccepted`). The properties find the
words of a line by their positions and a number by recursion over its digits; the
code sees one character at a time. `CommandInv` says what each loop has read: only
spaces so far, a name that began at the first other character, a blank that ended
it, digits that are worth the song number modulo 256. That the reference grammar
finds its words where the loops found theirs, and that a number's worth grows by
one digit per step, are lemmas (`LeastNumber`, `Recursion`).

**Dos2Loader_proofs.** Under `Sane`: sizes from 1 byte to 4 MiB, any numbers of
free segments. `SegmentCount` shows that the byte computed from the size is the
number of segments whenever it is accepted, and that what it refuses is above
512 KiB. The inductive invariant `Inv` joins what the phases rely on: the mode
that was chosen fits (`Chosen`), the pools are disjoint intervals of granted
segments (`Pools`), and the staging loops have put every segment read so far
where the table says (`StagedInv`), including the compact mode, in which the
last segment may be one of the first two. From it: `AlwaysOpenWhenRead`,
`AlwaysGranted`, `AlwaysStagedBeforePlay`, `RefusedOnlyForSize`.

`Loaders_proofs` carries these four facts over to `LoadersSpec`, the instance of
run `loaders`: a step of that instance is a step of the loader or leaves the
loader's variables alone, so `LoaderInv` is carried over from `InitInv` and
`NextInv` (`OpenWhenRead`, `Granted`, `StagedBeforePlay`,
`RefusedForSizeOnly`).

It also proves `ActionsWerePressed` and `NothingLost` of the terminal's keys
(`KeysInOrder`, `KeysAllAct`), from `KeyAssumption`. Neither is inductive: what
the parser will return depends on bytes that are still to come. `Keys!Inv` is
about the bytes under way as one `Stream`, whichever queue they are in: they are
whole keys in order, except that the first may have lost its beginning
(`Orderly`); in state 1 or 2 the stream begins with exactly what the parser's key
has left (`InKey`); keys that are yet to begin come after it. A step of the loop
takes a prefix of the stream, the terminal only moves bytes within it, and a
press puts a whole key behind it; the lemmas on sequences say so. `WaitInv`
bounds the empty polls counted by those since the last byte, so the timeout
meets no cursor key. `PatienceInv` has every key that should act done, in the
parser or still in the stream; what `return` drops cannot be such a key, because
a patient user has pressed none behind it.

**PlayerLoop_proofs.** `TypeCorrect` (with the limit on rendered frames)
and `AlwaysFades` hold of every archive. `FadeInv` adds to the fade property that the counters are those of a
track whose fade was decided on the same frame count. `ImageInv` tracks the set
of allocated images through a switch: what is allocated, what the emulator
reads, and which of the two will be discarded, at each `pc`; it is inductive
only if no kit is refused (`GoodKits`), which is where run `player_bad_kit`
comes from. `RefusalKeepsTrack` has the same hypothesis and no other: `TrackInv`
adds the driver and the length, through a switch any step of which is refused.
`SongInv` relates image, driver, kit, page, `song`, `next` and
`attached` at each `pc`; it is stated of archives that are `Unrefused`, since a
refused `Install` leaves the driver at the next song. `AlwaysOneSong`,
`AnnouncedIsHeard` and `DoneIsNeverStale` follow; the constants may contain other
archives, of which they say nothing. The last
theorem of the module, `PlayerIsPlaylist`, is the refinement of `Playlist`
without its fairness, for the same archives: `HeardInv` adds that a switch
under way is to the nearest song on one side and that the emulator holds the old
song until its reset; then `Install` is a `Move`, a `Callback` that raises `done`
a `TrackEnds`, every way to `exit` a `Close`, and all else is not noticed. If
`Install` could be refused, the driver heard would have moved and `done` stayed.

**CompactKsp_proofs.** Under `Sane`, whose `Layout` says what the writer and the player's limits make of a file: engine,
songs, directory and trailer in ascending order, at most 254 songs, a raw engine
within file segment 0 and no kit in a file of that one segment. A stale tag (one
that names a segment the line does not hold) does occur, after a failed READ,
and survives into the next switch; that it never does harm is the heart of the
invariant `Inv`. `LineInv` says that a stale tag is always below the segment
read next: the directory is read from its start upwards; after it the tag is
dropped; engine and music lie before the directory and are read upwards; and
when the next switch begins with the trailer, a tag left by the music is below
the directory. `Found` and `Position` relate the phases to the file, `Progress`
says what a switch without a failure has built so far, and `KeyInv` that a press
is in hand whenever a key is down and not latched. From it: `TypeCorrect`, and
`InvKeeps`, from which `Loaders_proofs` has the theorems of the instance that run
`loaders` checks: `PlaysWhatWasSelected`, `RefusesOnlyForCause`,
`OnePressSelectsOneSong` (`CompactAssumption` is that its constants are `Sane`).

**HauntedEngine_proofs.** Under `Sane`: bytes are bytes, banks have two bits and
volumes four. `ChipRefines` is `PlaysAsAsked`, the refinement of `PcmChannels`
together with the song that plays. A gateway computes what it writes from a
shadow byte, not from the chip, so that the registers implement two channels only
as long as both agree: `Inv` says that they do, but for the loop flags, and that
the .ksp has every song's number in its chunk. What a channel reads back from a
register that two share is a matter of quotients and remainders by 4 and 16, and
each gateway has a lemma that leaves the other channel's field alone.

**KcpArchive_proofs.** Under `Sane`: no segment is empty, and sources and packed
sizes are those the tools read (`IsSource`, `AreSizes`). `ComponentPagesSurvive`
is `PagesSurvive`: a page that may be read back is the source's. Three facts about
data carry it. `OverlayFound`: whatever the template and the page, the runs that
the loop over the cells collects lie one behind the other, hold the page's cells
and cover every cell in which it differs; so the overlay over its template is the
page (`OverlayRestores`). `OffsetsRise`: streams of at least one cell never share
a place. `FieldsFit`: the version of the records that the complete-page builder
chooses has room for every offset, also where the longer records move a stream
past the limit; the other two tools refuse what does not fit. A record whose fields are not cut and whose place is no other's
finds its stream (`StreamsFound`). The invariant `ArchiveInv` follows an archive
through its states: the streams are packed from the source's (`PackedRaw`), those
staged one by one rise, end before the file does and lie whole where a segment has
room for them (`StagedApart`, `AlignedWhole`), a written archive is `Readable`,
and the page a running engine sees is the one it turned to, but for the cells
that are the engine's own (`Running`).

**ChunkedTrack_proofs.** Under `Sane`: a track has a frame, and voices have a tone
and a volume. `ComponentTrackPlays` is `MatchesReference` and `FirstPassFaithful`,
for tracks of any length, any longest delay and any size of a page. It has two
halves. *Records and frames*: `StoredFrames` is given by a condition on a frame,
and a record by the number of stored frames up to its own; `NthStored` and
`NextStored` show that records are the stored frames in order, that the next is
never further than a delay can say, and that no delay is the end mark
(`RecordsAre`); between two of them no voice changes (`Timed`). *Records and
pages*: `Cut` rises by steps of one (`Stairs`), so that the chunks are
consecutive parts of the records, none empty and none lost (`Parts`,
`ChunksAreParts`), and the pages follow on one another (`Linked`). Neither
property is inductive, because between two ticks the engine may still have an
event, the end of a chunk and a turned page before it, while the reference has
passed all three: `Agrees` says that while it does, the reference is where the
event at hand will leave it (`Behind`). `Faithful` says by how many ticks the
engine is ahead of the frame of the next record, and what is then heard. Both hold
unless a page is entered early (`EntersEarly`), as the properties say.

**Builders_proofs.** The theorems of the instance of run `builders`, for every
value of its constants. A step of that instance is a step of one tool or leaves
its variables alone, so that what is proved of a component is carried over:
`SpecPlaysAsAsked` from `ChipRefines`, `SpecPagesSurvive` and `SpecStagedWhole`
from `ArchiveInv`, `SpecMatchesReference` and `SpecFirstPassFaithful` from
`TrackInv`.

`SpecPlacementsApart` is proved here: `find_space` compares a range with
everything placed, and `PagesInv` adds that all of it are intervals of integers,
without which being apart would not be symmetric.

So is the batch. Under `Sane` of `AssetBatchInvariant`, archives are sequences of
members and every path has a number. What a batch leaves behind depends on
all that came before it: `FilesInv` says that every file is the first archive's or
cut short, and that what an extraction has passed is there; `MenuInv` that the
menu has the first record of each song passed; `CountInv` that made, left and
failed songs are all songs; `KspInv` what each .ksp was made of. An interruption
keeps the files and empties the rest, which satisfies all four again. `CrashInv`
counts: the damaged files, leaving out the one being written (`Damaged`,
`Writing`), are at most as many as the interruptions. From it, `SpecDamageIsLocal`, for any number of interruptions.
`SpecToolsAgree` needs no invariant, only the two choices in any state of the
files: given one name, they agree, because a kit that is the only one of its
content is also the one that is found first, or the only one (`KitsAgree`); and
the names differ only by a menu record, or where the batch has none.

The assumptions of these modules are evaluated by TLC on the run's constants
(`PageAssumption`, `KcpAssumption`, `AssetAssumption`, `ChipAssumption`,
`ChunkedAssumption`; `TailAssumption`, `KeyAssumption`, `CompactAssumption` for
`loaders`).

The invariants named `Inv` were checked by TLC on the instances above before
they were proved.

**Only model-checked.** Liveness under fairness (`PlaylistEnds`,
`InterruptEnds`, `PatientEscapeStops`, `LoaderEnds`, `SwitchEnds`, the fairness
part of `ImplementsPlaylist`) and `ENABLED` are out of the prover's reach.
Of the invariants, five stay with TLC: `EngineReadsSource`, `PackedPlaysSource`,
`BankPlaysSong`, `PagePlaysSong` and `UsedIsHeard`. Each compares two runs of a
reader (`Heard`) that follows jumps and calls through a memory until it has seen
enough: one over the source and one over the page a builder made. That recursion
alone could be treated like those above; what is missing is the relation between
the two memories that it would carry along, every pointer of every stream with
the range it was moved with, and an assumption on the images that says when
streams are well formed and do not overlap their tables. The models take such
images from the data of the run and have no such predicate. That the members of
a list of archives are a sequence (`MembersOf`, a fold with an operator as its
parameter) is assumed in `Sane` of `AssetBatchInvariant`.

## 5. Not modelled, and why

* **KSP container** (`src/ksp/ksp.c`, `engine.c`): one pass over a file's
  bytes; what its files look like to a player is `Layout` of `CompactKsp`, and
  the small container of Haunted Castle, with its validator, is in
  `HauntedEngine`. **ZX0**: bit streams, the optimizer is vendored; a packed
  stream is external everywhere. **MBWave compaction**: external to
  `AssetBatch`, succeeds or not.
* **MoonSound glue**: one pass over a kit; `PlayerLoop` has its outcomes.
* **Converters** of tracker songs: event by event, with nothing between the
  events but counters; a model would repeat the code.
* **Resident player**: the KCP runtime's slot switching and what its keys do
  beyond `SwitchSong`; legacy raw-KSS banking is unreachable from the loader,
  which refuses those files.
* **Parts of modelled tools**: `make_external_nodes` of Snatcher's packer (data
  behind the track's own bank) and the KSP around its pages; recovery of
  instruction boundaries by disassembly in the Konami builder, and its
  indirect-code targets, which `main` never passes; the file of fixes `find_mwk`
  may be given; the FM configuration and the sample chip's reads of Haunted
  Castle; the mapping of PC Engine registers to volumes and waveforms.
* **F1 Spirit and Nemesis 3 builders**: byte patches at fixed addresses of one
  game each. **Banked Konami builder**: passes other arguments to a modelled
  function. **KSS asset extraction, packing tools, build scripts, debugging
  tools**: read and print or wrap, no state. **libkss patch**: external.
* What the emulated drivers play: external to the repository. The models say
  only which memory, flags and commands a driver may use. The KSP of Haunted
  Castle names an engine type the desktop player does not accept; how a song
  is read from it is external (`SongCell`).

## 6. Plan

1. Players and loader with proofs, builders, archives, engines and batch tools
   (done).
2. Proofs of the builders' placement, staging and batches, of the chip's
   refinement, of the play list's and of the terminal's keys (done).
3. Proofs about recursive data: the command line, archives with their overlays,
   SCC+ tracks with their chunks (done).
4. A predicate for well-formed music images, and with it the readers of the
   builders' pages (section 4, only model-checked).
