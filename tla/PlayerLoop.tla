------------------------------ MODULE PlayerLoop ------------------------------
(***************************************************************************)
(* kspplayer's playback: the main thread's loop in play_audio, the SDL     *)
(* audio callback that runs on SDL's own thread, and the KCP page runtime  *)
(* they share (src/kspplayer.c).  The main thread polls the keyboard,      *)
(* notices the end of a track and replaces the emulation image while the   *)
(* callback is held off; the callback renders blocks of frames, starts the *)
(* fade-out and raises `done'.                                             *)
(*                                                                         *)
(* Frames are counted in coarse units.  The emulator (libkss, external) is *)
(* the record emu: which image it reads, which song its driver was reset   *)
(* to, which KCP page and which MWK sample kit it holds, and its stop and  *)
(* loop flags; emu.turned is a history of it, that the driver has turned   *)
(* to another page since its song's own was installed.  What the emulated  *)
(* driver does inside KSSPLAY_calc and KSSPLAY_reset is nondeterministic.  *)
(***************************************************************************)
EXTENDS Integers, FiniteSets

CONSTANTS
    Songs,      \* public song numbers
    Pages,      \* KCP pages of an archive
    Kits,       \* MWK sample kits of an archive
    Archives,   \* the archives the player may be started on
    Total,      \* options.seconds, in frames
    Fade,       \* options.fade_seconds, in frames
    Loops,      \* options.loops > 0
    StopAfter,  \* the 5 seconds before the stop flag counts, in frames
    Block,      \* frames SDL asks for in one callback
    MaxKeys     \* bound: keys the user presses

NoPage == -1     \* song_page[] names no page of the archive
NoKit == -1      \* the song has no MWK entry
WholeFile == -1  \* the one image of an archive that is not compact
NoSong == -2

Archive ==
    [ mode : {"plain", "kcp", "compact"},
      songs : SUBSET Songs,
      length : [Songs -> Nat],            \* INFO time of a song, 0 if none
      page : [Songs -> Pages \cup {NoPage}],
      kit : [Songs -> Kits \cup {NoKit}],
      badKits : SUBSET Kits,              \* decode_mwk_data refuses these
      badImages : SUBSET Songs,           \* cannot be materialized
      unattachable : SUBSET Songs ]       \* KSSPLAY_set_data refuses these

ASSUME NumberAssumption ==
    /\ Songs \subseteq Nat /\ IsFiniteSet(Songs)
    /\ Pages \subseteq Nat
    /\ Kits \subseteq Nat
    /\ Total \in Nat \ {0} /\ Block \in Nat \ {0}
    /\ Fade \in 0..Total          \* parse_options clips the fade
    /\ StopAfter \in Nat
    /\ Loops \in BOOLEAN
    /\ MaxKeys \in Nat

ASSUME ArchiveAssumption == Archives \subseteq Archive

VARIABLES
    archive,    \* the loaded file (never changes)
    pc,         \* where the main thread is in play_audio
    action,     \* the TerminalAction of this turn of the loop
    automatic,  \* automatic_next
    attached,   \* attached
    song,       \* current_song
    next,       \* next_song
    held,       \* device paused and locked: the callback cannot run
    done,       \* state.done
    failed,     \* kcp->failed
    rendered,   \* state.rendered_frames
    fading,     \* state.fade_started
    autoEnd,    \* state.auto_end_frames
    emu,        \* the emulator
    live,       \* images allocated and not yet deleted
    interrupted,\* stop_requested
    keys        \* keys pressed so far

control == <<pc, action, automatic, attached, song, next>>
track == <<rendered, fading, autoEnd>>
vars == <<archive, control, held, done, failed, track, emu, live,
          interrupted, keys>>

Actions == {"none", "quit", "previous", "next"}

-----------------------------------------------------------------------------
Compact == archive.mode = "compact"
Kcp == archive.mode = "kcp"

Image(s) == IF Compact THEN s ELSE WholeFile

\* adjacent_song: the nearest song of the archive in that direction.
MutNeighbours(direction) ==
    {s \in archive.songs : IF direction = "next" THEN s >= song ELSE s < song}

Neighbours(direction) ==
    {s \in archive.songs : IF direction = "next" THEN s > song ELSE s < song}

MutIsNearest(s, direction) ==
    \A t \in Neighbours(direction) :
        IF direction = "next" THEN s >= t ELSE s <= t

IsNearest(s, direction) ==
    \A t \in Neighbours(direction) :
        IF direction = "next" THEN s <= t ELSE s >= t

\* set_track_duration: an INFO time beyond the requested seconds is ignored.
AutoEnd(s) == IF archive.length[s] > Total THEN 0 ELSE archive.length[s]

\* load_embedded_mwk: a song without a kit keeps the one that is loaded.
KitLoads(s) == Compact => archive.kit[s] \notin archive.badKits
KitAfter(s) == IF Compact /\ archive.kit[s] # NoKit
               THEN archive.kit[s] ELSE emu.kit

\* kcp_runtime_install
Installs(s) == Kcp => archive.page[s] # NoPage

\* kcp_runtime_memwrite: what page writes of the running driver leave behind,
\* as <<page, failed>>.  A page the archive lacks raises failed and changes no
\* memory.
PageWrites == IF Kcp THEN (Pages \cup {emu.page}) \X {failed, TRUE}
              ELSE {<<emu.page, failed>>}

Turned(w) == emu.turned \/ w[1] # emu.page

-----------------------------------------------------------------------------
Init ==
    /\ archive \in Archives
    /\ song \in archive.songs
    /\ pc = "start" /\ action = "none" /\ automatic = FALSE
    /\ attached = FALSE /\ next = NoSong
    /\ held = TRUE
    /\ done = FALSE /\ failed = FALSE
    /\ rendered = 0 /\ fading = FALSE /\ autoEnd = 0
    /\ emu = [image |-> NoSong, song |-> NoSong, page |-> NoPage,
              kit |-> NoKit, stopped |-> FALSE, looped |-> FALSE,
              turned |-> FALSE]
    /\ live = {}
    /\ interrupted = FALSE
    /\ keys = 0

\* The first song: everything play_audio does before its loop.  Any refusal
\* ends the program.  No memwrite handler is installed during this reset.
StartPlayer ==
    /\ pc = "start"
    /\ Compact => song \notin archive.badImages
    /\ KitLoads(song) /\ song \notin archive.unattachable /\ Installs(song)
    /\ live' = {Image(song)}
    /\ emu' = [image |-> Image(song), song |-> song,
               page |-> IF Kcp THEN archive.page[song] ELSE NoPage,
               kit |-> KitAfter(song), stopped |-> FALSE, looped |-> FALSE,
               turned |-> FALSE]
    /\ autoEnd' = AutoEnd(song)
    /\ held' = FALSE
    /\ pc' = "poll"
    /\ UNCHANGED <<archive, action, automatic, attached, song, next, done,
                   failed, rendered, fading, interrupted, keys>>

StartFails ==
    /\ pc = "start"
    /\ ~ (/\ Compact => song \notin archive.badImages
          /\ KitLoads(song) /\ song \notin archive.unattachable
          /\ Installs(song))
    /\ pc' = "exit"
    /\ UNCHANGED <<archive, action, automatic, attached, song, next, held,
                   done, failed, track, emu, live, interrupted, keys>>

\* Leaving the loop: the device is paused, then closed.
Leave == pc' = "exit" /\ held' = TRUE

\* while (!stop_requested): the loop's condition.
MutStopRequested == interrupted /\ ~done
StopRequested == interrupted

LoopEnds ==
    /\ pc = "poll" /\ StopRequested
    /\ Leave
    /\ UNCHANGED <<archive, action, automatic, attached, song, next, done,
                   failed, track, emu, live, interrupted, keys>>

\* One turn of the loop: the keyboard, then the KCP runtime's failure.
Poll(key) ==
    /\ pc = "poll" /\ ~StopRequested
    /\ key # "none" => keys < MaxKeys
    /\ keys' = IF key = "none" THEN keys ELSE keys + 1
    /\ action' = key
    /\ automatic' = FALSE
    /\ IF failed THEN Leave ELSE pc' = "decide" /\ UNCHANGED held
    /\ UNCHANGED <<archive, attached, song, next, done, failed, track, emu,
                   live, interrupted>>

\* The rest of the turn: a finished track overrides the key.
Decide ==
    LET act == IF done THEN "next" ELSE action IN
    /\ pc = "decide"
    /\ action' = act
    /\ automatic' = done
    /\ \/ /\ act = "quit"
          /\ done' = TRUE
          /\ Leave
          /\ UNCHANGED next
       \/ /\ act = "none"
          /\ pc' = "poll"
          /\ UNCHANGED <<held, done, next>>
       \/ /\ act \in {"previous", "next"} /\ Neighbours(act) = {}
          /\ IF done THEN Leave ELSE pc' = "poll" /\ UNCHANGED held
          /\ UNCHANGED <<done, next>>
       \/ /\ act \in {"previous", "next"} /\ Neighbours(act) # {}
          /\ \E s \in Neighbours(act) : IsNearest(s, act) /\ next' = s
          /\ pc' = "materialize"
          /\ UNCHANGED <<held, done>>
    /\ UNCHANGED <<archive, attached, song, failed, track, emu, live,
                   interrupted, keys>>

\* SDL_PauseAudioDevice(1), SDL_LockAudioDevice.
MutHoldCallback == held' = held
HoldCallback == held' = TRUE

\* materialize_compact_song, then the callback is held off.
Materialize ==
    /\ pc = "materialize"
    /\ IF Compact /\ next \in archive.badImages
       THEN /\ attached' = FALSE
            /\ pc' = "poll"
            /\ UNCHANGED <<live, held>>
       ELSE /\ attached' = TRUE
            /\ live' = live \cup {Image(next)}
            /\ HoldCallback
            /\ pc' = "kit"
    /\ UNCHANGED <<archive, action, automatic, song, next, done, failed,
                   track, emu, interrupted, keys>>

LoadKit ==
    /\ pc = "kit"
    /\ attached' = KitLoads(next)
    /\ emu' = IF KitLoads(next) THEN [emu EXCEPT !.kit = KitAfter(next)]
              ELSE emu
    /\ pc' = "attach"
    /\ UNCHANGED <<archive, action, automatic, song, next, held, done,
                   failed, track, live, interrupted, keys>>

\* if (attached) guards the reset and all that follows it.
MutAfterAttach == "reset"
AfterAttach == IF attached' THEN "reset" ELSE "release"

\* KSSPLAY_set_data runs for a compact song even when its kit was refused.
Attach ==
    /\ pc = "attach"
    /\ IF Compact
       THEN IF next \in archive.unattachable
            THEN attached' = FALSE /\ UNCHANGED emu
            ELSE /\ emu' = [emu EXCEPT !.image = Image(next)]
                 /\ UNCHANGED attached
       ELSE UNCHANGED <<attached, emu>>
    /\ pc' = AfterAttach
    /\ UNCHANGED <<archive, action, automatic, song, next, held, done,
                   failed, track, live, interrupted, keys>>

\* KSSPLAY_reset runs the driver's init code, with the memwrite handler of the
\* previous song still installed.
Reset ==
    /\ pc = "reset"
    /\ \E w \in PageWrites :
          /\ emu' = [emu EXCEPT !.song = next, !.page = w[1],
                                !.stopped = FALSE, !.looped = FALSE,
                                !.turned = Turned(w)]
          /\ failed' = w[2]
    /\ pc' = "install"
    /\ UNCHANGED <<archive, action, automatic, attached, song, next, held,
                   done, track, live, interrupted, keys>>

\* What a successful switch clears.
MutNewTrackStaleDone ==
    /\ failed' = FALSE
    /\ autoEnd' = AutoEnd(next) /\ rendered' = 0 /\ fading' = FALSE
    /\ UNCHANGED done

NewTrack ==
    /\ failed' = FALSE
    /\ autoEnd' = AutoEnd(next) /\ rendered' = 0 /\ fading' = FALSE
    /\ done' = FALSE

\* The pages kcp_runtime_install writes: an archive without pages has none.
MutInstalledPage == emu.page
InstalledPage == IF Kcp THEN archive.page[next] ELSE emu.page

\* kcp_runtime_install and, if it succeeds, the new track's counters.
Install ==
    /\ pc = "install"
    /\ IF Installs(next)
       THEN /\ emu' = [emu EXCEPT !.page = InstalledPage, !.turned = FALSE]
            /\ NewTrack
            /\ UNCHANGED attached
       ELSE attached' = FALSE /\ UNCHANGED <<emu, failed, track, done>>
    /\ pc' = "release"
    /\ UNCHANGED <<archive, action, automatic, song, next, held, live,
                   interrupted, keys>>

\* SDL_UnlockAudioDevice, SDL_PauseAudioDevice(0): the callback runs again
\* before the main thread deletes the image it no longer needs.
Release ==
    /\ pc = "release"
    /\ held' = FALSE
    /\ pc' = "adopt"
    /\ UNCHANGED <<archive, action, automatic, attached, song, next, done,
                   failed, track, emu, live, interrupted, keys>>

MutCurrent == song
Current == IF attached THEN next ELSE song

MutDiscardedNew == next
MutDiscardedOld == song
Discarded == IF attached THEN song ELSE next

Adopt ==
    /\ pc = "adopt"
    /\ song' = Current
    /\ live' = IF Compact THEN live \ {Discarded} ELSE live
    /\ pc' = "poll"
    /\ UNCHANGED <<archive, action, automatic, attached, next, held, done,
                   failed, track, emu, interrupted, keys>>

-----------------------------------------------------------------------------
\* audio_callback, when the device is not held and the track not done (it
\* renders silence otherwise).  The driver may write the page mailbox, reach
\* its loop point or raise the stop flag.

Frames == IF Block > Total - rendered THEN Total - rendered ELSE Block

MutFadeDue(count, looped) ==
    Fade > 0 /\ (IF Loops THEN looped ELSE count + Fade >= Total)

FadeDue(count, looped) ==
    Fade > 0 /\ ((Loops /\ looped) \/ count + Fade >= Total)

TrackOver(count, stopped) ==
    \/ count >= Total
    \/ autoEnd > 0 /\ count >= autoEnd
    \/ autoEnd = 0 /\ count >= StopAfter /\ stopped

Callback ==
    /\ ~held /\ ~done
    /\ IF Frames <= 0
       THEN done' = TRUE /\ UNCHANGED <<failed, track, emu>>
       ELSE \E w \in PageWrites, stopped \in BOOLEAN, looped \in BOOLEAN :
            /\ emu.stopped => stopped
            /\ emu.looped => looped
            /\ emu' = [emu EXCEPT !.page = w[1], !.stopped = stopped,
                                  !.looped = looped, !.turned = Turned(w)]
            /\ failed' = w[2]
            /\ IF failed'
               THEN done' = TRUE /\ UNCHANGED track
               ELSE /\ rendered' = rendered + Frames
                    /\ fading' = (fading \/ FadeDue(rendered', looped))
                    /\ done' = TrackOver(rendered', stopped)
                    /\ UNCHANGED autoEnd
    /\ UNCHANGED <<archive, control, held, live, interrupted, keys>>

\* handle_interrupt: Ctrl-C at any moment of the loop.
Interrupt ==
    /\ pc \notin {"start", "exit"} /\ ~interrupted
    /\ interrupted' = TRUE
    /\ UNCHANGED <<archive, control, held, done, failed, track, emu, live,
                   keys>>

Finished == pc = "exit" /\ UNCHANGED vars

Main ==
    \/ StartPlayer \/ StartFails
    \/ LoopEnds \/ (\E key \in Actions : Poll(key)) \/ Decide
    \/ Materialize \/ LoadKit \/ Attach \/ Reset \/ Install \/ Release
    \/ Adopt

Next == Main \/ Callback \/ Interrupt \/ Finished

\* SDL keeps calling the callback while the device runs; the main thread never
\* blocks for ever (SDL_Delay, a non-blocking read).
Fairness == WF_vars(Main) /\ WF_vars(Callback)

Spec == Init /\ [][Next]_vars /\ Fairness

-----------------------------------------------------------------------------
\* Properties.

Running == pc \notin {"start", "exit"}

TypeOK ==
    /\ archive \in Archives
    /\ pc \in {"start", "poll", "decide", "materialize", "kit", "attach",
              "reset", "install", "release", "adopt", "exit"}
    /\ action \in Actions
    /\ automatic \in BOOLEAN /\ attached \in BOOLEAN
    /\ song \in archive.songs /\ next \in archive.songs \cup {NoSong}
    /\ held \in BOOLEAN /\ done \in BOOLEAN /\ failed \in BOOLEAN
    /\ rendered \in 0..Total
    /\ fading \in BOOLEAN
    /\ autoEnd \in 0..Total
    /\ emu \in [image : archive.songs \cup {WholeFile, NoSong},
               song : archive.songs \cup {NoSong},
               page : Pages \cup {NoPage}, kit : Kits \cup {NoKit},
               stopped : BOOLEAN, looped : BOOLEAN, turned : BOOLEAN]
    /\ live \subseteq archive.songs \cup {WholeFile}
    /\ interrupted \in BOOLEAN
    /\ keys \in 0..MaxKeys

\* No switch to a song of the archive is refused once it has begun to change
\* the emulator: every kit is decoded, every image attached, every page there.
Unrefused ==
    /\ archive.badKits = {} /\ archive.unattachable = {}
    /\ Kcp => \A s \in archive.songs : archive.page[s] # NoPage

\* Every song of the archive can be switched to.
Sound == Unrefused /\ archive.badImages = {}

\* A raised `done' always belongs to the track that is loaded: it has run to
\* its time limit, its INFO length or its stop flag, or its driver asked for a
\* page the archive lacks.  A `done' left over from the previous track would
\* make the main thread skip a song.
DoneIsThisTrack ==
    Unrefused /\ done /\ ~held =>
        TrackOver(rendered, emu.stopped) \/ failed

\* The time limit never cuts a track that has not been told to fade out.
TimeLimitFades ==
    rendered >= Total /\ Fade > 0 => fading

\* Whenever the callback may run, the image it renders from exists
\* (docs/KSPPLAYER.md: playback is paused while the emulation image is
\* replaced), so that the main thread never deletes an image in use.
RenderedImageIsLive ==
    ~held => emu.image \in live

\* No image is leaked: between two switches exactly the current song's image
\* is allocated.
OneImage ==
    pc \in {"poll", "decide"} => live = {Image(song)}

\* Whenever the callback may run, the image, the driver, the KCP page set and
\* the MWK kit all belong to one song, in an archive no switch of which is
\* refused half-way: a block is never rendered from a half replaced song.  The
\* page is the one song_page names for the song until the driver itself turns
\* it; what the old driver or the reset wrote to the mailbox during the switch
\* is never left behind.
OneSongRendered ==
    Unrefused /\ ~held =>
        /\ emu.image = Image(emu.song)
        /\ Compact /\ archive.kit[emu.song] # NoKit =>
                emu.kit = archive.kit[emu.song]
        /\ Kcp /\ ~emu.turned => emu.page = archive.page[emu.song]

\* The song announced on the terminal is the one that is heard, in an archive
\* no switch of which is refused half-way.
AnnouncedIsRendered ==
    Unrefused /\ pc \in {"poll", "decide", "materialize"} => emu.song = song

\* A switch leaves the emulator, the announcement and the track's length with
\* one song even when it is refused half-way: whichever of its steps fails, the
\* player goes on with the old song's driver, image and INFO time.  A KCP song
\* without a page is refused only after its reset, so that there only the
\* length stays behind.
RefusedLeavesTrack ==
    pc \in {"poll", "decide", "materialize"} =>
        /\ autoEnd = AutoEnd(song)
        /\ ~Kcp => emu.song = song /\ emu.image = Image(song)

\* Ctrl-C ends the program from any state.
InterruptEnds == interrupted ~> pc = "exit"

\* Left alone, the player goes on to every following track and then ends, if
\* every song can be switched to.
PlaylistEnds == Sound => <>(pc = "exit")

\* docs/KSPPLAYER.md: "Tracks automatically continue with the next track when
\* another track exists."
TrackEndAdvances == done ~> (~done \/ pc = "exit")

\* The loop and the callback together are a Playlist.  The song heard changes
\* when a switch has been installed; before that the callback is held off.
Listener == INSTANCE Playlist WITH
    songs <- archive.songs, unrefused <- Unrefused, sound <- Sound,
    heard <- IF pc \in {"start", "install"} \/ emu.song = NoSong
             THEN song ELSE emu.song,
    over <- done /\ pc # "exit",
    closed <- pc = "exit"

ImplementsPlaylist == Listener!Spec
=============================================================================
