--------------------------- MODULE PlayerLoop_proofs ---------------------------
(***************************************************************************)
(* Proofs about PlayerLoop, for every archive and every length of track:   *)
(* the types and the bounds of the counters, the fade-out, the life of the *)
(* emulation images, and the unity of the song that is rendered.           *)
(***************************************************************************)
EXTENDS PlayerLoop, TLAPS

-----------------------------------------------------------------------------
\* Types.

Switching == {"materialize", "kit", "attach", "reset", "install", "release",
              "adopt"}

\* While a switch is under way, next is one of the archive's other songs.
NextChosen == pc \in Switching => next \in archive.songs /\ next # song

\* The reset of a switch is of the next song.
ResetSong == pc = "install" => emu.song = next

TypeInv == TypeOK /\ NextChosen /\ ResetSong

\* What the assumptions say of the archive that is loaded.
LEMMA ArchiveTypes ==
    ASSUME archive \in Archives
    PROVE  /\ archive \in Archive
           /\ archive.songs \subseteq Nat
           /\ \A s \in archive.songs :
                /\ archive.length[s] \in Nat
                /\ archive.page[s] \in Pages \cup {NoPage}
                /\ archive.kit[s] \in Kits \cup {NoKit}
                /\ Image(s) \in archive.songs \cup {WholeFile}
                /\ AutoEnd(s) \in 0..Total
<1>1. archive \in Archive
  BY ArchiveAssumption
<1>2. archive.songs \subseteq Songs /\ Songs \subseteq Nat
  BY <1>1, NumberAssumption DEF Archive
<1>3. \A s \in archive.songs :
        /\ archive.length[s] \in Nat
        /\ archive.page[s] \in Pages \cup {NoPage}
        /\ archive.kit[s] \in Kits \cup {NoKit}
  BY <1>1, <1>2 DEF Archive
<1>4. Total \in Nat
  BY NumberAssumption
<1>5. \A s \in archive.songs : AutoEnd(s) \in 0..Total
  BY <1>3, <1>4 DEF AutoEnd
<1>6. \A s \in archive.songs : Image(s) \in archive.songs \cup {WholeFile}
  BY DEF Image
<1> QED
  BY <1>1, <1>2, <1>3, <1>5, <1>6

\* The type of the emulator.
EmuType ==
    [image : archive.songs \cup {WholeFile, NoSong},
     song : archive.songs \cup {NoSong},
     page : Pages \cup {NoPage}, kit : Kits \cup {NoKit},
     stopped : BOOLEAN, looped : BOOLEAN, turned : BOOLEAN]

LEMMA PageWriteTypes ==
    ASSUME emu \in EmuType, failed \in BOOLEAN, NEW w \in PageWrites
    PROVE  w[1] \in Pages \cup {NoPage} /\ w[2] \in BOOLEAN /\ Turned(w) \in BOOLEAN
<1>1. emu.page \in Pages \cup {NoPage}
  BY DEF EmuType
<1>2. Turned(w) \in BOOLEAN
  BY DEF Turned, EmuType
<1>3. CASE Kcp
  <2>1. w \in (Pages \cup {emu.page}) \X {failed, TRUE}
    BY <1>3 DEF PageWrites
  <2> QED
    BY <1>1, <1>2, <2>1
<1>4. CASE ~Kcp
  <2>1. w = <<emu.page, failed>>
    BY <1>4 DEF PageWrites
  <2> QED
    BY <1>1, <1>2, <2>1
<1> QED
  BY <1>3, <1>4

\* TypeOK, but for the emulator and the loaded archive, in three parts.
ControlTypes ==
    /\ pc \in {"start", "poll", "decide", "materialize", "kit", "attach",
              "reset", "install", "release", "adopt", "exit"}
    /\ action \in Actions
    /\ song \in archive.songs /\ next \in archive.songs \cup {NoSong}
    /\ live \subseteq archive.songs \cup {WholeFile}
    /\ keys \in 0..MaxKeys

FlagTypes ==
    /\ automatic \in BOOLEAN /\ attached \in BOOLEAN
    /\ held \in BOOLEAN /\ done \in BOOLEAN /\ failed \in BOOLEAN
    /\ fading \in BOOLEAN /\ interrupted \in BOOLEAN

CountTypes == rendered \in 0..Total /\ autoEnd \in 0..Total

LEMMA TypeParts ==
    TypeOK <=> /\ archive \in Archives /\ emu \in EmuType
               /\ ControlTypes /\ FlagTypes /\ CountTypes
  BY Zenon DEF TypeOK, EmuType, ControlTypes, FlagTypes, CountTypes

LEMMA InitTypes == Init => TypeInv
<1> SUFFICES ASSUME Init PROVE TypeInv
  OBVIOUS
<1>1. emu \in EmuType
  BY DEF Init, EmuType
<1>2. CountTypes
  BY NumberAssumption DEF Init, CountTypes
<1>3. FlagTypes
  BY DEF Init, FlagTypes
<1>4. ControlTypes
  BY NumberAssumption DEF Init, ControlTypes, Actions
<1>5. NextChosen /\ ResetSong
  BY DEF Init, NextChosen, ResetSong, Switching
<1> QED
  BY <1>1, <1>2, <1>3, <1>4, <1>5, TypeParts DEF Init, TypeInv

\* The counter of frames stays within the track.
LEMMA NextCounts == TypeInv /\ [Next]_vars => CountTypes'
<1> SUFFICES ASSUME TypeInv, [Next]_vars PROVE CountTypes'
  OBVIOUS
<1>1. CountTypes /\ archive \in Archives /\ Total \in Nat /\ Block \in Nat
      /\ song \in archive.songs
      /\ (pc = "install" => next \in archive.songs)
  BY TypeParts, NumberAssumption
     DEF TypeInv, NextChosen, Switching, ControlTypes
<1>2. CASE StartPlayer
  BY <1>1, <1>2, ArchiveTypes DEF StartPlayer, CountTypes
<1>3. CASE Install
  BY <1>1, <1>3, ArchiveTypes DEF Install, NewTrack, CountTypes, track
<1>4. CASE Callback
  <2>1. Frames \in Int /\ rendered + Frames <= Total
    BY <1>1 DEF Frames, CountTypes
  <2>2. \/ UNCHANGED track
        \/ Frames > 0 /\ rendered' = rendered + Frames /\ autoEnd' = autoEnd
    <3>1. CASE Frames <= 0
      BY <1>4, <3>1 DEF Callback
    <3>2. CASE ~(Frames <= 0)
      <4>1. Frames > 0
        BY <2>1, <3>2
      <4>2. \/ UNCHANGED track
            \/ rendered' = rendered + Frames /\ UNCHANGED autoEnd
        BY <1>4, <3>2, Zenon DEF Callback
      <4> QED
        BY <4>1, <4>2
    <3> QED
      BY <3>1, <3>2
  <2> QED
    BY <1>1, <2>1, <2>2 DEF CountTypes, track
<1>5. CASE UNCHANGED track
  BY <1>1, <1>5 DEF CountTypes, track
<1>6. StartPlayer \/ Install \/ Callback \/ UNCHANGED track
  BY DEF Next, Main, StartFails, LoopEnds, Poll, Decide, Materialize,
         LoadKit, Attach, Reset, Release, Adopt, Interrupt, Finished, vars,
         track
<1> QED
  BY <1>2, <1>3, <1>4, <1>5, <1>6

\* The emulator holds an image, a page and a kit of the archive.
LEMMA NextEmu == TypeInv /\ [Next]_vars => (emu \in EmuType)'
<1> SUFFICES ASSUME TypeInv, [Next]_vars PROVE (emu \in EmuType)'
  OBVIOUS
<1>1. /\ archive \in Archives /\ emu \in EmuType /\ failed \in BOOLEAN
      /\ song \in archive.songs
      /\ pc \in {"kit", "attach", "reset", "install"} =>
            next \in archive.songs
  BY TypeParts DEF TypeInv, NextChosen, Switching, ControlTypes, FlagTypes
<1>2. archive' = archive
  BY DEF Next, Main, StartPlayer, StartFails, LoopEnds, Poll, Decide,
         Materialize, LoadKit, Attach, Reset, Install, Release, Adopt,
         Callback, Interrupt, Finished, vars
<1> SUFFICES emu' \in EmuType
  BY <1>2 DEF EmuType
<1>3. \A s \in archive.songs : KitAfter(s) \in Kits \cup {NoKit}
  BY <1>1, ArchiveTypes DEF KitAfter, EmuType
<1>4. CASE StartPlayer
  BY <1>1, <1>3, <1>4, ArchiveTypes DEF StartPlayer, EmuType
<1>5. CASE LoadKit
  BY <1>1, <1>3, <1>5 DEF LoadKit, EmuType
<1>6. CASE Attach
  BY <1>1, <1>6, ArchiveTypes DEF Attach, EmuType
<1>7. CASE Reset
  <2>1. PICK w \in PageWrites :
          emu' = [emu EXCEPT !.song = next, !.page = w[1],
                             !.stopped = FALSE, !.looped = FALSE,
                             !.turned = Turned(w)]
    BY <1>7 DEF Reset
  <2>2. w[1] \in Pages \cup {NoPage} /\ Turned(w) \in BOOLEAN
    BY <1>1, PageWriteTypes
  <2> QED
    BY <1>1, <1>7, <2>1, <2>2 DEF Reset, EmuType
<1>8. CASE Install
  <2>1. InstalledPage \in Pages \cup {NoPage}
    BY <1>1, <1>8, ArchiveTypes DEF Install, InstalledPage, EmuType
  <2> QED
    BY <1>1, <1>8, <2>1 DEF Install, EmuType
<1>9. CASE Callback
  <2>1. CASE emu' = emu
    BY <1>1, <2>1
  <2>2. CASE \E w \in PageWrites, stopped \in BOOLEAN, looped \in BOOLEAN :
               emu' = [emu EXCEPT !.page = w[1], !.stopped = stopped,
                                  !.looped = looped, !.turned = Turned(w)]
    <3>1. PICK w \in PageWrites, stopped \in BOOLEAN, looped \in BOOLEAN :
            emu' = [emu EXCEPT !.page = w[1], !.stopped = stopped,
                               !.looped = looped, !.turned = Turned(w)]
      BY <2>2
    <3>2. w[1] \in Pages \cup {NoPage} /\ Turned(w) \in BOOLEAN
      BY <1>1, PageWriteTypes
    <3> QED
      BY <1>1, <3>1, <3>2 DEF EmuType
  <2> QED
    BY <1>9, <2>1, <2>2 DEF Callback
<1>10. CASE emu' = emu
  BY <1>1, <1>10
<1> QED
  BY <1>4, <1>5, <1>6, <1>7, <1>8, <1>9, <1>10
     DEF Next, Main, StartFails, LoopEnds, Poll, Decide, Materialize,
         Release, Adopt, Interrupt, Finished, vars

LEMMA NextFlags == TypeInv /\ [Next]_vars => FlagTypes'
<1> SUFFICES ASSUME TypeInv, [Next]_vars PROVE FlagTypes'
  OBVIOUS
<1>1. FlagTypes /\ emu \in EmuType
  BY TypeParts DEF TypeInv
<1>2. CASE Callback
  <2>1. \/ done' = TRUE
        \/ \E stopped \in BOOLEAN : done' = TrackOver(rendered', stopped)
    BY <1>2 DEF Callback
  <2>2. done' \in BOOLEAN
    BY <2>1 DEF TrackOver
  <2>3. failed' = failed \/ \E w \in PageWrites : failed' = w[2]
    BY <1>2 DEF Callback
  <2>4. failed' \in BOOLEAN
    BY <1>1, <2>3, PageWriteTypes DEF FlagTypes
  <2>5. \/ fading' = fading
        \/ \E l : fading' = (fading \/ FadeDue(rendered', l))
    BY <1>2 DEF Callback, track
  <2>6. fading' \in BOOLEAN
    BY <1>1, <2>5 DEF FadeDue, FlagTypes
  <2> QED
    BY <1>1, <1>2, <2>2, <2>4, <2>6 DEF Callback, FlagTypes, control
<1>3. CASE Reset
  <2>1. failed' \in BOOLEAN
    BY <1>1, <1>3, PageWriteTypes DEF Reset, FlagTypes
  <2> QED
    BY <1>1, <1>3, <2>1 DEF Reset, FlagTypes, track
<1>4. CASE LoadKit \/ Attach \/ Install
  BY <1>1, <1>4
     DEF LoadKit, Attach, Install, NewTrack, FlagTypes, KitLoads, track
<1>5. CASE StartPlayer \/ StartFails \/ LoopEnds \/ Release \/ Adopt
           \/ Interrupt \/ Finished \/ UNCHANGED vars
  BY <1>1, <1>5
     DEF StartPlayer, StartFails, LoopEnds, Leave, Release, Adopt, Interrupt,
         Finished, vars, FlagTypes, control, track
<1>6. CASE (\E key \in Actions : Poll(key)) \/ Decide \/ Materialize
  BY <1>1, <1>6
     DEF Poll, Decide, Materialize, HoldCallback, Leave, FlagTypes, track
<1> QED
  BY <1>2, <1>3, <1>4, <1>5, <1>6 DEF Next, Main

LEMMA NextControl ==
    TypeInv /\ [Next]_vars => (ControlTypes /\ NextChosen /\ ResetSong)'
<1> SUFFICES ASSUME TypeInv, [Next]_vars
             PROVE (ControlTypes /\ NextChosen /\ ResetSong)'
  OBVIOUS
<1> USE DEF ControlTypes, NextChosen, ResetSong, Switching, control
<1>1. /\ archive \in Archives /\ emu \in EmuType
      /\ ControlTypes /\ NextChosen /\ ResetSong
  BY TypeParts DEF TypeInv
<1>2. archive' = archive
  BY DEF Next, Main, StartPlayer, StartFails, LoopEnds, Poll, Decide,
         Materialize, LoadKit, Attach, Reset, Install, Release, Adopt,
         Callback, Interrupt, Finished, vars
<1>3. MaxKeys \in Nat /\ \A s \in archive.songs :
                            Image(s) \in archive.songs \cup {WholeFile}
  BY <1>1, ArchiveTypes, NumberAssumption
<1>4. ASSUME NEW key \in Actions, Poll(key)
      PROVE (ControlTypes /\ NextChosen /\ ResetSong)'
  BY <1>1, <1>2, <1>3, <1>4 DEF Poll, Leave
<1>5. CASE Decide
  <2>1. action' \in Actions
    BY <1>1, <1>5 DEF Decide, Actions
  <2>2. \A a : Neighbours(a) \subseteq archive.songs \ {song}
    BY <1>1, ArchiveTypes DEF Neighbours
  <2> QED
    BY <1>1, <1>2, <1>5, <2>1, <2>2 DEF Decide, Leave
<1>6. CASE Materialize \/ LoadKit \/ Attach
  BY <1>1, <1>2, <1>3, <1>6 DEF Materialize, LoadKit, Attach, AfterAttach
<1>7. CASE Reset
  BY <1>1, <1>2, <1>7 DEF Reset, EmuType
<1>8. CASE Install \/ Release \/ Adopt
  BY <1>1, <1>2, <1>8 DEF Install, Release, Adopt, Current
<1>9. CASE StartPlayer \/ StartFails \/ LoopEnds
  BY <1>1, <1>2, <1>3, <1>9 DEF StartPlayer, StartFails, LoopEnds, Leave
<1>10. CASE Callback
  <2>1. emu'.song = emu.song
    BY <1>1, <1>10 DEF Callback, EmuType
  <2> QED
    BY <1>1, <1>2, <1>10, <2>1 DEF Callback
<1>11. CASE Interrupt \/ Finished \/ UNCHANGED vars
  BY <1>1, <1>2, <1>11 DEF Interrupt, Finished, vars
<1> QED
  BY <1>4, <1>5, <1>6, <1>7, <1>8, <1>9, <1>10, <1>11 DEF Next, Main

LEMMA NextTypes == TypeInv /\ [Next]_vars => TypeInv'
<1> SUFFICES ASSUME TypeInv, [Next]_vars PROVE TypeInv'
  OBVIOUS
<1>1. archive \in Archives /\ archive' = archive
  BY DEF TypeInv, TypeOK, Next, Main, StartPlayer, StartFails, LoopEnds, Poll,
         Decide, Materialize, LoadKit, Attach, Reset, Install, Release, Adopt,
         Callback, Interrupt, Finished, vars
<1>2. (archive \in Archives)' /\ (emu \in EmuType)' /\ ControlTypes'
      /\ FlagTypes' /\ CountTypes'
  BY <1>1, NextCounts, NextEmu, NextFlags, NextControl
<1>3. TypeOK'
  BY <1>2, TypeParts, PTL
<1> QED
  BY <1>3, NextControl DEF TypeInv

\* Every variable of the player keeps its type; in particular the frames
\* audio_callback has rendered never pass the time limit, so that its unsigned
\* subtraction of them does not wrap.
THEOREM TypeCorrect == Spec => []TypeOK
<1>1. TypeInv => TypeOK
  BY DEF TypeInv
<1> QED
  BY <1>1, InitTypes, NextTypes, PTL DEF Spec

-----------------------------------------------------------------------------
\* The fade-out.

FadeInv == TypeInv /\ TimeLimitFades

LEMMA SumReaches ==
    ASSUME NEW r \in Int, NEW t \in Int, NEW f \in Int, r >= t, f > 0
    PROVE  r + f >= t
  OBVIOUS

LEMMA NextFades == FadeInv /\ [Next]_vars => TimeLimitFades'
<1> SUFFICES ASSUME FadeInv, [Next]_vars PROVE TimeLimitFades'
  OBVIOUS
<1>1. CountTypes /\ Total \in Nat \ {0} /\ Fade \in Nat /\ TimeLimitFades
      /\ Block \in Nat
  BY TypeParts, NumberAssumption DEF FadeInv, TypeInv
<1>2. CASE Install
  BY <1>1, <1>2 DEF Install, NewTrack, TimeLimitFades, track
<1>3. CASE Callback
  <2>1. \/ UNCHANGED track
        \/ /\ rendered' = rendered + Frames
           /\ \E l : fading' = (fading \/ FadeDue(rendered', l))
    <3>1. CASE Frames <= 0
      BY <1>3, <3>1 DEF Callback
    <3>2. CASE ~(Frames <= 0)
      BY <1>3, <3>2, Zenon DEF Callback
    <3> QED
      BY <3>1, <3>2
  <2>2. CASE UNCHANGED track
    BY <1>1, <2>2 DEF TimeLimitFades, track
  <2>3. CASE /\ rendered' = rendered + Frames
             /\ \E l : fading' = (fading \/ FadeDue(rendered', l))
    <3> SUFFICES ASSUME rendered' >= Total, Fade > 0 PROVE fading'
      BY DEF TimeLimitFades
    <3>1. rendered' \in Int
      BY <1>1, <2>3 DEF CountTypes, Frames
    <3>2. rendered' + Fade >= Total
      <4>1. Total \in Int /\ Fade \in Int
        BY <1>1
      <4> QED
        BY <3>1, <4>1, SumReaches
    <3> QED
      BY <2>3, <3>2 DEF FadeDue
  <2> QED
    BY <2>1, <2>2, <2>3
<1>4. CASE UNCHANGED <<rendered, fading>>
  BY <1>1, <1>4 DEF TimeLimitFades
<1>5. Install \/ Callback \/ UNCHANGED <<rendered, fading>>
  BY DEF Next, Main, StartPlayer, StartFails, LoopEnds, Poll, Decide,
         Materialize, LoadKit, Attach, Reset, Release, Adopt, Interrupt,
         Finished, vars, track
<1> QED
  BY <1>2, <1>3, <1>4, <1>5

\* No track is cut at its time limit without having been told to fade out: the
\* callback decides the fade before the end, whatever the size of a block.
THEOREM AlwaysFades == Spec => []TimeLimitFades
<1>1. Init => FadeInv
  BY InitTypes, NumberAssumption DEF FadeInv, Init, TimeLimitFades
<1>2. FadeInv /\ [Next]_vars => FadeInv'
  BY NextTypes, NextFades DEF FadeInv
<1>3. FadeInv => TimeLimitFades
  BY DEF FadeInv
<1> QED
  BY <1>1, <1>2, <1>3, PTL DEF Spec

-----------------------------------------------------------------------------
\* The life of the emulation images, when every kit can be decoded.

Held == {"start", "kit", "attach", "reset", "install", "release", "exit"}

\* Which images are allocated and which one the emulator reads, at each stage
\* of a switch.
ImageInv ==
    /\ held <=> pc \in Held
    /\ pc \in {"poll", "decide", "materialize"} =>
            emu.image = Image(song) /\ live = {Image(song)}
    /\ pc \in {"kit", "attach", "reset", "install", "release", "adopt"} =>
            live = {Image(song), Image(next)}
    /\ pc \in {"kit", "attach"} => attached /\ emu.image = Image(song)
    /\ pc \in {"reset", "install"} => attached /\ emu.image = Image(next)
    /\ pc \in {"release", "adopt"} => emu.image = Image(Current)

GoodKits == \A a \in Archives : a.badKits = {}

LEMMA NextImages ==
    ASSUME GoodKits, TypeInv, ImageInv, [Next]_vars
    PROVE  ImageInv'
<1> USE DEF ImageInv, Held, control
<1>1. archive \in Archives /\ emu \in EmuType /\ FlagTypes /\ ControlTypes
      /\ NextChosen
  BY TypeParts DEF TypeInv
<1>2. archive' = archive
  BY DEF Next, Main, StartPlayer, StartFails, LoopEnds, Poll, Decide,
         Materialize, LoadKit, Attach, Reset, Install, Release, Adopt,
         Callback, Interrupt, Finished, vars
<1>3. /\ Compact' = Compact
      /\ (~Compact => \A s, t : Image(s) = Image(t))
      /\ (Compact => \A s : Image(s) = s)
  BY <1>2 DEF Compact, Image
<1>4. \A s \in archive.songs : KitLoads(s)
  BY <1>1 DEF GoodKits, KitLoads
<1>5. CASE StartPlayer
  BY <1>1, <1>5 DEF StartPlayer, Image, Compact
<1>6. CASE StartFails \/ LoopEnds
  BY <1>6 DEF StartFails, LoopEnds, Leave
<1>7. ASSUME NEW key \in Actions, Poll(key) PROVE ImageInv'
  BY <1>2, <1>7 DEF Poll, Leave, Image, Compact
<1>8. CASE Decide
  BY <1>2, <1>8 DEF Decide, Leave, Image, Compact
<1>9. CASE Materialize
  BY <1>2, <1>9 DEF Materialize, HoldCallback, Image, Compact
<1>10. CASE LoadKit
  <2>1. next \in archive.songs
    BY <1>1, <1>10 DEF LoadKit, NextChosen, Switching
  <2>2. attached' /\ emu'.image = emu.image
    BY <1>1, <1>4, <1>10, <2>1 DEF LoadKit, EmuType
  <2> QED
    BY <1>2, <1>10, <2>2 DEF LoadKit, Image, Compact
<1>11. CASE Attach
  BY <1>1, <1>2, <1>3, <1>11
     DEF Attach, AfterAttach, EmuType, Image, Compact, Current
<1>12. CASE Reset
  <2>1. emu'.image = emu.image
    BY <1>1, <1>12 DEF Reset, EmuType
  <2> QED
    BY <1>2, <1>12, <2>1 DEF Reset, Image, Compact
<1>13. CASE Install
  <2>1. emu'.image = emu.image
    BY <1>1, <1>13 DEF Install, EmuType
  <2>2. Installs(next) => attached'
    BY <1>13 DEF Install
  <2>3. ~Installs(next) => ~attached' /\ Image(next) = Image(song)
    BY <1>3, <1>13 DEF Install, Installs, Kcp, Compact
  <2> QED
    BY <1>2, <1>13, <2>1, <2>2, <2>3 DEF Install, Image, Compact, Current
<1>14. CASE Release
  BY <1>2, <1>14 DEF Release, Image, Compact, Current
<1>15. CASE Adopt
  <2>1. next # song
    BY <1>1, <1>15 DEF Adopt, NextChosen, Switching
  <2>2. live' = {Image(Current)}
    BY <1>3, <1>15, <2>1 DEF Adopt, Current, Discarded
  <2> QED
    BY <1>2, <1>15, <2>2 DEF Adopt, Image, Compact
<1>16. CASE Callback
  <2>1. emu'.image = emu.image
    BY <1>1, <1>16 DEF Callback, EmuType
  <2> QED
    BY <1>2, <1>16, <2>1 DEF Callback, Image, Compact, Current
<1>17. CASE Interrupt \/ Finished \/ UNCHANGED vars
  BY <1>2, <1>17 DEF Interrupt, Finished, vars, Image, Compact, Current
<1> QED
  BY <1>5, <1>6, <1>7, <1>8, <1>9, <1>10, <1>11, <1>12, <1>13, <1>14, <1>15,
     <1>16, <1>17 DEF Next, Main

\* If every MWK of every archive can be decoded, ImageInv holds for ever.
LEMMA ImagesInvariant == GoodKits => (Spec => [](TypeInv /\ ImageInv))
<1> SUFFICES ASSUME GoodKits PROVE Spec => [](TypeInv /\ ImageInv)
  OBVIOUS
<1>1. Init => TypeInv /\ ImageInv
  BY InitTypes DEF Init, ImageInv, Held
<1>2. TypeInv /\ ImageInv /\ [Next]_vars => (TypeInv /\ ImageInv)'
  BY NextTypes, NextImages
<1> QED
  BY <1>1, <1>2, PTL DEF Spec

\* The callback never renders from an image that the main thread has deleted
\* (KSSPLAY_set_data keeps a pointer to it), whichever other steps of a switch
\* are refused.  Run player_bad_kit shows that the hypothesis is needed.
THEOREM ImageNeverDangles == GoodKits => (Spec => []RenderedImageIsLive)
<1>1. TypeInv /\ ImageInv => RenderedImageIsLive
  BY TypeParts DEF TypeInv, ControlTypes, ImageInv, Held, RenderedImageIsLive,
                   Current, Image
<1> QED
  BY <1>1, ImagesInvariant, PTL

\* No image is leaked by a switch, whether it succeeds or is refused.
THEOREM NoImageLeaked == GoodKits => (Spec => []OneImage)
<1>1. ImageInv => OneImage
  BY DEF ImageInv, OneImage
<1> QED
  BY <1>1, ImagesInvariant, PTL

-----------------------------------------------------------------------------
\* A refused switch leaves the old track.

\* Which song's length and driver the player keeps at each stage of a switch.
TrackInv ==
    /\ pc \in {"poll", "decide", "materialize", "kit", "attach", "reset",
               "install"} => autoEnd = AutoEnd(song)
    /\ pc \in {"release", "adopt"} => autoEnd = AutoEnd(Current)
    /\ ~Kcp =>
        /\ pc \in {"poll", "decide", "materialize", "kit", "attach"} =>
                emu.song = song
        /\ pc \in {"release", "adopt"} => emu.song = Current

LEMMA NextTrack ==
    ASSUME GoodKits, TypeInv, ImageInv, TrackInv, [Next]_vars
    PROVE  TrackInv'
<1> USE DEF TrackInv, control
<1>1. archive \in Archives /\ emu \in EmuType /\ ImageInv /\ NextChosen /\ ResetSong
  BY TypeParts DEF TypeInv
<1>2. archive' = archive
  BY DEF Next, Main, StartPlayer, StartFails, LoopEnds, Poll, Decide,
         Materialize, LoadKit, Attach, Reset, Install, Release, Adopt,
         Callback, Interrupt, Finished, vars
<1>3. Kcp' = Kcp /\ \A s : AutoEnd(s)' = AutoEnd(s)
  BY <1>2 DEF Kcp, AutoEnd
<1>4. AutoEnd(song)' = AutoEnd(song') /\ AutoEnd(Current)' = AutoEnd(Current')
  BY <1>2 DEF AutoEnd
<1>5. CASE StartPlayer
  BY <1>3, <1>4, <1>5 DEF StartPlayer
<1>6. CASE StartFails \/ LoopEnds \/ (\E key \in Actions : Poll(key)) \/ Decide
           \/ Materialize
  BY <1>3, <1>4, <1>6
     DEF StartFails, LoopEnds, Poll, Decide, Leave, Materialize, track
<1>7. CASE LoadKit
  <2>1. emu'.song = emu.song
    BY <1>1, <1>7 DEF LoadKit, EmuType
  <2> QED
    BY <1>3, <1>4, <1>7, <2>1 DEF LoadKit, track
<1>8. CASE Attach
  <2>1. emu'.song = emu.song /\ (~attached' => Current' = song)
    BY <1>1, <1>8 DEF Attach, EmuType, Current
  <2>2. pc' = "release" => ~attached'
    BY <1>8 DEF Attach, AfterAttach
  <2>3. pc' \in {"reset", "release"}
    BY <1>8 DEF Attach, AfterAttach
  <2> QED
    BY <1>3, <1>4, <1>8, <2>1, <2>2, <2>3 DEF Attach, track
<1>9. CASE Reset
  BY <1>3, <1>4, <1>9 DEF Reset, track
<1>10. CASE Install
  <2>1. emu'.song = next
    BY <1>1, <1>10 DEF Install, EmuType, ResetSong
  <2>2. CASE Installs(next)
    <3>1. autoEnd' = AutoEnd(next) /\ attached' = attached
      BY <1>10, <2>2 DEF Install, NewTrack
    <3>2. attached' /\ Current' = next
      BY <1>1, <1>10, <3>1 DEF Install, ImageInv, Current
    <3> QED
      BY <1>3, <1>4, <1>10, <2>1, <3>1, <3>2 DEF Install
  <2>3. CASE ~Installs(next)
    <3>1. Kcp /\ ~attached' /\ autoEnd' = autoEnd /\ Current' = song
      BY <1>10, <2>3 DEF Install, Installs, Current, track
    <3> QED
      BY <1>3, <1>4, <1>10, <3>1 DEF Install
  <2> QED
    BY <2>2, <2>3
<1>11. CASE Release
  BY <1>3, <1>4, <1>11 DEF Release, Current, track
<1>12. CASE Adopt
  BY <1>3, <1>4, <1>12 DEF Adopt, Current, track
<1>13. CASE Callback
  <2>1. emu'.song = emu.song
    BY <1>1, <1>13 DEF Callback, EmuType
  <2>2. autoEnd' = autoEnd
    BY <1>13 DEF Callback, track
  <2> QED
    BY <1>3, <1>4, <1>13, <2>1, <2>2 DEF Callback, Current
<1>14. CASE Interrupt \/ Finished \/ UNCHANGED vars
  BY <1>3, <1>4, <1>14 DEF Interrupt, Finished, vars, Current, track
<1> QED
  BY <1>5, <1>6, <1>7, <1>8, <1>9, <1>10, <1>11, <1>12, <1>13, <1>14
     DEF Next, Main

\* Whichever step of a switch is refused (the image, KSSPLAY_set_data, the KCP
\* page), the player goes on with the old track: its length, and but for a KCP
\* archive its driver and image.
THEOREM RefusalKeepsTrack == GoodKits => (Spec => []RefusedLeavesTrack)
<1> SUFFICES ASSUME GoodKits PROVE Spec => []RefusedLeavesTrack
  OBVIOUS
<1>1. Init => TrackInv
  BY DEF Init, TrackInv
<1>2. TypeInv /\ ImageInv /\ TrackInv /\ [Next]_vars => TrackInv'
  BY NextTrack
<1>3. ImageInv /\ TrackInv => RefusedLeavesTrack
  BY DEF ImageInv, TrackInv, RefusedLeavesTrack
<1>4. Spec => [](TypeInv /\ ImageInv)
  BY ImagesInvariant
<1> QED
  BY <1>1, <1>2, <1>3, <1>4, PTL DEF Spec

-----------------------------------------------------------------------------
\* One song is rendered, of an archive no switch of which is refused after it
\* has begun to change the emulator.

KitOf(s) == Compact /\ archive.kit[s] # NoKit => emu.kit = archive.kit[s]

PageKept == Kcp /\ ~emu.turned => emu.page = archive.page[emu.song]

Over == TrackOver(rendered, emu.stopped) \/ failed

\* Which song's kit, driver and page the emulator holds at each stage of a switch,
\* and that a raised done is the loaded track's.
SongInv ==
    /\ pc \in {"poll", "decide", "materialize"} =>
            emu.song = song /\ KitOf(song)
    /\ pc \in {"attach", "reset", "install", "release", "adopt"} => KitOf(next)
    /\ pc \in {"kit", "attach", "reset", "install", "release", "adopt"} =>
            attached
    /\ pc \in {"install", "release", "adopt"} => emu.song = next
    /\ pc \in {"poll", "decide", "materialize", "adopt"} => (done => Over)
    /\ pc \in {"start", "release"} => ~done
    /\ pc \notin {"start", "install", "exit"} => PageKept

LEMMA NextSong ==
    ASSUME Unrefused, TypeInv, ImageInv, SongInv, [Next]_vars
    PROVE  SongInv'
<1> USE DEF SongInv, control
<1>1. archive \in Archives /\ emu \in EmuType /\ FlagTypes /\ ControlTypes
      /\ NextChosen
  BY TypeParts DEF TypeInv
<1>2. archive' = archive
  BY DEF Next, Main, StartPlayer, StartFails, LoopEnds, Poll, Decide,
         Materialize, LoadKit, Attach, Reset, Install, Release, Adopt,
         Callback, Interrupt, Finished, vars
<1>3. Compact' = Compact /\ Kcp' = Kcp
  BY <1>2 DEF Compact, Kcp
<1>4. \A s \in archive.songs :
        KitLoads(s) /\ Installs(s) /\ s \notin archive.unattachable
  BY <1>1 DEF Unrefused, KitLoads, Installs, Kcp
<1>5. CASE StartPlayer
  <2>1. emu'.song = song /\ emu'.kit = KitAfter(song)
    BY <1>5 DEF StartPlayer
  <2>2. KitOf(song)'
    BY <1>2, <1>3, <1>5, <2>1 DEF KitOf, KitAfter, StartPlayer
  <2>3. PageKept'
    BY <1>2, <1>3, <1>5 DEF PageKept, StartPlayer
  <2> QED
    BY <1>5, <2>1, <2>2, <2>3 DEF StartPlayer
<1>6. CASE StartFails \/ LoopEnds
  BY <1>6 DEF StartFails, LoopEnds, Leave
<1>7. ASSUME NEW key \in Actions, Poll(key) PROVE SongInv'
  BY <1>2, <1>3, <1>7 DEF Poll, Leave, KitOf, PageKept, Over, TrackOver, track
<1>8. CASE Decide
  BY <1>2, <1>3, <1>8 DEF Decide, Leave, KitOf, PageKept, Over, TrackOver, track
<1>9. CASE Materialize
  BY <1>2, <1>3, <1>9 DEF Materialize, HoldCallback, KitOf, PageKept, Over,
                          TrackOver, track
<1>10. CASE LoadKit
  <2>1. KitLoads(next)
    BY <1>1, <1>4, <1>10 DEF LoadKit, NextChosen, Switching
  <2>2. attached' /\ emu'.kit = KitAfter(next)
    BY <1>1, <1>10, <2>1 DEF LoadKit, EmuType
  <2>3. KitOf(next)'
    BY <1>2, <1>3, <1>10, <2>2 DEF KitOf, KitAfter, LoadKit
  <2>4. emu'.page = emu.page /\ emu'.song = emu.song /\ emu'.turned = emu.turned
    BY <1>1, <1>10 DEF LoadKit, EmuType
  <2>5. PageKept'
    BY <1>2, <1>3, <1>10, <2>4 DEF LoadKit, PageKept
  <2> QED
    BY <1>10, <2>2, <2>3, <2>5 DEF LoadKit
<1>11. CASE Attach
  <2>1. next \notin archive.unattachable
    BY <1>1, <1>4, <1>11 DEF Attach, NextChosen, Switching
  <2>2. attached' = attached /\ emu'.kit = emu.kit
    BY <1>1, <1>11, <2>1 DEF Attach, EmuType
  <2>3. emu'.page = emu.page /\ emu'.song = emu.song /\ emu'.turned = emu.turned
    BY <1>1, <1>11, <2>1 DEF Attach, EmuType
  <2>4. PageKept'
    BY <1>2, <1>3, <1>11, <2>3 DEF Attach, PageKept
  <2> QED
    BY <1>2, <1>3, <1>11, <2>2, <2>4 DEF Attach, AfterAttach, KitOf
<1>12. CASE Reset
  <2>1. emu'.kit = emu.kit /\ emu'.song = next
    BY <1>1, <1>12 DEF Reset, EmuType
  <2> QED
    BY <1>2, <1>3, <1>12, <2>1 DEF Reset, KitOf
<1>13. CASE Install
  <2>1. Installs(next)
    BY <1>1, <1>4, <1>13 DEF Install, NextChosen, Switching
  <2>2. emu'.kit = emu.kit /\ emu'.song = emu.song
    BY <1>1, <1>13 DEF Install, EmuType
  <2>3. attached' = attached /\ done' = FALSE
    BY <1>13, <2>1 DEF Install, NewTrack
  <2>4. Kcp => emu'.page = archive.page[next]
    BY <1>1, <1>13, <2>1 DEF Install, InstalledPage, EmuType
  <2>5. PageKept'
    BY <1>2, <1>3, <1>13, <2>2, <2>4 DEF Install, PageKept
  <2> QED
    BY <1>2, <1>3, <1>13, <2>2, <2>3, <2>5 DEF Install, KitOf
<1>14. CASE Release
  BY <1>2, <1>3, <1>14 DEF Release, KitOf, PageKept, track
<1>15. CASE Adopt
  BY <1>2, <1>3, <1>15 DEF Adopt, Current, KitOf, PageKept, Over,
                                   TrackOver, track
<1>16. CASE Callback
  <2>1. emu'.kit = emu.kit /\ emu'.song = emu.song
    BY <1>1, <1>16 DEF Callback, EmuType
  <2>2. pc \notin {"start", "release"}
    BY <1>16 DEF Callback, ImageInv, Held
  <2>3. done' => Over'
    <3>1. CASE Frames <= 0
      <4>1. rendered >= Total
        <5>1. rendered \in Int /\ Total \in Int /\ Block \in Int /\ Block > 0
          BY TypeParts, NumberAssumption DEF TypeInv, CountTypes
        <5> QED
          BY <3>1, <5>1 DEF Frames
      <4> QED
        BY <1>16, <3>1, <4>1 DEF Callback, Over, TrackOver, track
    <3>2. CASE ~(Frames <= 0)
      <4>1. PICK w \in PageWrites, stopped \in BOOLEAN, looped \in BOOLEAN :
              /\ emu' = [emu EXCEPT !.page = w[1], !.stopped = stopped,
                                    !.looped = looped, !.turned = Turned(w)]
              /\ \/ failed'
                 \/ done' = TrackOver(rendered', stopped) /\ UNCHANGED autoEnd
        BY <1>16, <3>2 DEF Callback
      <4>2. emu'.stopped = stopped
        BY <1>1, <4>1 DEF EmuType
      <4> QED
        BY <4>1, <4>2 DEF Over, TrackOver
    <3> QED
      BY <3>1, <3>2
  <2>4. PageKept'
    <3>1. \/ emu'.page = emu.page /\ emu'.turned = emu.turned
          \/ emu'.turned
      <4>1. CASE emu' = emu
        BY <4>1
      <4>2. CASE \E w \in PageWrites, stopped \in BOOLEAN, looped \in BOOLEAN :
                   emu' = [emu EXCEPT !.page = w[1], !.stopped = stopped,
                                      !.looped = looped, !.turned = Turned(w)]
        BY <1>1, <4>2 DEF EmuType, Turned
      <4> QED
        BY <1>16, <4>1, <4>2 DEF Callback
    <3>2. PageKept /\ pc' = pc
      BY <1>16, <2>2 DEF Callback, ImageInv, Held
    <3> QED
      BY <1>2, <1>3, <2>1, <3>1, <3>2 DEF PageKept
  <2> QED
    BY <1>2, <1>3, <1>16, <2>1, <2>2, <2>3, <2>4 DEF Callback, KitOf
<1>17. CASE Interrupt \/ Finished \/ UNCHANGED vars
  BY <1>2, <1>3, <1>17
     DEF Interrupt, Finished, vars, KitOf, PageKept, Over, TrackOver, track
<1> QED
  BY <1>5, <1>6, <1>7, <1>8, <1>9, <1>10, <1>11, <1>12, <1>13, <1>14, <1>15,
     <1>16, <1>17 DEF Next, Main

PlayerInv == TypeInv /\ ImageInv /\ (Unrefused => SongInv)

\* What an archive can be trusted with does not change while it is played.
LEMMA ArchiveStays == [Next]_vars => archive' = archive /\ Unrefused' = Unrefused
<1> SUFFICES ASSUME [Next]_vars PROVE archive' = archive /\ Unrefused' = Unrefused
  OBVIOUS
<1>1. archive' = archive
  BY DEF Next, Main, StartPlayer, StartFails, LoopEnds, Poll, Decide,
         Materialize, LoadKit, Attach, Reset, Install, Release, Adopt,
         Callback, Interrupt, Finished, vars
<1> QED
  BY <1>1 DEF Unrefused, Kcp

LEMMA PlayerInvariant == GoodKits => (Spec => []PlayerInv)
<1> SUFFICES ASSUME GoodKits PROVE Spec => []PlayerInv
  OBVIOUS
<1>1. Init => PlayerInv
  BY InitTypes DEF Init, ImageInv, Held, SongInv, PlayerInv
<1>2. PlayerInv /\ [Next]_vars => PlayerInv'
  BY NextTypes, NextImages, NextSong, ArchiveStays DEF PlayerInv
<1> QED
  BY <1>1, <1>2, PTL DEF Spec

\* Whenever the callback may run, image, driver, KCP page and MWK kit belong
\* to one song (play_audio holds the callback off while it replaces them): the
\* page in memory is the song's own until its driver turns it.
THEOREM AlwaysOneSong == GoodKits => (Spec => []OneSongRendered)
<1> SUFFICES ASSUME GoodKits PROVE Spec => []OneSongRendered
  OBVIOUS
<1>1. PlayerInv => OneSongRendered
  <2> SUFFICES ASSUME PlayerInv, Unrefused, ~held
               PROVE  /\ emu.image = Image(emu.song)
                      /\ KitOf(emu.song)
                      /\ PageKept
    BY DEF OneSongRendered, KitOf, PageKept
  <2>1. archive \in Archives /\ ControlTypes /\ NextChosen /\ ImageInv /\ SongInv
    BY TypeParts DEF PlayerInv, TypeInv
  <2>2. emu.image = Image(emu.song) /\ KitOf(emu.song)
    BY <2>1 DEF ControlTypes, ImageInv, SongInv, Held, Current
  <2>3. PageKept
    BY <2>1 DEF ImageInv, SongInv, Held
  <2> QED
    BY <2>2, <2>3
<1> QED
  BY <1>1, PlayerInvariant, PTL

\* The song named on the terminal is the one the emulator plays.
THEOREM AnnouncedIsHeard == GoodKits => (Spec => []AnnouncedIsRendered)
<1>1. PlayerInv => AnnouncedIsRendered
  BY DEF PlayerInv, SongInv, AnnouncedIsRendered
<1> QED
  BY <1>1, PlayerInvariant, PTL

\* A raised done belongs to the loaded track, so that the automatic advance
\* never skips a song.
THEOREM DoneIsNeverStale == GoodKits => (Spec => []DoneIsThisTrack)
<1>1. PlayerInv => DoneIsThisTrack
  BY TypeParts DEF PlayerInv, TypeInv, ControlTypes, ImageInv, Held, SongInv,
                   Over, DoneIsThisTrack
<1> QED
  BY <1>1, PlayerInvariant, PTL

-----------------------------------------------------------------------------
\* The player steps like a Playlist.

\* Until its reset a switch leaves the old driver in the emulator, and it is
\* always to a neighbour.
HeardInv ==
    /\ pc = "start" => emu.song = NoSong
    /\ pc \in {"kit", "attach", "reset"} => emu.song = song
    /\ pc \in {"materialize", "kit", "attach", "reset", "install"} =>
            Listener!Follows(song, next)

\* The listener's song, as Playlist is told.
HeardSong == IF pc \in {"start", "install"} \/ emu.song = NoSong THEN song ELSE emu.song

\* adjacent_song of a song that has one gives the nearest on that side.
LEMMA NearestFollows ==
    ASSUME archive.songs \subseteq Int, song \in archive.songs,
           NEW direction, NEW s \in Neighbours(direction), IsNearest(s, direction)
    PROVE  Listener!Follows(song, s)
  BY DEF Neighbours, IsNearest, Listener!Follows

LEMMA NextHeard ==
    ASSUME Unrefused, PlayerInv, HeardInv, [Next]_vars
    PROVE  HeardInv'
<1> USE DEF HeardInv, control
<1>1. archive \in Archives /\ emu \in EmuType /\ ControlTypes /\ NextChosen /\ SongInv
  BY TypeParts DEF PlayerInv, TypeInv
<1>2. archive' = archive
  BY ArchiveStays
<1>3. ASSUME UNCHANGED <<song, next>>
      PROVE  Listener!Follows(song, next)' = Listener!Follows(song, next)
  BY <1>2, <1>3 DEF Listener!Follows
<1>4. CASE Decide
  <2>1. CASE pc' # "materialize"
    BY <1>4, <2>1 DEF Decide, Leave
  <2>2. CASE pc' = "materialize"
    <3>1. PICK direction \in {"previous", "next"} :
            next' \in Neighbours(direction) /\ IsNearest(next', direction)
      BY <1>4, <2>2 DEF Decide, Leave
    <3>2. PICK n : n = next'
      OBVIOUS
    <3>3. n \in Neighbours(direction) /\ IsNearest(n, direction)
      BY <3>1, <3>2
    <3>4. archive.songs \subseteq Int /\ song \in archive.songs
      BY <1>1, ArchiveTypes DEF ControlTypes
    <3>5. Listener!Follows(song, n)
      BY <3>3, <3>4, NearestFollows
    <3>6. song' = song
      BY <1>4 DEF Decide
    <3> QED
      BY <1>2, <2>2, <3>2, <3>5, <3>6 DEF Listener!Follows
  <2> QED
    BY <2>1, <2>2
<1>5. CASE Materialize
  <2>1. emu' = emu /\ UNCHANGED <<song, next>>
    BY <1>5 DEF Materialize
  <2> QED
    BY <1>1, <1>3, <1>5, <2>1 DEF Materialize, SongInv
<1>6. CASE LoadKit \/ Attach
  <2>1. emu'.song = emu.song /\ UNCHANGED <<song, next>>
    BY <1>1, <1>6 DEF LoadKit, Attach, EmuType
  <2> QED
    BY <1>3, <1>6, <2>1 DEF LoadKit, Attach, AfterAttach
<1>7. CASE Reset
  BY <1>3, <1>7 DEF Reset
<1>8. CASE Callback
  <2>1. emu'.song = emu.song
    BY <1>1, <1>8 DEF Callback, EmuType
  <2> QED
    BY <1>3, <1>8, <2>1 DEF Callback
<1>9. CASE Interrupt \/ Finished \/ UNCHANGED vars
  BY <1>3, <1>9 DEF Interrupt, Finished, vars
<1>10. CASE StartPlayer \/ StartFails \/ LoopEnds \/ (\E key \in Actions : Poll(key))
            \/ Install \/ Release \/ Adopt
  BY <1>10 DEF StartPlayer, StartFails, LoopEnds, Leave, Poll, Install, Release, Adopt
<1> QED
  BY <1>4, <1>5, <1>6, <1>7, <1>8, <1>9, <1>10 DEF Next, Main

\* Every step of the player is a move, the end of a track, the end of the
\* program, or nothing a listener notices.
LEMMA NextListens ==
    ASSUME Unrefused, PlayerInv, HeardInv, [Next]_vars
    PROVE  [Listener!Next]_(Listener!vars)
<1> USE DEF control
<1>1. /\ archive \in Archives /\ emu \in EmuType /\ ControlTypes /\ FlagTypes
      /\ NextChosen /\ SongInv /\ ImageInv
  BY TypeParts DEF PlayerInv, TypeInv
<1>2. archive' = archive /\ Unrefused' = Unrefused /\ Sound' = Sound
  BY ArchiveStays DEF Sound
<1>3. archive.songs \subseteq Nat
  BY <1>1, ArchiveTypes
    \* A step that leaves the song and the end of the track alone.
<1>4. ASSUME HeardSong' = HeardSong, done' = done, pc # "exit", pc' # "exit"
      PROVE  UNCHANGED Listener!vars
  BY <1>2, <1>4 DEF HeardSong, Listener!vars
<1>5. ASSUME HeardSong' = HeardSong, pc # "exit", pc' = "exit"
      PROVE  Listener!Close
  BY <1>2, <1>5 DEF HeardSong, Listener!Close
<1>6. CASE StartPlayer
  <2>1. emu'.song = song
    BY <1>6 DEF StartPlayer
  <2>2. HeardSong' = HeardSong
    BY <1>6, <2>1 DEF StartPlayer, HeardSong
  <2> QED
    BY <1>4, <1>6, <2>2 DEF StartPlayer
<1>7. CASE StartFails \/ LoopEnds \/ (\E key \in Actions : Poll(key)) \/ Decide
  <2>1. /\ pc # "exit" /\ UNCHANGED <<song, emu>>
        /\ pc' # "exit" => done' = done /\ pc # "start"
        /\ pc' \in {"exit", "poll", "decide", "materialize"}
        /\ pc \in {"start", "poll", "decide"}
    BY <1>7 DEF StartFails, LoopEnds, Poll, Decide, Leave
  <2>2. CASE pc = "start"
    <3>1. StartFails
      BY <1>7, <2>2 DEF StartFails, LoopEnds, Poll, Decide
    <3>2. pc' = "exit"
      BY <3>1 DEF StartFails
    <3>3. emu.song = NoSong
      BY <2>2 DEF PlayerInv, HeardInv
    <3>4. HeardSong' = HeardSong
      BY <2>1, <2>2, <3>3 DEF HeardSong
    <3> QED
      BY <1>5, <2>1, <3>2, <3>4 DEF Listener!Next
  <2>3. CASE pc # "start"
    <3>1. HeardSong' = HeardSong
      BY <2>1, <2>3 DEF HeardSong
    <3> QED
      BY <1>4, <1>5, <2>1, <3>1 DEF Listener!Next
  <2> QED
    BY <2>2, <2>3
<1>8. CASE Materialize \/ LoadKit \/ Attach
  <2>1. /\ emu'.song = emu.song /\ UNCHANGED <<song, done>>
        /\ pc \in {"materialize", "kit", "attach"}
        /\ pc' \in {"poll", "kit", "attach", "reset", "release"}
    BY <1>1, <1>8 DEF Materialize, LoadKit, Attach, AfterAttach, EmuType
  <2>2. HeardSong' = HeardSong
    BY <2>1 DEF HeardSong
  <2> QED
    BY <1>4, <2>1, <2>2
<1>9. CASE Reset
  <2>1. emu.song = song /\ pc = "reset" /\ pc' = "install" /\ UNCHANGED <<song, done>>
    BY <1>9 DEF Reset, HeardInv
  <2>2. HeardSong' = HeardSong
    BY <2>1 DEF HeardSong
  <2> QED
    BY <1>4, <2>1, <2>2
<1>10. CASE Install
  <2>1. pc = "install" /\ pc' = "release" /\ UNCHANGED <<song, next>>
    BY <1>10 DEF Install
  <2>2. next \in archive.songs /\ emu.song = next /\ Installs(next)
    BY <1>1, <2>1 DEF NextChosen, Switching, SongInv, Unrefused, Installs, Kcp
  <2>3. emu'.song = next /\ done' = FALSE
    BY <1>1, <1>10, <2>2 DEF Install, NewTrack, EmuType
  <2>4. next # NoSong
    BY <1>3, <2>2 DEF NoSong
  <2>5. HeardSong = song /\ HeardSong' = next
    BY <2>1, <2>3, <2>4 DEF HeardSong
  <2>6. Listener!Follows(song, next)
    BY <2>1 DEF HeardInv
  <2>7. Listener!Follows(HeardSong, next)
    BY <2>5, <2>6
  <2>8. Listener!Move
    BY <1>2, <2>1, <2>2, <2>3, <2>5, <2>6 DEF Listener!Move, HeardSong
  <2> QED
    BY <2>8 DEF Listener!Next
<1>11. CASE Release
  <2>1. HeardSong' = HeardSong
    BY <1>11 DEF Release, HeardSong
  <2> QED
    BY <1>4, <1>11, <2>1 DEF Release
<1>12. CASE Adopt
  <2>1. pc = "adopt" /\ pc' = "poll" /\ UNCHANGED <<emu, done>>
    BY <1>12 DEF Adopt
  <2>2. emu.song = next /\ next \in archive.songs
    BY <1>1, <2>1 DEF SongInv, NextChosen, Switching, ControlTypes
  <2>3. emu.song # NoSong
    BY <1>3, <2>2 DEF NoSong
  <2>4. HeardSong' = HeardSong
    BY <2>1, <2>3 DEF HeardSong
  <2> QED
    BY <1>4, <2>1, <2>4
<1>13. CASE Callback
  <2>1. emu'.song = emu.song /\ UNCHANGED <<song, pc>> /\ ~done /\ ~held
    BY <1>1, <1>13 DEF Callback, EmuType
  <2>2. pc # "exit" /\ HeardSong' = HeardSong
    BY <1>1, <2>1 DEF ImageInv, Held, HeardSong
  <2>3. done' \in BOOLEAN
    BY NextFlags DEF PlayerInv, FlagTypes
  <2>4. CASE done'
    <3>1. Listener!TrackEnds
      BY <1>2, <2>1, <2>2, <2>3, <2>4 DEF Listener!TrackEnds, HeardSong
    <3> QED
      BY <3>1 DEF Listener!Next
  <2>5. CASE ~done'
    <3>1. done' = done
      BY <1>1, <2>1, <2>3, <2>5 DEF FlagTypes
    <3> QED
      BY <1>4, <2>1, <2>2, <3>1
  <2> QED
    BY <2>4, <2>5
<1>14. CASE Interrupt \/ Finished \/ UNCHANGED vars
  <2>1. UNCHANGED <<archive, song, pc, emu, done>>
    BY <1>14 DEF Interrupt, Finished, vars
  <2> QED
    BY <1>2, <2>1 DEF Listener!vars
<1> QED
  BY <1>6, <1>7, <1>8, <1>9, <1>10, <1>11, <1>12, <1>13, <1>14 DEF Next, Main

\* kspplayer's loop and its callback are a Playlist, step by step: a listener
\* hears one song of the archive at a time, every move is to the nearest song
\* on one side, and a new track is an unfinished one.
THEOREM PlayerIsPlaylist ==
    GoodKits =>
        (Spec => /\ Unrefused => Listener!Init
                 /\ [][Unrefused => Listener!Next]_(Listener!vars))
<1> SUFFICES ASSUME GoodKits
             PROVE  Spec => /\ Unrefused => Listener!Init
                            /\ [][Unrefused => Listener!Next]_(Listener!vars)
  OBVIOUS
<1>1. Init => HeardInv /\ Listener!Init
  BY DEF Init, HeardInv, Listener!Init
<1>2. PlayerInv /\ (Unrefused => HeardInv) /\ [Next]_vars =>
        (Unrefused => HeardInv)' /\ [Unrefused => Listener!Next]_(Listener!vars)
  BY NextHeard, NextListens, ArchiveStays
<1>3. Spec => []PlayerInv
  BY PlayerInvariant
<1> QED
  BY <1>1, <1>2, <1>3, PTL DEF Spec
=============================================================================
