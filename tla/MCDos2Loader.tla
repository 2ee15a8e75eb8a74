----------------------------- MODULE MCDos2Loader -----------------------------
(***************************************************************************)
(* File sizes for Dos2Loader: on either side of the 16 KiB and 512 KiB     *)
(* boundaries, up to 4 MiB, and mappers from two free segments up.         *)
(***************************************************************************)
EXTENDS Dos2Loader

MCSizes == {MinSize, SegBytes, SegBytes + 1, 3 * SegBytes - 1, 4 * SegBytes,
            4 * SegBytes + 1,
            31 * SegBytes, 32 * SegBytes, 32 * SegBytes + 1, SizeLimit}

MCFree == {2, 3, 4, 5, 6, 8, 34}
=============================================================================
