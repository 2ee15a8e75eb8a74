---------------------------- MODULE MCSparseStage ----------------------------
(***************************************************************************)
(* Archives for SparseStage: four songs whose streams start and end on     *)
(* either side of 16 KiB and 64 KiB boundaries.                            *)
(***************************************************************************)
EXTENDS SparseStage

K16 == SegBytes

Stream(offset, size) == [offset |-> offset, size |-> size]

ArchiveOf(streams) ==
    [mapped |-> [s \in Tracks |-> streams[s + 1].size > 0],
     offset |-> [s \in Tracks |-> streams[s + 1].offset],
     size |-> [s \in Tracks |->
                 IF streams[s + 1].size > 0 THEN streams[s + 1].size ELSE 1]]

\* A track number without a page.
Gap == Stream(0, 0)

MCArchives ==
    { \* segment 0 only; 0 and 1; 1 and 2; 3 and 4, over a 64 KiB boundary
      ArchiveOf(<<Stream(600, 100), Stream(16000, 1000),
                  Stream(2 * K16 - 10, 20), Stream(4 * K16 - 1, 2)>>),
      \* streams that share a segment; one ends exactly on a 16 KiB boundary
      ArchiveOf(<<Stream(K16, K16), Stream(2 * K16, K16),
                  Stream(3 * K16 - 5, 100), Stream(6 * K16 - 5, 100)>>),
      \* the last segments of the largest file; a gap; a stream over three
      ArchiveOf(<<Stream(31 * K16, 100), Stream(30 * K16 - 1, 2), Gap,
                  Stream(5 * K16 - 1, K16 + 2)>>) }

\* A stream that ends on a 64 KiB boundary.
MCBoundary ==
    {ArchiveOf(<<Stream(600, 100), Stream(4 * K16 - 100, 100),
                 Stream(K16, 100), Stream(5 * K16, 100)>>)}
=============================================================================
