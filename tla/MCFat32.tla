------------------------------ MODULE MCFat32 -------------------------------
(* A volume with two copies of the table, a root directory of two clusters, *)
(* a file that ends inside its second cluster, an empty file, a directory   *)
(* with a file of two whole clusters, and entries that are not shown; and   *)
(* a volume of another kind.                                                *)
EXTENDS Fat32

Entry(base, ext, mark, attr, c, size) ==
  [base |-> base, ext |-> ext, mark |-> mark, attributes |-> attr, cluster |-> c,
   file_size |-> size]
Free == Entry(" ", " ", "end", {}, 0, 0)

MCLower == [x \in {"A", "a", "D", "B", "X", ".", "..", " "} |->
              CASE x \in {"A", "a"} -> "a" [] x = "D" -> "d" [] x = "B" -> "b"
                [] x = "X" -> "x" [] OTHER -> x]

\* Clusters 2 to 8; root 2, 5; A.X 3, 7; D 4; D/A 6, 8.
TheTable == <<98, 99, 5, 7, 99, 99, 8, 99, 99>>
FatSector(i) == SubSeq(TheTable, 3 * i - 2, 3 * i)
DirSectors ==
  [lba \in {7, 8, 11, 12, 13, 14} |->
    CASE lba = 7 -> <<Entry("A", "X", "deleted", {}, 6, 2), Entry("D", " ", "used", {"VOLUME_ID"}, 0, 0)>>
      [] lba = 8 -> <<Entry("B", " ", "used", {}, 0, 0), Entry("A", "X", "used", {"HIDDEN"}, 6, 2)>>
      [] lba = 11 -> <<Entry(".", " ", "used", {"DIRECTORY"}, 4, 0),
                       Entry("..", " ", "used", {"DIRECTORY"}, 0, 0)>>
      [] lba = 12 -> <<Entry("A", " ", "used", {}, 6, 8), Free>>
      [] lba = 13 -> <<Entry("A", "X", "used", {}, 3, 6), Entry("A", "X", "deleted", {}, 3, 1)>>
      [] lba = 14 -> <<Entry("D", " ", "used", {"DIRECTORY"}, 4, 0), Free>>]

\* The boot sector, two copies of the table, and two sectors to a cluster.
Volume(kind) ==
  [boot |-> [fs_type |-> kind, reserved_sector_count |-> 1, num_fats |-> 2, fat_size_32 |-> 3,
             sectors_per_cluster |-> 2, root_cluster |-> 2],
   sector |-> [lba \in 1 .. 20 |->
     IF lba <= 6 THEN FatSector(IF lba <= 3 THEN lba ELSE lba - 3)
     ELSE IF lba \in DOMAIN DirSectors THEN DirSectors[lba]
     ELSE <<<<lba, 1>>, <<lba, 2>>>>]]

MCVolumes == {Volume("FAT32"), Volume("NTFS")}
MCNames == {<<"a", "X">>, <<"A">>, <<"D">>, <<"B">>, <<".">>, <<"..">>}
=============================================================================
