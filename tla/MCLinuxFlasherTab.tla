-------------------------- MODULE MCLinuxFlasherTab --------------------------
(* Two drives and two images: one compressed and downloaded, one a path.   *)
(* The directory is empty, has the beginning of the download, all of it,   *)
(* or part of an older version; the path names an image, or nothing.       *)
EXTENDS LinuxFlasherTab

Catalog(f, a, c) == [format |-> [i \in Images |-> IF i \in Local THEN "img" ELSE f],
                     files  |-> [i \in Images |-> IF i \in Local THEN c ELSE a]]
MCCatalogs ==
  {Catalog("gz", <<1>>, Whole), Catalog("xz", Whole, <<>>),
   Catalog("7z", <<>>, <<>>), Catalog("zip", <<9>>, <<>>)}
=============================================================================
