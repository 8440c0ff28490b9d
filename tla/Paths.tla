-------------------------------- MODULE Paths -------------------------------
(***************************************************************************)
(* How a path is looked up: src/src/prelude/path.c. A path is the sequence *)
(* of its names, <<>> the root "/". A listing is what dnode_listing reads  *)
(* of each directory: a sequence of entries <<name, inum>>.                *)
(***************************************************************************)
EXTENDS Integers, Sequences, SequencesExt

CONSTANTS
  Dot,      \* the name "."
  ROOT      \* the inode of the root directory

NotFound == -1

USHORTS == 65536  \* how many ushorts there are

(* The inode of a path in the directory dest, which arrives as a ushort:   *)
(* the -1 of a name not found becomes inode 65535, which is outside of the *)
(* inode table and for which listing has no entries.                       *)
path_to_inum_elem(listing, name, dest) ==
  LET dest_inum == (USHORTS + dest) % USHORTS
      d == IF dest_inum \in DOMAIN listing THEN listing[dest_inum] ELSE <<>>
      i == SelectInSeq(d, LAMBDA e : e[1] = name)
  IN  IF dest_inum < 2 THEN NotFound
      ELSE IF name = Dot THEN dest_inum
      ELSE IF i = 0 THEN NotFound ELSE d[i][2]

(* The walk along a path, one name after the other. *)
Walk(listing, path) ==
  LET inum[i \in 0 .. Len(path)] ==
        IF i = 0 THEN ROOT ELSE path_to_inum_elem(listing, path[i], inum[i - 1])
  IN  inum[Len(path)]

path_basename(path) == Last(path)

(* The inode and that of the directory it is in; the root is in itself. *)
path_to_inum(listing, path) ==
  [inum |-> Walk(listing, path),
   parent |-> IF path = <<>> THEN ROOT ELSE Walk(listing, Front(path))]

=============================================================================
