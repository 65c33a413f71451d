------------------------------- MODULE FileIO -------------------------------
(***************************************************************************)
(* The database file, as storage/file_io.cpp reads and writes it through   *)
(* pread, pwrite and fsync.  The file is a function of page numbers and a  *)
(* size.  A page is Parts values, so that a transfer that stops half way   *)
(* (a short pread at the end of the file, a pwrite that fails after some   *)
(* of its bytes) moves fewer than Parts of them; the size is in parts.     *)
(*                                                                         *)
(* These are operators over one file state.  The module that owns the file *)
(* keeps two such states: what the operating system shows the process      *)
(* ("file") and what the last fsync put on the medium ("disk").            *)
(***************************************************************************)
EXTENDS Integers, FiniteSets

CONSTANTS
  MaxPageId,   (* pages are numbered 0 .. MaxPageId: the bound of a model *)
  Parts,       (* pieces of a page that one transfer may move separately  *)
  Values,      (* contents of a piece                                     *)
  Zero         (* the content of bytes never written                      *)

ASSUME FileAssumption ==
  /\ MaxPageId \in Nat
  /\ Parts \in Nat \ {0}
  /\ Zero \in Values

PageIds == 0 .. MaxPageId
Page == [1 .. Parts -> Values]
ZeroPage == [k \in 1 .. Parts |-> Zero]

FileState == [data : [PageIds -> Page], size : Nat]
EmptyFile == [data |-> [p \in PageIds |-> ZeroPage], size |-> 0]

(* Part k of page p lies before the end of the file. *)
Covered(fs, p, k) == p * Parts + k <= fs.size

(* Page p lies across the end of the file. *)
CutShort(fs, p) == Covered(fs, p, 1) /\ ~Covered(fs, p, Parts)

(* GetFileSize, rounded up to whole pages: (size + PAGE_SIZE - 1) / PAGE_SIZE. *)
PageCount(fs) == Cardinality({p \in PageIds : Covered(fs, p, 1)})

(* pread of a whole page: the part of the buffer beyond the end stays as it was. *)
Read(fs, p, buf) ==
  [k \in 1 .. Parts |-> IF Covered(fs, p, k) THEN fs.data[p][k] ELSE buf[k]]

(* pwrite of the first n parts of page p; n = Parts is a successful Write.
   The bytes between the old end and the page, if any, are a hole of zeros. *)
Write(fs, p, d, n) ==
  IF n = 0 THEN fs
  ELSE [data |-> [fs.data EXCEPT ![p] =
                    [k \in 1 .. Parts |-> IF k <= n THEN d[k] ELSE @[k]]],
        size |-> IF Covered(fs, p, n) THEN fs.size ELSE p * Parts + n]

(* The medium when it has size sz and holds the parts of "back" as the file has
   them and the others as they were at the last sync. *)
Remains(file, disk, back, sz) ==
  [data |-> [p \in PageIds |-> [k \in 1 .. Parts |->
               IF p * Parts + k > sz THEN Zero
               ELSE IF <<p, k>> \in back THEN file.data[p][k]
               ELSE disk.data[p][k]]],
   size |-> sz]

(* The file may end where it ended at the last sync, where it ends now, or behind
   any page that a write has added in between. *)
SizesSince(file, disk) ==
  {sz \in disk.size .. file.size : sz \in {disk.size, file.size} \/ sz % Parts = 0}

(* What a crash of the machine may leave on the medium: every part and the size,
   each from the last sync or written back since. *)
AfterCrash(file, disk) ==
  { Remains(file, disk, back, sz) :
    back \in SUBSET {pk \in PageIds \X (1 .. Parts) :
                        file.data[pk[1]][pk[2]] # disk.data[pk[1]][pk[2]]},
    sz \in SizesSince(file, disk) }
=============================================================================
