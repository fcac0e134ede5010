----------------------------- MODULE OuiLookup -----------------------------
(***************************************************************************)
(* The vendor of a MAC: the blob that tools/build_oui.py packs from the    *)
(* registry of the IEEE, and the binary search of oui_lookup() in it.      *)
(*                                                                         *)
(* An OUI is a number: the bytes of oui24 are big-endian, so that memcmp() *)
(* orders them as it does.  A registry is its column of OUIs; the vendor   *)
(* of a row is the number of the row.  A vendor is cut to the 28 bytes of  *)
(* its field, or padded with NULs; one that fills the field has none.      *)
(***************************************************************************)
EXTENDS Integers, Sequences, FiniteSets

CONSTANTS
  Oui,          \* the OUIs
  Private,      \* those with the locally-administered bit of the first byte
  Registries,   \* the files that build_oui.py may be given
  MAX_RECORDS,  \* records that fit in the partition
  Long,         \* rows whose vendor is 28 characters or more
  FIRST_BYTE    \* 2^16: an OUI below it begins with a zero byte

ASSUME OuiAssumption ==
  /\ Oui \subseteq Nat
  /\ Private \subseteq Oui
  /\ Registries \subseteq Seq(Oui)
  /\ MAX_RECORDS \in Nat
  /\ Long \subseteq Nat
  /\ FIRST_BYTE \in Nat

VARIABLES
  registry,  \* the file the blob was made from
  blob,      \* s_records, from 0
  mapped,    \* s_blob: oui_init() found the partition and its magic
  key,       \* the OUI of the MAC asked for
  lookup,    \* where oui_lookup() is
  lo, hi,    \* its bounds
  vendor,    \* what it answers
  excess     \* what follows the vendor's name in the answer: nothing, bytes
             \* of the next record, or bytes from behind the blob

ouivars == <<registry, blob, mapped, key, lookup, lo, hi, vendor, excess>>

-----------------------------------------------------------------------------
(* build_oui.py.                                                           *)

Listed(file) == {file[i] : i \in DOMAIN file}

\* Mutant of Kept: the blob may have a record too many.
KeptOneMore(file) ==
  {o \in Listed(file) :
     Cardinality({p \in Listed(file) : p < o}) <= MAX_RECORDS}

\* What does not fit is cut off the end, where the largest OUIs are.
Kept(file) ==
  {o \in Listed(file) :
     Cardinality({p \in Listed(file) : p < o}) < MAX_RECORDS}

\* Of several rows for an OUI the first is kept: the sort is stable.
FirstRow(file, o) ==
  CHOOSE i \in DOMAIN file :
    file[i] = o /\ \A j \in DOMAIN file : file[j] = o => i <= j

Records(file) ==
  {[oui24 |-> o, vendor |-> FirstRow(file, o)] : o \in Kept(file)}

\* Mutant of pack_blob: the rows are packed as they come.
pack_blob_unsorted(file) ==
  LET count == Cardinality(Kept(file))
  IN  {b \in [0 .. count - 1 -> Records(file)] :
         \A i, j \in 0 .. count - 1 : i < j => b[i] # b[j]}

\* The blob of a file: its records, each once, in ascending order.
pack_blob(file) ==
  LET count == Cardinality(Kept(file))
  IN  {b \in [0 .. count - 1 -> Records(file)] :
         \A i, j \in 0 .. count - 1 : i < j => b[i].oui24 < b[j].oui24}

-----------------------------------------------------------------------------
(* oui.c.                                                                  *)

s_count == Cardinality(DOMAIN blob)

Unknown    == [is |-> "Unknown"]
Randomized == [is |-> "Randomized (private)"]
Vendor(i)  == [is |-> "vendor", row |-> i]

OuiInit ==
  /\ registry \in Registries
  /\ blob \in pack_blob(registry)
  /\ mapped \in BOOLEAN
  /\ key \in Oui
  /\ lookup = "called"
  /\ lo = 0 /\ hi = 0
  /\ vendor = Unknown
  /\ excess = "nothing"

Return(v, more) ==
  /\ lookup' = "done"
  /\ vendor' = v
  /\ excess' = more
  /\ UNCHANGED <<registry, blob, mapped, key, lo, hi>>

Flag ==
  /\ lookup = "called" /\ key \in Private
  /\ Return(Randomized, "nothing")

Disabled ==
  /\ lookup = "called" /\ key \notin Private
  /\ ~mapped \/ s_count = 0
  /\ Return(Unknown, "nothing")

Begin ==
  /\ lookup = "called" /\ key \notin Private
  /\ mapped /\ s_count # 0
  /\ lookup' = "search"
  /\ lo' = 0
  /\ hi' = s_count - 1
  /\ UNCHANGED <<registry, blob, mapped, key, vendor, excess>>

mid == lo + (hi - lo) \div 2

\* What strlcpy() copies from behind the field of record i: a name that fills
\* it has no NUL, and the copy goes on to the next one.  Of the next record that
\* is in its OUI, or in the reserved byte after it.  After the last record there
\* is whatever there is.
Excess(i) ==
  IF blob[i].vendor \notin Long          THEN "nothing"
  ELSE IF i + 1 \notin DOMAIN blob         THEN "behind"
  ELSE IF blob[i + 1].oui24 < FIRST_BYTE THEN "nothing"
                                         ELSE "next"

Hit ==
  /\ lookup = "search" /\ lo <= hi
  /\ key = blob[mid].oui24
  /\ Return(Vendor(blob[mid].vendor), Excess(mid))

Below ==
  /\ lookup = "search" /\ lo <= hi
  /\ key < blob[mid].oui24
  /\ hi' = mid - 1
  /\ UNCHANGED <<registry, blob, mapped, key, lookup, lo, vendor, excess>>

\* Mutant of Above: the record in the middle stays in the search.
AboveOrAt ==
  /\ lookup = "search" /\ lo <= hi
  /\ key > blob[mid].oui24
  /\ lo' = mid
  /\ UNCHANGED <<registry, blob, mapped, key, lookup, hi, vendor, excess>>

Above ==
  /\ lookup = "search" /\ lo <= hi
  /\ key > blob[mid].oui24
  /\ lo' = mid + 1
  /\ UNCHANGED <<registry, blob, mapped, key, lookup, hi, vendor, excess>>

Miss == lookup = "search" /\ lo > hi /\ Return(Unknown, "nothing")

OuiNext == Flag \/ Disabled \/ Begin \/ Hit \/ Below \/ Above \/ Miss

OuiSpec == OuiInit /\ [][OuiNext]_ouivars

-----------------------------------------------------------------------------
(***************************************************************************)
(* The search finds the row of every OUI that the registry lists and the   *)
(* partition has room for, the first one it lists, and answers no other    *)
(* OUI with a vendor's name.  A private address has none, listed or not.   *)
(* The answer is the name and no more, if the name leaves room for a NUL.  *)
(***************************************************************************)
Promised ==
  IF key \in Private                         THEN Randomized
  ELSE IF mapped /\ key \in Kept(registry) THEN Vendor(FirstRow(registry, key))
                                             ELSE Unknown

LookupIsRight ==
  lookup = "done" =>
    /\ vendor = Promised
    /\ excess # "nothing" => \E row \in Long : vendor = Vendor(row)

(***************************************************************************)
(* A blob is no larger than its partition, and every record the search     *)
(* compares is one of it.  Only the copy of a name can read on behind the  *)
(* blob: that of the last record, when the name fills its field.           *)
(***************************************************************************)
ProbesTheBlob ==
  /\ s_count <= MAX_RECORDS
  /\ lookup = "search" /\ lo <= hi => mid \in DOMAIN blob
  /\ excess = "behind" =>
       /\ key = blob[s_count - 1].oui24
       /\ blob[s_count - 1].vendor \in Long

(***************************************************************************)
(* oui.c calls it a binary search: each record compared leaves half of     *)
(* those that are left, at most: 2^k - 1 records take k comparisons.       *)
(***************************************************************************)
Halves ==
  [][lookup = "search" /\ lookup' = "search" =>
       2 * (hi' - lo' + 1) <= hi - lo + 1]_ouivars
-----------------------------------------------------------------------------
(* What a comment says, and the code does not do.                          *)

(***************************************************************************)
(* oui.c: vendor is NUL-padded; strlcpy stops at the first NUL or out_len. *)
(* A name that fills its 28 bytes is not padded, and the guard behind the  *)
(* copy ends the answer where the buffer ends, not where the name does:    *)
(* bytes of the next record follow the name.                               *)
(***************************************************************************)
VendorIsTheName == excess # "next"
=============================================================================
