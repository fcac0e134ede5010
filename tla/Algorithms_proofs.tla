-------------------------- MODULE Algorithms_proofs --------------------------
(***************************************************************************)
(* The sequential algorithms: the quiet hours for a day of any length, the *)
(* vendor search for any registry and partition, the sweep for any subnet, *)
(* the escaping for any text and any buffer.                               *)
(***************************************************************************)
EXTENDS NightWindow, OuiLookup, SubnetSweep, JsonText, FiniteSetTheorems,
        WellFoundedInduction, TLAPS

-----------------------------------------------------------------------------
(* The quiet hours.                                                        *)

Hours == hour \in Hour /\ start \in Hour /\ end \in Hour

LEMMA HoursStep == Hours /\ [Advance]_nightvars => Hours'
<1> SUFFICES ASSUME Hours, [Advance]_nightvars
             PROVE  Hours'
  OBVIOUS
<1>1. CASE Advance
  BY <1>1, NightAssumption DEF Hours, Hour, Advance
<1>2. CASE UNCHANGED nightvars
  BY <1>2 DEF Hours, nightvars
<1> QED
  BY <1>1, <1>2

LEMMA HoursAlways == NightSpec => []Hours
<1>1. NightInit => Hours
  BY DEF NightInit, Hours
<1> QED
  BY <1>1, HoursStep, PTL DEF NightSpec

(***************************************************************************)
(* anomaly_is_night() is the window [start, end) around the clock.         *)
(***************************************************************************)
THEOREM IsTheWindow == NightSpec => []NightIsTheWindow
<1>1. Hours => NightIsTheWindow
  BY NightAssumption
  DEF Hours, Hour, NightIsTheWindow, anomaly_is_night, Forward
<1> QED
  BY <1>1, HoursAlways, PTL

(***************************************************************************)
(* Night falls at start and ends at end, whenever the clock advances.      *)
(***************************************************************************)
THEOREM TurnsAtItsEnds == NightSpec => NightTurnsAtItsEnds
<1> DEFINE Night == anomaly_is_night(hour, start, end)
           Then  == anomaly_is_night(hour', start, end)
           Turn  == (~Night /\ Then => hour' = start)
                      /\ (Night /\ ~Then => hour' = end)
<1>1. Hours /\ [Advance]_nightvars => [Turn]_nightvars
  <2> SUFFICES ASSUME Hours, Advance
               PROVE  Turn
    OBVIOUS
  <2>1. hour' = IF hour + 1 = DAY THEN 0 ELSE hour + 1
    BY NightAssumption DEF Hours, Hour, Advance
  <2> QED
    BY <2>1, NightAssumption DEF Hours, Hour, anomaly_is_night
<1> QED
  BY <1>1, HoursAlways, PTL DEF NightSpec, NightTurnsAtItsEnds

-----------------------------------------------------------------------------
(* The vendor search.                                                      *)

LEMMA ListedIsFinite ==
  ASSUME NEW file \in Registries
  PROVE  IsFiniteSet(Listed(file)) /\ Listed(file) \subseteq Nat
<1>1. file \in Seq(Oui) /\ Oui \subseteq Nat
  BY OuiAssumption
<1>2. Len(file) \in Nat /\ DOMAIN file = 1 .. Len(file)
        /\ \A i \in 1 .. Len(file) : file[i] \in Oui
  BY <1>1
<1>3. IsFiniteSet(1 .. Len(file))
  BY <1>2, FS_Interval
<1>4. file \in [1 .. Len(file) -> Listed(file)]
  BY <1>1, <1>2 DEF Listed
<1>5. \A o \in Listed(file) : \E i \in 1 .. Len(file) : file[i] = o
  BY <1>2 DEF Listed
<1>6. file \in Surjection(1 .. Len(file), Listed(file))
  BY <1>4, <1>5 DEF Surjection
<1>7. IsFiniteSet(Listed(file))
  BY <1>3, <1>6, FS_Surjection
<1> QED
  BY <1>1, <1>2, <1>7 DEF Listed

\* The partition has room for what is kept: no two OUIs have equally many
\* smaller ones, and each has fewer than MAX_RECORDS.
LEMMA KeptFits ==
  ASSUME NEW file \in Registries
  PROVE  /\ IsFiniteSet(Kept(file))
         /\ Kept(file) \subseteq Nat
         /\ Cardinality(Kept(file)) <= MAX_RECORDS
<1> DEFINE Smaller(o) == {p \in Listed(file) : p < o}
           rank == [o \in Kept(file) |-> Cardinality(Smaller(o))]
<1>1. IsFiniteSet(Listed(file)) /\ Listed(file) \subseteq Nat
  BY ListedIsFinite
<1>2. Kept(file) \subseteq Listed(file)
  BY DEF Kept
<1>3. IsFiniteSet(Kept(file))
  BY <1>1, <1>2, FS_Subset
<1>4. \A o : Smaller(o) \subseteq Listed(file)
  OBVIOUS
<1>5. \A o : IsFiniteSet(Smaller(o)) /\ Cardinality(Smaller(o)) \in Nat
  BY <1>1, <1>4, FS_Subset, FS_CardinalityType
<1>6. MAX_RECORDS \in Nat
  BY OuiAssumption
<1>7. \A o \in Kept(file) : Cardinality(Smaller(o)) \in 0 .. MAX_RECORDS - 1
  BY <1>5, <1>6 DEF Kept
<1>8. rank \in [Kept(file) -> 0 .. MAX_RECORDS - 1]
  BY <1>7
<1>9. ASSUME NEW o \in Kept(file), NEW q \in Kept(file), o < q
      PROVE  rank[o] # rank[q]
  <2>1. Smaller(o) \subseteq Smaller(q)
    BY <1>1, <1>2, <1>9
  <2>2. o \in Smaller(q) /\ o \notin Smaller(o)
    BY <1>1, <1>2, <1>9
  <2>3. Cardinality(Smaller(o)) # Cardinality(Smaller(q))
    BY <1>5, <2>1, <2>2, FS_Subset
  <2> QED
    BY <2>3
<1>10. \A o, q \in Kept(file) : o # q => rank[o] # rank[q]
  <2> TAKE o, q \in Kept(file)
  <2>1. o \in Nat /\ q \in Nat
    BY <1>1, <1>2
  <2> QED
    BY <1>9, <2>1
<1>11. /\ IsFiniteSet(0 .. MAX_RECORDS - 1)
       /\ Cardinality(0 .. MAX_RECORDS - 1) = MAX_RECORDS
  BY <1>6, FS_Interval
<1> HIDE DEF rank
<1>12. ~(MAX_RECORDS < Cardinality(Kept(file)))
  <2> SUFFICES ASSUME MAX_RECORDS < Cardinality(Kept(file))
               PROVE  FALSE
    OBVIOUS
  <2>1. \E o, q \in Kept(file) : o # q /\ rank[o] = rank[q]
    BY <1>3, <1>8, <1>11, FS_PigeonHole
  <2> QED
    BY <1>10, <2>1
<1>13. Cardinality(Kept(file)) \in Nat
  BY <1>3, FS_CardinalityType
<1> QED
  BY <1>1, <1>2, <1>3, <1>6, <1>12, <1>13

\* The records of a blob: in order, of the first rows, and of all that is kept.
Packed(file, b) ==
  /\ Cardinality(DOMAIN b) \in 0 .. MAX_RECORDS
  /\ DOMAIN b = 0 .. Cardinality(DOMAIN b) - 1
  /\ \A i \in DOMAIN b :
       /\ b[i].oui24 \in Nat /\ b[i].oui24 \in Kept(file)
       /\ b[i].vendor = FirstRow(file, b[i].oui24)
  /\ \A i, j \in DOMAIN b : i < j => b[i].oui24 < b[j].oui24
  /\ \A o \in Kept(file) : \E i \in DOMAIN b : b[i].oui24 = o

LEMMA BlobIsPacked ==
  ASSUME NEW file \in Registries, NEW b \in pack_blob(file)
  PROVE  Packed(file, b)
<1> DEFINE count == Cardinality(Kept(file))
           ouis  == [i \in 0 .. count - 1 |-> b[i].oui24]
<1>1. /\ IsFiniteSet(Kept(file)) /\ Kept(file) \subseteq Nat
      /\ count <= MAX_RECORDS /\ count \in Nat /\ MAX_RECORDS \in Nat
  BY KeptFits, FS_CardinalityType, OuiAssumption
<1>2. /\ b \in [0 .. count - 1 -> Records(file)]
      /\ \A i, j \in 0 .. count - 1 : i < j => b[i].oui24 < b[j].oui24
  BY DEF pack_blob
<1> HIDE DEF count
<1>3. DOMAIN b = 0 .. count - 1
  BY <1>2
<1>4. /\ IsFiniteSet(0 .. count - 1)
      /\ Cardinality(0 .. count - 1) = count
  BY <1>1, FS_Interval
<1>5. ASSUME NEW i \in 0 .. count - 1
      PROVE  /\ b[i].oui24 \in Nat /\ b[i].oui24 \in Kept(file)
             /\ b[i].vendor = FirstRow(file, b[i].oui24)
  <2>1. b[i] \in Records(file)
    BY <1>2
  <2>2. PICK o \in Kept(file) :
          b[i] = [oui24 |-> o, vendor |-> FirstRow(file, o)]
    BY <2>1 DEF Records
  <2> QED
    BY <1>1, <2>2
<1>6. ASSUME NEW o \in Kept(file)
      PROVE  \E i \in 0 .. count - 1 : b[i].oui24 = o
  <2> SUFFICES ASSUME \A i \in 0 .. count - 1 : b[i].oui24 # o
               PROVE  FALSE
    OBVIOUS
  <2>1. ouis \in [0 .. count - 1 -> Kept(file) \ {o}]
    BY <1>5
  <2>2. /\ IsFiniteSet(Kept(file) \ {o})
        /\ Cardinality(Kept(file) \ {o}) = count - 1
    BY <1>1, FS_RemoveElement DEF count
  <2>3. Cardinality(Kept(file) \ {o}) < Cardinality(0 .. count - 1)
    BY <1>1, <1>4, <2>2
  <2>4. \A i, j \in 0 .. count - 1 : i # j => ouis[i] # ouis[j]
    <3> TAKE i, j \in 0 .. count - 1
    <3>1. i \in Int /\ j \in Int
      BY <1>1
    <3>2. i < j => ouis[i] # ouis[j]
      BY <1>2, <1>5
    <3>3. j < i => ouis[i] # ouis[j]
      BY <1>2, <1>5
    <3> QED
      BY <3>1, <3>2, <3>3
  <2> DEFINE S == 0 .. count - 1
             T == Kept(file) \ {o}
  <2>a. /\ IsFiniteSet(S) /\ IsFiniteSet(T)
        /\ Cardinality(T) < Cardinality(S) /\ ouis \in [S -> T]
    BY <1>4, <2>1, <2>2, <2>3
  <2> HIDE DEF ouis, S, T
  <2>b. \E i, j \in S : i # j /\ ouis[i] = ouis[j]
    BY <2>a, FS_PigeonHole
  <2>5. \E i, j \in 0 .. count - 1 : i # j /\ ouis[i] = ouis[j]
    BY <2>b DEF S
  <2> QED
    BY <2>4, <2>5
<1> QED
  BY <1>1, <1>2, <1>3, <1>4, <1>5, <1>6 DEF Packed

\* Where the record is, if there is one: between the bounds.
Bounds ==
  lookup = "search" =>
    /\ mapped /\ key \notin Private
    /\ lo \in Nat /\ hi \in Int /\ hi < s_count
    /\ \A i \in DOMAIN blob : blob[i].oui24 = key => lo <= i /\ i <= hi

\* What the answer has of what is behind the name, and why.
Overrun ==
  /\ excess # "nothing" => lookup = "done"
  /\ excess = "behind" => /\ s_count - 1 \in DOMAIN blob
                          /\ key = blob[s_count - 1].oui24
                          /\ blob[s_count - 1].vendor \in Long

OuiInv ==
  /\ registry \in Registries /\ key \in Nat
  /\ Packed(registry, blob)
  /\ lookup \in {"called", "search", "done"}
  /\ Bounds
  /\ LookupIsRight
  /\ Overrun

LEMMA OuiInitGood == OuiInit => OuiInv
<1> SUFFICES ASSUME OuiInit
             PROVE  OuiInv
  OBVIOUS
<1>1. Packed(registry, blob)
  BY BlobIsPacked DEF OuiInit
<1>2. key \in Nat
  BY OuiAssumption DEF OuiInit
<1> QED
  BY <1>1, <1>2 DEF OuiInit, OuiInv, Bounds, LookupIsRight, Overrun

LEMMA ReturnGood ==
  ASSUME OuiInv, NEW v, NEW more, Return(v, more), v = Promised,
         more # "nothing" => \E row \in Long : v = Vendor(row),
         more = "behind" => /\ s_count - 1 \in DOMAIN blob
                            /\ key = blob[s_count - 1].oui24
                            /\ blob[s_count - 1].vendor \in Long
  PROVE  OuiInv'
  BY DEF OuiInv, Return, Bounds, LookupIsRight, Overrun, Promised, s_count,
         Vendor

LEMMA MidIsBetween ==
  ASSUME OuiInv, lookup = "search", lo <= hi
  PROVE  /\ mid \in DOMAIN blob /\ mid \in Nat
         /\ lo <= mid /\ mid <= hi
<1>1. /\ lo \in Nat /\ hi \in Int /\ hi < s_count /\ s_count \in Nat
      /\ DOMAIN blob = 0 .. s_count - 1
  BY OuiAssumption DEF OuiInv, Bounds, Packed, s_count
<1>2. mid \in Nat /\ lo <= mid /\ mid <= hi
  BY <1>1 DEF mid
<1> QED
  BY <1>1, <1>2

\* Nothing that is kept is left behind by a search that found nothing.
LEMMA MissIsRight ==
  ASSUME OuiInv, lookup = "search", lo > hi
  PROVE  Unknown = Promised
<1>1. \A i \in DOMAIN blob : blob[i].oui24 # key
  BY DEF OuiInv, Bounds, Packed
<1>2. key \notin Kept(registry)
  BY <1>1 DEF OuiInv, Packed
<1> QED
  BY <1>2 DEF OuiInv, Bounds, Promised

LEMMA OuiStepGood == OuiInv /\ [OuiNext]_ouivars => OuiInv'
<1> SUFFICES ASSUME OuiInv, [OuiNext]_ouivars
             PROVE  OuiInv'
  OBVIOUS
<1>1. CASE Flag
  BY <1>1, ReturnGood DEF Flag, Promised
<1>2. CASE Disabled
  <2>1. ~mapped \/ key \notin Kept(registry)
    <3>1. CASE s_count = 0
      <4>1. DOMAIN blob = {}
        BY <3>1 DEF OuiInv, Packed, s_count
      <4> QED
        BY <4>1 DEF OuiInv, Packed
    <3> QED
      BY <1>2, <3>1 DEF Disabled
  <2>2. Unknown = Promised
    BY <1>2, <2>1 DEF Disabled, Promised
  <2> QED
    BY <1>2, <2>2, ReturnGood DEF Disabled
<1>3. CASE Begin
  <2>1. s_count \in Nat /\ DOMAIN blob = 0 .. s_count - 1
    BY OuiAssumption DEF OuiInv, Packed, s_count
  <2>2. UNCHANGED <<registry, blob, key, mapped, vendor, excess>> /\ s_count' = s_count
    BY <1>3 DEF Begin, s_count
  <2>3. Bounds'
    BY <1>3, <2>1, <2>2 DEF Begin, Bounds
  <2> QED
    BY <1>3, <2>2, <2>3 DEF Begin, OuiInv, LookupIsRight, Overrun
<1>4. CASE Hit
  <2>1. mid \in DOMAIN blob
    BY <1>4, MidIsBetween DEF Hit
  <2>2. key \in Kept(registry)
          /\ blob[mid].vendor = FirstRow(registry, key)
    BY <1>4, <2>1 DEF Hit, OuiInv, Packed
  <2>3. Vendor(blob[mid].vendor) = Promised
    BY <1>4, <2>2 DEF Hit, OuiInv, Bounds, Promised
  <2>4. Excess(mid) # "nothing" => blob[mid].vendor \in Long
    BY DEF Excess
  <2>5. Excess(mid) = "behind" => mid = s_count - 1
    <3>1. /\ s_count \in Nat /\ DOMAIN blob = 0 .. s_count - 1
      BY OuiAssumption DEF OuiInv, Packed, s_count
    <3>2. Excess(mid) = "behind" => mid + 1 \notin DOMAIN blob
      BY DEF Excess
    <3> QED
      BY <2>1, <3>1, <3>2
  <2>6. Excess(mid) = "behind" =>
          /\ s_count - 1 \in DOMAIN blob
          /\ key = blob[s_count - 1].oui24
          /\ blob[s_count - 1].vendor \in Long
    BY <1>4, <2>1, <2>4, <2>5 DEF Hit
  <2> QED
    BY <1>4, <2>3, <2>4, <2>6, ReturnGood DEF Hit
<1>5. CASE Below
  <2>1. mid \in DOMAIN blob /\ mid \in Nat /\ mid <= hi
    BY <1>5, MidIsBetween DEF Below
  <2>2. /\ UNCHANGED <<registry, blob, key, mapped, vendor, excess, lookup, lo>>
        /\ s_count' = s_count /\ hi' = mid - 1 /\ lookup = "search"
        /\ key < blob[mid].oui24
    BY <1>5 DEF Below, s_count
  <2>3. hi' \in Int /\ hi' < s_count
    BY <2>1, <2>2, OuiAssumption DEF OuiInv, Bounds, Packed, s_count
  <2>4. ASSUME NEW i \in DOMAIN blob, blob[i].oui24 = key
        PROVE  lo <= i /\ i <= hi'
    <3>1. i \in Int /\ lo <= i
      BY <2>2, <2>4 DEF OuiInv, Bounds, Packed
    <3>2. ~(mid < i) /\ mid # i
      BY <2>1, <2>2, <2>4 DEF OuiInv, Packed
    <3> QED
      BY <2>1, <2>2, <3>1, <3>2
  <2>5. Bounds'
    BY <2>2, <2>3, <2>4 DEF OuiInv, Bounds
  <2> QED
    BY <2>2, <2>5 DEF OuiInv, LookupIsRight, Overrun
<1>6. CASE Above
  <2>1. mid \in DOMAIN blob /\ mid \in Nat
    BY <1>6, MidIsBetween DEF Above
  <2>2. /\ UNCHANGED <<registry, blob, key, mapped, vendor, excess, lookup, hi>>
        /\ s_count' = s_count /\ lo' = mid + 1 /\ lookup = "search"
        /\ key > blob[mid].oui24
    BY <1>6 DEF Above, s_count
  <2>3. lo' \in Nat
    BY <2>1, <2>2
  <2>4. ASSUME NEW i \in DOMAIN blob, blob[i].oui24 = key
        PROVE  lo' <= i /\ i <= hi
    <3>1. i \in Int /\ i <= hi
      BY <2>2, <2>4 DEF OuiInv, Bounds, Packed
    <3>2. ~(i < mid) /\ mid # i
      BY <2>1, <2>2, <2>4 DEF OuiInv, Packed
    <3> QED
      BY <2>1, <2>2, <3>1, <3>2
  <2>5. Bounds'
    BY <2>2, <2>3, <2>4 DEF OuiInv, Bounds
  <2> QED
    BY <2>2, <2>5 DEF OuiInv, LookupIsRight, Overrun
<1>7. CASE Miss
  BY <1>7, MissIsRight, ReturnGood DEF Miss
<1>8. CASE UNCHANGED ouivars
  BY <1>8 DEF ouivars, OuiInv, Bounds, LookupIsRight, Overrun, Promised,
              s_count
<1> QED
  BY <1>1, <1>2, <1>3, <1>4, <1>5, <1>6, <1>7, <1>8 DEF OuiNext

LEMMA OuiAlways == OuiSpec => []OuiInv
  BY OuiInitGood, OuiStepGood, PTL DEF OuiSpec

(***************************************************************************)
(* The row an address is answered with is the first the registry lists for *)
(* its OUI, if the partition has room for it; the answer is the vendor's   *)
(* name alone, if that leaves room for a NUL.                              *)
(***************************************************************************)
THEOREM FindsTheVendor == OuiSpec => []LookupIsRight
  BY OuiAlways, PTL DEF OuiInv

(***************************************************************************)
(* The search compares no record that is not there, and a lookup reads on  *)
(* behind the blob only from a name that fills the field of its last       *)
(* record.                                                                 *)
(***************************************************************************)
THEOREM LeavesTheBlobAtItsEnd == OuiSpec => []ProbesTheBlob
<1>1. OuiInv => ProbesTheBlob
  BY MidIsBetween, OuiAssumption
  DEF OuiInv, Overrun, ProbesTheBlob, Packed, s_count
<1> QED
  BY <1>1, OuiAlways, PTL

(***************************************************************************)
(* Each turn of the loop leaves at most half of the records it had: a      *)
(* lookup ends after as many turns as the number of records has bits.      *)
(***************************************************************************)
THEOREM SearchHalves == OuiSpec => Halves
<1> DEFINE Half == lookup = "search" /\ lookup' = "search" =>
                     2 * (hi' - lo' + 1) <= hi - lo + 1
<1>1. OuiInv /\ [OuiNext]_ouivars => [Half]_ouivars
  <2> SUFFICES ASSUME OuiInv, OuiNext, lookup = "search", lookup' = "search"
               PROVE  2 * (hi' - lo' + 1) <= hi - lo + 1
    OBVIOUS
  <2>1. lo \in Nat /\ hi \in Int
    BY DEF OuiInv, Bounds
  <2> DEFINE half == (hi - lo) \div 2
  <2>2. half \in Int /\ 2 * half <= hi - lo /\ hi - lo <= 2 * half + 1
    BY <2>1
  <2>3. mid = lo + half
    BY DEF mid
  <2>4. CASE Below
    <3>1. lo' = lo /\ hi' = mid - 1
      BY <2>4 DEF Below
    <3> HIDE DEF half
    <3> QED
      BY <2>1, <2>2, <2>3, <3>1
  <2>5. CASE Above
    <3>1. hi' = hi /\ lo' = mid + 1
      BY <2>5 DEF Above
    <3> HIDE DEF half
    <3> QED
      BY <2>1, <2>2, <2>3, <3>1
  <2> QED
    BY <2>4, <2>5 DEF OuiNext, Flag, Disabled, Begin, Hit, Miss, Return
<1> QED
  BY <1>1, OuiAlways, PTL DEF OuiSpec, Halves

-----------------------------------------------------------------------------
(* The sweep.                                                              *)

\* The requests out since the last drain, at most: one for each host number
\* since the last multiple, and a run before it if the station is there.
Budget(n) ==
  IF self % DRAIN_EVERY = 0 /\ self <= n
    THEN (n % DRAIN_EVERY) + DRAIN_EVERY - 1
    ELSE n % DRAIN_EVERY

SweepInv ==
  /\ inverted \in Nat /\ self \in Nat
  /\ h \in Nat \ {0} /\ burst \in Nat
  /\ sweep \in {"loop", "drain", "done"}
  /\ h = 1 \/ h <= host_count
  /\ sweep = "loop" =>
       /\ pinged = {n \in 1 .. h - 1 : n # self}
       /\ burst <= Budget(h - 1)
  /\ sweep = "drain" =>
       /\ h < host_count /\ h # self
       /\ pinged = {n \in 1 .. h : n # self}
       /\ h % DRAIN_EVERY = 0
  /\ BurstIsBounded
  /\ SweepIsComplete

LEMMA SweepInitGood == SweepInit => SweepInv
<1> SUFFICES ASSUME SweepInit
             PROVE  SweepInv
  OBVIOUS
<1>1. inverted \in Nat /\ self \in Nat
  BY SweepAssumption DEF SweepInit
<1>2. pinged = {n \in 1 .. h - 1 : n # self}
  BY DEF SweepInit
<1>3. burst <= Budget(h - 1) /\ BurstIsBounded
  BY <1>1 DEF SweepInit, Budget, BurstIsBounded, DRAIN_EVERY
<1> QED
  BY <1>1, <1>2, <1>3 DEF SweepInit, SweepInv, SweepIsComplete

LEMMA SkipSelfGood == SweepInv /\ SkipSelf => SweepInv'
<1> SUFFICES ASSUME SweepInv, SkipSelf
             PROVE  SweepInv'
  OBVIOUS
<1>1. /\ h' = h + 1 /\ UNCHANGED <<inverted, self, sweep, pinged, burst>>
      /\ h = self /\ sweep = "loop" /\ h < host_count
      /\ host_count' = host_count
  BY DEF SkipSelf, host_count
<1>2. h' <= host_count
  BY <1>1, SweepAssumption DEF SweepInv, host_count
<1>3. pinged' = {n \in 1 .. h' - 1 : n # self'}
  BY <1>1 DEF SweepInv
<1>n. h \in Nat \ {0} /\ burst \in Nat /\ burst <= Budget(h - 1)
  BY <1>1 DEF SweepInv
<1>4. burst' <= Budget(h - 1)'
  BY <1>1, <1>n DEF Budget, DRAIN_EVERY
<1> QED
  BY <1>1, <1>2, <1>3, <1>4
  DEF SweepInv, SweepIsComplete, BurstIsBounded, DRAIN_EVERY

LEMMA PingGood == SweepInv /\ Ping => SweepInv'
<1> SUFFICES ASSUME SweepInv, Ping
             PROVE  SweepInv'
  OBVIOUS
<1>1. /\ sweep = "loop" /\ h < host_count /\ h # self
      /\ pinged' = pinged \cup {h} /\ burst' = burst + 1
      /\ UNCHANGED <<inverted, self>> /\ host_count' = host_count
  BY DEF Ping, host_count
<1>2. h \in Nat \ {0} /\ self \in Nat /\ burst \in Nat
        /\ burst <= Budget(h - 1)
  BY <1>1 DEF SweepInv
<1>3. pinged' = {n \in 1 .. h : n # self}
  BY <1>1, <1>2 DEF SweepInv
<1>4. BurstIsBounded'
  BY <1>1, <1>2 DEF BurstIsBounded, Budget, DRAIN_EVERY
<1>5. CASE h % DRAIN_EVERY = 0
  <2>1. sweep' = "drain" /\ h' = h
    BY <1>5 DEF Ping
  <2> QED
    BY <1>1, <1>2, <1>3, <1>4, <1>5, <2>1 DEF SweepInv, SweepIsComplete
<1>6. CASE h % DRAIN_EVERY # 0
  <2>1. sweep' = "loop" /\ h' = h + 1
    BY <1>1, <1>6 DEF Ping
  <2>2. burst' <= Budget(h)
    BY <1>1, <1>2, <1>6 DEF Budget, DRAIN_EVERY
  <2>3. burst' <= Budget(h - 1)'
    BY <1>1, <1>2, <2>1, <2>2 DEF Budget
  <2>4. h' <= host_count
    BY <1>1, <1>2, <2>1, SweepAssumption DEF SweepInv, host_count
  <2>5. pinged' = {n \in 1 .. h' - 1 : n # self'}
    BY <1>1, <1>2, <1>3, <2>1
  <2> QED
    BY <1>1, <1>2, <1>4, <2>1, <2>3, <2>4, <2>5 DEF SweepInv, SweepIsComplete
<1> QED
  BY <1>5, <1>6

LEMMA DrainGood == SweepInv /\ drain_replies => SweepInv'
<1> SUFFICES ASSUME SweepInv, drain_replies
             PROVE  SweepInv'
  OBVIOUS
<1>1. /\ sweep = "drain" /\ sweep' = "loop" /\ h' = h + 1 /\ burst' = 0
      /\ UNCHANGED <<inverted, self, pinged>> /\ host_count' = host_count
  BY DEF drain_replies, host_count
<1>2. h' <= host_count /\ h \in Nat \ {0} /\ self \in Nat
  BY <1>1, SweepAssumption DEF SweepInv, host_count
<1>3. pinged' = {n \in 1 .. h' - 1 : n # self'}
  BY <1>1, <1>2 DEF SweepInv
<1>4. burst' <= Budget(h - 1)' /\ BurstIsBounded'
  BY <1>1, <1>2 DEF Budget, BurstIsBounded, DRAIN_EVERY
<1> QED
  BY <1>1, <1>2, <1>3, <1>4 DEF SweepInv, SweepIsComplete

LEMMA FinalDrainGood == SweepInv /\ FinalDrain => SweepInv'
<1> SUFFICES ASSUME SweepInv, FinalDrain
             PROVE  SweepInv'
  OBVIOUS
<1>1. /\ sweep = "loop" /\ sweep' = "done" /\ h >= host_count /\ burst' = 0
      /\ UNCHANGED <<inverted, self, h, pinged>> /\ host_count' = host_count
  BY DEF FinalDrain, host_count
<1>2. /\ inverted \in Nat /\ CLAMP \in Nat \ {0} /\ self \in Nat
      /\ h \in Nat \ {0} /\ (h = 1 \/ h = host_count)
  BY <1>1, SweepAssumption DEF SweepInv, host_count
<1>3. SweepIsComplete'
  <2>1. pinged = {n \in 1 .. h - 1 : n # self}
    BY <1>1 DEF SweepInv
  <2>2. \A n \in Int : n \in 1 .. h - 1
                         <=> n \in Hosts /\ (inverted > CLAMP => n < CLAMP)
    BY <1>1, <1>2 DEF host_count, Hosts
  <2>3. pinged = {n \in Hosts \ {self} : inverted > CLAMP => n < CLAMP}
    BY <1>2, <2>1, <2>2 DEF Hosts
  <2> QED
    BY <1>1, <2>3 DEF SweepIsComplete, Hosts
<1>4. BurstIsBounded'
  BY <1>1, <1>2 DEF BurstIsBounded, DRAIN_EVERY
<1> QED
  BY <1>1, <1>3, <1>4 DEF SweepInv

LEMMA SweepAlways == SweepSpec => []SweepInv
<1>1. SweepInv /\ [SweepNext]_sweepvars => SweepInv'
  <2> SUFFICES ASSUME SweepInv, [SweepNext]_sweepvars
               PROVE  SweepInv'
    OBVIOUS
  <2>1. CASE UNCHANGED sweepvars
    BY <2>1 DEF sweepvars, SweepInv, host_count, Budget, BurstIsBounded,
                SweepIsComplete, Hosts
  <2> QED
    BY <2>1, SkipSelfGood, PingGood, DrainGood, FinalDrainGood DEF SweepNext
<1> QED
  BY <1>1, SweepInitGood, PTL DEF SweepSpec

(***************************************************************************)
(* A pass pings its whole subnet up to the clamp, and nobody else.         *)
(***************************************************************************)
THEOREM SweepsTheSubnet == SweepSpec => []SweepIsComplete
  BY SweepAlways, PTL DEF SweepInv

(***************************************************************************)
(* At most 31 requests are out between two drains, and more than 16 only   *)
(* if the station's own address is where one was due.                      *)
(***************************************************************************)
THEOREM BurstsAreBounded == SweepSpec => []BurstIsBounded
  BY SweepAlways, PTL DEF SweepInv

-----------------------------------------------------------------------------
(* The two texts: induction on the length of a sequence, by the least      *)
(* counterexample.                                                         *)

LEMMA LeastOf ==
  ASSUME NEW T \in SUBSET Nat, T # {}
  PROVE  \E n \in T : \A m \in T : n <= m
<1>1. PICK n \in T : \A m \in T : ~(<<m, n>> \in OpToRel(<, Nat))
  BY NatLessThanWellFounded, WFMin
<1>2. \A m \in T : ~(m < n)
  BY <1>1 DEF OpToRel
<1> QED
  BY <1>2

LEMMA Induction ==
  ASSUME NEW S, 0 \in S, \A n \in Nat : n \in S => n + 1 \in S
  PROVE  Nat \subseteq S
<1> SUFFICES ASSUME Nat \ S # {}
             PROVE  FALSE
  OBVIOUS
<1>1. PICK n \in Nat \ S : \A m \in Nat \ S : n <= m
  BY LeastOf
<1>2. n - 1 \in Nat /\ n - 1 \in S
  BY <1>1
<1> QED
  BY <1>1, <1>2

\* at is where step is after each number of elements of s.
IsRun(at, step, base, s) ==
  at = [n \in 0 .. Len(s) |-> IF n = 0 THEN base ELSE step[at[n - 1]][s[n]]]

LEMMA RunExists ==
  ASSUME NEW step, NEW base, NEW s, Len(s) \in Nat
  PROVE  \E at : IsRun(at, step, base, s)
<1> DEFINE Upto(n) == [k \in 1 .. n |-> s[k]]
           HasRun(n) == \E at : IsRun(at, step, base, Upto(n))
           S == {n \in Nat : HasRun(n)}
<1>1. \A n \in Nat : Len(Upto(n)) = n
  OBVIOUS
<1>2. 0 \in S
  <2>1. IsRun([n \in 0 .. 0 |-> base], step, base, Upto(0))
    BY <1>1 DEF IsRun
  <2> QED
    BY <2>1
<1>3. ASSUME NEW n \in Nat, n \in S
      PROVE  n + 1 \in S
  <2>1. PICK at : IsRun(at, step, base, Upto(n))
    BY <1>3
  <2> DEFINE on == [k \in 0 .. n + 1 |-> IF k = n + 1 THEN step[at[n]][s[n + 1]]
                                                     ELSE at[k]]
  <2>2. at = [k \in 0 .. n |-> IF k = 0 THEN base ELSE step[at[k - 1]][s[k]]]
    <3>1. \A k \in 0 .. n : k # 0 => Upto(n)[k] = s[k]
      OBVIOUS
    <3> QED
      BY <1>1, <2>1, <3>1 DEF IsRun
  <2>3. ASSUME NEW k \in 0 .. n + 1
        PROVE  on[k] = IF k = 0 THEN base ELSE step[on[k - 1]][Upto(n + 1)[k]]
    <3>1. CASE k = n + 1
      BY <3>1
    <3>2. CASE k \in 0 .. n
      <4>1. on[k] = at[k]
        BY <3>2
      <4>2. k # 0 => on[k - 1] = at[k - 1] /\ Upto(n + 1)[k] = s[k]
        BY <3>2
      <4> QED
        BY <2>2, <3>2, <4>1, <4>2
    <3> QED
      BY <3>1, <3>2
  <2>4. IsRun(on, step, base, Upto(n + 1))
    <3>1. on = [k \in 0 .. n + 1 |-> on[k]]
      OBVIOUS
    <3> HIDE DEF Upto, on
    <3>2. on = [k \in 0 .. n + 1 |->
                  IF k = 0 THEN base ELSE step[on[k - 1]][Upto(n + 1)[k]]]
      BY <2>3, <3>1
    <3>3. Len(Upto(n + 1)) = n + 1
      BY <1>1
    <3> QED
      BY <3>2, <3>3 DEF IsRun
  <2>5. HasRun(n + 1)
    BY <2>4
  <2> HIDE DEF HasRun
  <2> QED
    BY <2>5
<1>4. Len(s) \in S
  <2> HIDE DEF S
  <2> QED
    BY <1>2, <1>3, Induction
<1>5. PICK at : IsRun(at, step, base, Upto(Len(s)))
  BY <1>4
<1>6. IsRun(at, step, base, s)
  <2>1. \A k \in 0 .. Len(s) : k # 0 => Upto(Len(s))[k] = s[k]
    OBVIOUS
  <2> QED
    BY <1>1, <1>5, <2>1 DEF IsRun
<1> QED
  BY <1>6

\* Every element is one step from the state before it.
LEMMA RunStep ==
  ASSUME NEW step, NEW base, NEW s, NEW at, Len(s) \in Nat,
         IsRun(at, step, base, s), NEW n \in Nat, n + 1 <= Len(s)
  PROVE  at[n + 1] = step[at[n]][s[n + 1]]
<1>1. at = [k \in 0 .. Len(s) |->
              IF k = 0 THEN base ELSE step[at[k - 1]][s[k]]]
  BY DEF IsRun
<1>2. \A k \in 0 .. Len(s) :
         at[k] = IF k = 0 THEN base ELSE step[at[k - 1]][s[k]]
  BY <1>1
<1>3. n + 1 \in 0 .. Len(s) /\ n + 1 # 0 /\ n + 1 - 1 = n
  OBVIOUS
<1> QED
  BY <1>2, <1>3

\* Two runs from the same state over the same elements agree.
LEMMA RunIsUnique ==
  ASSUME NEW step, NEW base, NEW s, NEW t, NEW p, NEW q,
         Len(s) \in Nat, Len(t) \in Nat, Len(s) <= Len(t),
         \A k \in 1 .. Len(s) : s[k] = t[k],
         IsRun(p, step, base, s), IsRun(q, step, base, t)
  PROVE  \A n \in 0 .. Len(s) : p[n] = q[n]
<1> DEFINE S == {n \in Nat : n <= Len(s) => p[n] = q[n]}
<1>1. 0 \in S
  BY DEF IsRun
<1>2. ASSUME NEW n \in Nat, n \in S
      PROVE  n + 1 \in S
  <2> SUFFICES ASSUME n + 1 <= Len(s)
               PROVE  p[n + 1] = q[n + 1]
    OBVIOUS
  <2>1. p[n] = q[n]
    BY <1>2
  <2>2. /\ n + 1 \in 0 .. Len(s) /\ n + 1 \in 0 .. Len(t)
        /\ n + 1 # 0 /\ n + 1 - 1 = n /\ s[n + 1] = t[n + 1]
    OBVIOUS
  <2>3. p[n + 1] = step[p[n]][s[n + 1]]
    BY <2>2, RunStep
  <2>4. q[n + 1] = step[q[n]][t[n + 1]]
    BY <2>2, RunStep
  <2> QED
    BY <2>1, <2>2, <2>3, <2>4
<1>3. Nat \subseteq S
  <2> HIDE DEF S
  <2> QED
    BY <1>1, <1>2, Induction
<1> QED
  BY <1>3

\* One element more is one step more.
LEMMA AfterAppend ==
  ASSUME NEW step, NEW base, NEW S, NEW s \in Seq(S), NEW c \in S
  PROVE  After(step, base, Append(s, c)) = step[After(step, base, s)][c]
<1> DEFINE Run(r) == CHOOSE at : IsRun(at, step, base, r)
<1>1. \A r : After(step, base, r) = Run(r)[Len(r)]
  BY DEF After, IsRun
<1>2. \A r : Len(r) \in Nat => IsRun(Run(r), step, base, r)
  BY RunExists
<1> HIDE DEF Run
<1> DEFINE t == Append(s, c)
<1>4. /\ t \in Seq(S) /\ Len(s) \in Nat /\ Len(t) = Len(s) + 1
      /\ \A k \in 1 .. Len(s) : s[k] = t[k]
      /\ t[Len(s) + 1] = c
  OBVIOUS
<1> HIDE DEF t
<1>5. Run(t)[Len(s)] = Run(s)[Len(s)]
  BY <1>2, <1>4, RunIsUnique
<1>6. Run(t)[Len(s) + 1] = step[Run(t)[Len(s)]][c]
  BY <1>2, <1>4 DEF IsRun
<1>7. After(step, base, t) = step[After(step, base, s)][c]
  BY <1>1, <1>4, <1>5, <1>6
<1> QED
  BY <1>7 DEF t

LEMMA AfterNothing ==
  ASSUME NEW step, NEW base
  PROVE  After(step, base, <<>>) = base
<1>1. \E at : IsRun(at, step, base, <<>>)
  BY RunExists
<1>2. After(step, base, <<>>) = (CHOOSE at : IsRun(at, step, base, <<>>))[0]
  BY DEF After, IsRun
<1> DEFINE run == CHOOSE at : IsRun(at, step, base, <<>>)
<1>3. IsRun(run, step, base, <<>>)
  BY <1>1
<1> HIDE DEF run
<1>4. run[0] = base
  BY <1>3 DEF IsRun
<1> QED
  BY <1>2, <1>4 DEF run

LEMMA ParseOneMore ==
  ASSUME NEW s \in Seq(Written), NEW c \in Written
  PROVE  Parse(Append(s, c)) = parser[Parse(s)][c]
BY AfterAppend DEF Parse

\* What the parser makes of one more character that stands for itself, and of
\* one more escape.
LEMMA ParsePlain ==
  ASSUME NEW s \in Seq(Written), Parse(s) \in Reader, ~Parse(s).escape,
         NEW c \in Char \ {"\\"}
  PROVE  Parse(s \o <<c>>)
           = [read   |-> Append(Parse(s).read, c),
              escape |-> FALSE,
              ok     |-> Parse(s).ok /\ c \notin {"LF", "control"}]
<1>1. c \in Written /\ c # "\\"
  BY DEF Written
<1>2. s \o <<c>> = Append(s, c)
  OBVIOUS
<1>3. Parse(s \o <<c>>) = parser[Parse(s)][c]
  BY <1>1, <1>2, ParseOneMore
<1> DEFINE p == Parse(s)
<1>4. p \in Reader /\ ~p.escape
  OBVIOUS
<1> HIDE DEF p
<1>5. parser[p][c] = [p EXCEPT !.read = Append(@, c),
                               !.ok   = @ /\ c \notin {"LF", "control"}]
  BY <1>1, <1>4 DEF parser
<1>6. parser[p][c] = [read   |-> Append(p.read, c), escape |-> FALSE,
                      ok     |-> p.ok /\ c \notin {"LF", "control"}]
  BY <1>4, <1>5 DEF Reader
<1> QED
  BY <1>3, <1>6 DEF p

LEMMA ParseEscape ==
  ASSUME NEW s \in Seq(Written), Parse(s) \in Reader, ~Parse(s).escape,
         NEW c \in {"\\", "n"}
  PROVE  Parse(s \o <<"\\", c>>)
           = [read   |-> Append(Parse(s).read, IF c = "n" THEN "LF" ELSE c),
              escape |-> FALSE,
              ok     |-> Parse(s).ok]
<1> DEFINE p == Parse(s)
           t == Append(s, "\\")
<1>1. /\ c \in Written /\ "\\" \in Written /\ t \in Seq(Written)
      /\ s \o <<"\\", c>> = Append(t, c)
  BY DEF Written, Char
<1>2. Parse(t) = parser[p]["\\"]
  BY <1>1, ParseOneMore
<1>3. Parse(Append(t, c)) = parser[Parse(t)][c]
  BY <1>1, ParseOneMore
<1>4. p \in Reader /\ ~p.escape
  OBVIOUS
<1> HIDE DEF p, t
<1> DEFINE q == [p EXCEPT !.escape = TRUE]
<1>5. parser[p]["\\"] = q
  BY <1>1, <1>4 DEF parser
<1>6. q \in Reader /\ q.escape /\ q.read = p.read /\ q.ok = p.ok
  BY <1>4 DEF Reader
<1> HIDE DEF q
<1>7. parser[q][c] = [read   |-> Append(q.read, IF c = "n" THEN "LF" ELSE c),
                      escape |-> FALSE,
                      ok     |-> q.ok /\ c \in {"\\", "n"}]
  BY <1>1, <1>6 DEF parser
<1>8. q.ok /\ c \in {"\\", "n"} <=> p.ok
  BY <1>6
<1>9. (q.ok /\ c \in {"\\", "n"}) = p.ok
  BY <1>4, <1>6, <1>8 DEF Reader
<1>10. Parse(s \o <<"\\", c>>)
         = [read   |-> Append(p.read, IF c = "n" THEN "LF" ELSE c),
            escape |-> FALSE,
            ok     |-> p.ok]
  BY <1>1, <1>2, <1>3, <1>5, <1>6, <1>7, <1>9
<1> QED
  BY <1>10 DEF p

LEMMA PrintableOneMore ==
  ASSUME NEW s \in Seq(Char), Printable(s) \in Seq(Char), NEW c \in Char
  PROVE  /\ Printable(Append(s, c)) = IF c = "control" THEN Printable(s)
                                      ELSE Append(Printable(s), c)
         /\ Printable(Append(s, c)) \in Seq(Char)
<1>1. Printable(Append(s, c)) = printable[Printable(s)][c]
  BY AfterAppend DEF Printable
<1> QED
  BY <1>1 DEF printable

\* What a parser should read of what was done of the text.
Due == LET read == SubSeq(text, 1, done)
       IN  IF escaper = "web" THEN read ELSE Printable(read)

Clean == escaper = "notifier" \/ \A n \in 1 .. done : ~Control(text[n])

TextInv ==
  /\ escaper \in {"notifier", "web"}
  /\ text \in Seq(Char) /\ done \in 0 .. Len(text)
  /\ out \in Seq(Written) /\ Len(out) < OUT_LEN
  /\ Due \in Seq(Char)
  /\ Parse(out) \in Reader
  /\ Parse(out).read = Due /\ ~Parse(out).escape
  /\ Clean => Parse(out).ok
  /\ escaping \in BOOLEAN
  /\ ~escaping => done = Len(text) \/ Len(out) >= OUT_LEN - 2

LEMMA TextInitGood == TextInit => TextInv
<1> SUFFICES ASSUME TextInit
             PROVE  TextInv
  OBVIOUS
<1>1. text \in Seq(Char) /\ done \in 0 .. Len(text)
  BY JsonAssumption DEF TextInit
<1>2. Parse(<<>>) = Start /\ Printable(<<>>) = <<>>
  BY AfterNothing DEF Parse, Printable
<1>3. SubSeq(text, 1, 0) = <<>>
  BY <1>1
<1>4. Due = <<>>
  BY <1>2, <1>3 DEF Due, TextInit
<1>5. Parse(out) = [read |-> <<>>, escape |-> FALSE, ok |-> TRUE]
  BY <1>2 DEF TextInit, Start
<1>6. Parse(out) \in Reader
  BY <1>5 DEF Reader
<1> QED
  BY <1>1, <1>4, <1>5, <1>6, JsonAssumption DEF TextInit, TextInv

LEMMA EscapeGood == TextInv /\ Escape => TextInv'
<1> SUFFICES ASSUME TextInv, Escape
             PROVE  TextInv'
  OBVIOUS
<1> DEFINE c == text[done + 1]
           p == Parse(out)
           read == SubSeq(text, 1, done)
<1>1. /\ UNCHANGED <<escaper, text, escaping>> /\ escaping
      /\ done' = done + 1 /\ out' = out \o Escaped(c)
      /\ done < Len(text) /\ Len(out) + 2 < OUT_LEN
  BY DEF Escape, Room
<1>2. /\ escaper \in {"notifier", "web"}
      /\ text \in Seq(Char) /\ done \in Nat /\ Len(text) \in Nat
      /\ out \in Seq(Written) /\ OUT_LEN \in Nat
      /\ p \in Reader /\ p.read = Due /\ ~p.escape /\ Due \in Seq(Char)
      /\ Clean => p.ok
  BY JsonAssumption DEF TextInv
<1>3. c \in Char /\ done' \in 0 .. Len(text')
  BY <1>1, <1>2
<1>4. read \in Seq(Char) /\ SubSeq(text, 1, done + 1) = Append(read, c)
  BY <1>1, <1>2
<1> HIDE DEF c, p, read
<1>5. Due' = IF escaper = "web" THEN Append(read, c)
                                ELSE Printable(Append(read, c))
  BY <1>1, <1>4 DEF Due
<1>6. Due = IF escaper = "web" THEN read ELSE Printable(read)
  BY DEF Due, read
<1>7. /\ Due' = IF escaper = "notifier" /\ c = "control" THEN Due
                                                        ELSE Append(Due, c)
      /\ Due' \in Seq(Char)
  <2>1. CASE escaper = "web"
    BY <1>2, <1>3, <1>5, <1>6, <2>1
  <2>2. CASE escaper = "notifier"
    BY <1>2, <1>3, <1>4, <1>5, <1>6, <2>2, PrintableOneMore
  <2> QED
    BY <1>2, <2>1, <2>2
<1>8. Clean' => Clean /\ (escaper = "notifier" \/ ~Control(c))
  BY <1>1, <1>2 DEF Clean, c
<1> DEFINE b == out \o Escaped(c)
           r == Parse(b)
           Read(x, ok) == [read |-> Append(p.read, x), escape |-> FALSE,
                           ok   |-> ok]
           Good == /\ b \in Seq(Written) /\ Len(b) <= Len(out) + 2
                   /\ r \in Reader /\ r.read = Due' /\ ~r.escape
                   /\ Clean' => r.ok
<1>9. p.ok \in BOOLEAN /\ p.read \in Seq(Written)
  BY <1>2 DEF Reader
<1>10. ASSUME NEW x \in Char, NEW ok \in BOOLEAN,
              r = Read(x, ok), Due' = Append(Due, x), Clean' => ok
       PROVE  r \in Reader /\ r.read = Due' /\ ~r.escape /\ (Clean' => r.ok)
  <2>1. Append(p.read, x) \in Seq(Written)
    BY <1>9 DEF Written
  <2> HIDE DEF r
  <2>2. r \in Reader
    BY <1>10, <2>1 DEF Reader
  <2> QED
    BY <1>2, <1>10, <2>2
<1>11. ASSUME c = "\\"
       PROVE  Good
  <2>1. Escaped(c) = <<"\\", "\\">>
    BY <1>11 DEF Escaped
  <2>2. Parse(out \o <<"\\", "\\">>) = Read("\\", p.ok)
    BY <1>2, ParseEscape DEF p
  <2>3. r = Read("\\", p.ok)
    BY <2>1, <2>2
  <2>4. b \in Seq(Written) /\ Len(b) <= Len(out) + 2
    BY <1>2, <2>1 DEF Written, Char
  <2>5. Due' = Append(Due, "\\") /\ "\\" \in Char /\ (Clean' => p.ok)
    BY <1>2, <1>7, <1>8, <1>11 DEF Char
  <2> HIDE DEF r, b
  <2> QED
    BY <1>9, <1>10, <2>3, <2>4, <2>5
<1>12. ASSUME c = "LF" /\ escaper = "notifier"
       PROVE  Good
  <2>1. Escaped(c) = <<"\\", "n">>
    BY <1>12 DEF Escaped
  <2>2. Parse(out \o <<"\\", "n">>) = Read("LF", p.ok)
    BY <1>2, ParseEscape DEF p
  <2>3. r = Read("LF", p.ok)
    BY <2>1, <2>2
  <2>4. b \in Seq(Written) /\ Len(b) <= Len(out) + 2
    BY <1>2, <2>1 DEF Written, Char
  <2>5. Due' = Append(Due, "LF") /\ "LF" \in Char /\ (Clean' => p.ok)
    BY <1>2, <1>7, <1>8, <1>12 DEF Char
  <2> HIDE DEF r, b
  <2> QED
    BY <1>9, <1>10, <2>3, <2>4, <2>5
<1>13. ASSUME c = "control" /\ escaper = "notifier"
       PROVE  Good
  <2>1. Escaped(c) = <<>>
    BY <1>13 DEF Escaped
  <2>2. b = out
    BY <1>2, <2>1
  <2>3. r = p
    BY <2>2 DEF p
  <2>4. Due' = Due
    BY <1>7, <1>13
  <2> HIDE DEF r, b
  <2> QED
    BY <1>2, <1>8, <2>2, <2>3, <2>4
<1>14. ASSUME c # "\\" /\ (escaper = "web" \/ c \notin {"LF", "control"})
       PROVE  Good
  <2> DEFINE ok == p.ok /\ c \notin {"LF", "control"}
  <2>1. Escaped(c) = <<c>>
    BY <1>2, <1>14 DEF Escaped
  <2>2. Parse(out \o <<c>>) = Read(c, ok)
    BY <1>2, <1>3, <1>14, ParsePlain DEF p
  <2>3. r = Read(c, ok)
    BY <2>1, <2>2
  <2>4. b \in Seq(Written) /\ Len(b) <= Len(out) + 2
    BY <1>2, <1>3, <2>1 DEF Written
  <2>5. Due' = Append(Due, c) /\ ok \in BOOLEAN /\ (Clean' => ok)
    BY <1>2, <1>7, <1>8, <1>9, <1>14 DEF Control
  <2> HIDE DEF r, b, ok
  <2> QED
    BY <1>3, <1>10, <2>3, <2>4, <2>5
<1>15. Good
  BY <1>2, <1>11, <1>12, <1>13, <1>14
<1>16. TextInv'
  <2>1. out' = b /\ Parse(out)' = r
    BY <1>1
  <2> HIDE DEF r, b
  <2> QED
    BY <1>1, <1>2, <1>3, <1>7, <1>15, <2>1 DEF TextInv
<1> QED
  BY <1>16

LEMMA TerminateGood == TextInv /\ Terminate => TextInv'
<1> SUFFICES ASSUME TextInv, Terminate
             PROVE  TextInv'
  OBVIOUS
<1>1. UNCHANGED <<escaper, text, done, out>> /\ escaping' = FALSE
  BY DEF Terminate
<1>2. Due' = Due /\ (Clean' <=> Clean) /\ Parse(out)' = Parse(out)
  BY <1>1 DEF Due, Clean
<1>3. done = Len(text) \/ Len(out) >= OUT_LEN - 2
  BY JsonAssumption DEF TextInv, Terminate, Room
<1> QED
  BY <1>1, <1>2, <1>3 DEF TextInv

LEMMA TextAlways == TextSpec => []TextInv
<1>1. TextInv /\ [TextNext]_textvars => TextInv'
  <2> SUFFICES ASSUME TextInv, [TextNext]_textvars
               PROVE  TextInv'
    OBVIOUS
  <2>1. CASE UNCHANGED textvars
    BY <2>1 DEF textvars, TextInv, Due, Clean
  <2> QED
    BY <2>1, EscapeGood, TerminateGood DEF TextNext
<1> QED
  BY <1>1, TextInitGood, PTL DEF TextSpec

(***************************************************************************)
(* What either loop writes is read back as the text it was given, for      *)
(* every text and every size of the buffer.                                *)
(***************************************************************************)
THEOREM ReadsBack == TextSpec => []TextReadsBack
<1>1. TextInv => TextReadsBack
  BY DEF TextInv, TextReadsBack, Due, Clean
<1> QED
  BY <1>1, TextAlways, PTL

(***************************************************************************)
(* No escape is written past the end of the buffer, nor is the NUL.        *)
(***************************************************************************)
THEOREM StaysInTheBuffer == TextSpec => []TextFits
<1>1. TextInv => TextFits
  BY DEF TextInv, TextFits
<1> QED
  BY <1>1, TextAlways, PTL
=============================================================================
