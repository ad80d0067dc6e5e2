---------------------------- MODULE BufferProof ----------------------------
(***************************************************************************)
(* Theorems about the two buffers of the project, the ring of ma_filter    *)
(* and the sectors of the RAM disk, for every window and every sequence of *)
(* integer samples, any number of submitters and every capacity.           *)
(***************************************************************************)
EXTENDS MovingAverage, Ramdisk, TLAPS

-----------------------------------------------------------------------------
\* The ring of ma_filter.
FilterInv == FilterTypeOK /\ AveragesWindow /\ RingHoldsWindow

\* The remainder in NextIdx is a wrap-around.
LEMMA NextIdxWraps ==
    ASSUME idx \in Slots
    PROVE  NextIdx = IF idx + 1 = Window THEN 0 ELSE idx + 1
<1>1. Window % Window = 0 /\ \A x \in 0 .. Window - 1 : x % Window = x
  BY FilterAssumption
<1> QED
  BY <1>1, FilterAssumption DEF NextIdx, Slots

LEMMA RingInit == FilterInit => FilterInv
BY FilterAssumption
   DEF FilterInit, FilterInv, FilterTypeOK, AveragesWindow, RingHoldsWindow, Slots

\* Every sample in the ring gets one older, and the new one is the newest.
LEMMA RingStep ==
    ASSUME FilterInv, FilterTypeOK', NEW val \in Samples, Filter(val),
           idx' = IF idx + 1 = Window THEN 0 ELSE idx + 1,
           total'[fed'] = total[fed] + val,
           \A j \in 0 .. fed : total'[j] = total[j]
    PROVE  RingHoldsWindow'
<1> USE FilterAssumption
<1>1. /\ idx \in Slots /\ count \in 0 .. Window /\ fed \in Nat
      /\ count <= fed /\ fed' = fed + 1
      /\ buf' = [buf EXCEPT ![idx] = val] /\ buf \in [Slots -> Samples \cup {0}]
      /\ count' = IF count < Window THEN count + 1 ELSE count
      /\ count < Window => idx = count
  BY DEF FilterInv, FilterTypeOK, AveragesWindow, RingHoldsWindow, Filter
<1>2. ASSUME NEW a \in 1 .. count'
      PROVE  buf'[SlotOf(a)'] = total'[fed' - a + 1] - total'[fed' - a]
  <2>1. CASE a = 1
    <3>1. SlotOf(a)' = idx
      BY <1>1, <2>1 DEF SlotOf, Slots
    <3>2. fed' - a + 1 = fed' /\ fed' - a = fed
      BY <1>1, <2>1
    <3>3. total[fed] \in Int /\ val \in Int
      BY DEF FilterInv, FilterTypeOK
    <3> QED
      BY <1>1, <3>1, <3>2, <3>3
  <2>2. CASE a > 1
    <3>1. a - 1 \in 1 .. count
      BY <1>1, <2>2
    <3>2. SlotOf(a)' = SlotOf(a - 1) /\ SlotOf(a - 1) \in Slots /\ SlotOf(a - 1) # idx
      BY <1>1, <2>2, <3>1 DEF SlotOf, Slots
    <3>3. buf[SlotOf(a - 1)] = total[fed - a + 2] - total[fed - a + 1]
      <4>1. fed - (a - 1) + 1 = fed - a + 2 /\ fed - (a - 1) = fed - a + 1
        BY <1>1
      <4> QED
        BY <3>1, <4>1 DEF FilterInv, RingHoldsWindow
    <3>4. /\ fed' - a + 1 = fed - a + 2 /\ fed' - a = fed - a + 1
          /\ fed - a + 2 \in 0 .. fed /\ fed - a + 1 \in 0 .. fed
      BY <1>1, <2>2, <3>1
    <3> QED
      BY <1>1, <3>2, <3>3, <3>4
  <2> QED
    BY <2>1, <2>2, <1>1
<1>3. count' < Window => idx' = count' /\ \A j \in idx' .. Window - 1 : buf'[j] = 0
  BY <1>1 DEF FilterInv, RingHoldsWindow, Slots
<1> QED
  BY <1>2, <1>3 DEF RingHoldsWindow

LEMMA FilterStep ==
    ASSUME FilterInv, NEW val \in Samples, Filter(val)
    PROVE  FilterInv'
<1> USE FilterAssumption
<1>1. idx' = IF idx + 1 = Window THEN 0 ELSE idx + 1
  BY NextIdxWraps DEF FilterInv, FilterTypeOK, Filter
<1>2. total[fed] \in Int /\ buf[idx] \in Int /\ val \in Int
  <2>1. fed \in 0 .. fed
    BY DEF FilterInv, FilterTypeOK
  <2>2. buf[idx] \in Samples \cup {0}
    BY DEF FilterInv, FilterTypeOK
  <2>3. total[fed] \in Int
    BY <2>1 DEF FilterInv, FilterTypeOK
  <2>4. \A x \in Samples \cup {0} : x \in Int
    BY FilterAssumption
  <2> QED
    BY <2>2, <2>3, <2>4
<1>3. FilterTypeOK'
  BY <1>1, <1>2 DEF FilterInv, FilterTypeOK, Filter, NewSum, Slots
<1>4. /\ fed' = fed + 1
      /\ total'[fed'] = total[fed] + val
      /\ \A j \in 0 .. fed : total'[j] = total[j]
  BY DEF FilterInv, FilterTypeOK, Filter
<1>5. count' = IF fed' < Window THEN fed' ELSE Window
  BY <1>4 DEF FilterInv, FilterTypeOK, AveragesWindow, Filter
<1>6. RingHoldsWindow'
  BY <1>1, <1>3, <1>4, RingStep
\* A full ring is about to overwrite its oldest sample, the one Window back.
<1>7. CASE count = Window
  <2>1. SlotOf(Window) = idx
    BY DEF FilterInv, FilterTypeOK, SlotOf, Slots
  <2>2. buf[idx] = total[fed - Window + 1] - total[fed - Window]
    BY <2>1, <1>7 DEF FilterInv, RingHoldsWindow
  <2>3. fed >= Window /\ count' = Window
    BY <1>7 DEF FilterInv, FilterTypeOK, AveragesWindow, Filter
  <2>4. AveragesWindow'
    <3>1. sum' = total[fed] - total[fed - Window] - buf[idx] + val
      BY <1>7 DEF FilterInv, AveragesWindow, Filter, NewSum
    <3>2. fed' - count' = fed - Window + 1 /\ fed' - count' \in 0 .. fed
      BY <2>3, <1>4 DEF FilterInv, FilterTypeOK
    <3>3. total[fed - Window] \in Int /\ total[fed - Window + 1] \in Int
      BY <2>3 DEF FilterInv, FilterTypeOK
    <3>4. sum' = total'[fed'] - total'[fed' - count']
      BY <3>1, <3>2, <3>3, <2>2, <1>2, <1>4
    <3> QED
      BY <3>4, <1>5 DEF AveragesWindow
  <2> QED
    BY <1>3, <1>6, <2>4 DEF FilterInv
<1>8. CASE count < Window
  <2>1. buf[idx] = 0 /\ count = fed /\ idx = count
    BY <1>8 DEF FilterInv, FilterTypeOK, AveragesWindow, RingHoldsWindow, Slots
  <2>2. count' = fed' /\ total[0] \in Int
    BY <1>8, <2>1, <1>4 DEF FilterInv, FilterTypeOK, Filter
  <2>3. sum' = total'[fed'] - total'[fed' - count']
    BY <2>1, <2>2, <1>2, <1>4 DEF FilterInv, FilterTypeOK, AveragesWindow, Filter, NewSum
  <2>4. AveragesWindow'
    BY <2>3, <1>5 DEF AveragesWindow
  <2> QED
    BY <1>3, <1>6, <2>4 DEF FilterInv
<1> QED
  BY <1>7, <1>8 DEF FilterInv, FilterTypeOK

LEMMA RingNext == FilterInv /\ [FilterNext]_filterVars => FilterInv'
<1> SUFFICES ASSUME FilterInv, [FilterNext]_filterVars PROVE FilterInv'
  OBVIOUS
<1>1. CASE UNCHANGED filterVars
  BY <1>1 DEF FilterInv, FilterTypeOK, AveragesWindow, RingHoldsWindow, SlotOf,
              Slots, filterVars
<1> QED
  BY <1>1, FilterStep DEF FilterNext, BoundReached

\* The filter keeps its types.
THEOREM FilterTypes == FilterSpec => []FilterTypeOK
<1>1. FilterInv => FilterTypeOK
  BY DEF FilterInv
<1> QED
  BY <1>1, RingInit, RingNext, PTL DEF FilterSpec

\* ma_filter returns the average of exactly the last Window samples.
THEOREM FilterAveragesWindow == FilterSpec => []AveragesWindow
<1>1. FilterInv => AveragesWindow
  BY DEF FilterInv
<1> QED
  BY <1>1, RingInit, RingNext, PTL DEF FilterSpec

\* The ring holds exactly those samples.
THEOREM FilterRing == FilterSpec => []RingHoldsWindow
<1>1. FilterInv => RingHoldsWindow
  BY DEF FilterInv
<1> QED
  BY <1>1, RingInit, RingNext, PTL DEF FilterSpec

-----------------------------------------------------------------------------
\* The sectors of the RAM disk.

\* The parts of RamTypeOK.
BioType ==
    /\ store \in [Cells -> Values]
    /\ at \in [Submitters -> {"idle", "copy", "end"}]
    /\ dir \in [Submitters -> {"read", "write"}]
    /\ first \in [Submitters -> Sectors] /\ len \in [Submitters -> 1..Capacity]
    /\ seg \in [Submitters -> 0..Capacity]
    /\ offset \in [Submitters -> 0..Capacity] /\ pos \in [Submitters -> Words]
    /\ page \in [Submitters -> [Cells -> Values]]
    /\ held \in [Submitters -> [Cells -> SUBSET Values]]
DiskType ==
    /\ stage \in {"out", "major", "disk", "queue", "add", "adding", "live",
                  "dropped", "oops"}
    /\ ret \in {"ok", "error"} /\ buff \in {"null", "live", "freed"}
    /\ has \subseteq {"major", "disk", "queue", "added"} /\ stray \in BOOLEAN

\* What an init that has met no failure has got at each stage, and has live.
Whole == CASE stage \in {"out", "major"} -> {}
           [] stage = "disk" -> {"major"}
           [] stage = "queue" -> {"major", "disk"}
           [] stage = "add" -> {"major", "disk", "queue"}
           [] OTHER -> Released

\* The disk can be found only after add_disk, and only an unharmed init
\* comes to its end and is undone.
LifeInv ==
    /\ ret = "ok" =>
         /\ stage \notin {"oops", "dropped"} /\ ~stray
         /\ stage # "out" => buff = "live"
         /\ has = Whole
    /\ stage \in {"out", "live"} => ret = "ok"
    /\ "added" \in has => stage \in {"adding", "live", "dropped", "oops"}
    /\ \A b \in Submitters : at[b] # "idle" => "added" \in has

\* How far a bio has got, and where it is in the buffer.
Progress(b) ==
    /\ at[b] = "idle" => seg[b] = 0
    /\ at[b] = "copy" => seg[b] < len[b]
    /\ at[b] = "end" => seg[b] = len[b]
    /\ at[b] # "copy" => pos[b] = 0
    /\ at[b] # "idle" => /\ offset[b] = first[b] + seg[b]
                         /\ first[b] + len[b] <= Capacity

\* A word of a bio that memcpy has moved: of an earlier segment, or an earlier
\* one of this segment.
Moved(b, i, k) == i < seg[b] \/ (i = seg[b] /\ k < pos[b])

\* What b has got, or put, for a word of its bio.
Has(b, i, k) == IF dir[b] = "read" THEN page[b][<<i, k>>] ELSE b

\* The words moved so far are exact, and what the disk holds now counts among
\* what it has held.
Copied(b) ==
    at[b] # "idle" =>
        /\ \A x \in Cells : store[x] \in held[b][x]
        /\ \A i \in 0 .. len[b] - 1, k \in Words :
             Moved(b, i, k) => Has(b, i, k) \in held[b][<<first[b] + i, k>>]

BiosInv == BioType /\ \A b \in Submitters : Progress(b) /\ Copied(b)

RamInv == DiskType /\ LifeInv /\ BiosInv
USE RamAssumption

\* A copy under way is inside the buffer.
LEMMA CopiesInside ==
    ASSUME BioType, NEW b \in Submitters, Progress(b), at[b] = "copy"
    PROVE  /\ offset[b] \in Sectors /\ seg[b] \in Sectors
           /\ seg[b] + 1 \in 1 .. len[b]
           /\ offset[b] + 1 = first[b] + (seg[b] + 1)
           /\ offset[b] + 1 \in 0 .. Capacity
<1>1. /\ first[b] \in Sectors /\ len[b] \in 1 .. Capacity
      /\ seg[b] \in 0 .. Capacity
  BY DEF BioType
<1> QED
  BY <1>1 DEF Progress, Sectors

LEMMA RamParts == RamInv => RamTypeOK
<1> SUFFICES ASSUME RamInv PROVE RamTypeOK
  OBVIOUS
<1>1. \A b \in Submitters : at[b] = "copy" => offset[b] \in Sectors
  BY CopiesInside DEF RamInv, BiosInv
<1> QED
  BY <1>1 DEF RamInv, BiosInv, RamTypeOK, DiskType, BioType

LEMMA RamInit == Init => RamInv
<1> SUFFICES ASSUME Init PROVE RamInv
  OBVIOUS
<1>1. 0 \in Sectors /\ 1 \in 1 .. Capacity /\ 0 \in 0 .. Capacity
  BY DEF Sectors
<1>2. DiskType
  BY DEF Init, DiskType
<1>3. BioType
  <2>1. Blanks \in [Cells -> Values] /\ 0 \in Words
    BY DEF Blanks, Values, Words
  <2>2. store \in [Cells -> Values] /\ page \in [Submitters -> [Cells -> Values]]
    BY <2>1 DEF Init
  <2>3. held \in [Submitters -> [Cells -> SUBSET Values]]
    BY DEF Init
  <2> QED
    BY <1>1, <2>1, <2>2, <2>3 DEF Init, BioType
<1>4. LifeInv
  BY DEF Init, LifeInv, Whole
<1>5. ASSUME NEW b \in Submitters PROVE Progress(b) /\ Copied(b)
  BY DEF Init, Progress, Copied
<1> QED
  BY <1>2, <1>3, <1>4, <1>5 DEF RamInv, BiosInv

LEMMA BiosKeep == BiosInv /\ UNCHANGED <<bios>> => BiosInv'
BY DEF BiosInv, BioType, Progress, Copied, Moved, Has, bios, bio

\* The steps of init and exit.  Only the first touches the buffer, and no bio
\* is under way then.
LEMMA DiskStep ==
    ASSUME RamInv, \/ Alloc \/ RegisterMajor \/ AllocDisk \/ AllocQueue
                   \/ AddDisk \/ Return \/ Exit
    PROVE  RamInv'
<1>0. DiskType /\ LifeInv /\ BiosInv
  BY DEF RamInv
<1>1. DiskType'
  <2>1. CASE Alloc \/ RegisterMajor \/ AllocDisk
    BY <1>0, <2>1 DEF DiskType, Alloc, RegisterMajor, AllocDisk, RetSet, bios
  <2>2. CASE AllocQueue \/ AddDisk
    BY <1>0, <2>2 DEF DiskType, AllocQueue, AddDisk, bios
  <2>3. CASE Return \/ Exit
    BY <1>0, <2>3 DEF DiskType, Return, Exit, bios
  <2> QED
    BY <2>1, <2>2, <2>3
<1>2. CASE Alloc
  <2>1. \A b \in Submitters : at[b] = "idle"
    BY <1>0, <1>2 DEF LifeInv, Alloc, Whole
  <2>2. LifeInv'
    BY <1>0, <1>2, <2>1 DEF LifeInv, Alloc, Whole
  <2>3. BioType'
    <3>1. Blanks \in [Cells -> Values]
      BY DEF Blanks, Values
    <3> QED
      BY <1>0, <1>2, <3>1 DEF BiosInv, BioType, Alloc, bio
  <2>4. \A b \in Submitters : Progress(b)' /\ Copied(b)'
    BY <1>0, <1>2, <2>1 DEF BiosInv, Progress, Copied, Alloc, bio
  <2> QED
    BY <1>1, <2>2, <2>3, <2>4 DEF RamInv, BiosInv
<1>3. ASSUME RegisterMajor \/ AllocDisk \/ AllocQueue \/ AddDisk \/ Return \/ Exit
      PROVE  RamInv'
  <2>1. BiosInv'
    BY <1>0, <1>3, BiosKeep DEF RegisterMajor, AllocDisk, AllocQueue, AddDisk,
                                Return, Exit
  <2>2. UNCHANGED <<at, stray>>
    BY <1>3 DEF RegisterMajor, AllocDisk, AllocQueue, AddDisk, Return, Exit, bios
  <2>3. CASE RegisterMajor
    BY <1>0, <1>1, <2>1, <2>2, <2>3
       DEF RamInv, DiskType, LifeInv, Whole, RegisterMajor, RetSet
  <2>4. CASE AllocDisk
    BY <1>0, <1>1, <2>1, <2>2, <2>4
       DEF RamInv, DiskType, LifeInv, Whole, AllocDisk
  <2>5. CASE AllocQueue
    BY <1>0, <1>1, <2>1, <2>2, <2>5
       DEF RamInv, DiskType, LifeInv, Whole, AllocQueue
  <2>6. CASE AddDisk
    BY <1>0, <1>1, <2>1, <2>2, <2>6
       DEF RamInv, DiskType, LifeInv, Whole, AddDisk, Released
  <2>7. CASE Return
    BY <1>0, <1>1, <2>1, <2>2, <2>7
       DEF RamInv, DiskType, LifeInv, Whole, Return
  <2>8. CASE Exit
    BY <1>0, <1>1, <2>1, <2>2, <2>8
       DEF RamInv, DiskType, LifeInv, Whole, Exit, Released
  <2> QED
    BY <1>3, <2>3, <2>4, <2>5, <2>6, <2>7, <2>8
<1> QED
  BY <1>2, <1>3

-----------------------------------------------------------------------------
LEMMA SubmitStep ==
    ASSUME RamInv, NEW b \in Submitters, Submit(b)
    PROVE  RamInv'
<1>0. DiskType /\ LifeInv /\ BiosInv
  BY DEF RamInv
<1>1. DiskType'
  BY <1>0 DEF DiskType, Submit, disk
<1>2. LifeInv'
  BY <1>0 DEF DiskType, BiosInv, BioType, LifeInv, Whole, Submit, disk
<1>3. PICK d \in {"read", "write"}, s \in Sectors, n \in 1..Capacity :
        /\ s + n <= Capacity
        /\ dir' = [dir EXCEPT ![b] = d] /\ offset' = [offset EXCEPT ![b] = s]
        /\ first' = [first EXCEPT ![b] = s] /\ len' = [len EXCEPT ![b] = n]
  BY DEF Submit
<1>4. BioType'
  <2>1. /\ s \in 0 .. Capacity
        /\ [x \in Cells |-> {store[x]}] \in [Cells -> SUBSET Values]
    BY <1>0 DEF BiosInv, BioType, Sectors
  <2> QED
    BY <1>0, <1>3, <2>1 DEF BiosInv, BioType, Submit
<1>5. ASSUME NEW c \in Submitters PROVE Progress(c)' /\ Copied(c)'
  <2>1. CASE c = b
    <3>1. /\ seg'[c] = 0 /\ pos'[c] = 0 /\ at'[c] = "copy" /\ store' = store
          /\ held'[c] = [x \in Cells |-> {store[x]}]
          /\ offset'[c] = s /\ first'[c] = s /\ len'[c] = n
      BY <1>0, <1>3, <2>1 DEF BiosInv, BioType, Progress, Submit
    <3>2. \A i \in 0 .. len'[c] - 1, k \in Words : ~Moved(c, i, k)'
      BY <1>3, <3>1 DEF Moved, Words
    <3> QED
      BY <1>3, <3>1, <3>2 DEF Progress, Copied, Sectors
  <2>2. CASE c # b
    BY <1>0, <1>3, <2>2
       DEF BiosInv, BioType, Progress, Copied, Moved, Has, Submit
  <2> QED
    BY <2>1, <2>2
<1> QED
  BY <1>1, <1>2, <1>4, <1>5 DEF RamInv, BiosInv

\* A moved word is exact, and a write is noted for every bio under way.
LEMMA MoveKeeps ==
    ASSUME BiosInv, NEW b \in Submitters, at[b] = "copy", Move(b)
    PROVE  /\ Cell(b) \in Cells /\ Spot(b) \in Cells
           /\ store' \in [Cells -> Values]
           /\ page' \in [Submitters -> [Cells -> Values]]
           /\ held' \in [Submitters -> [Cells -> SUBSET Values]]
           /\ \A c \in Submitters : at[c] # "idle" =>
                /\ \A x \in Cells : held[c][x] \subseteq held'[c][x]
                /\ \A x \in Cells : store'[x] \in held'[c][x]
           /\ \A c \in Submitters : \A x \in Cells :
                c # b \/ x # Spot(b) => page'[c][x] = page[c][x]
           /\ (IF dir[b] = "read" THEN page'[b][Spot(b)] ELSE b)
                  \in held'[b][Cell(b)]
<1>0. BioType /\ Progress(b) /\ \A c \in Submitters : Copied(c)
  BY DEF BiosInv
<1>1. Cell(b) \in Cells /\ Spot(b) \in Cells
  BY <1>0, CopiesInside DEF BioType, Cell, Spot, Cells
<1>2. store[Cell(b)] \in Values /\ b \in Values
  BY <1>0, <1>1 DEF BioType, Values
<1> DEFINE x0 == Cell(b)
           y0 == Spot(b)
<1> HIDE DEF x0, y0
<1>3. x0 \in Cells /\ y0 \in Cells /\ store[x0] \in Values
  BY <1>1, <1>2 DEF x0, y0
<1>4. \A c \in Submitters : at[c] # "idle" =>
          \A x \in Cells : store[x] \in held[c][x]
  BY <1>0 DEF Copied
<1>5. CASE dir[b] = "read"
  <2>1. page' = [page EXCEPT ![b] = [page[b] EXCEPT ![y0] = store[x0]]]
    BY <1>5 DEF Move, x0, y0
  <2>2. store' = store /\ held' = held
    BY <1>5 DEF Move
  <2>3. [page[b] EXCEPT ![y0] = store[x0]] \in [Cells -> Values]
    BY <1>0, <1>3 DEF BioType
  <2>4. page' \in [Submitters -> [Cells -> Values]]
    BY <1>0, <2>1, <2>3 DEF BioType
  <2>5. \A c \in Submitters : \A x \in Cells :
            c # b \/ x # y0 => page'[c][x] = page[c][x]
    BY <1>0, <2>1 DEF BioType
  <2>6. page'[b][y0] = store[x0] /\ store[x0] \in held[b][x0]
    BY <1>0, <1>3, <1>4, <2>1 DEF BioType
  <2>7. store' \in [Cells -> Values] /\ held' \in [Submitters -> [Cells -> SUBSET Values]]
    BY <1>0, <2>2 DEF BioType
  <2>8. (IF dir[b] = "read" THEN page'[b][Spot(b)] ELSE b) \in held'[b][Cell(b)]
    BY <1>5, <2>2, <2>6 DEF x0, y0
  <2>9. \A c \in Submitters : at[c] # "idle" =>
            /\ \A x \in Cells : held[c][x] \subseteq held'[c][x]
            /\ \A x \in Cells : store'[x] \in held'[c][x]
    BY <1>4, <2>2
  <2> QED
    BY <1>1, <2>4, <2>5, <2>7, <2>8, <2>9 DEF y0
<1>6. CASE dir[b] # "read"
  <2>1. /\ store' = [store EXCEPT ![x0] = b] /\ page' = page
        /\ held' = [c \in Submitters |->
                      IF at[c] = "idle" THEN held[c]
                      ELSE [held[c] EXCEPT ![x0] = held[c][x0] \cup {b}]]
    BY <1>6 DEF Move, x0
  <2>2. store' \in [Cells -> Values] /\ page' \in [Submitters -> [Cells -> Values]]
    BY <1>0, <1>2, <1>3, <2>1 DEF BioType
  <2>3. \A c \in Submitters :
          [held[c] EXCEPT ![x0] = held[c][x0] \cup {b}] \in [Cells -> SUBSET Values]
    BY <1>0, <1>2, <1>3 DEF BioType
  <2>4. held' \in [Submitters -> [Cells -> SUBSET Values]]
    BY <1>0, <2>1, <2>3 DEF BioType
  <2>5. ASSUME NEW c \in Submitters, at[c] # "idle", NEW x \in Cells
        PROVE  held[c][x] \subseteq held'[c][x] /\ store'[x] \in held'[c][x]
    <3>1. held'[c] = [held[c] EXCEPT ![x0] = held[c][x0] \cup {b}]
      BY <2>1, <2>5
    <3>2. held'[c][x] = IF x = x0 THEN held[c][x] \cup {b} ELSE held[c][x]
      BY <1>0, <1>3, <3>1 DEF BioType
    <3>3. store'[x] = IF x = x0 THEN b ELSE store[x]
      BY <1>0, <1>3, <2>1 DEF BioType
    <3> QED
      BY <1>4, <2>5, <3>2, <3>3
  <2>6. b \in held'[b][x0]
    <3>1. held'[b] = [held[b] EXCEPT ![x0] = held[b][x0] \cup {b}]
      BY <2>1
    <3> QED
      BY <1>0, <1>3, <3>1 DEF BioType
  <2>7. (IF dir[b] = "read" THEN page'[b][Spot(b)] ELSE b) \in held'[b][Cell(b)]
    BY <1>6, <2>6 DEF x0
  <2> QED
    BY <1>1, <2>1, <2>2, <2>4, <2>5, <2>7
<1> QED
  BY <1>5, <1>6

CopyStep(b) == CopyWord(b) \/ CopyLast(b)

\* What is moved after a step: what was before it, and the word of the step.
LEMMA MovedNext ==
    ASSUME BioType, NEW b \in Submitters, Progress(b), CopyStep(b)
    PROVE  /\ Progress(b)'
           /\ \A i \in 0 .. len[b] - 1, k \in Words :
                Moved(b, i, k)' => Moved(b, i, k) \/ (i = seg[b] /\ k = pos[b])
           /\ seg' \in [Submitters -> 0..Capacity]
           /\ offset' \in [Submitters -> 0..Capacity]
           /\ pos' \in [Submitters -> Words]
           /\ at' \in [Submitters -> {"idle", "copy", "end"}]
           /\ UNCHANGED <<dir, first, len>>
           /\ \A c \in Submitters : c # b =>
                /\ at'[c] = at[c] /\ seg'[c] = seg[c] /\ pos'[c] = pos[c]
                /\ offset'[c] = offset[c]
<1>1. /\ at[b] = "copy" /\ pos[b] \in Words /\ len[b] \in 1 .. Capacity
      /\ first[b] \in Sectors /\ seg[b] \in 0 .. Capacity
      /\ UNCHANGED <<dir, first, len>>
  BY DEF BioType, CopyStep, CopyWord, CopyLast, bio
<1>2. /\ seg[b] + 1 \in 1 .. len[b] /\ seg[b] + 1 \in 0 .. Capacity
      /\ offset[b] + 1 = first[b] + (seg[b] + 1)
      /\ offset[b] + 1 \in 0 .. Capacity
  BY <1>1, CopiesInside
<1>3. CASE CopyWord(b)
  <2>1. /\ pos' = [pos EXCEPT ![b] = pos[b] + 1] /\ pos[b] + 1 \in Words
        /\ UNCHANGED <<at, seg, offset>>
    BY <1>1, <1>3 DEF CopyWord, Words
  <2>2. pos'[b] = pos[b] + 1
    BY <2>1 DEF BioType
  <2>3. \A i \in 0 .. len[b] - 1, k \in Words :
            Moved(b, i, k)' => Moved(b, i, k) \/ (i = seg[b] /\ k = pos[b])
    BY <1>1, <2>1, <2>2 DEF Moved, Words
  <2>4. Progress(b)'
    BY <1>1, <2>1 DEF Progress
  <2> QED
    BY <1>1, <2>1, <2>3, <2>4 DEF BioType
<1>4. CASE CopyLast(b)
  <2>1. /\ pos' = [pos EXCEPT ![b] = 0] /\ 0 \in Words /\ pos[b] + 1 = Width
        /\ offset' = [offset EXCEPT ![b] = offset[b] + 1]
        /\ seg' = [seg EXCEPT ![b] = seg[b] + 1]
        /\ at' = [at EXCEPT ![b] = IF seg[b] + 1 < len[b] THEN "copy" ELSE "end"]
    BY <1>4 DEF CopyLast, Words, NextOffset
  <2>2. /\ pos'[b] = 0 /\ seg'[b] = seg[b] + 1 /\ offset'[b] = offset[b] + 1
        /\ at'[b] = IF seg[b] + 1 < len[b] THEN "copy" ELSE "end"
    BY <2>1 DEF BioType
  <2>3. \A i \in 0 .. len[b] - 1, k \in Words :
            Moved(b, i, k)' => Moved(b, i, k) \/ (i = seg[b] /\ k = pos[b])
    BY <1>1, <2>1, <2>2 DEF Moved, Words
  <2>4. Progress(b)'
    BY <1>1, <1>2, <2>2 DEF Progress
  <2>5. /\ seg' \in [Submitters -> 0..Capacity]
        /\ offset' \in [Submitters -> 0..Capacity]
        /\ pos' \in [Submitters -> Words]
        /\ at' \in [Submitters -> {"idle", "copy", "end"}]
    BY <1>2, <2>1 DEF BioType
  <2>6. \A c \in Submitters : c # b =>
            /\ at'[c] = at[c] /\ seg'[c] = seg[c] /\ pos'[c] = pos[c]
            /\ offset'[c] = offset[c]
    BY <2>1 DEF BioType
  <2> QED
    BY <1>1, <2>3, <2>4, <2>5, <2>6
<1> QED
  BY <1>3, <1>4 DEF CopyStep

LEMMA CopyKeeps ==
    ASSUME RamInv, NEW b \in Submitters, CopyStep(b)
    PROVE  RamInv'
<1>0. DiskType /\ LifeInv /\ BiosInv /\ BioType /\ Progress(b) /\ Copied(b)
  BY DEF RamInv, BiosInv
<1>1. at[b] = "copy" /\ Move(b) /\ UNCHANGED <<stage, ret, buff, has, stray>>
  BY DEF CopyStep, CopyWord, CopyLast, disk
<1>2. /\ UNCHANGED <<dir, first, len>>
      /\ \A c \in Submitters : c # b =>
           /\ at'[c] = at[c] /\ seg'[c] = seg[c] /\ pos'[c] = pos[c]
           /\ offset'[c] = offset[c]
  BY <1>0, MovedNext
<1>3. DiskType' /\ LifeInv'
  <2>1. \A c \in Submitters : at'[c] # "idle" => at[c] # "idle"
    BY <1>1, <1>2
  <2> QED
    BY <1>0, <1>1, <2>1 DEF DiskType, LifeInv, Whole
<1>4. BioType'
  <2>1. /\ store' \in [Cells -> Values]
        /\ page' \in [Submitters -> [Cells -> Values]]
        /\ held' \in [Submitters -> [Cells -> SUBSET Values]]
    BY <1>0, <1>1, MoveKeeps
  <2>2. /\ seg' \in [Submitters -> 0..Capacity]
        /\ offset' \in [Submitters -> 0..Capacity]
        /\ pos' \in [Submitters -> Words]
        /\ at' \in [Submitters -> {"idle", "copy", "end"}]
    BY <1>0, MovedNext
  <2> QED
    BY <1>0, <1>2, <2>1, <2>2 DEF BioType
<1>5. /\ \A c \in Submitters : at[c] # "idle" =>
           /\ \A x \in Cells : held[c][x] \subseteq held'[c][x]
           /\ \A x \in Cells : store'[x] \in held'[c][x]
      /\ \A c \in Submitters : \A x \in Cells :
           c # b \/ x # Spot(b) => page'[c][x] = page[c][x]
      /\ (IF dir[b] = "read" THEN page'[b][Spot(b)] ELSE b) \in held'[b][Cell(b)]
  BY <1>0, <1>1, MoveKeeps
<1>6. ASSUME NEW c \in Submitters, at[c] # "idle", NEW i \in 0 .. len[c] - 1,
             NEW k \in Words
      PROVE  <<first[c] + i, k>> \in Cells /\ <<i, k>> \in Cells
  <2>1. first[c] \in Sectors /\ len[c] \in 1 .. Capacity /\ Progress(c)
    BY <1>0 DEF BioType, BiosInv
  <2>2. first[c] + i \in Sectors /\ i \in Sectors
    BY <1>6, <2>1 DEF Progress, Sectors
  <2> QED
    BY <2>2 DEF Cells
<1>7. ASSUME NEW c \in Submitters, at[c] # "idle", NEW i \in 0 .. len[c] - 1,
             NEW k \in Words, Moved(c, i, k), c # b \/ <<i, k>> # Spot(b)
      PROVE  Has(c, i, k)' \in held'[c][<<first[c] + i, k>>]
  <2>1. <<first[c] + i, k>> \in Cells /\ <<i, k>> \in Cells
    BY <1>6, <1>7
  <2>2. Has(c, i, k) \in held[c][<<first[c] + i, k>>]
    BY <1>0, <1>7 DEF BiosInv, Copied
  <2>3. Has(c, i, k)' = Has(c, i, k)
    BY <1>2, <1>5, <1>7, <2>1 DEF Has
  <2> QED
    BY <1>5, <1>7, <2>1, <2>2, <2>3
<1>8. ASSUME NEW c \in Submitters, c # b PROVE Progress(c)' /\ Copied(c)'
  <2>1. /\ at'[c] = at[c] /\ seg'[c] = seg[c] /\ pos'[c] = pos[c]
        /\ offset'[c] = offset[c] /\ UNCHANGED <<dir, first, len>>
    BY <1>2, <1>8
  <2>2. Progress(c)'
    BY <1>0, <2>1 DEF BiosInv, Progress
  <2>3. \A i, k : Moved(c, i, k)' <=> Moved(c, i, k)
    BY <2>1 DEF Moved
  <2> QED
    BY <1>5, <1>7, <1>8, <2>1, <2>2, <2>3 DEF Copied
<1>9. Progress(b)' /\ Copied(b)'
  <2>1. Progress(b)'
    BY <1>0, MovedNext
  <2>2. ASSUME NEW i \in 0 .. len[b] - 1, NEW k \in Words, Moved(b, i, k)'
        PROVE  Has(b, i, k)' \in held'[b][<<first[b] + i, k>>]
    <3>1. Moved(b, i, k) \/ (i = seg[b] /\ k = pos[b])
      BY <1>0, <2>2, MovedNext
    <3>2. CASE <<i, k>> # Spot(b)
      <4>1. Moved(b, i, k)
        BY <3>1, <3>2 DEF Spot
      <4> QED
        BY <1>1, <1>7, <3>2, <4>1
    <3>3. CASE <<i, k>> = Spot(b)
      <4>1. i = seg[b] /\ k = pos[b]
        BY <3>3 DEF Spot
      <4>2. <<first[b] + i, k>> = Cell(b)
        BY <1>0, <1>1, <4>1 DEF Cell, Progress
      <4>3. Has(b, i, k)' = IF dir[b] = "read" THEN page'[b][Spot(b)] ELSE b
        BY <1>2, <3>3 DEF Has
      <4> QED
        BY <1>5, <4>2, <4>3
    <3> QED
      BY <3>2, <3>3
  <2> QED
    BY <1>1, <1>2, <1>5, <2>1, <2>2 DEF Copied
<1> QED
  BY <1>3, <1>4, <1>8, <1>9 DEF RamInv, BiosInv

\* A bio that is over leaves the others alone, and one that met no buffer is
\* one of an init that had already failed.
LEMMA ForgetKeeps ==
    ASSUME BiosInv, NEW b \in Submitters, Forget(b)
    PROVE  BiosInv' /\ \A c \in Submitters : at'[c] # "idle" => at[c] # "idle"
<1>1. BioType'
  <2>1. Blanks \in [Cells -> Values] /\ 0 \in 0 .. Capacity /\ 0 \in Words
    BY DEF Blanks, Values, Words
  <2> QED
    BY <2>1 DEF BiosInv, BioType, Forget, bio
<1>2. ASSUME NEW c \in Submitters PROVE Progress(c)' /\ Copied(c)'
  <2>1. CASE c = b
    BY <2>1 DEF BiosInv, BioType, Forget, Progress, Copied
  <2>2. CASE c # b
    BY <2>2 DEF BiosInv, BioType, Forget, Progress, Copied, Moved, Has, bio
  <2> QED
    BY <2>1, <2>2
<1> QED
  BY <1>1, <1>2 DEF BiosInv, BioType, Forget

LEMMA OverStep ==
    ASSUME RamInv, NEW b \in Submitters, CopyStray(b) \/ End(b)
    PROVE  RamInv'
<1>0. DiskType /\ LifeInv /\ BiosInv
  BY DEF RamInv
<1>1. Forget(b)
  BY DEF CopyStray, End
<1>2. BiosInv' /\ \A c \in Submitters : at'[c] # "idle" => at[c] # "idle"
  BY <1>0, <1>1, ForgetKeeps
<1>3. UNCHANGED <<ret, buff, has>>
  BY <1>1 DEF Forget
<1>4. CASE End(b)
  BY <1>0, <1>2, <1>3, <1>4 DEF RamInv, End, DiskType, LifeInv, Whole
<1>5. CASE CopyStray(b)
  <2>1. ret = "error"
    BY <1>0, <1>5 DEF CopyStray, Usable, DiskType, LifeInv
  <2>2. DiskType'
    BY <1>0, <1>3, <1>5 DEF CopyStray, DiskType
  <2>3. LifeInv'
    BY <1>0, <1>2, <1>3, <1>5, <2>1 DEF CopyStray, LifeInv
  <2> QED
    BY <1>2, <2>2, <2>3 DEF RamInv
<1> QED
  BY <1>4, <1>5

LEMMA RamNext == RamInv /\ [Next]_vars => RamInv'
<1> SUFFICES ASSUME RamInv, [Next]_vars PROVE RamInv'
  OBVIOUS
<1>1. CASE UNCHANGED vars
  BY <1>1, BiosKeep DEF RamInv, vars, bios, disk, DiskType, LifeInv, Whole
<1> QED
  BY <1>1, DiskStep, SubmitStep, CopyKeeps, OverStep DEF Next, CopyStep

\* No bio copies outside the buffer, and the disk keeps its types.
THEOREM RamTypes == Spec => []RamTypeOK
<1> QED
  BY RamParts, RamInit, RamNext, PTL DEF Spec

\* Without the lock, and with memcpy interrupted between any two words, a read
\* that is over got for each word of its sectors a value that word has held
\* meanwhile, and a write that is over was there.
THEOREM RamBios == Spec => []BiosExact
<1>1. RamInv => BiosExact
  <2> SUFFICES ASSUME RamInv, NEW b \in Submitters, at[b] = "end",
                      NEW i \in 0 .. len[b] - 1, NEW k \in Words
               PROVE  Has(b, i, k) \in held[b][<<first[b] + i, k>>]
      BY DEF BiosExact, Has
  <2>1. seg[b] = len[b] /\ len[b] \in 1 .. Capacity
    BY DEF RamInv, BiosInv, BioType, Progress
  <2>2. Moved(b, i, k)
    BY <2>1 DEF Moved
  <2> QED
    BY <2>2 DEF RamInv, BiosInv, Copied
<1> QED
  BY <1>1, RamInit, RamNext, PTL DEF Spec

\* A ramdisk_init that returned 0 has everything, its exit gives it all back,
\* and no bio of such a disk misses the buffer.
THEOREM RamZero == Spec => []ZeroMeansSound
<1>1. RamInv => ZeroMeansSound
  BY DEF RamInv, LifeInv, DiskType, ZeroMeansSound, Whole, Released
<1> QED
  BY <1>1, RamInit, RamNext, PTL DEF Spec
=============================================================================
