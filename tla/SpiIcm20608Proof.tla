-------------------------- MODULE SpiIcm20608Proof --------------------------
(***************************************************************************)
(* Proofs about the SPI driver of the ICM20608, for any number of open     *)
(* files, axes, samples and probes.  The driver's part follows which       *)
(* resources a stage holds (Has).  The line's part says who may be moving  *)
(* chip select, and that an access nobody overlaps has the chip with it    *)
(* (LineInv).  The frame's part, for one read() at a time, follows a burst *)
(* through the stack buffer and the global structure to the caller         *)
(* (Passage), whatever cut it short.                                       *)
(***************************************************************************)
EXTENDS SpiIcm20608, FiniteSetTheorems, TLAPS

\* The types, by the part of the system that changes them.
DriverTypes ==
    /\ stage \in Stages /\ step \in 1..6 /\ probes \in 0..MaxProbes
    /\ access \in {"idle", "selected", "transfer", "deselect"}
    /\ held \in [Resources -> 0..MaxProbes]
    /\ line \in {"controller", "nobody"} /\ priv \in {"NULL", "spi"}
    /\ failed \in [{"probe", "write", "overlap"} -> BOOLEAN]

ChipTypes ==
    /\ written \subseteq Settings /\ cur \in 0..MaxSample
    /\ cs \in {"high", "low", "reading", "writing"}
    /\ bus \in Readers \union {None, RegInit}
    /\ burst \in Garbage..MaxSample

UserTypes ==
    /\ fields \in [Axes -> Garbage..MaxSample]
    /\ at \in [Readers -> Places] /\ began \in [Readers -> Stages]
    /\ spi \in [Readers -> {"NULL", "spi"}]
    /\ axis \in [Readers -> Axes] /\ since \in [Readers -> 0..MaxSample]
    /\ hurt \in [Readers -> BOOLEAN]
    /\ data \in [Readers -> [Axes -> Garbage..MaxSample]]
    /\ out \in [Readers -> [Axes -> Garbage..MaxSample]]

\* Where a resource stands in the order of acquisition, and of release.
Rank == [x \in Resources |-> CASE x = "region" -> 1 [] x = "cdev" -> 2
                               [] x = "class" -> 3 [] x = "device" -> 4]
LastRank == [x \in Resources |-> CASE x = "cdev" -> 1 [] x = "region" -> 2
                                   [] x = "device" -> 3 [] x = "class" -> 4]

\* The driver is between the start of a probe and the end of its remove.
Active == stage \in {"acquire", "setup", "reg_init", "bound", "release"}

\* The probe under way, or the bound driver, holds x.
Has(x) ==
    \/ stage \in {"setup", "reg_init", "bound"}
    \/ stage = "acquire" /\ Rank[x] < step
    \/ stage = "release" /\ LastRank[x] >= step

\* What is held of each kind: at most one for each probe, besides.
Counts ==
    \A x \in Resources :
        /\ held[x] <= probes
        /\ Active /\ ~Has(x) => held[x] < probes
        /\ Has(x) => held[x] >= 1
        /\ ~failed.probe /\ Has(x) => held[x] = 1
        /\ ~failed.probe /\ ~Has(x) => held[x] = 0

Steps ==
    /\ stage = "acquire" => step \in 1..4
    /\ stage = "release" => step \in 1..5
    /\ access # "idle" => stage = "reg_init"

\* No file is open before the first probe, and a pointer that was set stays.
Fresh ==
    /\ stage = "unbound" => probes = 0 /\ \A r \in Readers : at[r] = "closed"
    /\ priv = "NULL" => stage \in {"unbound", "acquire", "setup", "failed"}

\* A pointer that a read() has loaded, and what it was loaded from.
Early == {"setup", "acquire", "failed"}

Pointers ==
    \A r \in Readers :
        /\ spi[r] = "spi" => priv = "spi"
        /\ at[r] \in {"loaded", "selected", "oops"} /\ spi[r] = "NULL" =>
             began[r] \in Early
        /\ at[r] = "oops" => spi[r] = "NULL"

Types == DriverTypes /\ ChipTypes /\ UserTypes

DriverInv == Types /\ Counts /\ Steps /\ Fresh /\ Pointers

LEMMA SpiBounds == MaxSample \in Nat /\ MaxProbes \in Nat /\ NAxes \in Nat \ {0}
BY SpiAssumption

LEMMA AcquireOrder ==
    /\ Len(Acquisitions) = 4
    /\ \A s \in 1..4 : Acquisitions[s] \in Resources
    /\ \A s \in 1..4, x \in Resources : Acquisitions[s] = x <=> Rank[x] = s
    /\ \A x \in Resources : Rank[x] \in 1..4
<1>1. Len(Acquisitions) = 4
  BY DEF Acquisitions
<1>2. /\ Acquisitions[1] = "region" /\ Acquisitions[2] = "cdev"
      /\ Acquisitions[3] = "class" /\ Acquisitions[4] = "device"
  BY DEF Acquisitions
<1>3. /\ Rank["region"] = 1 /\ Rank["cdev"] = 2
      /\ Rank["class"] = 3 /\ Rank["device"] = 4
  BY DEF Rank, Resources
<1> QED BY <1>1, <1>2, <1>3 DEF Resources

LEMMA ReleaseOrder ==
    /\ Len(Releases) = 5 /\ Releases[5] = "line" /\ "line" \notin Resources
    /\ \A s \in 1..4 : Releases[s] \in Resources
    /\ \A s \in 1..4, x \in Resources : Releases[s] = x <=> LastRank[x] = s
    /\ \A x \in Resources : LastRank[x] \in 1..4
<1>1. Len(Releases) = 5 /\ Releases[5] = "line"
  BY DEF Releases
<1>2. /\ Releases[1] = "cdev" /\ Releases[2] = "region"
      /\ Releases[3] = "device" /\ Releases[4] = "class"
  BY DEF Releases
<1>3. /\ LastRank["cdev"] = 1 /\ LastRank["region"] = 2
      /\ LastRank["device"] = 3 /\ LastRank["class"] = 4
  BY DEF LastRank, Resources
<1> QED BY <1>1, <1>2, <1>3 DEF Resources

LEMMA RegOrder ==
    /\ Len(RegSteps) = 6
    /\ RegSteps[1] = "reset" /\ RegSteps[2] = "wake" /\ RegSteps[3] = "who"
    /\ RegSteps[4] = "ranges" /\ RegSteps[5] = "filters"
    /\ RegSteps[6] = "power"
    /\ Settings = {"wake", "ranges", "filters", "power"}
<1>1. /\ Len(RegSteps) = 6
      /\ RegSteps[1] = "reset" /\ RegSteps[2] = "wake" /\ RegSteps[3] = "who"
      /\ RegSteps[4] = "ranges" /\ RegSteps[5] = "filters"
      /\ RegSteps[6] = "power"
  BY DEF RegSteps
<1>2. ASSUME NEW x
      PROVE  x \in Settings <=> x \in {"wake", "ranges", "filters", "power"}
  <2>1. x \in Settings
        <=> (\E i \in 1..6 : x = RegSteps[i]) /\ x \notin {"reset", "who"}
    BY <1>1 DEF Settings
  <2>2. (\E i \in 1..6 : x = RegSteps[i])
        <=> x \in {"reset", "wake", "who", "ranges", "filters", "power"}
    BY <1>1
  <2> QED BY <2>1, <2>2
<1>3. Settings = {"wake", "ranges", "filters", "power"}
  <2> HIDE DEF Settings
  <2> QED BY <1>2
<1> QED BY <1>1, <1>3

LEMMA TypeParts == Types => SpiTypeOK
BY RegOrder DEF SpiTypeOK, Types, DriverTypes, ChipTypes, UserTypes

LEMMA SpiInit == Init => DriverInv
<1> SUFFICES ASSUME Init PROVE DriverInv
    OBVIOUS
<1> USE SpiBounds DEF Init
<1>1. DriverTypes
  <2>1. failed \in [{"probe", "write", "overlap"} -> BOOLEAN]
    <3>1. failed = [probe |-> FALSE, write |-> FALSE, overlap |-> FALSE]
      OBVIOUS
    <3> HIDE DEF Init
    <3>2. failed \in [probe : BOOLEAN, write : BOOLEAN, overlap : BOOLEAN]
      BY <3>1
    <3>3. [probe : BOOLEAN, write : BOOLEAN, overlap : BOOLEAN]
          = [{"probe", "write", "overlap"} -> BOOLEAN]
      OBVIOUS
    <3> QED BY <3>2, <3>3
  <2>2. held \in [Resources -> 0..MaxProbes] /\ probes \in 0..MaxProbes
    OBVIOUS
  <2>3. stage = "unbound" /\ step \in 1..6 /\ priv = "NULL" /\ access = "idle"
    OBVIOUS
  <2>4. line \in {"controller", "nobody"}
    OBVIOUS
  <2> HIDE DEF Init
  <2> QED BY <2>1, <2>2, <2>3, <2>4 DEF DriverTypes, Stages
<1>2. ChipTypes
  BY DEF ChipTypes, Garbage
<1>3. UserTypes
  <2>1. /\ at \in [Readers -> Places] /\ began \in [Readers -> Stages]
        /\ spi \in [Readers -> {"NULL", "spi"}]
    BY DEF Places, Stages
  <2>2. hurt \in [Readers -> BOOLEAN]
    OBVIOUS
  <2>3. Blank \in [Axes -> Garbage..MaxSample]
    BY DEF Blank, Garbage
  <2>4. fields \in [Axes -> Garbage..MaxSample]
    BY DEF Garbage
  <2>5. axis \in [Readers -> Axes] /\ since \in [Readers -> 0..MaxSample]
    BY DEF Axes
  <2>6. /\ data \in [Readers -> [Axes -> Garbage..MaxSample]]
        /\ out \in [Readers -> [Axes -> Garbage..MaxSample]]
    BY <2>3
  <2> HIDE DEF Init
  <2> QED BY <2>1, <2>2, <2>4, <2>5, <2>6 DEF UserTypes
<1>4. Counts /\ Steps
  BY DEF Counts, Steps, Has, Active
<1>5. Fresh /\ Pointers
  BY DEF Fresh, Pointers
<1> HIDE DEF Init
<1> QED BY <1>1, <1>2, <1>3, <1>4, <1>5 DEF DriverInv, Types

-----------------------------------------------------------------------------
\* Each step of the driver keeps its invariant.  Probe and remove leave the
\* chip and the users alone.
LEMMA UsersApart ==
    ASSUME Types, Pointers, UNCHANGED <<chip, users>>,
           priv' = priv \/ priv' = "spi"
    PROVE  ChipTypes' /\ UserTypes' /\ Pointers'
<1>1. /\ UNCHANGED <<written, cur, cs, bus, burst>>
      /\ UNCHANGED <<fields, at, spi, axis, data, out, since, began, hurt>>
  BY DEF chip, users, memory, history
<1>2. ChipTypes'
  BY <1>1 DEF Types, ChipTypes
<1>3. UserTypes'
  BY <1>1 DEF Types, UserTypes
<1>4. Pointers'
  BY <1>1 DEF Pointers
<1> QED BY <1>2, <1>3, <1>4

LEMMA ProbeKeeps == DriverInv /\ Probe => DriverInv'
<1> SUFFICES ASSUME DriverInv, Probe PROVE DriverInv'
    OBVIOUS
<1>0. DriverTypes
  BY DEF DriverInv, Types
<1> DEFINE Met == \E q, r \in Readers : q # r /\ InBurst(q) /\ InBurst(r)
<1>1. /\ failed' \in [{"probe", "write", "overlap"} -> BOOLEAN]
      /\ failed'.probe = failed.probe
  <2>1. PICK b \in BOOLEAN : b = Met
    OBVIOUS
  <2>2. failed' = [[failed EXCEPT !.write = FALSE] EXCEPT !.overlap = b]
    BY <2>1 DEF Probe
  <2> QED BY <1>0, <2>2 DEF DriverTypes
<1>2. DriverTypes'
  <2>1. stage' = "acquire" /\ step' = 1 /\ probes' \in 0..MaxProbes
    BY <1>0, SpiBounds DEF Probe, DriverTypes
  <2>2. UNCHANGED <<held, priv, access, line>>
    BY DEF Probe
  <2> QED BY <1>0, <1>1, <2>1, <2>2 DEF DriverTypes, Stages
<1>3. ChipTypes' /\ UserTypes' /\ Pointers'
  BY UsersApart DEF Probe, DriverInv
<1>4. Counts'
  <2>1. \A x \in Resources : ~(Has(x)')
    BY AcquireOrder DEF Probe, Has
  <2>2. \A x \in Resources : ~Has(x) /\ held[x] \in Int
    BY <1>0 DEF Probe, Has, DriverTypes
  <2>3. probes' = probes + 1 /\ held' = held /\ probes \in Nat
    BY <1>0, SpiBounds DEF Probe, DriverTypes
  <2> QED BY <1>1, <2>1, <2>2, <2>3 DEF DriverInv, Counts
<1>5. Steps' /\ Fresh'
  BY DEF DriverInv, Steps, Fresh, Probe
<1> QED BY <1>2, <1>3, <1>4, <1>5 DEF DriverInv, Types

LEMMA AcquireKeeps == DriverInv /\ Acquire => DriverInv'
<1> SUFFICES ASSUME DriverInv, Acquire PROVE DriverInv'
    OBVIOUS
<1>0. DriverTypes
  BY DEF DriverInv, Types
<1>a. PICK a \in Resources : a = Acquisitions[step]
  BY AcquireOrder DEF DriverInv, Steps, Acquire
<1>1. /\ stage = "acquire" /\ step \in 1..4 /\ a \in Resources
      /\ held' = [held EXCEPT ![a] = held[a] + 1]
      /\ \A x \in Resources : Rank[x] = step <=> x = a
  BY <1>a, AcquireOrder DEF DriverInv, Steps, Acquire
<1>2. /\ step < 4 => stage' = "acquire" /\ step' = step + 1
      /\ step = 4 => stage' = "setup" /\ step' = 1
      /\ UNCHANGED <<access, probes, line, priv, failed>>
  BY <1>1, <1>a, AcquireOrder DEF Acquire
<1>3. /\ ~Has(a) /\ Has(a)'
      /\ \A x \in Resources : x # a => (Has(x)' <=> Has(x))
  BY <1>1, <1>2, AcquireOrder DEF Has
<1>4. \A x \in Resources : held[x] \in 0..MaxProbes
  BY <1>0 DEF DriverTypes
<1>5. /\ held[a] < probes
      /\ held'[a] = held[a] + 1
      /\ \A x \in Resources : x # a => held'[x] = held[x]
  BY <1>0, <1>1, <1>3 DEF DriverInv, Counts, Active, DriverTypes
<1>6. DriverTypes'
  <2>1. held' \in [Resources -> 0..MaxProbes]
    BY <1>0, <1>1, <1>4, <1>5, SpiBounds DEF DriverTypes
  <2>2. stage' \in Stages /\ step' \in 1..6
    BY <1>1, <1>2 DEF Stages
  <2> QED BY <1>0, <1>2, <2>1, <2>2 DEF DriverTypes
<1>7. ChipTypes' /\ UserTypes' /\ Pointers'
  BY UsersApart DEF Acquire, DriverInv
<1>8. Counts'
  <2>1. ASSUME NEW x \in Resources PROVE
          /\ held'[x] <= probes'
          /\ Active' /\ ~Has(x)' => held'[x] < probes'
          /\ Has(x)' => held'[x] >= 1
          /\ ~failed'.probe /\ Has(x)' => held'[x] = 1
          /\ ~failed'.probe /\ ~Has(x)' => held'[x] = 0
    <3>1. Active
      BY <1>1 DEF Active
    <3>2. /\ held[x] <= probes
          /\ ~Has(x) => held[x] < probes
          /\ Has(x) => held[x] >= 1
          /\ ~failed.probe /\ Has(x) => held[x] = 1
          /\ ~failed.probe /\ ~Has(x) => held[x] = 0
      BY <3>1 DEF DriverInv, Counts
    <3>3. probes \in Nat /\ held[x] \in Nat
      BY <1>0, <1>4, SpiBounds DEF DriverTypes
    <3>4. probes' = probes /\ failed'.probe = failed.probe
      BY <1>2
    <3>5. CASE x = a
      <4>1. held'[x] = held[x] + 1 /\ held[x] < probes /\ ~Has(x) /\ Has(x)'
        BY <1>3, <1>5, <3>5
      <4> QED BY <3>2, <3>3, <3>4, <4>1
    <3>6. CASE x # a
      <4>1. held'[x] = held[x] /\ (Has(x)' <=> Has(x))
        BY <1>3, <1>5, <3>6
      <4> QED BY <3>2, <3>3, <3>4, <4>1
    <3> QED BY <3>5, <3>6
  <2> QED BY <2>1 DEF Counts
<1>9. Steps' /\ Fresh'
  BY <1>1, <1>2 DEF DriverInv, Steps, Fresh, Acquire
<1> QED BY <1>6, <1>7, <1>8, <1>9 DEF DriverInv, Types

LEMMA ProbeFailsKeeps == DriverInv /\ ProbeFails => DriverInv'
<1> SUFFICES ASSUME DriverInv, ProbeFails PROVE DriverInv'
    OBVIOUS
<1>1. DriverTypes' /\ failed'.probe = TRUE
  BY DEF DriverInv, Types, ProbeFails, DriverTypes, Stages
<1>2. ChipTypes' /\ UserTypes' /\ Pointers'
  BY UsersApart DEF ProbeFails, DriverInv
<1>3. Counts'
  BY <1>1 DEF DriverInv, Counts, Has, Active, ProbeFails
<1>4. Steps' /\ Fresh'
  BY DEF DriverInv, Steps, Fresh, ProbeFails
<1> QED BY <1>1, <1>2, <1>3, <1>4 DEF DriverInv, Types

LEMMA SetupKeeps == DriverInv /\ Setup => DriverInv'
<1> SUFFICES ASSUME DriverInv, Setup PROVE DriverInv'
    OBVIOUS
<1>1. DriverTypes'
  BY DEF DriverInv, Types, Setup, DriverTypes, Stages
<1>2. ChipTypes' /\ UserTypes' /\ Pointers'
  BY UsersApart DEF Setup, DriverInv
<1>3. Counts'
  BY DEF DriverInv, Counts, Has, Active, Setup
<1>4. Steps' /\ Fresh'
  BY DEF DriverInv, Steps, Fresh, Setup
<1> QED BY <1>1, <1>2, <1>3, <1>4 DEF DriverInv, Types

LEMMA RemoveKeeps == DriverInv /\ Remove => DriverInv'
<1> SUFFICES ASSUME DriverInv, Remove PROVE DriverInv'
    OBVIOUS
<1>1. DriverTypes'
  BY DEF DriverInv, Types, Remove, DriverTypes, Stages
<1>2. ChipTypes' /\ UserTypes' /\ Pointers'
  BY UsersApart DEF Remove, DriverInv
<1>3. Counts'
  <2>1. \A x \in Resources : Has(x)' /\ Has(x)
    BY ReleaseOrder DEF Remove, Has
  <2> QED BY <2>1 DEF DriverInv, Counts, Active, Remove
<1>4. Steps' /\ Fresh'
  BY DEF DriverInv, Steps, Fresh, Remove
<1> QED BY <1>1, <1>2, <1>3, <1>4 DEF DriverInv, Types

LEMMA ReleaseKeeps == DriverInv /\ Release => DriverInv'
<1> SUFFICES ASSUME DriverInv, Release PROVE DriverInv'
    OBVIOUS
<1>0. /\ DriverTypes /\ stage = "release" /\ step \in 1..5
      /\ \A x \in Resources : held[x] \in 0..MaxProbes
  BY DEF DriverInv, Types, Release, Steps, DriverTypes
<1>1. /\ step < 5 => stage' = "release" /\ step' = step + 1
      /\ step = 5 => stage' = "removed" /\ step' = 1
      /\ UNCHANGED <<access, probes, priv, failed>>
      /\ line' \in {"nobody", line}
  BY <1>0, ReleaseOrder DEF Release, PrivAfterRemove
<1>2. ChipTypes' /\ UserTypes' /\ Pointers'
  BY <1>1, UsersApart DEF Release, DriverInv
<1>3. Steps' /\ Fresh'
  BY <1>0, <1>1 DEF DriverInv, Steps, Fresh, Release
<1>4. CASE step = 5
  <2>1. held' = held
    BY <1>4, ReleaseOrder DEF Release
  <2>2. \A x \in Resources : ~Has(x) /\ ~(Has(x)')
    BY <1>0, <1>1, <1>4, ReleaseOrder DEF Has
  <2>3. ~(Active') /\ Active
    BY <1>0, <1>1, <1>4 DEF Active
  <2>4. Counts'
    BY <1>1, <2>1, <2>2, <2>3 DEF DriverInv, Counts
  <2>5. DriverTypes'
    BY <1>0, <1>1, <1>4, <2>1 DEF DriverTypes, Stages
  <2> QED BY <1>2, <1>3, <2>4, <2>5 DEF DriverInv, Types
<1>5. CASE step < 5
  <2>a. PICK a \in Resources : a = Releases[step]
    BY <1>0, <1>5, ReleaseOrder
  <2>1. /\ step \in 1..4 /\ a \in Resources
        /\ held' = [held EXCEPT ![a] = held[a] - 1]
        /\ \A x \in Resources : LastRank[x] = step <=> x = a
    BY <1>0, <1>5, <2>a, ReleaseOrder DEF Release
  <2>2. /\ Has(a) /\ ~(Has(a)')
        /\ \A x \in Resources : x # a => (Has(x)' <=> Has(x))
    BY <1>0, <1>1, <2>1, ReleaseOrder DEF Has
  <2>3. /\ held[a] >= 1
        /\ held'[a] = held[a] - 1
        /\ \A x \in Resources : x # a => held'[x] = held[x]
    BY <1>0, <2>1, <2>2 DEF DriverInv, Counts, DriverTypes
  <2>4. DriverTypes'
    <3>1. held' \in [Resources -> 0..MaxProbes]
      BY <1>0, <2>1, <2>3, SpiBounds DEF DriverTypes
    <3>2. stage' \in Stages /\ step' \in 1..6
      BY <1>1, <1>5, <2>1 DEF Stages
    <3> QED BY <1>0, <1>1, <3>1, <3>2 DEF DriverTypes
  <2>5. Counts'
    <3>1. ASSUME NEW x \in Resources PROVE
            /\ held'[x] <= probes'
            /\ Active' /\ ~Has(x)' => held'[x] < probes'
            /\ Has(x)' => held'[x] >= 1
            /\ ~failed'.probe /\ Has(x)' => held'[x] = 1
            /\ ~failed'.probe /\ ~Has(x)' => held'[x] = 0
      <4>1. Active
        BY <1>0 DEF Active
      <4>2. /\ held[x] <= probes
            /\ ~Has(x) => held[x] < probes
            /\ Has(x) => held[x] >= 1
            /\ ~failed.probe /\ Has(x) => held[x] = 1
            /\ ~failed.probe /\ ~Has(x) => held[x] = 0
        BY <4>1 DEF DriverInv, Counts
      <4>3. probes \in Nat /\ held[x] \in Nat
        BY <1>0, SpiBounds DEF DriverTypes
      <4>4. probes' = probes /\ failed'.probe = failed.probe
        BY <1>1
      <4>5. CASE x = a
        <5>1. held'[x] = held[x] - 1 /\ held[x] >= 1 /\ Has(x) /\ ~(Has(x)')
          BY <2>2, <2>3, <4>5
        <5> QED BY <4>2, <4>3, <4>4, <5>1
      <4>6. CASE x # a
        <5>1. held'[x] = held[x] /\ (Has(x)' <=> Has(x))
          BY <2>2, <2>3, <4>6
        <5> QED BY <4>2, <4>3, <4>4, <5>1
      <4> QED BY <4>5, <4>6
    <3> QED BY <3>1 DEF Counts
  <2> QED BY <1>2, <1>3, <2>4, <2>5 DEF DriverInv, Types
<1> QED BY <1>0, <1>4, <1>5

-----------------------------------------------------------------------------
\* The line and the bus: what a helper may do to the types.
LEMMA LowerType == ChipTypes => Lower \in {"high", "low", "reading", "writing"}
BY DEF ChipTypes, Lower

LEMMA StartTypes ==
    ASSUME ChipTypes, NEW who \in Readers \union {RegInit},
           NEW command \in {"reading", "writing"}, Start(who, command)
    PROVE  /\ bus' \in Readers \union {None, RegInit}
           /\ burst' \in Garbage..MaxSample /\ written' \subseteq Settings
           /\ cs' \in {"high", "low", "reading", "writing"}
<1>1. burst' \in Garbage..MaxSample
  BY SpiBounds DEF Start, ChipTypes, Garbage
<1>2. written' \subseteq Settings
  <2>1. written' \in SUBSET written \/ written' \in {written}
    BY DEF Start
  <2> QED BY <2>1 DEF ChipTypes
<1>3. bus' = who /\ cs' \in {"high", "low", "reading", "writing"}
  BY DEF Start, ChipTypes
<1> QED BY <1>1, <1>2, <1>3

LEMMA ArrivedType ==
    ASSUME ChipTypes, UserTypes, NEW r \in Readers, NEW n
    PROVE  Arrived(r, n) \in [Axes -> Garbage..MaxSample]
<1>1. data[r] \in [Axes -> Garbage..MaxSample]
  BY DEF UserTypes
<1>2. burst \in Garbage..MaxSample
  BY DEF ChipTypes
<1> HIDE DEF Garbage, Axes
<1> QED BY <1>1, <1>2 DEF Arrived

LEMMA RaiseTypes ==
    ASSUME ChipTypes, UserTypes, Raise
    PROVE  /\ cs' = "high" /\ burst' = Garbage /\ burst' \in Garbage..MaxSample
           /\ data' \in [Readers -> [Axes -> Garbage..MaxSample]]
<1>1. cs' = "high" /\ burst' = Garbage
  BY DEF Raise
<1>2. Garbage \in Garbage..MaxSample
  BY SpiBounds DEF Garbage
<1>3. data \in [Readers -> [Axes -> Garbage..MaxSample]]
  BY DEF UserTypes
<1>4. CASE bus \in Readers
  <2>1. PICK n : data' = [data EXCEPT ![bus] = Arrived(bus, n)]
    BY <1>4 DEF Raise
  <2>2. Arrived(bus, n) \in [Axes -> Garbage..MaxSample]
    BY <1>4, ArrivedType
  <2> QED BY <1>1, <1>2, <1>3, <1>4, <2>1, <2>2
<1>5. CASE bus \notin Readers
  BY <1>1, <1>2, <1>3, <1>5 DEF Raise
<1> QED BY <1>4, <1>5

\* The registrations do not notice reg_init.
LEMMA RegistersKeep == DriverInv /\ Registers => DriverInv'
<1> SUFFICES ASSUME DriverInv, Registers PROVE DriverInv'
    OBVIOUS
<1>0. DriverTypes /\ ChipTypes /\ UserTypes /\ MaxSample \in Nat
  BY SpiBounds DEF DriverInv, Types
<1>1. /\ stage = "reg_init" /\ stage' \in {"reg_init", "bound"}
      /\ UNCHANGED <<probes, held, line, priv>>
      /\ UNCHANGED <<fields, at, spi, axis, out, began>> /\ step' \in 1..6
      /\ access' \in {"idle", "selected", "transfer", "deselect"}
      /\ access' # "idle" => stage' = "reg_init"
  <2>1. CASE RegSelect
    BY <1>0, <2>1 DEF RegSelect, DriverTypes, memory
  <2>2. CASE RegTransfer
    BY <1>0, <2>2 DEF RegTransfer, DriverTypes, DriverInv, Steps, users, memory,
                      history
  <2>3. CASE RegTransferEnds
    BY <1>0, <2>3 DEF RegTransferEnds, DriverTypes, DriverInv, Steps, memory
  <2>4. CASE RegDeselect
    BY <1>0, <2>4, RegOrder DEF RegDeselect, DriverTypes, DriverInv, Steps,
                                history
  <2> QED BY <2>1, <2>2, <2>3, <2>4 DEF Registers
<1>2. /\ failed' \in [{"probe", "write", "overlap"} -> BOOLEAN]
      /\ failed'.probe = failed.probe
  <2>1. CASE RegSelect
    <3>1. PICK b \in BOOLEAN :
             b = (failed.overlap \/ \E r \in Readers : InBurst(r))
      OBVIOUS
    <3>2. failed' = [failed EXCEPT !.overlap = b]
      BY <2>1, <3>1 DEF RegSelect
    <3> QED BY <1>0, <3>2 DEF DriverTypes
  <2>2. CASE ~RegSelect
    <3>1. failed' = failed \/ failed' = [failed EXCEPT !.write = TRUE]
      BY <2>2 DEF Registers, RegTransfer, RegTransferEnds, RegDeselect
    <3> QED BY <1>0, <3>1 DEF DriverTypes
  <2> QED BY <2>1, <2>2
<1>3. /\ ChipTypes'
      /\ hurt' \in [Readers -> BOOLEAN]
      /\ since' \in [Readers -> 0..MaxSample]
      /\ data' \in [Readers -> [Axes -> Garbage..MaxSample]]
  <2>1. CASE RegSelect
    <3>1. hurt' = [r \in Readers |-> hurt[r] \/ InBurst(r)]
      BY <2>1 DEF RegSelect
    <3>2. \A r \in Readers : (hurt[r] \/ InBurst(r)) \in BOOLEAN
      OBVIOUS
    <3>3. hurt' \in [Readers -> BOOLEAN]
      BY <3>1, <3>2, Zenon
    <3>4. UNCHANGED <<written, cur, bus, burst, since, data>> /\ cs' = Lower
      BY <2>1 DEF RegSelect, memory
    <3> QED BY <1>0, <3>3, <3>4, LowerType DEF ChipTypes, UserTypes
  <2>2. CASE RegTransfer
    <3>1. PICK command \in {"reading", "writing"} : Start(RegInit, command)
      BY <2>2 DEF RegTransfer
    <3>2. UNCHANGED <<cur, since, data, hurt>>
      BY <2>2 DEF RegTransfer, users, memory, history
    <3> QED BY <1>0, <3>1, <3>2, StartTypes DEF ChipTypes, UserTypes
  <2>3. CASE RegTransferEnds
    <3>1. /\ bus' = None /\ burst' \in Garbage..MaxSample
          /\ UNCHANGED <<cs, data, hurt>>
      BY <1>0, <2>3 DEF RegTransferEnds, memory, Garbage
    <3>2. CASE UNCHANGED <<written, cur, since>>
      BY <1>0, <3>1, <3>2 DEF ChipTypes, UserTypes
    <3>3. CASE TakesEffect(RegSteps[step])
      <4>1. \/ written' = {} /\ cur' = 0 /\ since' = [r \in Readers |-> 0]
            \/ UNCHANGED <<written, cur, since>>
            \/ written' = written \union {RegSteps[step]}
               /\ UNCHANGED <<cur, since>> /\ RegSteps[step] \in Settings
        <5>1. RegSteps[step] \in {"reset", "who"} \union Settings
          BY <1>0, RegOrder DEF DriverTypes
        <5> QED BY <3>3, <5>1 DEF TakesEffect
      <4>2. written' \subseteq Settings /\ cur' \in 0..MaxSample
        BY <1>0, <4>1 DEF ChipTypes
      <4>3. since' \in [Readers -> 0..MaxSample]
        BY <1>0, <4>1 DEF UserTypes
      <4> QED BY <1>0, <3>1, <4>2, <4>3 DEF ChipTypes, UserTypes
    <3> QED BY <2>3, <3>2, <3>3 DEF RegTransferEnds
  <2>4. CASE RegDeselect
    <3>1. UNCHANGED <<written, cur, bus, since, hurt>> /\ Raise
      BY <2>4 DEF RegDeselect, history
    <3> QED BY <1>0, <3>1, RaiseTypes DEF ChipTypes, UserTypes
  <2> QED BY <2>1, <2>2, <2>3, <2>4 DEF Registers
<1>4. DriverTypes' /\ UserTypes'
  <2>1. DriverTypes'
    BY <1>0, <1>1, <1>2 DEF DriverTypes, Stages
  <2>2. UserTypes'
    BY <1>0, <1>1, <1>3 DEF UserTypes
  <2> QED BY <2>1, <2>2
<1>5. Counts'
  BY <1>1, <1>2 DEF DriverInv, Counts, Has, Active
<1>6. Steps' /\ Fresh' /\ Pointers'
  BY <1>1 DEF DriverInv, Steps, Fresh, Pointers
<1> QED BY <1>3, <1>4, <1>5, <1>6 DEF DriverInv, Types

LEMMA SampleKeeps == DriverInv /\ Sample => DriverInv'
<1> SUFFICES ASSUME DriverInv, Sample PROVE DriverInv'
    OBVIOUS
<1>1. /\ UNCHANGED <<stage, step, access, probes, held, line, priv, failed>>
      /\ UNCHANGED <<written, cs, bus, burst>>
      /\ UNCHANGED <<fields, at, spi, axis, data, out, since, began, hurt>>
      /\ cur' = cur + 1 /\ cur < MaxSample
  BY DEF Sample, driver, users, memory, history
<1>2. DriverTypes' /\ UserTypes'
  <2>1. DriverTypes'
    BY <1>1 DEF DriverInv, Types, DriverTypes
  <2>2. UserTypes'
    BY <1>1 DEF DriverInv, Types, UserTypes
  <2> QED BY <2>1, <2>2
<1>3. ChipTypes'
  BY <1>1, SpiBounds DEF DriverInv, Types, ChipTypes
<1>4. Counts' /\ Steps' /\ Fresh' /\ Pointers'
  BY <1>1 DEF DriverInv, Counts, Has, Active, Steps, Fresh, Pointers
<1> QED BY <1>2, <1>3, <1>4 DEF DriverInv, Types

\* The users leave the driver alone, but for the note that two accesses to the
\* chip overlapped.
LEMMA UsersDriver ==
    ASSUME NEW r \in Readers, Open(r) \/ Close(r) \/ Read(r)
    PROVE  /\ UNCHANGED <<stage, step, access, probes, held, line, priv, cur>>
           /\ \/ failed' = failed
              \/ \E b \in BOOLEAN : failed' = [failed EXCEPT !.overlap = b]
<1>1. CASE Select(r)
  <2>1. UNCHANGED <<stage, step, access, probes, held, line, priv, cur>>
    BY <1>1 DEF Select
  <2>2. PICK met : failed' = [failed EXCEPT !.overlap =
                                 failed.overlap \/ met # {} \/ access # "idle"]
    BY <1>1 DEF Select
  <2>3. PICK b \in BOOLEAN :
           b = (failed.overlap \/ met # {} \/ access # "idle")
    OBVIOUS
  <2> QED BY <2>1, <2>2, <2>3
<1>2. CASE ~Select(r)
  BY <1>2 DEF Open, Close, Read, Load, Transfer, TransferEnds, Deselect,
              Store, Copy, Return, driver, chip
<1> QED BY <1>1, <1>2

LEMMA UserTypesKept ==
    ASSUME Types, NEW r \in Readers, Open(r) \/ Close(r) \/ Read(r)
    PROVE  ChipTypes' /\ UserTypes'
<1>0. ChipTypes /\ UserTypes /\ DriverTypes
  BY DEF Types
<1>1. MaxSample \in Nat /\ NAxes \in Nat \ {0} /\ 1 \in Axes
  BY SpiBounds DEF Axes
<1>2. Blank \in [Axes -> Garbage..MaxSample]
  BY <1>1 DEF Blank, Garbage
<1>3. CASE Open(r) \/ Close(r)
  <2>1. /\ UNCHANGED <<written, cur, cs, bus, burst>>
        /\ UNCHANGED <<fields, spi, axis, data, out, since, began, hurt>>
        /\ at' \in [Readers -> Places]
    BY <1>0, <1>3 DEF Open, Close, UserTypes, chip, memory, history, Places
  <2> QED BY <1>0, <2>1 DEF ChipTypes, UserTypes
<1>4. CASE Load(r)
  <2>1. /\ UNCHANGED <<written, cur, cs, bus, burst>>
        /\ UNCHANGED <<fields, axis, data, out, hurt>>
    BY <1>4 DEF Load, chip
  <2>2. at' \in [Readers -> Places] /\ began' \in [Readers -> Stages]
    BY <1>0, <1>4 DEF Load, UserTypes, DriverTypes, Places
  <2>3. /\ spi' \in [Readers -> {"NULL", "spi"}]
        /\ since' \in [Readers -> 0..MaxSample]
    BY <1>0, <1>4 DEF Load, UserTypes, DriverTypes, ChipTypes
  <2> QED BY <1>0, <2>1, <2>2, <2>3 DEF ChipTypes, UserTypes
<1>5. CASE Select(r)
  <2>1. /\ UNCHANGED <<written, cur, bus, burst>>
        /\ UNCHANGED <<fields, spi, axis, data, out, since, began>>
        /\ cs' \in {cs, Lower}
    BY <1>5 DEF Select, memory
  <2>2. at' \in [Readers -> Places]
    BY <1>0, <1>5 DEF Select, UserTypes, Places
  <2>3. hurt' \in [Readers -> BOOLEAN]
    <3>1. PICK met, others : hurt' = [q \in Readers |->
                         hurt[q] \/ q \in met \/ (q = r /\ others)]
      BY <1>5 DEF Select
    <3>2. \A q \in Readers :
             (hurt[q] \/ q \in met \/ (q = r /\ others)) \in BOOLEAN
      OBVIOUS
    <3> QED BY <3>1, <3>2, Zenon
  <2>4. ChipTypes'
    BY <1>0, <2>1, LowerType DEF ChipTypes
  <2> QED BY <1>0, <2>1, <2>2, <2>3, <2>4 DEF UserTypes
<1>6. CASE Transfer(r)
  <2>1. /\ UNCHANGED <<fields, spi, axis, data, out, since, began, hurt>>
        /\ UNCHANGED cur
    BY <1>6 DEF Transfer, memory, history
  <2>2. at' \in [Readers -> Places]
    BY <1>0, <1>6 DEF Transfer, UserTypes, Places
  <2>3. CASE UNCHANGED <<written, cs, bus, burst>>
    BY <1>0, <2>1, <2>2, <2>3 DEF ChipTypes, UserTypes
  <2>4. CASE Start(r, "reading")
    BY <1>0, <2>1, <2>2, <2>4, StartTypes DEF ChipTypes, UserTypes
  <2> QED BY <1>6, <2>3, <2>4 DEF Transfer
<1>7. CASE TransferEnds(r)
  <2>1. /\ UNCHANGED <<written, cur, cs>>
        /\ UNCHANGED <<fields, spi, axis, out, since, began>>
        /\ bus' = None /\ burst' \in Garbage..MaxSample
    BY <1>1, <1>7 DEF TransferEnds, Garbage
  <2>2. at' \in [Readers -> Places] /\ hurt' \in [Readers -> BOOLEAN]
    <3>1. at' \in [Readers -> Places]
      BY <1>0, <1>7 DEF TransferEnds, UserTypes, Places
    <3>2. hurt' = hurt \/ hurt' = [hurt EXCEPT ![r] = TRUE]
      BY <1>7 DEF TransferEnds
    <3> QED BY <1>0, <3>1, <3>2 DEF UserTypes
  <2>3. PICK n : data' = [data EXCEPT ![r] = Arrived(r, n)]
    BY <1>7 DEF TransferEnds
  <2>4. data' \in [Readers -> [Axes -> Garbage..MaxSample]]
    BY <1>0, <2>3, ArrivedType DEF UserTypes
  <2> QED BY <1>0, <2>1, <2>2, <2>4 DEF ChipTypes, UserTypes
<1>8. CASE Deselect(r)
  <2>1. /\ UNCHANGED <<written, cur, bus>> /\ Raise
        /\ UNCHANGED <<fields, spi, out, since, began, hurt>>
    BY <1>8 DEF Deselect, history
  <2>2. at' \in [Readers -> Places] /\ axis' \in [Readers -> Axes]
    BY <1>0, <1>1, <1>8 DEF Deselect, UserTypes, Places
  <2> QED BY <1>0, <2>1, <2>2, RaiseTypes DEF ChipTypes, UserTypes
<1>9. CASE Store(r)
  <2>1. /\ UNCHANGED <<written, cur, cs, bus, burst>>
        /\ UNCHANGED <<spi, data, out, since, began, hurt>>
    BY <1>9 DEF Store, chip, history
  <2>2. axis[r] \in Axes /\ data[r][axis[r]] \in Garbage..MaxSample
    BY <1>0 DEF UserTypes
  <2>3. fields' \in [Axes -> Garbage..MaxSample]
    BY <1>0, <1>9, <2>2 DEF Store, UserTypes
  <2>4. axis' \in [Readers -> Axes]
    <3>1. \/ axis[r] < NAxes /\ axis' = [axis EXCEPT ![r] = axis[r] + 1]
          \/ axis' = [axis EXCEPT ![r] = 1]
      BY <1>9 DEF Store, LastAxis
    <3>2. axis[r] < NAxes => axis[r] + 1 \in Axes
      BY <1>1, <2>2 DEF Axes
    <3>3. axis \in [Readers -> Axes]
      BY <1>0 DEF UserTypes
    <3> QED BY <1>1, <3>1, <3>2, <3>3
  <2>5. at' \in [Readers -> Places]
    BY <1>0, <1>9 DEF Store, UserTypes, Places
  <2> QED BY <1>0, <2>1, <2>3, <2>4, <2>5 DEF ChipTypes, UserTypes
<1>10. CASE Copy(r)
  <2>1. /\ UNCHANGED <<written, cur, cs, bus, burst>>
        /\ UNCHANGED <<fields, spi, data, since, began, hurt>>
    BY <1>10 DEF Copy, chip, history
  <2>2. axis[r] \in Axes /\ fields[axis[r]] \in Garbage..MaxSample
    BY <1>0 DEF UserTypes
  <2>3. out' \in [Readers -> [Axes -> Garbage..MaxSample]]
    BY <1>0, <1>10, <2>2 DEF Copy, UserTypes
  <2>4. axis' \in [Readers -> Axes]
    <3>1. \/ axis[r] < NAxes /\ axis' = [axis EXCEPT ![r] = axis[r] + 1]
          \/ axis' = [axis EXCEPT ![r] = 1]
      BY <1>10 DEF Copy
    <3>2. axis[r] < NAxes => axis[r] + 1 \in Axes
      BY <1>1, <2>2 DEF Axes
    <3>3. axis \in [Readers -> Axes]
      BY <1>0 DEF UserTypes
    <3> QED BY <1>1, <3>1, <3>2, <3>3
  <2>5. at' \in [Readers -> Places]
    BY <1>0, <1>10 DEF Copy, UserTypes, Places
  <2> QED BY <1>0, <2>1, <2>3, <2>4, <2>5 DEF ChipTypes, UserTypes
<1>11. CASE Return(r)
  <2>1. UNCHANGED <<written, cur, cs, bus, burst>> /\ UNCHANGED <<fields, axis>>
    BY <1>11 DEF Return, chip
  <2>2. /\ data' \in [Readers -> [Axes -> Garbage..MaxSample]]
        /\ out' \in [Readers -> [Axes -> Garbage..MaxSample]]
    BY <1>0, <1>2, <1>11 DEF Return, UserTypes
  <2>3. since' \in [Readers -> 0..MaxSample] /\ began' \in [Readers -> Stages]
    BY <1>0, <1>1, <1>11 DEF Return, UserTypes, Stages
  <2>4. hurt' \in [Readers -> BOOLEAN]
    BY <1>0, <1>11 DEF Return, UserTypes
  <2>5. at' \in [Readers -> Places] /\ spi' \in [Readers -> {"NULL", "spi"}]
    BY <1>0, <1>11 DEF Return, UserTypes, Places
  <2> QED BY <1>0, <2>1, <2>2, <2>3, <2>4, <2>5 DEF ChipTypes, UserTypes
<1> QED BY <1>3, <1>4, <1>5, <1>6, <1>7, <1>8, <1>9, <1>10, <1>11 DEF Read

LEMMA PointersKept ==
    ASSUME DriverInv, NEW r \in Readers, Open(r) \/ Close(r) \/ Read(r)
    PROVE  Pointers' /\ stage # "unbound"
<1>0. UserTypes /\ DriverTypes /\ Pointers /\ Fresh /\ priv' = priv
  BY UsersDriver DEF DriverInv, Types
<1>1. stage # "unbound"
  <2>1. SUFFICES ASSUME stage = "unbound" PROVE FALSE
    OBVIOUS
  <2>2. probes = 0 /\ at[r] = "closed"
    BY <1>0, <2>1 DEF Fresh
  <2>3. ~(held["device"] > 0)
    BY <2>2 DEF DriverInv, Types, DriverTypes, Counts, Resources
  <2> QED BY <2>2, <2>3 DEF Open, Close, Read, Load, Select, Transfer,
             TransferEnds, Deselect, Store, Copy, Return
<1>2. ASSUME NEW q \in Readers, q # r
      PROVE  at'[q] = at[q] /\ spi'[q] = spi[q] /\ began'[q] = began[q]
  BY <1>0, <1>2 DEF Open, Close, Read, Load, Select, Transfer, TransferEnds,
                    Deselect, Store, Copy, Return, memory, history, UserTypes
<1>3. /\ spi[r] = "spi" => priv = "spi"
      /\ at[r] \in {"loaded", "selected", "oops"} /\ spi[r] = "NULL" =>
           began[r] \in Early
      /\ at[r] = "oops" => spi[r] = "NULL"
  BY <1>0 DEF Pointers
<1> DEFINE Mine == /\ spi'[r] = "spi" => priv' = "spi"
                   /\ at'[r] \in {"loaded", "selected", "oops"}
                        /\ spi'[r] = "NULL" => began'[r] \in Early
                   /\ at'[r] = "oops" => spi'[r] = "NULL"
<1>4. ASSUME Load(r) PROVE Mine
  <2>1. at'[r] = "loaded" /\ spi'[r] = priv /\ began'[r] = stage
    BY <1>0, <1>4 DEF Load, UserTypes
  <2>2. priv = "NULL" => stage \in Early
    BY <1>0, <1>1 DEF Fresh, Early
  <2> QED BY <1>0, <2>1, <2>2
<1>5. ASSUME Return(r) PROVE Mine
  <2>1. at'[r] = "open" /\ spi'[r] = "NULL"
    BY <1>0, <1>5 DEF Return, UserTypes
  <2> QED BY <2>1
<1>6. ASSUME Select(r) \/ Transfer(r) PROVE Mine
  <2>1. /\ at[r] \in {"loaded", "selected"}
        /\ spi'[r] = spi[r] /\ began'[r] = began[r]
        /\ at'[r] = "oops" => spi[r] = "NULL"
    BY <1>0, <1>6 DEF Select, Transfer, memory, history, UserTypes
  <2> QED BY <1>0, <1>3, <2>1
<1>7. ASSUME \/ Open(r) \/ Close(r) \/ TransferEnds(r) \/ Deselect(r)
             \/ Store(r) \/ Copy(r)
      PROVE  Mine
  <2>1. /\ spi'[r] = spi[r]
        /\ at'[r] \notin {"loaded", "selected", "oops"}
    BY <1>0, <1>7 DEF Open, Close, TransferEnds, Deselect, Store, Copy, memory,
                      history, UserTypes
  <2> QED BY <1>0, <1>3, <2>1
<1>8. Mine
  BY <1>4, <1>5, <1>6, <1>7 DEF Read
<1> QED BY <1>0, <1>1, <1>2, <1>8 DEF Pointers

LEMMA UsersKeep ==
    ASSUME DriverInv, NEW r \in Readers, Open(r) \/ Close(r) \/ Read(r)
    PROVE  DriverInv'
<1>1. /\ UNCHANGED <<stage, step, access, probes, held, line, priv>>
      /\ failed' \in [{"probe", "write", "overlap"} -> BOOLEAN]
      /\ failed'.probe = failed.probe
  BY UsersDriver DEF DriverInv, Types, DriverTypes
<1>2. Counts' /\ Steps' /\ Fresh'
  BY <1>1, PointersKept DEF DriverInv, Counts, Has, Active, Steps, Fresh
<1>3. DriverTypes'
  BY <1>1 DEF DriverInv, Types, DriverTypes
<1>4. Types
  BY DEF DriverInv
<1> QED BY <1>2, <1>3, <1>4, UserTypesKept, PointersKept DEF DriverInv, Types

LEMMA SpiNext == DriverInv /\ [Next]_vars => DriverInv'
<1> SUFFICES ASSUME DriverInv, [Next]_vars PROVE DriverInv'
    OBVIOUS
<1>1. CASE UNCHANGED vars
  <2>1. /\ UNCHANGED <<stage, step, access, probes, held, line, priv, failed>>
        /\ UNCHANGED <<chip, users>>
    BY <1>1 DEF vars, driver
  <2>2. DriverTypes'
    BY <2>1 DEF DriverInv, Types, DriverTypes
  <2>3. Counts' /\ Steps'
    BY <2>1 DEF DriverInv, Counts, Has, Active, Steps
  <2>4. Fresh'
    BY <2>1 DEF DriverInv, Fresh, users
  <2> QED BY <2>1, <2>2, <2>3, <2>4, UsersApart DEF DriverInv, Types
<1>2. CASE \E r \in Readers : Open(r) \/ Close(r) \/ Read(r)
  BY <1>2, UsersKeep
<1>3. CASE Probe \/ Acquire \/ ProbeFails \/ Setup \/ Registers
  BY <1>3, ProbeKeeps, AcquireKeeps, ProbeFailsKeeps, SetupKeeps, RegistersKeep
<1>4. CASE Remove \/ Release \/ Sample
  BY <1>4, RemoveKeeps, ReleaseKeeps, SampleKeeps
<1> QED BY <1>1, <1>2, <1>3, <1>4 DEF Next

LEMMA SpiInv == Spec => []DriverInv
BY SpiInit, SpiNext, PTL DEF Spec

\* Every variable keeps its type, for any number of files, axes, samples and
\* probes: remove gives back none of probe's registrations twice
\* (spi_ICM20608.c, icm20608_remove).
THEOREM SpiTypes == Spec => []SpiTypeOK
<1>1. DriverInv => SpiTypeOK
  BY TypeParts DEF DriverInv
<1> QED BY <1>1, SpiInv, PTL

\* Without a probe that failed half way, remove gives back all that was taken
\* (icm20608_remove).
THEOREM SpiReleases == Spec => []RemoveReleasesAll
<1>1. DriverInv => RemoveReleasesAll
  BY DEF DriverInv, Counts, Has, RemoveReleasesAll
<1> QED BY <1>1, SpiInv, PTL

\* A read() dies of a null spi_device only if it began before a probe had come
\* to its end, however long it took from the load of the pointer to its use
\* (spi_icm20608_read_regs and icm20608_probe).
THEOREM SpiNull == Spec => []NullOnlyUnfinished
<1>1. DriverInv => NullOnlyUnfinished
  BY DEF DriverInv, Pointers, Early, NullOnlyUnfinished
<1> QED BY <1>1, SpiInv, PTL

-----------------------------------------------------------------------------
\* The chip select line.  The bus carries the transfer of whoever is in one.
Bus ==
    /\ \A r \in Readers : at[r] = "transfer" <=> bus = r
    /\ access = "transfer" <=> bus = RegInit

\* Chip select stays low in a command only while its owner is there to raise it.
Commands ==
    cs \in {"reading", "writing"} =>
        \/ access \in {"transfer", "deselect"}
        \/ \E r \in Readers : at[r] \in {"transfer", "deselect"}

\* Two accesses at once are noted.
Overlaps ==
    ~failed.overlap =>
        /\ access # "idle" => \A r \in Readers : ~InBurst(r)
        /\ \A q, r \in Readers : InBurst(q) /\ InBurst(r) => q = r

\* And an access of reg_init's that is alone has the chip with it.
Settled ==
    ~failed.overlap =>
        /\ access = "selected" => cs = "low"
        /\ access = "transfer" => burst # Garbage

\* What the chip is set to after each step of reg_init.
SetAfter == <<{}, {"wake"}, {"wake"}, {"wake", "ranges"},
              {"wake", "ranges", "filters"}, Settings>>

Written ==
    ~failed.write /\ ~failed.overlap =>
        /\ access = "deselect" => written = SetAfter[step]
        /\ stage = "reg_init" /\ access # "deselect" /\ step > 1 =>
             written = SetAfter[step - 1]
        /\ stage = "bound" => written = Settings

LineInv == Bus /\ Commands /\ Overlaps /\ Settled /\ Written

LEMMA Names == None \notin Readers /\ RegInit \notin Readers /\ None # RegInit
BY SpiAssumption DEF None, RegInit

LEMMA LineInit == Init => LineInv
<1> SUFFICES ASSUME Init PROVE LineInv
    OBVIOUS
<1>1. Bus
  BY Names DEF Init, Bus, None, RegInit
<1>2. Commands /\ Overlaps /\ Settled /\ Written
  BY DEF Init, Commands, Overlaps, Settled, Written, InBurst
<1> QED BY <1>1, <1>2 DEF LineInv

\* An action that leaves the line, the bus and the accesses as they are.
LEMMA LineApart ==
    ASSUME LineInv, UNCHANGED <<access, cs, bus, burst, written>>,
           failed'.overlap = failed.overlap,
           \A r \in Readers : \/ at'[r] = at[r]
                              \/ ~InBurst(r) /\ ~(InBurst(r)')
    PROVE  Bus' /\ Commands' /\ Overlaps' /\ Settled'
<1>1. \A r \in Readers : /\ at'[r] = "transfer" <=> at[r] = "transfer"
                         /\ at'[r] = "deselect" <=> at[r] = "deselect"
                         /\ InBurst(r)' <=> InBurst(r)
  BY DEF InBurst
<1>2. Bus'
  BY <1>1 DEF LineInv, Bus
<1>3. Commands'
  BY <1>1 DEF LineInv, Commands
<1>4. Overlaps' /\ Settled'
  BY <1>1 DEF LineInv, Overlaps, Settled
<1> QED BY <1>2, <1>3, <1>4

LEMMA DriverKeepsLine ==
    ASSUME DriverInv, LineInv,
           Probe \/ Acquire \/ ProbeFails \/ Setup \/ Remove \/ Release
    PROVE  LineInv'
<1>0. /\ UNCHANGED <<access, cs, bus, burst, written, at>> /\ access = "idle"
      /\ DriverTypes
  <2>1. UNCHANGED <<access, cs, bus, burst, written, at>>
    BY DEF Probe, Acquire, ProbeFails, Setup, Remove, Release, chip, users
  <2>2. stage # "reg_init"
    BY DEF Probe, Acquire, ProbeFails, Setup, Remove, Release
  <2> QED BY <2>1, <2>2 DEF DriverInv, Steps, Types
<1>1. CASE Probe
  <2> DEFINE Met == \E q, r \in Readers : q # r /\ InBurst(q) /\ InBurst(r)
  <2>1. failed'.overlap <=> Met
    <3>1. PICK b \in BOOLEAN : b = Met
      OBVIOUS
    <3>2. failed' = [[failed EXCEPT !.write = FALSE] EXCEPT !.overlap = b]
      BY <1>1, <3>1 DEF Probe
    <3> QED BY <1>0, <3>1, <3>2 DEF DriverTypes
  <2>2. Bus' /\ Commands'
    BY <1>0 DEF LineInv, Bus, Commands
  <2>3. Overlaps'
    BY <1>0, <2>1 DEF Overlaps, InBurst
  <2>4. Settled' /\ Written'
    BY <1>0, <1>1 DEF Settled, Written, Probe
  <2> QED BY <2>2, <2>3, <2>4 DEF LineInv
<1>2. CASE Acquire \/ ProbeFails \/ Setup \/ Remove \/ Release
  <2>1. failed'.overlap = failed.overlap /\ failed'.write = failed.write
    BY <1>0, <1>2 DEF Acquire, ProbeFails, Setup, Remove, Release, DriverTypes
  <2>2. Written'
    BY <1>0, <1>2, <2>1 DEF LineInv, Written, Acquire, ProbeFails, Setup,
                            Remove, Release
  <2> QED BY <1>0, <2>1, <2>2, LineApart DEF LineInv
<1> QED BY <1>1, <1>2

\* When nobody is in an access, the line is high, or low since a read() died.
LEMMA LineFree ==
    ASSUME Types, Bus, Commands, access = "idle", \A r \in Readers : ~InBurst(r)
    PROVE  bus = None /\ Lower = "low"
<1>1. bus = None
  BY DEF Bus, InBurst, Types, ChipTypes
<1>2. cs \in {"high", "low"}
  BY DEF Commands, InBurst, Types, ChipTypes
<1> QED BY <1>1, <1>2 DEF Lower

LEMMA LowerCommands ==
    ASSUME Types, LineInv, cs' \in {cs, Lower}, cs' \in {"reading", "writing"}
    PROVE  \/ access \in {"transfer", "deselect"}
           \/ \E r \in Readers : at[r] \in {"transfer", "deselect"}
<1>1. CASE cs \in {"reading", "writing"}
  BY <1>1 DEF LineInv, Commands
<1>2. CASE cs \notin {"reading", "writing"}
  <2>1. bus # None
    BY <1>2 DEF Lower
  <2> QED BY <2>1 DEF LineInv, Bus, Types, ChipTypes
<1> QED BY <1>1, <1>2

LEMMA SetOrder ==
    ASSUME NEW s \in 1..6, NEW w, NEW w2,
           s > 1 => w = SetAfter[s - 1],
           w2 = CASE RegSteps[s] = "reset" -> {}
                  [] RegSteps[s] = "who" -> w
                  [] OTHER -> w \union {RegSteps[s]}
    PROVE  w2 = SetAfter[s]
<1>1. /\ SetAfter[1] = {} /\ SetAfter[2] = {"wake"} /\ SetAfter[3] = {"wake"}
      /\ SetAfter[4] = {"wake", "ranges"}
      /\ SetAfter[5] = {"wake", "ranges", "filters"}
      /\ SetAfter[6] = Settings
  BY DEF SetAfter
<1>2. s = 1 \/ s = 2 \/ s = 3 \/ s = 4 \/ s = 5 \/ s = 6
  OBVIOUS
<1> HIDE DEF SetAfter
<1>3. CASE s = 1
  BY <1>1, <1>3, RegOrder
<1>4. CASE s = 2
  BY <1>1, <1>4, RegOrder
<1>5. CASE s = 3
  BY <1>1, <1>5, RegOrder
<1>6. CASE s = 4
  BY <1>1, <1>6, RegOrder
<1>7. CASE s = 5
  BY <1>1, <1>7, RegOrder
<1>8. CASE s = 6
  <2>1. w = {"wake", "ranges", "filters"} /\ w2 = w \union {"power"}
    BY <1>1, <1>8, RegOrder
  <2> QED BY <1>1, <1>8, <2>1, RegOrder
<1> QED BY <1>2, <1>3, <1>4, <1>5, <1>6, <1>7, <1>8

LEMMA RegistersKeepLine ==
    ASSUME DriverInv, LineInv, Registers
    PROVE  LineInv'
<1>0. /\ Types /\ DriverTypes /\ ChipTypes /\ Steps
      /\ step \in 1..6 /\ cur \in 0..MaxSample
  BY DEF DriverInv, Types, DriverTypes, ChipTypes
<1>1. CASE RegSelect
  <2>1. /\ access = "idle" /\ access' = "selected" /\ cs' = Lower
        /\ UNCHANGED <<stage, step, written, bus, burst, at>>
        /\ stage = "reg_init"
    BY <1>1 DEF RegSelect
  <2>2. /\ failed'.overlap <=> failed.overlap \/ \E r \in Readers : InBurst(r)
        /\ failed'.write = failed.write
    <3>1. PICK b \in BOOLEAN :
             b = (failed.overlap \/ \E r \in Readers : InBurst(r))
      OBVIOUS
    <3>2. failed' = [failed EXCEPT !.overlap = b]
      BY <1>1, <3>1 DEF RegSelect
    <3> QED BY <1>0, <3>1, <3>2 DEF DriverTypes
  <2>3. Bus'
    BY <2>1 DEF LineInv, Bus
  <2>4. Commands'
    BY <1>0, <2>1, LowerCommands DEF Commands
  <2>5. Overlaps'
    BY <2>1, <2>2 DEF LineInv, Overlaps, InBurst
  <2>6. Settled'
    BY <1>0, <2>1, <2>2, LineFree DEF LineInv, Settled
  <2>7. Written'
    BY <2>1, <2>2 DEF LineInv, Written
  <2> QED BY <2>3, <2>4, <2>5, <2>6, <2>7 DEF LineInv
<1>2. CASE RegTransfer
  <2>1. /\ access = "selected" /\ access' = "transfer"
        /\ UNCHANGED <<stage, step, failed, at>>
        /\ bus = None /\ bus' = RegInit
        /\ burst' = IF cs = "low" THEN cur ELSE Garbage
        /\ written' \in IF cs = "writing" THEN SUBSET written ELSE {written}
    BY <1>2 DEF RegTransfer, Start, users
  <2>2. Bus'
    BY <2>1, Names DEF LineInv, Bus
  <2>3. Commands' /\ Overlaps'
    BY <2>1 DEF LineInv, Commands, Overlaps, InBurst
  <2>4. Settled' /\ Written'
    <3>1. ASSUME ~failed.overlap
          PROVE  burst' = cur /\ written' = written
      BY <2>1, <3>1 DEF LineInv, Settled
    <3>2. cur # Garbage
      BY <1>0, SpiBounds DEF Garbage
    <3> QED BY <2>1, <3>1, <3>2 DEF LineInv, Settled, Written
  <2> QED BY <2>2, <2>3, <2>4 DEF LineInv
<1>3. CASE RegTransferEnds
  <2>1. /\ access = "transfer" /\ access' = "deselect" /\ bus' = None
        /\ UNCHANGED <<stage, step, cs, at>> /\ stage = "reg_init"
    BY <1>0, <1>3 DEF RegTransferEnds, Steps
  <2>2. Bus'
    BY <2>1, Names DEF LineInv, Bus
  <2>3. failed'.overlap = failed.overlap
    BY <1>0, <1>3 DEF RegTransferEnds, DriverTypes
  <2>4. Commands' /\ Settled'
    BY <2>1 DEF Commands, Settled
  <2>5. Overlaps'
    BY <2>1, <2>3 DEF LineInv, Overlaps, InBurst
  <2>6. Written'
    <3> SUFFICES ASSUME ~(failed'.write), ~(failed'.overlap)
                 PROVE  written' = SetAfter[step]
        BY <2>1 DEF Written
    <3>1. failed' = failed
      BY <1>0, <1>3 DEF RegTransferEnds, DriverTypes
    <3>2. burst # Garbage /\ (step > 1 => written = SetAfter[step - 1])
      BY <2>1, <2>3, <3>1 DEF LineInv, Settled, Written
    <3>3. TakesEffect(RegSteps[step])
      <4>1. failed' = [failed EXCEPT !.write = TRUE] => failed'.write = TRUE
        BY <1>0 DEF DriverTypes
      <4> QED BY <1>3, <3>2, <4>1 DEF RegTransferEnds
    <3>4. written' = CASE RegSteps[step] = "reset" -> {}
                       [] RegSteps[step] = "who" -> written
                       [] OTHER -> written \union {RegSteps[step]}
      BY <3>3 DEF TakesEffect
    <3> QED BY <1>0, <3>2, <3>4, SetOrder
  <2> QED BY <2>2, <2>4, <2>5, <2>6 DEF LineInv
<1>4. CASE RegDeselect
  <2>1. /\ access = "deselect" /\ access' = "idle" /\ cs' = "high"
        /\ UNCHANGED <<failed, written, bus, at>> /\ stage = "reg_init"
        /\ \/ step < 6 /\ stage' = stage /\ step' = step + 1
           \/ step = 6 /\ stage' = "bound" /\ step' = 1
    BY <1>0, <1>4, RegOrder DEF RegDeselect, Raise, Steps
  <2>2. Bus' /\ Commands' /\ Settled'
    BY <2>1 DEF LineInv, Bus, Commands, Settled
  <2>3. Overlaps'
    BY <2>1 DEF LineInv, Overlaps, InBurst
  <2>4. Written'
    <3> SUFFICES ASSUME ~failed.write, ~failed.overlap
                 PROVE  /\ stage' = "reg_init" => written = SetAfter[step' - 1]
                        /\ stage' = "bound" => written = Settings
        BY <2>1 DEF Written
    <3>1. written = SetAfter[step]
      BY <2>1 DEF LineInv, Written
    <3>2. SetAfter[6] = Settings
      BY DEF SetAfter
    <3> HIDE DEF SetAfter
    <3> QED BY <1>0, <2>1, <3>1, <3>2
  <2> QED BY <2>2, <2>3, <2>4 DEF LineInv
<1> QED BY <1>1, <1>2, <1>3, <1>4 DEF Registers

LEMMA SampleKeepsLine == ASSUME LineInv, Sample PROVE LineInv'
<1>1. /\ UNCHANGED <<access, cs, bus, burst, written, at>>
      /\ UNCHANGED <<failed, stage, step>>
  BY DEF Sample, driver, users
<1> QED BY <1>1, LineApart DEF LineInv, Written

LEMMA UsersKeepLine ==
    ASSUME DriverInv, LineInv, NEW r \in Readers, Open(r) \/ Close(r) \/ Read(r)
    PROVE  LineInv'
<1>0. /\ Types /\ DriverTypes /\ ChipTypes /\ at \in [Readers -> Places]
      /\ UNCHANGED <<stage, step, access>>
  BY UsersDriver DEF DriverInv, Types, UserTypes
<1>1. CASE Open(r) \/ Close(r) \/ Load(r) \/ Store(r) \/ Copy(r) \/ Return(r)
  <2>1. UNCHANGED <<cs, bus, burst, written, failed>>
    BY <1>1 DEF Open, Close, Load, Store, Copy, Return, chip, driver
  <2>2. \A q \in Readers : \/ at'[q] = at[q]
                           \/ ~InBurst(q) /\ ~(InBurst(q)')
    <3>1. \A q \in Readers : q # r => at'[q] = at[q]
      BY <1>0, <1>1 DEF Open, Close, Load, Store, Copy, Return
    <3>2. at[r] \in {"open", "closed", "store", "copy", "return"}
      BY <1>1 DEF Open, Close, Load, Store, Copy, Return
    <3>3. at'[r] \in {"open", "closed", "loaded", "store", "copy", "return"}
      BY <1>0, <1>1 DEF Open, Close, Load, Store, Copy, Return
    <3>4. ~InBurst(r)
      BY <3>2 DEF InBurst
    <3>5. ~(InBurst(r)')
      BY <3>3 DEF InBurst
    <3> QED BY <3>1, <3>4, <3>5
  <2>3. Written'
    BY <1>0, <2>1 DEF LineInv, Written
  <2> QED BY <1>0, <2>1, <2>2, <2>3, LineApart DEF LineInv
<1>2. CASE Select(r)
  <2>1. /\ at[r] = "loaded" /\ at'[r] = "selected"
        /\ \A q \in Readers : q # r => at'[q] = at[q]
        /\ UNCHANGED <<written, bus, burst>> /\ cs' \in {cs, Lower}
    BY <1>0, <1>2 DEF Select
  <2> DEFINE Others == \/ \E q \in Readers \ {r} : InBurst(q)
                       \/ access # "idle"
  <2>2. /\ failed'.overlap <=> failed.overlap \/ Others
        /\ failed'.write = failed.write
    <3>1. PICK b \in BOOLEAN : b = (failed.overlap \/ Others)
      OBVIOUS
    <3>2. failed' = [failed EXCEPT !.overlap = b]
      <4>1. failed' = [failed EXCEPT !.overlap = failed.overlap \/
                    {q \in Readers \ {r} : InBurst(q)} # {} \/ access # "idle"]
        BY <1>2 DEF Select
      <4>2. {q \in Readers \ {r} : InBurst(q)} # {}
            <=> \E q \in Readers \ {r} : InBurst(q)
        OBVIOUS
      <4> QED BY <3>1, <4>1, <4>2
    <3> QED BY <1>0, <3>1, <3>2 DEF DriverTypes
  <2>3. Bus'
    BY <1>0, <2>1 DEF LineInv, Bus
  <2>4. Commands'
    BY <1>0, <2>1, LowerCommands DEF Commands
  <2>5. Overlaps' /\ Settled'
    BY <1>0, <2>1, <2>2 DEF LineInv, Overlaps, Settled, InBurst
  <2>6. Written'
    BY <1>0, <2>1, <2>2 DEF LineInv, Written
  <2> QED BY <2>3, <2>4, <2>5, <2>6 DEF LineInv
<1>3. CASE Transfer(r) \/ TransferEnds(r) \/ Deselect(r)
  <2>1. /\ InBurst(r) /\ failed' = failed
        /\ \A q \in Readers : q # r => at'[q] = at[q]
    BY <1>0, <1>3 DEF Transfer, TransferEnds, Deselect, InBurst, driver
  <2>2. ASSUME ~failed.overlap
        PROVE  access = "idle" /\ \A q \in Readers : q # r => ~InBurst(q)
    BY <2>1, <2>2 DEF LineInv, Overlaps
  <2>3. Overlaps' /\ Settled'
    BY <1>0, <2>1, <2>2 DEF Overlaps, Settled, InBurst
  <2>4. CASE Transfer(r) /\ at' = [at EXCEPT ![r] = "oops"]
    <3>1. /\ at[r] = "selected" /\ at'[r] = "oops"
          /\ UNCHANGED <<written, cs, bus, burst>>
      BY <1>0, <2>4 DEF Transfer
    <3>2. Bus' /\ Commands'
      BY <1>0, <2>1, <3>1 DEF LineInv, Bus, Commands
    <3>3. Written'
      BY <1>0, <2>1, <3>1 DEF LineInv, Written
    <3> QED BY <2>3, <3>2, <3>3 DEF LineInv
  <2>5. CASE Transfer(r) /\ at' # [at EXCEPT ![r] = "oops"]
    <3>1. /\ at[r] = "selected" /\ at'[r] = "transfer"
          /\ bus = None /\ bus' = r
          /\ written' \in IF cs = "writing" THEN SUBSET written ELSE {written}
      BY <1>0, <2>5 DEF Transfer, Start
    <3>2. Bus'
      BY <1>0, <2>1, <3>1, Names DEF LineInv, Bus
    <3>3. Commands'
      BY <3>1 DEF Commands
    <3>4. ASSUME ~failed.overlap PROVE cs # "writing"
      BY <2>2, <3>1, <3>4 DEF LineInv, Commands, InBurst
    <3>5. Written'
      BY <1>0, <2>1, <3>1, <3>4 DEF LineInv, Written
    <3> QED BY <2>3, <3>2, <3>3, <3>5 DEF LineInv
  <2>6. CASE TransferEnds(r)
    <3>1. /\ at[r] = "transfer" /\ at'[r] = "deselect"
          /\ bus' = None /\ UNCHANGED written
      BY <1>0, <2>6 DEF TransferEnds
    <3>2. Bus'
      BY <1>0, <2>1, <3>1, Names DEF LineInv, Bus
    <3>3. Commands'
      BY <3>1 DEF Commands
    <3>4. Written'
      BY <1>0, <2>1, <3>1 DEF LineInv, Written
    <3> QED BY <2>3, <3>2, <3>3, <3>4 DEF LineInv
  <2>7. CASE Deselect(r)
    <3>1. /\ at[r] = "deselect" /\ at'[r] = "store"
          /\ UNCHANGED <<bus, written>> /\ cs' = "high"
      BY <1>0, <2>7 DEF Deselect, Raise
    <3>2. Bus' /\ Commands'
      BY <1>0, <2>1, <3>1 DEF LineInv, Bus, Commands
    <3>3. Written'
      BY <1>0, <2>1, <3>1 DEF LineInv, Written
    <3> QED BY <2>3, <3>2, <3>3 DEF LineInv
  <2> QED BY <1>3, <2>4, <2>5, <2>6, <2>7
<1> QED BY <1>1, <1>2, <1>3 DEF Read

LEMMA LineNext == DriverInv /\ LineInv /\ [Next]_vars => LineInv'
<1> SUFFICES ASSUME DriverInv, LineInv, [Next]_vars PROVE LineInv'
    OBVIOUS
<1>1. CASE UNCHANGED vars
  <2>1. /\ UNCHANGED <<access, cs, bus, burst, written, at>>
        /\ UNCHANGED <<failed, stage, step>>
    BY <1>1 DEF vars, driver, chip, users
  <2> QED BY <2>1, LineApart DEF LineInv, Written
<1>2. CASE \E r \in Readers : Open(r) \/ Close(r) \/ Read(r)
  BY <1>2, UsersKeepLine
<1>3. CASE Probe \/ Acquire \/ ProbeFails \/ Setup \/ Remove \/ Release
  BY <1>3, DriverKeepsLine
<1>4. CASE Registers \/ Sample
  BY <1>4, RegistersKeepLine, SampleKeepsLine
<1> QED BY <1>1, <1>2, <1>3, <1>4 DEF Next

LEMMA LineHolds == Spec => []LineInv
BY LineInit, LineNext, SpiInv, PTL DEF Spec

\* A probe that returns 0 leaves every registration in place and a chip that is
\* set up, unless one of its own writes failed or a read() and another access
\* to the chip moved the select line under each other (icm20608_probe).
THEOREM SpiBound == Spec => []BoundReady
<1>1. DriverInv /\ LineInv => BoundReady
  <2> SUFFICES ASSUME DriverInv, LineInv, stage = "bound"
               PROVE  /\ \A x \in Resources : held[x] > 0
                      /\ failed.write \/ failed.overlap \/ written = Settings
      BY DEF BoundReady
  <2>1. \A x \in Resources : held[x] >= 1 /\ held[x] \in 0..MaxProbes
    BY DEF DriverInv, Counts, Has, Types, DriverTypes
  <2>2. failed.write \/ failed.overlap \/ written = Settings
    BY DEF LineInv, Written
  <2> QED BY <2>1, <2>2, SpiBounds
<1> QED BY <1>1, SpiInv, LineHolds, PTL

-----------------------------------------------------------------------------
\* The frame, when at most one read() runs at a time.
Alone == \A p, q \in Readers : Reading(p) /\ Reading(q) => p = q

\* One sample up to some axis, and garbage from there on.
Cut(d) == \E s \in 0..MaxSample, n \in 0..NAxes :
              \A a \in Axes : d[a] = IF a <= n THEN s ELSE Garbage

\* The way of a frame, whatever it is worth: the stack buffer is blank before
\* the transfer and holds a cut frame after it, which goes on to the global
\* structure and to the caller's buffer.
Passed(p, x, d, f, o) ==
    /\ p \in {"closed", "open", "loaded", "selected", "oops"} => d = Blank
    /\ p = "store" => \A a \in Axes : a < x => f[a] = d[a]
    /\ p = "copy" => f = d /\ \A a \in Axes : a < x => o[a] = d[a]
    /\ p = "return" => o = d

Passage ==
    \A r \in Readers :
        /\ Passed(at[r], axis[r], data[r], fields, out[r])
        /\ Cut(data[r])
        /\ at[r] = "transfer" /\ burst # Garbage => data[r] = Blank

\* And what it is worth when nothing met it.
Filled == {"deselect", "store", "copy", "return"}

Sampled ==
    \A r \in Readers :
        /\ access # "idle" /\ InBurst(r) => hurt[r]
        /\ at[r] \in {"loaded", "selected"} => since[r] <= cur
        /\ at[r] = "selected" /\ spi[r] = "spi" /\ ~hurt[r] => cs = "low"
        /\ at[r] = "transfer" /\ ~hurt[r] => burst \in since[r]..MaxSample
        /\ at[r] \in Filled /\ ~hurt[r] =>
             \E s \in since[r]..MaxSample : \A a \in Axes : data[r][a] = s

Frames == Alone /\ Passage /\ Sampled

LEMMA BlankIsCut == Cut(Blank)
<1>1. 0 \in 0..MaxSample /\ 0 \in 0..NAxes
  BY SpiBounds
<1>2. \A a \in Axes : Blank[a] = IF a <= 0 THEN 0 ELSE Garbage
  BY DEF Blank, Axes
<1> QED BY <1>1, <1>2 DEF Cut

\* What arrives in a blank buffer is a cut frame.
LEMMA ArrivedIsCut ==
    ASSUME Types, NEW r \in Readers, NEW n \in 0..NAxes,
           burst = Garbage => Cut(data[r]),
           burst # Garbage => data[r] = Blank
    PROVE  Cut(Arrived(r, n))
<1>1. CASE burst = Garbage
  BY <1>1 DEF Arrived
<1>2. CASE burst # Garbage
  <2>1. burst \in 0..MaxSample
    BY <1>2, SpiBounds DEF Types, ChipTypes, Garbage
  <2>2. \A a \in Axes : Arrived(r, n)[a] = IF a <= n THEN burst ELSE Garbage
    BY <1>2 DEF Arrived, Blank
  <2> QED BY <2>1, <2>2 DEF Cut
<1> QED BY <1>1, <1>2

LEMMA NoReader ==
    ASSUME MaxConcurrent = 1,
           Cardinality({q \in Readers : Reading(q)}) < MaxConcurrent
    PROVE  \A q \in Readers : ~Reading(q)
<1> DEFINE S == {q \in Readers : Reading(q)}
<1>1. IsFiniteSet(S)
  BY SpiAssumption, FS_Subset
<1>2. Cardinality(S) = 0
  BY <1>1, FS_CardinalityType
<1>3. S = {}
  BY <1>1, <1>2, FS_EmptySet
<1> QED BY <1>3

LEMMA FrameInit == Init => Frames
<1> SUFFICES ASSUME Init PROVE Frames
    OBVIOUS
<1>1. /\ \A r \in Readers : at[r] = "closed" /\ data[r] = Blank
      /\ access = "idle"
  BY DEF Init
<1>2. Alone
  BY <1>1 DEF Alone, Reading
<1>3. Passage
  BY <1>1, BlankIsCut DEF Passage, Passed
<1>4. Sampled
  BY <1>1 DEF Sampled, InBurst, Filled
<1> QED BY <1>2, <1>3, <1>4 DEF Frames

-----------------------------------------------------------------------------
\* Probe, remove and the chip's samples.
LEMMA OthersKeepFrame ==
    ASSUME DriverInv, Frames,
           \/ Probe \/ Acquire \/ ProbeFails \/ Setup \/ Remove \/ Release
           \/ Sample \/ UNCHANGED vars
    PROVE  Frames'
<1>1. /\ UNCHANGED <<access, cs, bus, burst>>
      /\ UNCHANGED <<fields, at, spi, axis, data, out, since, hurt>>
  BY DEF Probe, Acquire, ProbeFails, Setup, Remove, Release, Sample, chip,
         users, memory, history, driver, vars
<1>2. cur' = cur \/ cur' = cur + 1
  BY DEF Probe, Acquire, ProbeFails, Setup, Remove, Release, Sample, chip, vars
<1>3. \A r \in Readers : since[r] \in Int /\ cur \in Int
  BY DEF DriverInv, Types, UserTypes, ChipTypes
<1>4. Alone'
  BY <1>1 DEF Frames, Alone, Reading
<1>5. Passage'
  BY <1>1 DEF Frames, Passage
<1>6. ASSUME NEW r \in Readers
      PROVE  (since[r] <= cur => since[r] <= cur')
  BY <1>2, <1>3
<1>7. Sampled'
  BY <1>1, <1>6 DEF Frames, Sampled, InBurst
<1> QED BY <1>4, <1>5, <1>7 DEF Frames

\* reg_init hurts every access it meets, and may cut a burst short.
LEMMA RegistersKeepFrame ==
    ASSUME DriverInv, LineInv, Frames, Registers
    PROVE  Frames'
<1>0. Types /\ ChipTypes /\ UserTypes
  BY DEF DriverInv, Types
<1>1. /\ UNCHANGED <<fields, at, spi, axis, out>>
      /\ \A r \in Readers : InBurst(r) => hurt'[r]
      /\ \A r \in Readers : hurt[r] => hurt'[r]
  <2>1. CASE RegSelect
    BY <1>0, <2>1 DEF RegSelect, memory, UserTypes
  <2>2. CASE RegTransfer \/ RegTransferEnds \/ RegDeselect
    <3>1. UNCHANGED <<fields, at, spi, axis, out, hurt>> /\ access # "idle"
      BY <2>2 DEF RegTransfer, RegTransferEnds, RegDeselect, users, memory,
                  history
    <3> QED BY <3>1 DEF Frames, Sampled
  <2> QED BY <2>1, <2>2 DEF Registers
<1>2. Alone'
  BY <1>1 DEF Frames, Alone, Reading
<1>3. \A r \in Readers : \/ since'[r] = 0
                         \/ since'[r] = since[r] /\ cur' = cur
  <2>1. CASE UNCHANGED <<cur, since>>
    BY <2>1
  <2>2. CASE RegTransferEnds
    <3>1. \A reg : TakesEffect(reg) =>
             since' = [r \in Readers |-> 0] \/ UNCHANGED <<cur, since>>
      BY DEF TakesEffect
    <3>2. since' = [r \in Readers |-> 0] \/ UNCHANGED <<cur, since>>
      BY <2>2, <3>1 DEF RegTransferEnds
    <3> QED BY <3>2
  <2>3. CASE RegSelect \/ RegTransfer \/ RegDeselect
    BY <2>3 DEF RegSelect, RegTransfer, RegDeselect, users, history
  <2> QED BY <2>2, <2>3 DEF Registers
<1>4. ASSUME NEW r \in Readers
      PROVE  \/ data'[r] = data[r]
             \/ at[r] = "transfer" /\ Cut(data'[r]) /\ burst' = Garbage
  <2>1. CASE data' = data
    BY <2>1
  <2>2. CASE data' # data
    <3>1. Raise
      BY <2>2 DEF Registers, RegSelect, RegTransfer, RegTransferEnds,
                  RegDeselect, users, memory
    <3>2. bus \in Readers /\ burst' = Garbage
      BY <2>2, <3>1 DEF Raise
    <3>3. PICK n \in 0..NAxes : data' = [data EXCEPT ![bus] = Arrived(bus, n)]
      BY <3>1, <3>2 DEF Raise
    <3>4. at[bus] = "transfer" /\ Cut(data[bus])
          /\ (burst # Garbage => data[bus] = Blank)
      BY <3>2 DEF LineInv, Bus, Frames, Passage
    <3>5. Cut(Arrived(bus, n))
      BY <1>0, <3>2, <3>4, ArrivedIsCut
    <3>6. CASE r = bus
      BY <1>0, <3>2, <3>3, <3>4, <3>5, <3>6 DEF UserTypes
    <3>7. CASE r # bus
      BY <1>0, <3>3, <3>7 DEF UserTypes
    <3> QED BY <3>6, <3>7
  <2> QED BY <2>1, <2>2
<1>5. ASSUME NEW r \in Readers, at[r] = "transfer"
      PROVE  burst' = burst \/ burst' = Garbage
  <2>1. bus = r /\ bus # None
    BY <1>5, Names DEF LineInv, Bus
  <2> QED BY <2>1, Names DEF Registers, RegSelect, RegTransfer,
             RegTransferEnds, RegDeselect, Start, Raise
<1>6. Passage'
  <2> SUFFICES ASSUME NEW r \in Readers
               PROVE  /\ Passed(at[r], axis[r], data'[r], fields, out[r])
                      /\ Cut(data'[r])
                      /\ at[r] = "transfer" /\ burst' # Garbage =>
                           data'[r] = Blank
      BY <1>1 DEF Passage
  <2>1. /\ Passed(at[r], axis[r], data[r], fields, out[r]) /\ Cut(data[r])
        /\ at[r] = "transfer" /\ burst # Garbage => data[r] = Blank
    BY DEF Frames, Passage
  <2>2. CASE data'[r] = data[r]
    BY <1>5, <2>1, <2>2
  <2>3. CASE at[r] = "transfer" /\ Cut(data'[r]) /\ burst' = Garbage
    BY <2>3 DEF Passed
  <2> QED BY <1>4, <2>2, <2>3
<1>7. Sampled'
  <2> SUFFICES ASSUME NEW r \in Readers
               PROVE  /\ access' # "idle" /\ InBurst(r) => hurt'[r]
                      /\ at[r] \in {"loaded", "selected"} => since'[r] <= cur'
                      /\ at[r] = "selected" /\ spi[r] = "spi" /\ ~hurt'[r] =>
                           cs' = "low"
                      /\ at[r] = "transfer" /\ ~hurt'[r] =>
                           burst' \in since'[r]..MaxSample
                      /\ at[r] \in Filled /\ ~hurt'[r] =>
                           \E s \in since'[r]..MaxSample :
                               \A a \in Axes : data'[r][a] = s
      BY <1>1 DEF Sampled, InBurst
  <2>1. access' # "idle" /\ InBurst(r) => hurt'[r]
    BY <1>1
  <2>2. at[r] \in {"loaded", "selected"} => since'[r] <= cur'
    <3>1. cur' \in 0..MaxSample
      BY SpiNext DEF DriverInv, Types, ChipTypes, Next
    <3> QED BY <1>3, <3>1 DEF Frames, Sampled
  <2>3. at[r] \in {"selected", "transfer"} => hurt'[r]
    BY <1>1 DEF InBurst
  <2>4. ASSUME at[r] \in Filled, ~hurt'[r]
        PROVE  \E s \in since'[r]..MaxSample : \A a \in Axes : data'[r][a] = s
    <3>1. ~hurt[r] /\ data'[r] = data[r]
      BY <1>1, <1>4, <2>4 DEF Filled
    <3>2. PICK s \in since[r]..MaxSample : \A a \in Axes : data[r][a] = s
      BY <2>4, <3>1 DEF Frames, Sampled
    <3>3. since[r] \in 0..MaxSample
      BY <1>0 DEF UserTypes
    <3>4. s \in since'[r]..MaxSample
      BY <1>3, <3>2, <3>3, SpiBounds
    <3> QED BY <3>1, <3>2, <3>4
  <2> QED BY <2>1, <2>2, <2>3, <2>4
<1> QED BY <1>2, <1>6, <1>7 DEF Frames

-----------------------------------------------------------------------------
\* Whoever reads is alone.
LEMMA ReadAlone ==
    ASSUME MaxConcurrent = 1, Frames, NEW r \in Readers, Read(r)
    PROVE  \A q \in Readers : q # r => ~Reading(q)
<1>1. CASE Load(r)
  BY <1>1, NoReader DEF Load
<1>2. CASE ~Load(r)
  <2>1. Reading(r)
    BY <1>2 DEF Read, Select, Transfer, TransferEnds, Deselect, Store, Copy,
                Return, Reading
  <2> QED BY <2>1 DEF Frames, Alone
<1> QED BY <1>1, <1>2

\* It touches nobody else's variables: the deselect finds no other's transfer.
LEMMA ReadApart ==
    ASSUME Types, LineInv, NEW r \in Readers, Read(r),
           \A q \in Readers : q # r => ~Reading(q),
           NEW q \in Readers, q # r
    PROVE  at'[q] = at[q] /\ data'[q] = data[q]
<1>0. /\ at \in [Readers -> Places]
      /\ data \in [Readers -> [Axes -> Garbage..MaxSample]]
  BY DEF Types, UserTypes
<1>1. at'[q] = at[q]
  BY <1>0 DEF Read, Load, Select, Transfer, TransferEnds, Deselect, Store,
              Copy, Return
<1>2. CASE Deselect(r)
  <2>1. bus \notin Readers
    BY <1>2 DEF Deselect, LineInv, Bus, Reading
  <2> QED BY <1>1, <1>2, <2>1 DEF Deselect, Raise
<1>3. CASE ~Deselect(r)
  BY <1>0, <1>1, <1>3 DEF Read, Load, Select, Transfer, TransferEnds, Store,
                          Copy, Return, memory
<1> QED BY <1>2, <1>3

\* The reader's own part of the invariant.
Mine(r) ==
    /\ Passed(at[r], axis[r], data[r], fields, out[r])
    /\ Cut(data[r])
    /\ at[r] = "transfer" /\ burst # Garbage => data[r] = Blank
    /\ access # "idle" /\ InBurst(r) => hurt[r]
    /\ at[r] \in {"loaded", "selected"} => since[r] <= cur
    /\ at[r] = "selected" /\ spi[r] = "spi" /\ ~hurt[r] => cs = "low"
    /\ at[r] = "transfer" /\ ~hurt[r] => burst \in since[r]..MaxSample
    /\ at[r] \in Filled /\ ~hurt[r] =>
         \E s \in since[r]..MaxSample : \A a \in Axes : data[r][a] = s

\* A reader that acts while no other is reading leaves the others in order.
LEMMA OneReader ==
    ASSUME DriverInv, LineInv, Frames, NEW r \in Readers, Read(r),
           \A q \in Readers : q # r => ~Reading(q), Mine(r)'
    PROVE  Frames'
<1>0. Types /\ at \in [Readers -> Places]
  BY DEF DriverInv, Types, UserTypes
<1>1. ASSUME NEW q \in Readers, q # r
      PROVE  /\ at'[q] \in {"closed", "open", "oops"} /\ data'[q] = Blank
             /\ ~(Reading(q)')
  <2>1. at[q] \in {"closed", "open", "oops"}
    BY <1>0, <1>1 DEF Reading
  <2>2. data[q] = Blank
    BY <2>1 DEF Frames, Passage, Passed
  <2>3. at'[q] = at[q] /\ data'[q] = data[q]
    BY <1>0, <1>1, ReadApart
  <2> QED BY <2>1, <2>2, <2>3 DEF Reading
<1>2. Alone'
  BY <1>1 DEF Alone
<1>3. ASSUME NEW q \in Readers PROVE Mine(q)'
  <2>1. CASE q = r
    BY <2>1
  <2>2. CASE q # r
    <3>1. at'[q] \in {"closed", "open", "oops"} /\ data'[q] = Blank
      BY <1>1, <2>2
    <3>2. Passed(at'[q], axis'[q], data'[q], fields', out'[q])
      BY <3>1 DEF Passed
    <3> QED BY <3>1, <3>2, BlankIsCut DEF Mine, InBurst, Filled
  <2> QED BY <2>1, <2>2
<1>4. Alone' /\ (\A q \in Readers : Mine(q)') => Frames'
  BY DEF Frames, Passage, Sampled, Mine
<1> QED BY <1>2, <1>3, <1>4

\* The steps of a read() up to the end of its access.
LEMMA AccessPasses ==
    ASSUME DriverInv, LineInv, Frames, NEW r \in Readers, Mine(r),
           \A q \in Readers : q # r => ~Reading(q),
           \/ Load(r) \/ Select(r) \/ Transfer(r) \/ TransferEnds(r)
           \/ Deselect(r)
    PROVE  Mine(r)'
<1>0. /\ Types /\ UserTypes /\ ChipTypes /\ at \in [Readers -> Places]
      /\ data \in [Readers -> [Axes -> Garbage..MaxSample]]
      /\ MaxSample \in Nat /\ NAxes \in Nat \ {0}
      /\ access' = access
  BY SpiBounds, UsersDriver DEF DriverInv, Types, UserTypes, Read
<1>a. \A q \in Readers : q # r => ~InBurst(q)
  BY DEF Reading, InBurst
<1>1. CASE Load(r)
  <2>1. /\ at[r] = "open" /\ at'[r] = "loaded" /\ since'[r] = cur
        /\ cur' = cur /\ data' = data
    BY <1>0, <1>1 DEF Load, UserTypes, chip
  <2>2. data'[r] = Blank
    BY <2>1 DEF Mine, Passed
  <2>3. Passed(at'[r], axis'[r], data'[r], fields', out'[r])
    BY <2>1, <2>2 DEF Passed
  <2>4. since'[r] <= cur'
    BY <1>0, <2>1 DEF ChipTypes
  <2> QED BY <2>1, <2>2, <2>3, <2>4, BlankIsCut DEF Mine, InBurst, Filled
<1>2. CASE Select(r)
  <2>1. /\ at[r] = "loaded" /\ at'[r] = "selected"
        /\ UNCHANGED <<cur, since, data, spi, priv>>
        /\ cs' \in IF priv = "NULL" THEN {cs, Lower} ELSE {Lower}
    BY <1>0, <1>2 DEF Select, memory
  <2>2. data'[r] = Blank
    BY <2>1 DEF Mine, Passed
  <2>3. Passed(at'[r], axis'[r], data'[r], fields', out'[r])
    BY <2>1, <2>2 DEF Passed
  <2>4. access # "idle" => hurt'[r]
    BY <1>0, <1>2 DEF Select
  <2>5. spi[r] = "spi" /\ access = "idle" => cs' = "low"
    <3>1. spi[r] = "spi" => priv = "spi"
      BY DEF DriverInv, Pointers
    <3>2. \A q \in Readers : ~InBurst(q)
      BY <1>a, <2>1 DEF InBurst
    <3> QED BY <1>0, <2>1, <3>1, <3>2, LineFree DEF LineInv
  <2>6. since'[r] <= cur'
    BY <2>1 DEF Mine
  <2> QED BY <1>0, <2>1, <2>2, <2>3, <2>4, <2>5, <2>6, BlankIsCut
          DEF Mine, Filled
<1>3. CASE Transfer(r)
  <2>1. /\ at[r] = "selected" /\ UNCHANGED <<cur, since, data, spi, hurt>>
    BY <1>3 DEF Transfer, memory, history
  <2>2. data'[r] = Blank /\ at'[r] \in {"oops", "transfer"}
    BY <1>0, <1>3, <2>1 DEF Mine, Passed, Transfer
  <2>3. Passed(at'[r], axis'[r], data'[r], fields', out'[r])
    BY <2>2 DEF Passed
  <2>4. access # "idle" => hurt'[r]
    BY <2>1 DEF Mine, InBurst
  <2>5. ASSUME at'[r] = "transfer", ~hurt'[r]
        PROVE  burst' \in since'[r]..MaxSample
    <3>1. spi[r] # "NULL"
      BY <1>0, <1>3, <2>5 DEF Transfer
    <3>2. spi[r] = "spi"
      BY <1>0, <3>1 DEF UserTypes
    <3>3. cs = "low" /\ since[r] <= cur
      BY <2>1, <2>5, <3>2 DEF Mine
    <3>4. burst' = cur
      BY <1>3, <3>1, <3>3 DEF Transfer, Start
    <3>5. cur \in since[r]..MaxSample
      BY <1>0, <3>3 DEF ChipTypes, UserTypes
    <3> QED BY <2>1, <3>4, <3>5
  <2> QED BY <1>0, <2>1, <2>2, <2>3, <2>4, <2>5, BlankIsCut
          DEF Mine, InBurst, Filled
<1>4. CASE TransferEnds(r)
  <2>1. /\ at[r] = "transfer" /\ at'[r] = "deselect" /\ UNCHANGED since
    BY <1>0, <1>4 DEF TransferEnds
  <2>2. PICK n \in 0..NAxes : /\ data' = [data EXCEPT ![r] = Arrived(r, n)]
                              /\ \/ n = NAxes /\ hurt' = hurt
                                 \/ hurt'[r]
    <3>1. CASE data' = [data EXCEPT ![r] = Arrived(r, NAxes)] /\ hurt' = hurt
      <4>1. NAxes \in 0..NAxes
        BY <1>0
      <4> QED BY <3>1, <4>1
    <3>2. CASE /\ \E n \in 0..NAxes :
                     data' = [data EXCEPT ![r] = Arrived(r, n)]
               /\ hurt' = [hurt EXCEPT ![r] = TRUE]
      BY <1>0, <3>2 DEF UserTypes
    <3> QED BY <1>4, <3>1, <3>2 DEF TransferEnds
  <2>3. data'[r] = Arrived(r, n)
    BY <1>0, <2>2
  <2>4. Cut(data'[r])
    <3>1. Cut(data[r]) /\ (burst # Garbage => data[r] = Blank)
      BY <2>1 DEF Mine
    <3> QED BY <1>0, <2>3, <3>1, ArrivedIsCut
  <2>5. Passed(at'[r], axis'[r], data'[r], fields', out'[r])
    BY <2>1 DEF Passed
  <2>6. access # "idle" => hurt'[r]
    BY <2>1, <2>2 DEF Mine, InBurst
  <2>7. ASSUME ~hurt'[r]
        PROVE  \E s \in since'[r]..MaxSample : \A a \in Axes : data'[r][a] = s
    <3>1. n = NAxes /\ ~hurt[r]
      BY <2>2, <2>7
    <3>2. burst \in since[r]..MaxSample /\ burst # Garbage
      BY <1>0, <2>1, <3>1 DEF Mine, UserTypes, Garbage
    <3>3. \A a \in Axes : data'[r][a] = burst
      BY <1>0, <2>3, <3>1, <3>2 DEF Arrived, Axes
    <3> QED BY <2>1, <3>2, <3>3
  <2> QED BY <1>0, <2>1, <2>4, <2>5, <2>6, <2>7 DEF Mine, InBurst
<1>5. CASE Deselect(r)
  <2>1. /\ at[r] = "deselect" /\ at'[r] = "store" /\ axis'[r] = 1
        /\ UNCHANGED <<fields, since, hurt>>
    BY <1>0, <1>5 DEF Deselect, UserTypes, history
  <2>2. data' = data
    <3>1. bus \notin Readers
      BY <2>1 DEF LineInv, Bus, Reading
    <3> QED BY <1>5, <3>1 DEF Deselect, Raise
  <2>3. \A a \in Axes : ~(a < axis'[r])
    BY <2>1 DEF Axes
  <2>4. Passed(at'[r], axis'[r], data'[r], fields', out'[r])
    BY <2>1, <2>3 DEF Passed
  <2> QED BY <2>1, <2>2, <2>4 DEF Mine, InBurst, Filled
<1> QED BY <1>1, <1>2, <1>3, <1>4, <1>5

\* The way from the stack buffer to the caller.
LEMMA BufferPasses ==
    ASSUME DriverInv, NEW r \in Readers, Mine(r),
           Store(r) \/ Copy(r) \/ Return(r)
    PROVE  Mine(r)'
<1>0. /\ UserTypes /\ axis[r] \in Axes /\ NAxes \in Nat \ {0}
      /\ Passed(at[r], axis[r], data[r], fields, out[r])
  BY SpiBounds DEF DriverInv, Types, UserTypes, Mine
<1> DEFINE OK == Passed(at'[r], axis'[r], data'[r], fields', out'[r])
<1>1. ASSUME Store(r) PROVE OK
  <2>1. /\ at[r] = "store" /\ data' = data
        /\ fields' = [fields EXCEPT ![axis[r]] = data[r][axis[r]]]
    BY <1>1 DEF Store
  <2>2. \A a \in Axes : a <= axis[r] => fields'[a] = data'[r][a]
    BY <1>0, <2>1 DEF Passed, UserTypes, Axes
  <2>3. CASE axis[r] < NAxes
    <3>1. at'[r] = "store" /\ axis'[r] = axis[r] + 1
      BY <1>0, <1>1, <2>3 DEF Store, LastAxis, UserTypes
    <3> QED BY <1>0, <2>2, <3>1 DEF Passed, Axes
  <2>4. CASE ~(axis[r] < NAxes)
    <3>1. at'[r] = "copy" /\ axis'[r] = 1
      BY <1>0, <1>1, <2>4 DEF Store, LastAxis, UserTypes
    <3>2. \A a \in Axes : fields'[a] = data'[r][a] /\ ~(a < axis'[r])
      BY <1>0, <2>2, <2>4, <3>1 DEF Axes
    <3>3. /\ fields' \in [Axes -> Garbage..MaxSample]
          /\ data'[r] \in [Axes -> Garbage..MaxSample]
      BY <1>0, <2>1 DEF UserTypes
    <3>4. fields' = data'[r]
      BY <3>2, <3>3
    <3> QED BY <3>1, <3>2, <3>4 DEF Passed
  <2> QED BY <2>3, <2>4
<1>2. ASSUME Copy(r) PROVE OK
  <2>1. /\ at[r] = "copy" /\ data' = data /\ fields' = fields
        /\ out' = [out EXCEPT ![r][axis[r]] = fields[axis[r]]]
    BY <1>2 DEF Copy
  <2>2. \A a \in Axes : a <= axis[r] => out'[r][a] = data'[r][a]
    BY <1>0, <2>1 DEF Passed, UserTypes, Axes
  <2>3. CASE axis[r] < NAxes
    <3>1. at'[r] = "copy" /\ axis'[r] = axis[r] + 1
      BY <1>0, <1>2, <2>1, <2>3 DEF Copy, UserTypes
    <3> QED BY <1>0, <2>1, <2>2, <3>1 DEF Passed, Axes
  <2>4. CASE ~(axis[r] < NAxes)
    <3>1. at'[r] = "return"
      BY <1>0, <1>2, <2>4 DEF Copy, UserTypes
    <3>2. \A a \in Axes : out'[r][a] = data'[r][a]
      BY <1>0, <2>2, <2>4 DEF Axes
    <3>3. /\ out'[r] \in [Axes -> Garbage..MaxSample]
          /\ data'[r] \in [Axes -> Garbage..MaxSample]
      BY <1>0, <2>1 DEF UserTypes
    <3>4. out'[r] = data'[r]
      BY <3>2, <3>3
    <3> QED BY <3>1, <3>4 DEF Passed
  <2> QED BY <2>3, <2>4
<1>3. CASE Store(r) \/ Copy(r)
  <2>1. /\ at[r] \in {"store", "copy"} /\ at'[r] \in {"store", "copy", "return"}
        /\ UNCHANGED <<data, since, hurt>>
    BY <1>0, <1>3 DEF Store, Copy, UserTypes, history
  <2>2. OK
    BY <1>1, <1>2, <1>3
  <2> QED BY <2>1, <2>2 DEF Mine, InBurst, Filled
<1>4. CASE Return(r)
  <2>1. at'[r] = "open" /\ data'[r] = Blank
    BY <1>0, <1>4 DEF Return, UserTypes
  <2>2. OK
    BY <2>1 DEF Passed
  <2> QED BY <2>1, <2>2, BlankIsCut DEF Mine, InBurst, Filled
<1> QED BY <1>3, <1>4

LEMMA FilesKeepFrame ==
    ASSUME DriverInv, Frames, NEW r \in Readers, Open(r) \/ Close(r)
    PROVE  Frames'
<1>1. /\ at[r] \in {"open", "closed"} /\ at'[r] \in {"open", "closed"}
      /\ \A q \in Readers : q # r => at'[q] = at[q]
      /\ UNCHANGED <<access, cur, cs, bus, burst>>
      /\ UNCHANGED <<fields, spi, axis, data, out, since, hurt>>
  BY DEF Open, Close, driver, chip, memory, history, DriverInv, Types, UserTypes
<1>2. Alone'
  BY <1>1 DEF Frames, Alone, Reading
<1>3. ASSUME NEW q \in Readers
      PROVE  at'[q] = at[q] \/ q = r
  BY <1>1
<1>4. Passage'
  <2>1. ASSUME NEW q \in Readers
        PROVE  /\ Passed(at'[q], axis[q], data[q], fields, out[q])
               /\ at'[q] = "transfer" => at[q] = "transfer"
    <3>1. CASE q # r
      BY <1>1, <3>1 DEF Frames, Passage
    <3>2. CASE q = r
      <4>1. data[r] = Blank
        BY <1>1 DEF Frames, Passage, Passed
      <4> QED BY <1>1, <3>2, <4>1 DEF Passed
    <3> QED BY <3>1, <3>2
  <2> QED BY <1>1, <2>1 DEF Frames, Passage
<1>5. Sampled'
  <2>1. ASSUME NEW q \in Readers, q # r
        PROVE  InBurst(q)' <=> InBurst(q)
    BY <1>1, <2>1 DEF InBurst
  <2>2. /\ ~(InBurst(r)') /\ at'[r] \notin Filled
        /\ at'[r] \notin {"loaded", "selected", "transfer"}
    BY <1>1 DEF InBurst, Filled
  <2> QED BY <1>1, <2>1, <2>2 DEF Frames, Sampled
<1> QED BY <1>2, <1>4, <1>5 DEF Frames

LEMMA FramesNext ==
    ASSUME MaxConcurrent = 1, DriverInv, LineInv, Frames, [Next]_vars
    PROVE  Frames'
<1>1. ASSUME NEW r \in Readers, Read(r) PROVE Frames'
  <2>1. \A q \in Readers : q # r => ~Reading(q)
    BY <1>1, ReadAlone
  <2>2. Mine(r)
    BY DEF Frames, Passage, Sampled, Mine
  <2>3. Mine(r)'
    BY <1>1, <2>1, <2>2, AccessPasses, BufferPasses DEF Read
  <2> QED BY <1>1, <2>1, <2>3, OneReader
<1>2. ASSUME NEW r \in Readers, Open(r) \/ Close(r) PROVE Frames'
  BY <1>2, FilesKeepFrame
<1>3. CASE Registers
  BY <1>3, RegistersKeepFrame
<1>4. CASE \/ Probe \/ Acquire \/ ProbeFails \/ Setup \/ Remove \/ Release
           \/ Sample \/ UNCHANGED vars
  BY <1>4, OthersKeepFrame
<1> QED BY <1>1, <1>2, <1>3, <1>4 DEF Next

LEMMA FramesHold == ASSUME MaxConcurrent = 1 PROVE Spec => []Frames
<1>1. DriverInv /\ LineInv /\ Frames /\ [Next]_vars => Frames'
  BY FramesNext
<1> QED BY <1>1, FrameInit, SpiInv, LineHolds, PTL DEF Spec

\* When the users run one read() at a time, a read() that meets neither a bus
\* error nor an access of reg_init's hands out one whole sample that is no older
\* than the call (icm20608_read, icm20608_readdata): with spi_torn this shows
\* that two calls at once are what mixes samples.
THEOREM SpiFrames == ASSUME MaxConcurrent = 1 PROVE Spec => []FrameComplete
<1>1. DriverInv /\ Frames => FrameComplete
  <2> SUFFICES ASSUME Frames, NEW r \in Readers, at[r] = "return", ~hurt[r]
               PROVE  \E s \in since[r]..MaxSample :
                          \A a \in Axes : out[r][a] = s
      BY DEF FrameComplete
  <2>1. out[r] = data[r]
    BY DEF Frames, Passage, Passed
  <2> QED BY <2>1 DEF Frames, Sampled, Filled
<1>2. Spec => []Frames
  BY FramesHold
<1> QED BY <1>1, <1>2, SpiInv, PTL

\* And when a bus error or reg_init does meet it, it hands out one sample up to
\* some axis and garbage from there on: nothing of another sample, and nothing
\* of an earlier frame out of the global structure.
THEOREM SpiCuts == ASSUME MaxConcurrent = 1 PROVE Spec => []FrameCutShort
<1>1. Frames => FrameCutShort
  <2> SUFFICES ASSUME Frames, NEW r \in Readers, at[r] = "return"
               PROVE  Cut(out[r])
      BY DEF FrameCutShort, Cut
  <2>1. out[r] = data[r] /\ Cut(data[r])
    BY DEF Frames, Passage, Passed
  <2> QED BY <2>1
<1>2. Spec => []Frames
  BY FramesHold
<1> QED BY <1>1, <1>2, PTL
=============================================================================
