---------------------------- MODULE Ap3216cProof ----------------------------
(***************************************************************************)
(* Proofs about the two drivers of the AP3216C over one chip, for any      *)
(* number of open files and of attribute readers, any readings, and any    *)
(* number of failing transactions.  Everything rests on the drivers taking *)
(* turns (Turns): while one of them touches the chip, the other is not     *)
(* bound and has no user at work.                                          *)
(***************************************************************************)
EXTENDS MCAp3216c, TLAPS

IicDriverTypes ==
    /\ iic \in Registrations \union {"absent", "private", "bound", "failed",
                                     "removed"}
    /\ held \subseteq Registrations /\ client \in {"NULL", "client"}

IicUserTypes ==
    /\ at \in [IicUsers -> {"closed", "oops", "reset", "sleep", "enable",
                             "verify", "open", "bytes", "store", "copy",
                             "return"}]
    /\ pos \in [IicUsers -> 0..5] /\ calm \in [IicUsers -> BOOLEAN]
    /\ word \in [Channels -> Garbage..Max16]
    /\ buf \in [IicUsers -> [0..5 -> Garbage..255]]
    /\ data \in [IicUsers -> [Channels -> GarbageShort..MaxShort]]

IioDriverTypes ==
    /\ iio \in {"absent", "reset", "sleep", "enable", "verify", "register",
                "bound", "undo", "removed", "gone"}
    /\ iioDown \in BOOLEAN

IioUserTypes ==
    /\ iat \in [IioUsers -> {"idle", "lock", "transfer", "unlock", "return"}]
    /\ ichan \in [IioUsers -> {"none", "ir", "als", "ps"}]
    /\ ibuf \in [IioUsers -> (0..255) \X (0..255)]
    /\ iret \in [IioUsers -> EIO..Max16]
    /\ inow \in [IioUsers -> 0..Len(Readings)]

Types ==
    /\ ChipTypeOK /\ IicDriverTypes /\ IicUserTypes
    /\ IioDriverTypes /\ IioUserTypes

\* What ap3216c_probe has registered at each of its steps.
Registered1 ==
    /\ iic \in {"absent", "removed"} => held = {}
    /\ iic \in {"cdev", "class", "device"} => "region" \in held
    /\ iic \in {"class", "device"} => "cdev" \in held
    /\ iic = "device" => "class" \in held
    /\ iic \in {"private", "bound"} => held = Registrations
    /\ client = "client" => iic \in {"bound", "removed"}

\* The character driver has users at work only when bound, the other one only
\* between its registration and its end, and neither is bound beside the other.
Turns ==
    /\ \A u \in IicUsers : at[u] \notin {"closed", "oops"} => iic = "bound"
    /\ \A u \in IioUsers : iat[u] # "idle" => Registered
    /\ iio \notin {"absent", "gone"} => iic \in {"absent", "failed", "removed"}

LockOwned ==
    \A u \in IioUsers : /\ lock = u <=> iat[u] \in {"transfer", "unlock"}
                        /\ iat[u] # "idle" => ichan[u] # "none"

Places == Types /\ Registered1 /\ Turns /\ LockOwned

LEMMA PlacesTypes == Places => ApTypeOK
BY DEF Places, Types, ApTypeOK, IicTypeOK, IioTypeOK, IicDriverTypes,
       IicUserTypes, IioDriverTypes, IioUserTypes, Registered1, LockOwned

LEMMA SomeReadings ==
    Len(Readings) \in Nat /\ MaxErrors \in Nat /\ Max16 \in Nat
<1>1. Max16 \in Nat
  BY SMT DEF Max16
<1> QED BY <1>1, ChipAssumption

LEMMA Numbers ==
    /\ Garbage \in Int /\ Garbage < 0 /\ EOVERFLOW \in Int /\ EOVERFLOW < 0
    /\ EIO \in Int /\ EIO < EOVERFLOW /\ Max16 \in Int /\ Max16 > 0
    /\ \A x \in Int : x <= Max16 <=> x <= 65535
BY SMT DEF Garbage, EOVERFLOW, EIO, Max16

\* The ranges of the chip's values.
TenBits(x) == x \in 0..1023
TwoBytes(x) == x \in 0..Max16

LEMMA RecordTypes ==
    ASSUME NEW r \in Reading
    PROVE  /\ TenBits(r.ir) /\ TwoBytes(r.als) /\ TenBits(r.ps)
           /\ r.irOver \in BOOLEAN /\ r.psOver \in BOOLEAN
<1>1. TenBits(r.ir)
  BY DEF Reading, TenBits
<1>2. TwoBytes(r.als)
  BY DEF Reading, TwoBytes
<1>3. TenBits(r.ps)
  BY DEF Reading, TenBits
<1>4. r.irOver \in BOOLEAN
  BY DEF Reading
<1>5. r.psOver \in BOOLEAN
  BY DEF Reading
<1> QED BY <1>1, <1>2, <1>3, <1>4, <1>5

LEMMA ReadingTypes ==
    ASSUME NEW n \in 1..Len(Readings)
    PROVE  Readings[n] \in Reading
BY ChipAssumption

LEMMA SmallBytes ==
    ASSUME NEW x, TenBits(x)
    PROVE  /\ x \div 4 \in 0..255 /\ x % 4 \in 0..3
           /\ x \div 16 \in 0..63 /\ x % 16 \in 0..15
<1>1. x \div 4 \in 0..255
  BY DEF TenBits
<1>2. x % 4 \in 0..3
  BY DEF TenBits
<1>3. x \div 16 \in 0..63
  BY DEF TenBits
<1>4. x % 16 \in 0..15
  BY DEF TenBits
<1> QED BY <1>1, <1>2, <1>3, <1>4

LEMMA WideBytes ==
    ASSUME NEW x, TwoBytes(x)
    PROVE  /\ x \div 256 \in 0..255 /\ x % 256 \in 0..255
           /\ x = 256 * (x \div 256) + (x % 256)
<1>1. x \in Nat /\ x <= 65535
  BY SMT DEF Max16, TwoBytes
<1>2. x \div 256 <= 255
  BY <1>1, SMT
<1>3. x \div 256 \in Nat
  BY <1>1, SMT
<1>4. x % 256 \in 0..255
  BY <1>1, SMT
<1>5. x = 256 * (x \div 256) + (x % 256)
  BY <1>1, SMT
<1> QED BY <1>2, <1>3, <1>4, <1>5, SMT

LEMMA RegisterTypes == ChipTypeOK => Registers \in [0..5 -> 0..255]
<1> SUFFICES ASSUME ChipTypeOK PROVE Registers \in [0..5 -> 0..255]
    OBVIOUS
<1>1. CASE cur = 0
  BY <1>1 DEF Registers
<1>2. CASE cur # 0
  <2>1. cur \in 1..Len(Readings)
    BY <1>2, SomeReadings DEF ChipTypeOK
  <2> DEFINE r == Readings[cur]
             f(a) == CASE a = 0 -> (r.ir % 4) + Flag(r.irOver, 128)
                       [] a = 1 -> r.ir \div 4
                       [] a = 2 -> r.als % 256
                       [] a = 3 -> r.als \div 256
                       [] a = 4 -> (r.ps % 16) + Flag(r.psOver, 64)
                       [] a = 5 -> (r.ps \div 16) + Flag(r.psOver, 64)
  <2>2. Registers = [a \in 0..5 |-> f(a)]
    BY <1>2 DEF Registers
  <2>3. /\ TenBits(r.ir) /\ TwoBytes(r.als) /\ TenBits(r.ps)
    BY <2>1, ReadingTypes, RecordTypes
  <2>4. Flag(r.irOver, 128) \in {0, 128} /\ Flag(r.psOver, 64) \in {0, 64}
    BY DEF Flag
  <2> HIDE DEF r
  <2>5. /\ f(0) = (r.ir % 4) + Flag(r.irOver, 128)
        /\ f(1) = r.ir \div 4 /\ f(2) = r.als % 256 /\ f(3) = r.als \div 256
        /\ f(4) = (r.ps % 16) + Flag(r.psOver, 64)
        /\ f(5) = (r.ps \div 16) + Flag(r.psOver, 64)
    OBVIOUS
  <2>6. f(0) \in 0..255
    <3>1. r.ir % 4 \in 0..3
      BY <2>3, SmallBytes
    <3> HIDE DEF f
    <3> QED BY <3>1, <2>4, <2>5
  <2>7. f(1) \in 0..255 /\ f(2) \in 0..255 /\ f(3) \in 0..255
    <3>1. r.ir \div 4 \in 0..255
      BY <2>3, SmallBytes
    <3>2. r.als % 256 \in 0..255 /\ r.als \div 256 \in 0..255
      BY <2>3, WideBytes
    <3> HIDE DEF f
    <3> QED BY <2>5, <3>1, <3>2
  <2>9. f(4) \in 0..255 /\ f(5) \in 0..255
    <3>1. r.ps % 16 \in 0..15 /\ r.ps \div 16 \in 0..63
      BY <2>3, SmallBytes
    <3> HIDE DEF f
    <3> QED BY <3>1, <2>4, <2>5
  <2> HIDE DEF f
  <2>8. \A a \in 0..5 : f(a) \in 0..255
    BY <2>6, <2>7, <2>9
  <2> QED BY <2>2, <2>8
<1> QED BY <1>1, <1>2

LEMMA ApInit == Init => Places
<1> SUFFICES ASSUME Init PROVE Places
    OBVIOUS
<1> USE SomeReadings DEF Init, ChipInit, IicInit, IioInit
<1>1. ChipTypeOK /\ IicDriverTypes
  BY DEF ChipTypeOK, IicDriverTypes
<1>2. IicUserTypes
  <2>1. /\ NoBytes \in [0..5 -> Garbage..255]
        /\ NoWords \in [Channels -> Garbage..Max16]
        /\ NoWords \in [Channels -> GarbageShort..MaxShort]
    BY DEF NoBytes, NoWords, Garbage, GarbageShort, MaxShort
  <2>2. /\ word \in [Channels -> Garbage..Max16]
        /\ buf \in [IicUsers -> [0..5 -> Garbage..255]]
        /\ data \in [IicUsers -> [Channels -> GarbageShort..MaxShort]]
    BY <2>1
  <2>3. /\ at \in [IicUsers -> {"closed", "oops", "reset", "sleep", "enable",
                             "verify", "open", "bytes", "store", "copy",
                             "return"}]
        /\ pos \in [IicUsers -> 0..5]
    OBVIOUS
  <2>4. calm \in [IicUsers -> BOOLEAN]
    OBVIOUS
  <2> HIDE DEF Init, IicInit
  <2> QED BY <2>2, <2>3, <2>4 DEF IicUserTypes
<1>3. IioDriverTypes
  BY DEF IioDriverTypes
<1>4. IioUserTypes
  <2>1. ibuf \in [IioUsers -> (0..255) \X (0..255)]
    BY DEF Nothing
  <2>2. /\ iat \in [IioUsers ->
                      {"idle", "lock", "transfer", "unlock", "return"}]
        /\ ichan \in [IioUsers -> {"none", "ir", "als", "ps"}]
    OBVIOUS
  <2>3. /\ iret \in [IioUsers -> EIO..Max16]
        /\ inow \in [IioUsers -> 0..Len(Readings)]
    BY DEF EIO
  <2> HIDE DEF Init, IioInit
  <2> QED BY <2>1, <2>2, <2>3 DEF IioUserTypes
<1>5. Registered1 /\ Turns /\ LockOwned
  BY IioAssumption DEF Registered1, Turns, LockOwned
<1> HIDE DEF Init
<1> QED BY <1>1, <1>2, <1>3, <1>4, <1>5 DEF Places, Types

-----------------------------------------------------------------------------
\* Every access to the chip keeps its type.
ChipStep ==
    \/ UNCHANGED chip \/ BusError \/ ResetEnds \/ Measure
    \/ \E c : WriteReset(c)
    \/ \E m \in {"down", "on"} : WriteMode(m)

LEMMA ChipTypes == ChipTypeOK /\ ChipStep => ChipTypeOK'
<1> SUFFICES ASSUME ChipTypeOK, ChipStep PROVE ChipTypeOK'
    OBVIOUS
<1> USE SomeReadings DEF ChipTypeOK, chip
<1>1. CASE UNCHANGED chip
  BY <1>1
<1>2. CASE BusError
  BY <1>2 DEF BusError
<1>3. CASE ResetEnds \/ Measure
  BY <1>3 DEF ResetEnds, Measure
<1>4. CASE \E c : WriteReset(c)
  BY <1>4 DEF WriteReset
<1>5. CASE \E m \in {"down", "on"} : WriteMode(m)
  BY <1>5 DEF WriteMode
<1> QED BY <1>1, <1>2, <1>3, <1>4, <1>5 DEF ChipStep

IicDriverStep ==
    /\ IicProbe \/ IicRegister \/ IicPrivate \/ IicRemove
    /\ iic = "absent" => IicMayProbe
    /\ UNCHANGED iioVars

LEMMA IicDriverPlaces == Places /\ IicDriverStep => Places'
<1> SUFFICES ASSUME Places, IicDriverStep PROVE Places'
    OBVIOUS
<1>1. /\ UNCHANGED <<iio, iioDown, lock, ichan, iat, ibuf, iret, inow>>
      /\ UNCHANGED <<mode, resetter, cur, errors>>
      /\ UNCHANGED <<word, at, pos, buf, data, calm>>
  BY DEF IicDriverStep, iioVars, iioDriver, iioUsers, IicProbe, IicRegister,
         IicPrivate, IicRemove, chip, iicUsers
<1>2. ChipTypeOK' /\ IicUserTypes' /\ IioDriverTypes' /\ IioUserTypes'
  <2>1. ChipTypeOK' /\ IioDriverTypes'
    BY <1>1 DEF Places, Types, ChipTypeOK, IioDriverTypes
  <2>2. IicUserTypes'
    BY <1>1 DEF Places, Types, IicUserTypes
  <2>3. IioUserTypes'
    BY <1>1 DEF Places, Types, IioUserTypes
  <2> QED BY <2>1, <2>2, <2>3
<1>3. LockOwned'
  BY <1>1 DEF Places, LockOwned
<1>4. IicDriverTypes /\ Registered1 /\ Turns
  BY DEF Places, Types
<1>5. CASE IicProbe
  BY <1>1, <1>2, <1>3, <1>4, <1>5
     DEF IicProbe, IicDriverStep, IicMayProbe, Places, Types, IicDriverTypes,
         Registrations, Registered1, Turns, Registered
<1>6. CASE IicRegister
  BY <1>1, <1>2, <1>3, <1>4, <1>6
     DEF IicRegister, After, Places, Types, IicDriverTypes, Registrations,
         Registered1, Turns, Registered
<1>7. CASE IicPrivate
  BY <1>1, <1>2, <1>3, <1>4, <1>7
     DEF IicPrivate, Places, Types, IicDriverTypes, Registrations,
         Registered1, Turns, Registered
<1>8. CASE IicRemove
  BY <1>1, <1>2, <1>3, <1>4, <1>8
     DEF IicRemove, Released, Places, Types, IicDriverTypes, Registrations,
         Registered1, Turns, Registered
<1> QED BY <1>5, <1>6, <1>7, <1>8 DEF IicDriverStep

IicUserStep(u) ==
    /\ \/ IicOpen(u) \/ IicReset(u) \/ IicSleep(u) \/ IicEnable(u)
       \/ IicVerify(u) \/ IicClose(u) \/ IicRead(u) \/ IicByte(u)
       \/ IicStore(u) \/ IicCopy(u) \/ IicReturn(u)
    /\ UNCHANGED iioVars

\* The types of the character driver's users.
LEMMA WordTypes ==
    ASSUME NEW hi \in Garbage..255, NEW lo \in Garbage..255
    PROVE  Word(hi, lo, (hi * 256) + lo) \in Garbage..Max16
<1>1. hi \in Int /\ lo \in Int /\ -1 <= hi /\ -1 <= lo /\ hi <= 255 /\ lo <= 255
  BY SMT DEF Garbage
<1>2. Max16 = 65535
  BY SMT DEF Max16
<1>3. CASE hi = -1 \/ lo = -1
  BY <1>1, <1>2, <1>3, SMT DEF Word, Garbage
<1>4. CASE hi # -1 /\ lo # -1
  <2> DEFINE v == (hi * 256) + lo
  <2>1. v \in Int /\ 0 <= v /\ v <= Max16
    BY <1>1, <1>4, Numbers, SMT
  <2>2. Word(hi, lo, v) = v
    BY <1>4, SMT DEF Word, Garbage
  <2>3. v \in Garbage..Max16
    <3> HIDE DEF v
    <3> QED BY <2>1, Numbers, SMT
  <2> QED BY <2>2, <2>3
<1> QED BY <1>3, <1>4

LEMMA DecodedTypes ==
    ASSUME NEW b \in [0..5 -> Garbage..255], NEW c \in Channels
    PROVE  Decoded(b, c) \in Garbage..Max16
<1>1. /\ b[0] \in Garbage..255 /\ b[1] \in Garbage..255 /\ b[2] \in Garbage..255
      /\ b[3] \in Garbage..255 /\ b[4] \in Garbage..255 /\ b[5] \in Garbage..255
  OBVIOUS
<1>2. Max16 \in Nat /\ Max16 >= 1023 /\ 0 \in Garbage..Max16
      /\ Garbage \in Garbage..Max16
  BY SMT DEF Max16, Garbage
<1>3. CASE c = "ir"
  <2>1. \/ Decoded(b, c) = 0
        \/ Decoded(b, c) = Word(b[1], b[0], (b[1] * 256) + b[0])
    BY <1>3 DEF Decoded
  <2> QED BY <1>1, <1>2, <2>1, WordTypes
<1>4. CASE c = "als"
  <2>1. Decoded(b, c) = Word(b[3], b[2], (b[3] * 256) + b[2])
    BY <1>4 DEF Decoded
  <2> QED BY <1>1, <2>1, WordTypes
<1>5. CASE c = "ps"
  <2>1. CASE b[0] >= 128 \/ Garbage \in {b[5], b[4]}
    <3>1. Decoded(b, c) = 0 \/ Decoded(b, c) = Garbage
      BY <1>5, <2>1 DEF Decoded, Word
    <3> QED BY <1>2, <3>1
  <2>2. CASE ~(b[0] >= 128) /\ Garbage \notin {b[5], b[4]}
    <3>1. b[5] \in 0..255 /\ b[4] \in 0..255
      BY <1>1, <2>2 DEF Garbage
    <3>2. ((b[5] % 64) * 16) + (b[4] % 16) \in 0..1023
      <4>1. b[5] % 64 \in 0..63
        BY <3>1
      <4>2. b[4] % 16 \in 0..15
        BY <3>1
      <4> QED BY <4>1, <4>2
    <3>3. Decoded(b, c) = ((b[5] % 64) * 16) + (b[4] % 16)
      BY <1>5, <2>2 DEF Decoded, Word
    <3>4. 0..1023 \subseteq Garbage..Max16
      BY <1>2, SMT DEF Garbage
    <3> QED BY <3>2, <3>3, <3>4
  <2> QED BY <2>1, <2>2
<1> QED BY <1>3, <1>4, <1>5 DEF Channels

LEMMA ShortTypes ==
    ASSUME NEW w \in Garbage..Max16
    PROVE  ShortOf(w) \in GarbageShort..MaxShort
<1>1. w \in Int /\ w >= -1 /\ w <= 65535
  BY SMT DEF Garbage, Max16
<1>2. ShortOf(w) = IF w = -1 THEN -32769
                   ELSE IF w > 32767 THEN w - 65536 ELSE w
  <2>1. Max16 + 1 = 65536 /\ Garbage = -1
    BY SMT DEF Max16, Garbage
  <2> QED BY <2>1 DEF ShortOf, GarbageShort, MaxShort
<1>3. ShortOf(w) \in Int /\ ShortOf(w) >= -32769 /\ ShortOf(w) <= 32767
  BY <1>1, <1>2, SMT
<1>4. /\ GarbageShort \in Int /\ MaxShort \in Int
      /\ GarbageShort <= ShortOf(w) /\ ShortOf(w) <= MaxShort
  BY <1>3 DEF GarbageShort, MaxShort
<1> QED BY <1>3, <1>4

\* The 16 bits stay the same: taken as unsigned they are the word again.
LEMMA ShortBits ==
    ASSUME NEW w, TwoBytes(w)
    PROVE  ShortOf(w) % (Max16 + 1) = w
<1>1. w \in Int /\ w >= 0 /\ w <= 65535
  BY SMT DEF TwoBytes, Max16
<1>2. Max16 + 1 = 65536 /\ w # Garbage
  BY <1>1, SMT DEF Max16, Garbage
<1>3. ShortOf(w) = IF w > 32767 THEN w - 65536 ELSE w
  BY <1>2 DEF ShortOf, MaxShort
<1>4. w % 65536 = w /\ (w - 65536) % 65536 = w
  BY <1>1, SMT
<1> QED BY <1>2, <1>3, <1>4

\* Ten bits are a short as they are.
LEMMA ShortSame ==
    ASSUME NEW w, TenBits(w)
    PROVE  ShortOf(w) = w
BY SMT DEF TenBits, ShortOf, Garbage, MaxShort

LEMMA IicUserTypesKept ==
    ASSUME Places, NEW u \in IicUsers, IicUserStep(u)
    PROVE  ChipTypeOK' /\ IicUserTypes'
<1>0. /\ ChipTypeOK /\ IicUserTypes /\ Garbage \in Int /\ Garbage = -1
      /\ Len(Readings) \in Nat /\ Max16 \in Nat
  BY SomeReadings DEF Places, Types, Garbage
<1> DEFINE Spots == {"closed", "oops", "reset", "sleep", "enable", "verify",
                     "open", "bytes", "store", "copy", "return"}
<1>1. ASSUME NEW v \in Spots, at' = [at EXCEPT ![u] = v]
      PROVE  at' \in [IicUsers -> Spots]
  BY <1>0, <1>1 DEF IicUserTypes
<1>2. ASSUME NEW v \in 0..5, pos' = [pos EXCEPT ![u] = v]
      PROVE  pos' \in [IicUsers -> 0..5]
  BY <1>0, <1>2 DEF IicUserTypes
<1>3. CASE IicOpen(u) \/ IicSleep(u) \/ IicClose(u)
  <2>1. /\ UNCHANGED <<chip, word, pos, buf, data, calm>>
        /\ \E v \in Spots : at' = [at EXCEPT ![u] = v]
    BY <1>3 DEF IicOpen, IicSleep, IicClose, Go
  <2>2. at' \in [IicUsers -> Spots]
    BY <1>1, <2>1
  <2> QED BY <1>0, <2>1, <2>2, ChipTypes DEF ChipStep, IicUserTypes
<1>4. CASE IicReset(u)
  <2>1. ChipTypeOK'
    BY <1>0, <1>4, ChipTypes DEF IicReset, ChipStep
  <2>2. /\ UNCHANGED <<word, pos, buf, data>>
        /\ \E v \in Spots : at' = [at EXCEPT ![u] = v]
    BY <1>4 DEF IicReset, Go
  <2>3. at' \in [IicUsers -> Spots]
    BY <1>1, <2>2
  <2>4. calm' \in [IicUsers -> BOOLEAN]
    <3>1. calm' = [q \in IicUsers |-> ~Fetching(q)] \/ calm' = calm
      BY <1>4 DEF IicReset
    <3>2. \A q \in IicUsers : (~Fetching(q)) \in BOOLEAN
      OBVIOUS
    <3>3. calm \in [IicUsers -> BOOLEAN]
      BY <1>0 DEF IicUserTypes
    <3> QED BY <3>1, <3>2, <3>3, Zenon
  <2> QED BY <1>0, <2>1, <2>2, <2>3, <2>4 DEF IicUserTypes
<1>5. CASE IicEnable(u) \/ IicVerify(u)
  <2>1. ChipStep
    BY <1>5 DEF IicEnable, IicVerify, ChipStep, BusRead
  <2>2. /\ UNCHANGED <<word, pos, buf, data, calm>>
        /\ \E v \in Spots : at' = [at EXCEPT ![u] = v]
    BY <1>5 DEF IicEnable, IicVerify, Go
  <2>3. at' \in [IicUsers -> Spots]
    BY <1>1, <2>2
  <2> QED BY <1>0, <2>1, <2>2, <2>3, ChipTypes DEF IicUserTypes
<1>6. CASE IicRead(u)
  <2>1. /\ UNCHANGED <<chip, word, pos, buf, data>>
        /\ \E v \in Spots : at' = [at EXCEPT ![u] = v]
    BY <1>6 DEF IicRead, Go
  <2>2. at' \in [IicUsers -> Spots]
    BY <1>1, <2>1
  <2>3. calm' \in [IicUsers -> BOOLEAN]
    <3> DEFINE others == {q \in IicUsers \ {u} : Fetching(q)}
               new(q) == IF q = u THEN others = {}
                         ELSE calm[q] /\ q \notin others
    <3>1. calm' = [q \in IicUsers |-> new(q)]
      BY <1>6 DEF IicRead
    <3>2. \A q \in IicUsers : new(q) \in BOOLEAN
      OBVIOUS
    <3> HIDE DEF new
    <3> QED BY <3>1, <3>2, Zenon
  <2> QED BY <1>0, <2>1, <2>2, <2>3, ChipTypes DEF ChipStep, IicUserTypes
<1>7. CASE IicByte(u)
  <2>1. ChipStep
    BY <1>7 DEF IicByte, ChipStep, BusRead
  <2>2. pos[u] \in 0..5 /\ UNCHANGED <<word, data>>
    BY <1>0, <1>7 DEF IicByte, IicUserTypes
  <2>3. at' \in [IicUsers -> Spots]
    <3>1. at' = at \/ at' = [at EXCEPT ![u] = "store"]
      BY <1>7 DEF IicByte, Go
    <3> QED BY <1>0, <1>1, <3>1 DEF IicUserTypes
  <2>4. pos' \in [IicUsers -> 0..5]
    <3>1. \/ pos[u] < 5 /\ pos' = [pos EXCEPT ![u] = pos[u] + 1]
          \/ pos' = [pos EXCEPT ![u] = 0]
      BY <1>7 DEF IicByte, LastByte
    <3>2. \E v \in 0..5 : pos' = [pos EXCEPT ![u] = v]
      BY <2>2, <3>1
    <3> QED BY <1>2, <3>2
  <2>5. buf' \in [IicUsers -> [0..5 -> Garbage..255]]
    <3>1. Registers[pos[u]] \in 0..255
      BY <1>0, <2>2, RegisterTypes
    <3>2. \/ buf' = [buf EXCEPT ![u][pos[u]] = Registers[pos[u]]]
          \/ buf' = [buf EXCEPT ![u][pos[u]] = Garbage]
      BY <1>7 DEF IicByte
    <3>3. Registers[pos[u]] \in Garbage..255 /\ Garbage \in Garbage..255
      BY <1>0, <3>1
    <3>4. PICK v \in Garbage..255 : buf' = [buf EXCEPT ![u][pos[u]] = v]
      BY <3>2, <3>3
    <3> QED BY <1>0, <2>2, <3>4 DEF IicUserTypes
  <2>6. calm' \in [IicUsers -> BOOLEAN]
    BY <1>0, <1>7 DEF IicByte, IicUserTypes
  <2> QED BY <1>0, <2>1, <2>2, <2>3, <2>4, <2>5, <2>6, ChipTypes
          DEF IicUserTypes
<1>8. ASSUME NEW next \in Spots, Step(u, next)
      PROVE  at' \in [IicUsers -> Spots] /\ pos' \in [IicUsers -> 0..5]
  <2>1. pos[u] \in 0..5
    BY <1>0 DEF IicUserTypes
  <2>2. \E v \in 0..5 : pos' = [pos EXCEPT ![u] = v]
    BY <1>8, <2>1 DEF Step
  <2>3. at' = at \/ at' = [at EXCEPT ![u] = next]
    BY <1>8 DEF Step, Go
  <2> QED BY <1>0, <1>1, <1>2, <2>2, <2>3 DEF IicUserTypes
<1>9. CASE IicStore(u)
  <2>1. UNCHANGED <<chip, buf, data, calm>>
    BY <1>9 DEF IicStore
  <2>2. at' \in [IicUsers -> Spots] /\ pos' \in [IicUsers -> 0..5]
    BY <1>8, <1>9 DEF IicStore
  <2>3. word' \in [Channels -> Garbage..Max16]
    <3>1. PICK c : word' = [word EXCEPT ![c] = Decoded(buf[u], c)]
      BY <1>9 DEF IicStore
    <3>2. buf[u] \in [0..5 -> Garbage..255]
      BY <1>0 DEF IicUserTypes
    <3> QED BY <1>0, <3>1, <3>2, DecodedTypes DEF IicUserTypes
  <2> QED BY <1>0, <2>1, <2>2, <2>3, ChipTypes DEF ChipStep, IicUserTypes
<1>10. CASE IicCopy(u)
  <2>1. UNCHANGED <<chip, word, buf, calm>>
    BY <1>10 DEF IicCopy
  <2>2. at' \in [IicUsers -> Spots] /\ pos' \in [IicUsers -> 0..5]
    BY <1>8, <1>10 DEF IicCopy
  <2>3. data' \in [IicUsers -> [Channels -> GarbageShort..MaxShort]]
    <3>1. PICK c : data' = [data EXCEPT ![u][c] = ShortOf(word[c])]
      BY <1>10 DEF IicCopy
    <3>2. c \in Channels => ShortOf(word[c]) \in GarbageShort..MaxShort
      <4>1. c \in Channels => word[c] \in Garbage..Max16
        BY <1>0 DEF IicUserTypes
      <4> QED BY <4>1, ShortTypes
    <3>3. [data[u] EXCEPT ![c] = ShortOf(word[c])]
              \in [Channels -> GarbageShort..MaxShort]
      <4>1. data[u] \in [Channels -> GarbageShort..MaxShort]
        BY <1>0 DEF IicUserTypes
      <4> HIDE DEF Channels
      <4> QED BY <3>2, <4>1
    <3> QED BY <1>0, <3>1, <3>3 DEF IicUserTypes
  <2> QED BY <1>0, <2>1, <2>2, <2>3, ChipTypes DEF ChipStep, IicUserTypes
<1>11. CASE IicReturn(u)
  <2>1. UNCHANGED <<chip, word, pos>> /\ at' \in [IicUsers -> Spots]
    BY <1>1, <1>11 DEF IicReturn, Go
  <2>2. buf' \in [IicUsers -> [0..5 -> Garbage..255]]
    BY <1>0, <1>11 DEF IicReturn, IicUserTypes, NoBytes
  <2>4. data' \in [IicUsers -> [Channels -> GarbageShort..MaxShort]]
    <3>1. NoWords \in [Channels -> GarbageShort..MaxShort]
      BY SMT DEF NoWords, GarbageShort, MaxShort
    <3> QED BY <3>1, <1>11, <1>0 DEF IicReturn, IicUserTypes
  <2>3. calm' \in [IicUsers -> BOOLEAN]
    BY <1>0, <1>11 DEF IicReturn, IicUserTypes
  <2> QED BY <1>0, <2>1, <2>2, <2>3, <2>4, ChipTypes DEF ChipStep, IicUserTypes
<1> QED BY <1>3, <1>4, <1>5, <1>6, <1>7, <1>9, <1>10, <1>11 DEF IicUserStep


LEMMA IicUserPlaces ==
    ASSUME Places, NEW u \in IicUsers, IicUserStep(u)
    PROVE  Places'
<1>0. IicUserTypes /\ Registered1 /\ Turns /\ IicDriverTypes
  BY DEF Places, Types
<1>1. /\ UNCHANGED <<iio, iioDown, lock, ichan, iat, ibuf, iret, inow>>
      /\ UNCHANGED <<iic, held, client>>
  BY DEF IicUserStep, iioVars, iioDriver, iioUsers, IicOpen, IicReset, IicSleep,
         IicEnable, IicVerify, IicClose, IicRead, IicByte, IicStore, IicCopy,
         IicReturn, iicSteps, iicDriver
<1>2. IicDriverTypes' /\ IioDriverTypes' /\ IioUserTypes' /\ Registered1'
        /\ LockOwned'
  BY <1>1 DEF Places, Types, IicDriverTypes, IioDriverTypes, IioUserTypes,
              Registered1, LockOwned
<1>3. \A q \in IicUsers : q # u => at'[q] = at[q]
  BY <1>0 DEF IicUserTypes, IicUserStep, IicOpen, IicReset, IicSleep, IicEnable,
              IicVerify, IicClose, IicRead, IicByte, IicStore, IicCopy,
              IicReturn, Step, Go
<1>4. at'[u] \notin {"closed", "oops"} => iic = "bound"
  <2>1. CASE IicOpen(u)
    <3>1. held # {}
      BY <2>1 DEF IicOpen
    <3>2. client = "NULL" => at'[u] = "oops"
      BY <1>0, <2>1 DEF IicOpen, Go, IicUserTypes
    <3> QED BY <1>0, <3>1, <3>2 DEF Registered1, IicDriverTypes
  <2>2. CASE ~IicOpen(u)
    <3>1. at[u] \notin {"closed", "oops"}
      BY <2>2 DEF IicUserStep, IicReset, IicSleep, IicEnable, IicVerify,
                  IicClose, IicRead, IicByte, IicStore, IicCopy, IicReturn
    <3> QED BY <1>0, <3>1 DEF Turns
  <2> QED BY <2>1, <2>2
<1>5. Turns'
  BY <1>0, <1>1, <1>3, <1>4 DEF Turns, Registered
<1> QED BY <1>2, <1>5, IicUserTypesKept DEF Places, Types

\* The IIO driver.
IioDriverStep ==
    /\ \/ IioProbe \/ IioReset \/ IioSleep \/ IioEnable \/ IioVerify
       \/ IioRegister \/ IioUndo \/ IioRemove \/ IioUnregister
    /\ iio = "absent" => IioMayProbe
    /\ UNCHANGED iicVars

LEMMA IioDriverPlaces == Places /\ IioDriverStep => Places'
<1> SUFFICES ASSUME Places, IioDriverStep PROVE Places'
    OBVIOUS
<1>0. ChipTypeOK /\ IioDriverTypes /\ Turns
  BY DEF Places, Types
<1>1. /\ UNCHANGED <<iic, held, client, opens>>
      /\ UNCHANGED <<word, at, pos, buf, data, calm>>
      /\ UNCHANGED <<lock, ichan, iat, ibuf, iret, inow>>
  BY DEF IioDriverStep, iicVars, iicSteps, iicDriver, iicUsers, iioUsers,
         IioProbe, IioReset, IioSleep, IioEnable, IioVerify, IioRegister,
         IioUndo, IioRemove, PowerDown, IioUnregister
<1>2. ChipTypeOK'
  <2>1. ChipStep
    BY DEF IioDriverStep, IioProbe, IioReset, IioSleep, IioEnable, IioVerify,
           IioRegister, IioUndo, IioRemove, PowerDown, IioUnregister, ChipStep,
           BusRead
  <2> QED BY <1>0, <2>1, ChipTypes
<1>3. IioDriverTypes'
  <2>1. iio' \in {"absent", "reset", "sleep", "enable", "verify", "register",
                "bound", "undo", "removed", "gone"}
    BY DEF IioDriverStep, IioProbe, IioReset, IioSleep, IioEnable, IioVerify,
           IioRegister, IioUndo, IioRemove, PowerDown, IioUnregister,
           RegisterFailed
  <2>2. iioDown' = iioDown \/ iioDown' = TRUE
    BY DEF IioDriverStep, IioProbe, IioReset, IioSleep, IioEnable, IioVerify,
           IioRegister, IioUndo, IioRemove, PowerDown, IioUnregister
  <2> QED BY <1>0, <2>1, <2>2 DEF IioDriverTypes
<1>4. /\ IicDriverTypes' /\ IicUserTypes' /\ IioUserTypes'
      /\ Registered1' /\ LockOwned'
  BY <1>1 DEF Places, Types, IicDriverTypes, IicUserTypes, IioUserTypes,
              Registered1, LockOwned
<1>5. Turns'
  <2>1. \A v \in IicUsers : at'[v] \notin {"closed", "oops"} => iic' = "bound"
    BY <1>0, <1>1 DEF Turns
  <2>2. iio' \notin {"absent", "gone"} =>
            iic' \in {"absent", "failed", "removed"}
    BY <1>0, <1>1
       DEF Turns, IioDriverStep, IioMayProbe, IioProbe, IioReset, IioSleep,
           IioEnable, IioVerify, IioRegister, IioUndo, IioRemove, PowerDown,
           IioUnregister
  <2>3. \A v \in IioUsers : iat'[v] # "idle" => Registered'
    BY <1>0, <1>1
       DEF Turns, Registered, IioDriverStep, IioProbe, IioReset, IioSleep,
           IioEnable, IioVerify, IioRegister, IioUndo, IioRemove, PowerDown,
           IioUnregister
  <2> QED BY <2>1, <2>2, <2>3 DEF Turns
<1> QED BY <1>2, <1>3, <1>4, <1>5 DEF Places, Types

\* The users of the IIO driver.
IioUserStep(u) ==
    /\ \/ IioRead(u) \/ IioLock(u) \/ IioTransfer(u) \/ IioUnlock(u)
       \/ IioReturn(u)
    /\ UNCHANGED iicVars

LEMMA DecodeTypes ==
    ASSUME NEW c \in {"ir", "als", "ps"}, NEW lo \in 0..255, NEW hi \in 0..255
    PROVE  Decode(c, lo, hi) \in EOVERFLOW..Max16
<1>2. lo % 4 \in 0..3 /\ lo % 16 \in 0..15 /\ hi % 64 \in 0..63
  <2>1. lo % 4 \in 0..3
    OBVIOUS
  <2>2. lo % 16 \in 0..15
    OBVIOUS
  <2>3. hi % 64 \in 0..63
    OBVIOUS
  <2> QED BY <2>1, <2>2, <2>3
<1> DEFINE a == (hi * 256) + lo
           b == (hi * 4) + (lo % 4)
           d == ((hi % 64) * 16) + (lo % 16)
<1>3. a \in Int /\ 0 <= a /\ a <= Max16
  BY Numbers, SMT
<1>4. b \in Int /\ 0 <= b /\ b <= Max16
  BY <1>2, Numbers, SMT
<1>5. d \in Int /\ 0 <= d /\ d <= Max16
  BY <1>2, Numbers, SMT
<1>6. Decode(c, lo, hi) \in {a, b, d, EOVERFLOW}
  BY DEF Decode
<1> HIDE DEF a, b, d
<1> QED BY <1>3, <1>4, <1>5, <1>6, Numbers, SMT

LEMMA IioUserPlaces ==
    ASSUME Places, NEW u \in IioUsers, IioUserStep(u)
    PROVE  Places'
<1>0. ChipTypeOK /\ IioUserTypes /\ Turns /\ LockOwned
  BY DEF Places, Types
<1>1. /\ UNCHANGED <<iic, held, client, opens, iio, iioDown>>
      /\ UNCHANGED <<word, at, pos, buf, data, calm>>
  BY DEF IioUserStep, iicVars, iicSteps, iicDriver, iicUsers, iioDriver,
         IioRead, IioLock, IioTransfer, IioUnlock, IioReturn
<1>2. ChipTypeOK'
  <2>1. ChipStep
    BY DEF IioUserStep, IioRead, IioLock, IioTransfer, IioUnlock, IioReturn,
           ChipStep, BusRead
  <2> QED BY <1>0, <2>1, ChipTypes
<1>3. IicDriverTypes' /\ IicUserTypes' /\ IioDriverTypes' /\ Registered1'
  BY <1>1 DEF Places, Types, IicDriverTypes, IicUserTypes, IioDriverTypes,
              Registered1
<1>4. /\ iat' \in [IioUsers -> {"idle", "lock", "transfer", "unlock", "return"}]
      /\ \A q \in IioUsers : q # u => iat'[q] = iat[q]
  <2>1. iat \in [IioUsers -> {"idle", "lock", "transfer", "unlock", "return"}]
    BY <1>0 DEF IioUserTypes
  <2>2. \E v \in {"idle", "lock", "transfer", "unlock", "return"} :
           iat' = [iat EXCEPT ![u] = v]
    BY DEF IioUserStep, IioRead, IioLock, IioTransfer, IioUnlock, IioReturn
  <2> QED BY <2>1, <2>2
<1>5. /\ ichan' \in [IioUsers -> {"none", "ir", "als", "ps"}]
      /\ \A q \in IioUsers : q # u => ichan'[q] = ichan[q]
  <2>1. ichan \in [IioUsers -> {"none", "ir", "als", "ps"}]
    BY <1>0 DEF IioUserTypes
  <2>2. \/ ichan' = ichan
        \/ \E c \in {"none", "ir", "als", "ps"} : ichan' = [ichan EXCEPT ![u] = c]
    BY DEF IioUserStep, IioRead, IioLock, IioTransfer, IioUnlock, IioReturn
  <2> QED BY <2>1, <2>2
<1>6. Turns'
  <2>1. Registered
    BY <1>0 DEF Turns, IioUserStep, IioRead, IioLock, IioTransfer, IioUnlock,
                IioReturn
  <2> QED BY <1>0, <1>1, <2>1 DEF Turns, Registered
<1>7. LockOwned'
  <2>1. CASE IioRead(u)
    BY <1>0, <1>4, <1>5, <2>1 DEF IioRead, LockOwned, IioUserTypes
  <2>2. CASE IioLock(u)
    BY <1>0, <1>4, <1>5, <2>2, IioAssumption
       DEF IioLock, MutexFree, LockOwned, IioUserTypes
  <2>3. CASE IioTransfer(u)
    BY <1>0, <1>4, <1>5, <2>3 DEF IioTransfer, LockOwned, IioUserTypes
  <2>4. CASE IioUnlock(u)
    BY <1>0, <1>4, <1>5, <2>4, IioAssumption DEF IioUnlock, LockOwned, IioUserTypes
  <2>5. CASE IioReturn(u)
    BY <1>0, <1>4, <1>5, <2>5 DEF IioReturn, LockOwned, IioUserTypes
  <2> QED BY <2>1, <2>2, <2>3, <2>4, <2>5 DEF IioUserStep
<1>8. ibuf' \in [IioUsers -> (0..255) \X (0..255)]
  <2>1. CASE ibuf' = ibuf
    BY <1>0, <2>1 DEF IioUserTypes
  <2>2. CASE ibuf' = [ibuf EXCEPT ![u] = Nothing]
    BY <1>0, <2>2 DEF IioUserTypes, Nothing
  <2>3. CASE IioTransfer(u)
    <3> DEFINE a == Address(ichan[u])
    <3>1. ichan[u] \in {"ir", "als", "ps"}
      BY <1>0, <2>3 DEF LockOwned, IioTransfer, IioUserTypes
    <3>2. a \in 0..4
      BY <3>1 DEF Address
    <3>3. \/ ibuf' = [ibuf EXCEPT ![u] = <<Registers[a], Registers[a + 1]>>]
          \/ ibuf' = ibuf
      BY <2>3 DEF IioTransfer
    <3> HIDE DEF a
    <3>4. Registers[a] \in 0..255 /\ Registers[a + 1] \in 0..255
      BY <1>0, <3>2, RegisterTypes
    <3>5. <<Registers[a], Registers[a + 1]>> \in (0..255) \X (0..255)
      BY <3>4
    <3>6. ibuf \in [IioUsers -> (0..255) \X (0..255)]
      BY <1>0 DEF IioUserTypes
    <3> DEFINE p == <<Registers[a], Registers[a + 1]>>
    <3>7. ibuf' = ibuf \/ ibuf' = [ibuf EXCEPT ![u] = p]
      BY <3>3
    <3>8. p \in (0..255) \X (0..255)
      BY <3>5
    <3> HIDE DEF p
    <3> QED BY <3>6, <3>7, <3>8
  <2> QED BY <2>1, <2>2, <2>3 DEF IioUserStep, IioRead, IioLock, IioUnlock,
             IioReturn
<1>9. /\ iret' \in [IioUsers -> EIO..Max16]
      /\ inow' \in [IioUsers -> 0..Len(Readings)]
  <2>1. /\ iret \in [IioUsers -> EIO..Max16]
        /\ inow \in [IioUsers -> 0..Len(Readings)]
    BY <1>0 DEF IioUserTypes
  <2>2. 0 \in EIO..Max16 /\ EIO \in EIO..Max16
        /\ EOVERFLOW..Max16 \subseteq EIO..Max16
    BY Numbers, SMT
  <2>3. CASE IioRead(u) \/ IioLock(u)
    BY <2>1, <2>3 DEF IioRead, IioLock
  <2>4. CASE IioTransfer(u)
    BY <1>0, <2>1, <2>2, <2>4, SomeReadings DEF IioTransfer, ChipTypeOK
  <2>5. CASE IioUnlock(u)
    <3> DEFINE v == Decode(ichan[u], ibuf[u][1], ibuf[u][2])
    <3>1. ichan[u] \in {"ir", "als", "ps"}
      BY <1>0, <2>5 DEF LockOwned, IioUnlock, IioUserTypes
    <3>2. ibuf[u][1] \in 0..255 /\ ibuf[u][2] \in 0..255
      BY <1>0 DEF IioUserTypes
    <3>3. v \in EOVERFLOW..Max16
      BY <3>1, <3>2, DecodeTypes, Zenon
    <3>4. (iret' = iret \/ iret' = [iret EXCEPT ![u] = v]) /\ inow' = inow
      BY <2>5 DEF IioUnlock
    <3> HIDE DEF v
    <3> QED BY <2>1, <2>2, <3>3, <3>4
  <2>6. CASE IioReturn(u)
    BY <2>1, <2>2, <2>6, SomeReadings DEF IioReturn
  <2> QED BY <2>3, <2>4, <2>5, <2>6 DEF IioUserStep
<1> QED BY <1>2, <1>3, <1>4, <1>5, <1>6, <1>7, <1>8, <1>9
        DEF Places, Types, IioUserTypes

\* The chip.
LEMMA ChipPlaces == Places /\ (ChipNext \/ NewReading) => Places'
<1> SUFFICES ASSUME Places, ChipNext \/ NewReading PROVE Places'
    OBVIOUS
<1>1. ChipTypeOK'
  BY ChipTypes DEF Places, Types, ChipNext, NewReading, ChipStep
<1>2. /\ UNCHANGED <<iio, iioDown, lock, ichan, iat, ibuf, iret, inow>>
      /\ UNCHANGED <<iic, held, client, opens, word, at, pos, buf, data>>
  BY DEF ChipNext, NewReading, iicVars, iicSteps, iicDriver, iicUsers, iioVars,
         iioDriver, iioUsers
<1>3. IicUserTypes'
  <2>1. calm' \in [IicUsers -> BOOLEAN]
    <3>1. calm' = [q \in IicUsers |-> ~Fetching(q)] \/ calm' = calm
      BY DEF ChipNext, NewReading, iicVars, iicUsers
    <3>2. \A q \in IicUsers : (~Fetching(q)) \in BOOLEAN
      OBVIOUS
    <3>3. calm \in [IicUsers -> BOOLEAN]
      BY DEF Places, Types, IicUserTypes
    <3> QED BY <3>1, <3>2, <3>3, Zenon
  <2> QED BY <1>2, <2>1 DEF Places, Types, IicUserTypes
<1>4. IicDriverTypes' /\ IioDriverTypes' /\ IioUserTypes'
  BY <1>2 DEF Places, Types, IicDriverTypes, IioDriverTypes, IioUserTypes
<1>5. Registered1' /\ Turns' /\ LockOwned'
  BY <1>2 DEF Places, Registered1, Turns, LockOwned, Registered
<1> QED BY <1>1, <1>3, <1>4, <1>5 DEF Places, Types

\* A step is one of these.
LEMMA StepKinds ==
    ASSUME Places, [Next]_vars
    PROVE  \/ UNCHANGED vars
           \/ IicDriverStep \/ IioDriverStep \/ ChipNext \/ NewReading
           \/ \E u \in IicUsers : IicUserStep(u)
           \/ \E u \in IioUsers : IioUserStep(u)
<1>1. CASE IicNext /\ UNCHANGED iioVars /\ (iic = "absent" => IicMayProbe)
  BY <1>1 DEF IicNext, IicDriverStep, IicUserStep
<1>2. CASE IioNext /\ UNCHANGED iicVars /\ (iio = "absent" => IioMayProbe)
  BY <1>2 DEF IioNext, IioDriverStep, IioUserStep
<1> QED BY <1>1, <1>2 DEF Next

LEMMA PlacesNext == Places /\ [Next]_vars => Places'
<1> SUFFICES ASSUME Places, [Next]_vars PROVE Places'
    OBVIOUS
<1>1. CASE UNCHANGED vars
  <2>1. /\ UNCHANGED <<iio, iioDown, lock, ichan, iat, ibuf, iret, inow>>
        /\ UNCHANGED <<iic, held, client, opens>>
        /\ UNCHANGED <<word, at, pos, buf, data, calm>>
        /\ UNCHANGED <<mode, resetter, cur, errors>>
    BY <1>1 DEF vars, iicVars, iicSteps, iicDriver, iicUsers, iioVars,
                iioDriver, iioUsers, chip
  <2>2. Types'
    BY <2>1 DEF Places, Types, ChipTypeOK, IicDriverTypes, IicUserTypes,
                IioDriverTypes, IioUserTypes
  <2>3. Registered1' /\ Turns' /\ LockOwned'
    BY <2>1 DEF Places, Registered1, Turns, LockOwned, Registered
  <2> QED BY <2>2, <2>3 DEF Places
<1> QED BY <1>1, StepKinds, IicDriverPlaces, IicUserPlaces, IioDriverPlaces,
           IioUserPlaces, ChipPlaces

LEMMA PlacesInv == Spec => []Places
BY ApInit, PlacesNext, PTL DEF Spec

-----------------------------------------------------------------------------
\* The chip's mode.  As long as every transaction went through, a reset has its
\* open still waiting for it, and a chip that is not on for a user that is past
\* its enable has another open on the way to switch it on.
Past(u) == at[u] \in {"verify", "open", "bytes", "store", "copy", "return"}

Waited ==
    errors = 0 /\ mode = "resetting" =>
        \/ \E u \in IicUsers : resetter = u /\ at[u] = "sleep"
        \/ resetter = IIO /\ iio = "sleep"

MadeGood ==
    errors = 0 /\ mode # "on" /\ (\E u \in IicUsers : Past(u)) =>
        \E u \in IicUsers : at[u] \in {"sleep", "enable"}

SwitchedOff == iio = "removed" /\ ~iioDown => mode # "on"

Modes == Waited /\ MadeGood /\ BoundChipOn /\ SwitchedOff

LEMMA ModesInit == Init => Modes
BY DEF Init, ChipInit, IicInit, IioInit, Modes, Waited, MadeGood, Past,
       BoundChipOn, SwitchedOff

LEMMA IicUserModes ==
    ASSUME Places, Modes, NEW u \in IicUsers, IicUserStep(u)
    PROVE  Modes'
<1>0. /\ IicUserTypes /\ Turns /\ errors \in Nat
      /\ Waited /\ MadeGood /\ BoundChipOn /\ SwitchedOff
  BY DEF Places, Types, ChipTypeOK, Modes
<1>1. UNCHANGED <<iio, iioDown>>
  BY DEF IicUserStep, iioVars, iioDriver
<1>2. \A q \in IicUsers : q # u => at'[q] = at[q]
  BY <1>0 DEF IicUserTypes, IicUserStep, IicOpen, IicReset, IicSleep, IicEnable,
              IicVerify, IicClose, IicRead, IicByte, IicStore, IicCopy,
              IicReturn, Step, Go
<1>3. CASE IicOpen(u) \/ IicClose(u)
  <2>1. UNCHANGED <<mode, resetter, errors>>
    BY <1>3 DEF IicOpen, IicClose, chip
  <2>2. /\ at[u] \in {"closed", "open"}
        /\ at'[u] \in {"oops", "reset", "closed"}
    BY <1>0, <1>3 DEF IicOpen, IicClose, Go, IicUserTypes
  <2>3. Waited' /\ MadeGood'
    BY <1>0, <1>1, <1>2, <2>1, <2>2 DEF Waited, MadeGood, Past
  <2> QED BY <1>0, <1>1, <2>1, <2>3 DEF Modes, BoundChipOn, SwitchedOff
<1>4. CASE ~(IicOpen(u) \/ IicClose(u))
  <2>1. at[u] \notin {"closed", "oops"}
    BY <1>4 DEF IicUserStep, IicReset, IicSleep, IicEnable, IicVerify, IicRead,
                IicByte, IicStore, IicCopy, IicReturn
  <2>2. iio \in {"absent", "gone"}
    BY <1>0, <2>1 DEF Turns
  <2>3. BoundChipOn' /\ SwitchedOff'
    BY <1>1, <2>2 DEF BoundChipOn, SwitchedOff
  <2>4. errors' = 0 => errors = 0
    BY <1>0, <1>4 DEF IicUserStep, IicReset, IicSleep, IicEnable, IicVerify,
         IicRead, IicByte, IicStore, IicCopy, IicReturn, chip, BusRead,
         BusError, WriteReset, WriteMode
  <2>5. CASE IicReset(u)
    <3>1. at'[u] = "sleep"
      BY <1>0, <2>5 DEF IicReset, Go, IicUserTypes
    <3>2. CASE WriteReset(u)
      BY <3>1, <3>2, <2>3 DEF WriteReset, Modes, Waited, MadeGood
    <3>3. CASE BusError
      <4>1. errors' # 0
        BY <1>0, <3>3 DEF BusError
      <4> QED BY <4>1, <2>3 DEF Modes, Waited, MadeGood
    <3> QED BY <2>5, <3>2, <3>3 DEF IicReset
  <2>6. CASE IicSleep(u)
    <3>1. /\ at[u] = "sleep" /\ at'[u] = "enable"
          /\ ~(mode = "resetting" /\ resetter = u)
          /\ UNCHANGED <<mode, resetter, errors>>
      BY <1>0, <2>6 DEF IicSleep, Delayed, Go, IicUserTypes, chip
    <3>2. Waited'
      BY <1>0, <1>1, <1>2, <3>1 DEF Waited
    <3>3. MadeGood'
      BY <3>1 DEF MadeGood
    <3> QED BY <2>3, <3>2, <3>3 DEF Modes
  <2>7. CASE IicEnable(u)
    <3>1. at[u] = "enable" /\ at'[u] = "verify"
      BY <1>0, <2>7 DEF IicEnable, Go, IicUserTypes
    <3>2. CASE WriteMode("on")
      <4>1. UNCHANGED <<resetter, errors>>
            /\ mode' = IF mode = "resetting" THEN mode ELSE "on"
        BY <3>2 DEF WriteMode
      <4>2. Waited'
        BY <1>0, <1>1, <1>2, <3>1, <4>1 DEF Waited
      <4>3. MadeGood'
        BY <1>0, <1>2, <2>2, <3>1, <4>1 DEF Waited, MadeGood
      <4> QED BY <2>3, <4>2, <4>3 DEF Modes
    <3>3. CASE BusError
      <4>1. errors' # 0
        BY <1>0, <3>3 DEF BusError
      <4> QED BY <4>1, <2>3 DEF Modes, Waited, MadeGood
    <3> QED BY <2>7, <3>2, <3>3 DEF IicEnable
  <2>8. CASE IicVerify(u) \/ IicRead(u) \/ IicByte(u) \/ IicStore(u)
             \/ IicCopy(u) \/ IicReturn(u)
    <3>1. /\ Past(u) /\ Past(u)' /\ UNCHANGED <<mode, resetter>>
      BY <1>0, <2>8 DEF IicVerify, IicRead, IicByte, IicStore, IicCopy,
           IicReturn, Past, Step, Go, IicUserTypes, chip, BusRead, BusError
    <3>2. Waited' /\ MadeGood'
      BY <1>0, <1>1, <1>2, <2>4, <3>1 DEF Waited, MadeGood, Past
    <3> QED BY <2>3, <3>2 DEF Modes
  <2> QED BY <1>4, <2>5, <2>6, <2>7, <2>8 DEF IicUserStep
<1> QED BY <1>3, <1>4

LEMMA IioDriverModes == Places /\ Modes /\ IioDriverStep => Modes'
<1> SUFFICES ASSUME Places, Modes, IioDriverStep PROVE Modes'
    OBVIOUS
<1>0. /\ IioDriverTypes /\ Turns /\ errors \in Nat
      /\ Waited /\ MadeGood /\ BoundChipOn /\ SwitchedOff
  BY DEF Places, Types, ChipTypeOK, Modes
<1>1. at' = at
  BY DEF IioDriverStep, iicVars, iicUsers
<1>2. CASE IioProbe
  BY <1>0, <1>1, <1>2 DEF IioProbe, chip, Modes, Waited, MadeGood, Past,
                          BoundChipOn, SwitchedOff
<1>3. CASE ~IioProbe
  <2>1. iio \notin {"absent", "gone"}
    BY <1>3 DEF IioDriverStep, IioReset, IioSleep, IioEnable, IioVerify,
                IioRegister, IioUndo, IioRemove, PowerDown, IioUnregister
  <2>2. \A u \in IicUsers : at[u] \in {"closed", "oops"}
    BY <1>0, <2>1 DEF Turns
  <2>3. MadeGood'
    BY <1>1, <2>2 DEF MadeGood, Past
  <2>4. CASE IioReset
    <3>1. \/ mode' = "resetting" /\ resetter' = IIO /\ iio' = "sleep"
          \/ errors' # 0 /\ iio' = "undo"
      BY <1>0, <2>4 DEF IioReset, WriteReset, BusError
    <3> QED BY <2>3, <3>1 DEF Modes, Waited, BoundChipOn, SwitchedOff
  <2>5. CASE IioSleep
    <3>1. /\ iio' = "enable" /\ ~(mode = "resetting" /\ resetter = IIO)
          /\ UNCHANGED <<mode, resetter, errors>>
      BY <2>5 DEF IioSleep, chip
    <3>2. Waited'
      BY <1>0, <1>1, <3>1 DEF Waited
    <3> QED BY <2>3, <3>1, <3>2 DEF Modes, BoundChipOn, SwitchedOff
  <2>6. CASE IioEnable
    <3>1. iio = "enable" /\ iio' \in {"verify", "undo"}
      BY <2>6 DEF IioEnable
    <3>2. \/ errors' # 0
          \/ errors' = errors /\ resetter' = resetter /\ mode' \in {mode, "on"}
      BY <1>0, <2>6 DEF IioEnable, chip, WriteMode, BusError
    <3>3. Waited'
      BY <1>0, <1>1, <2>2, <3>1, <3>2 DEF Waited
    <3> QED BY <2>3, <3>1, <3>3 DEF Modes, BoundChipOn, SwitchedOff
  <2>7. CASE IioVerify
    <3>1. /\ iio = "verify" /\ iio' \in {"register", "undo"}
          /\ iio' = "register" => mode = "on"
          /\ UNCHANGED <<mode, resetter>>
          /\ errors' = 0 => errors = 0
      BY <1>0, <2>7 DEF IioVerify, ModeTaken, chip, BusRead, BusError
    <3>2. Waited'
      BY <1>0, <1>1, <2>2, <3>1 DEF Waited
    <3> QED BY <2>3, <3>1, <3>2 DEF Modes, BoundChipOn, SwitchedOff
  <2>8. CASE IioRegister
    <3>1. /\ iio = "register" /\ iio' \in {"bound", "undo"}
          /\ UNCHANGED <<mode, resetter, errors>>
      BY <2>8 DEF IioRegister, RegisterFailed, chip
    <3>2. Waited'
      BY <1>0, <1>1, <2>2, <3>1 DEF Waited
    <3> QED BY <1>0, <2>3, <3>1, <3>2 DEF Modes, BoundChipOn, SwitchedOff
  <2>9. CASE IioUndo \/ IioRemove
    <3>1. /\ iio \in {"undo", "bound"} /\ iio' \in {"gone", "removed"}
          /\ errors' = 0 => errors = 0 /\ resetter' = resetter
                            /\ mode' \in {mode, "down"}
          /\ mode' = "resetting" => mode = "resetting" /\ resetter' = resetter
          /\ mode' # "on" \/ iioDown' = TRUE
      BY <1>0, <2>9 DEF IioUndo, IioRemove, PowerDown, WriteMode, BusError
    <3>2. Waited'
      BY <1>0, <1>1, <2>2, <3>1 DEF Waited
    <3> QED BY <2>3, <3>1, <3>2 DEF Modes, BoundChipOn, SwitchedOff
  <2>10. CASE IioUnregister
    <3>1. /\ iio = "removed" /\ iio' = "gone"
          /\ UNCHANGED <<mode, resetter, errors>>
      BY <2>10 DEF IioUnregister, chip
    <3>2. Waited'
      BY <1>0, <1>1, <2>2, <3>1 DEF Waited
    <3> QED BY <2>3, <3>1, <3>2 DEF Modes, BoundChipOn, SwitchedOff
  <2> QED BY <1>3, <2>4, <2>5, <2>6, <2>7, <2>8, <2>9, <2>10 DEF IioDriverStep
<1> QED BY <1>2, <1>3

LEMMA ModesNext == Places /\ Modes /\ [Next]_vars => Modes'
<1> SUFFICES ASSUME Places, Modes, [Next]_vars PROVE Modes'
    OBVIOUS
<1>0. /\ errors \in Nat /\ Waited /\ MadeGood /\ BoundChipOn /\ SwitchedOff
  BY DEF Places, Types, ChipTypeOK, Modes
<1>1. CASE UNCHANGED vars \/ IicDriverStep
  <2>1. UNCHANGED <<mode, resetter, errors, at, iio, iioDown>>
    BY <1>1 DEF vars, chip, iicVars, iicUsers, iioVars, iioDriver,
         IicDriverStep, IicProbe, IicRegister, IicPrivate, IicRemove
  <2> QED BY <1>0, <2>1 DEF Modes, Waited, MadeGood, Past, BoundChipOn,
                             SwitchedOff
<1>2. CASE \E u \in IioUsers : IioUserStep(u)
  <2>1. /\ UNCHANGED <<mode, resetter, at, iio, iioDown>>
        /\ errors' = 0 => errors = 0
    BY <1>0, <1>2 DEF IioUserStep, IioRead, IioLock, IioTransfer, IioUnlock,
         IioReturn, chip, BusRead, BusError, iicVars, iicUsers, iioDriver
  <2> QED BY <1>0, <2>1 DEF Modes, Waited, MadeGood, Past, BoundChipOn,
                             SwitchedOff
<1>3. CASE ChipNext
  <2>1. /\ UNCHANGED <<resetter, at, iio, iioDown, errors>>
        /\ mode = "resetting" /\ mode' = "down"
    BY <1>3 DEF ChipNext, ResetEnds, iicVars, iicUsers, iioVars, iioDriver
  <2>2. MadeGood'
    BY <1>0, <2>1 DEF MadeGood, Past
  <2> QED BY <1>0, <2>1, <2>2 DEF Modes, Waited, BoundChipOn, SwitchedOff
<1>4. CASE NewReading
  <2>1. UNCHANGED <<mode, resetter, errors, at, iio, iioDown>>
    BY <1>4 DEF NewReading, Measure, iioVars, iioDriver
  <2> QED BY <1>0, <2>1 DEF Modes, Waited, MadeGood, Past, BoundChipOn,
                             SwitchedOff
<1> QED BY <1>1, <1>2, <1>3, <1>4, StepKinds, IicUserModes, IioDriverModes

LEMMA ModesInv == Spec => []Modes
BY ModesInit, ModesNext, PlacesInv, PTL DEF Spec

-----------------------------------------------------------------------------
\* What the bytes of a reading mean.
Bytes(n) ==
    IF n = 0 THEN [a \in 0..5 |-> 0]
    ELSE LET r == Readings[n] IN
         [a \in 0..5 |-> CASE a = 0 -> (r.ir % 4) + Flag(r.irOver, 128)
                           [] a = 1 -> r.ir \div 4
                           [] a = 2 -> r.als % 256
                           [] a = 3 -> r.als \div 256
                           [] a = 4 -> (r.ps % 16) + Flag(r.psOver, 64)
                           [] a = 5 -> (r.ps \div 16) + Flag(r.psOver, 64)]

LEMMA RegistersAre == Registers = Bytes(cur)
BY DEF Registers, Bytes

LEMMA BytesAre ==
    ASSUME NEW n \in 1..Len(Readings)
    PROVE  LET r == Readings[n] IN
           /\ Bytes(n)[0] = (r.ir % 4) + Flag(r.irOver, 128)
           /\ Bytes(n)[1] = r.ir \div 4
           /\ Bytes(n)[2] = r.als % 256 /\ Bytes(n)[3] = r.als \div 256
           /\ Bytes(n)[4] = (r.ps % 16) + Flag(r.psOver, 64)
           /\ Bytes(n)[5] = (r.ps \div 16) + Flag(r.psOver, 64)
<1>1. n # 0
  BY SomeReadings
<1> DEFINE r == Readings[n]
           f(a) == CASE a = 0 -> (r.ir % 4) + Flag(r.irOver, 128)
                     [] a = 1 -> r.ir \div 4
                     [] a = 2 -> r.als % 256
                     [] a = 3 -> r.als \div 256
                     [] a = 4 -> (r.ps % 16) + Flag(r.psOver, 64)
                     [] a = 5 -> (r.ps \div 16) + Flag(r.psOver, 64)
<1>2. Bytes(n) = [a \in 0..5 |-> f(a)]
  BY <1>1 DEF Bytes
<1> HIDE DEF f
<1>3. /\ Bytes(n)[0] = f(0) /\ Bytes(n)[1] = f(1) /\ Bytes(n)[2] = f(2)
      /\ Bytes(n)[3] = f(3) /\ Bytes(n)[4] = f(4) /\ Bytes(n)[5] = f(5)
  BY <1>2
<1>4. /\ f(0) = (r.ir % 4) + Flag(r.irOver, 128) /\ f(1) = r.ir \div 4
      /\ f(2) = r.als % 256 /\ f(3) = r.als \div 256
      /\ f(4) = (r.ps % 16) + Flag(r.psOver, 64)
      /\ f(5) = (r.ps \div 16) + Flag(r.psOver, 64)
  BY DEF f
<1> QED BY <1>3, <1>4

\* The arithmetic of the two decoders, on the parts of a value.
LEMMA Parts ==
    ASSUME NEW x, TenBits(x)
    PROVE  x = ((x \div 4) * 4) + (x % 4) /\ x = ((x \div 16) * 16) + (x % 16)
<1>1. x = ((x \div 4) * 4) + (x % 4)
  BY SMT DEF TenBits
<1>2. x = ((x \div 16) * 16) + (x % 16)
  BY SMT DEF TenBits
<1> QED BY <1>1, <1>2

LEMMA Bits ==
    ASSUME NEW y \in 0..63, NEW z \in 0..15
    PROVE  /\ (y + 64) % 64 = y /\ y % 64 = y /\ (z + 64) % 16 = z /\ z % 16 = z
           /\ (y \div 64) % 2 = 0 /\ (z \div 64) % 2 = 0
           /\ ((z + 64) \div 64) % 2 = 1
<1>1. (y + 64) % 64 = y
  BY SMT
<1>2. y % 64 = y
  BY SMT
<1>3. (z + 64) % 16 = z
  BY SMT
<1>4. z % 16 = z
  BY SMT
<1>5. y \div 64 = 0 /\ z \div 64 = 0 /\ (z + 64) \div 64 = 1
  BY SMT
<1>6. 0 % 2 = 0 /\ 1 % 2 = 1
  BY SMT
<1> QED BY <1>1, <1>2, <1>3, <1>4, <1>5, <1>6

\* The value that stands for a channel of a reading.
Over(c, n) == CASE c = "ir" -> Readings[n].irOver
                [] c = "ps" -> Readings[n].psOver
                [] c = "als" -> FALSE

LEMMA IioDecodes ==
    ASSUME NEW n \in 1..Len(Readings), NEW c \in {"ir", "als", "ps"},
           NEW lo, lo = Bytes(n)[Address(c)],
           NEW hi, hi = Bytes(n)[Address(c) + 1]
    PROVE  Decode(c, lo, hi) = IF Over(c, n) THEN EOVERFLOW ELSE Readings[n][c]
<1> DEFINE r == Readings[n]
<1>r. r \in Reading
  BY ReadingTypes
<1>1. TenBits(r.ir) /\ TwoBytes(r.als) /\ TenBits(r.ps)
  BY <1>r, RecordTypes
<1>2. CASE c = "als"
  <2>1. lo = r.als % 256 /\ hi = r.als \div 256
    BY <1>2, BytesAre DEF Address
  <2>2. r.als = 256 * (r.als \div 256) + (r.als % 256)
        /\ r.als \div 256 \in 0..255 /\ r.als % 256 \in 0..255
    BY <1>1, WideBytes
  <2>3. Decode(c, lo, hi) = (hi * 256) + lo
    BY <1>2 DEF Decode
  <2>4. (hi * 256) + lo = r.als
    BY <2>1, <2>2, SMT
  <2>5. ~Over(c, n) /\ Readings[n][c] = r.als
    BY <1>2 DEF Over
  <2> QED BY <2>3, <2>4, <2>5
<1>3. CASE c = "ir"
  <2>1. lo = (r.ir % 4) + Flag(r.irOver, 128) /\ hi = r.ir \div 4
    BY <1>3, BytesAre DEF Address
  <2>2. r.ir % 4 \in 0..3 /\ r.ir \div 4 \in 0..255
        /\ r.ir = ((r.ir \div 4) * 4) + (r.ir % 4)
    <3>1. r.ir % 4 \in 0..3 /\ r.ir \div 4 \in 0..255
      BY <1>1, SmallBytes
    <3>2. r.ir = ((r.ir \div 4) * 4) + (r.ir % 4)
      BY <1>1, Parts
    <3> QED BY <3>1, <3>2
  <2>3. Decode(c, lo, hi) = IF lo >= 128 THEN EOVERFLOW ELSE (hi * 4) + (lo % 4)
    BY <1>3 DEF Decode
  <2>4. (Over(c, n) <=> r.irOver) /\ Readings[n][c] = r.ir
    BY <1>3 DEF Over
  <2>5. CASE r.irOver
    <3>1. lo >= 128
      BY <2>1, <2>2, <2>5 DEF Flag
    <3> QED BY <2>3, <2>4, <2>5, <3>1
  <2>6. CASE ~r.irOver
    <3>1. lo = r.ir % 4
      BY <2>1, <2>2, <2>6 DEF Flag
    <3>2. lo % 4 = lo
      BY <2>2, <3>1, SMT
    <3>3. ~(lo >= 128) /\ (hi * 4) + (lo % 4) = r.ir
      BY <2>1, <2>2, <3>1, <3>2, SMT
    <3> QED BY <2>3, <2>4, <2>6, <3>3
  <2> QED BY <2>5, <2>6
<1>4. CASE c = "ps"
  <2> DEFINE y == r.ps \div 16
             z == r.ps % 16
  <2>1. lo = z + Flag(r.psOver, 64) /\ hi = y + Flag(r.psOver, 64)
    BY <1>4, BytesAre DEF Address
  <2>2. y \in 0..63 /\ z \in 0..15 /\ r.ps = (y * 16) + z
    <3>1. y \in 0..63 /\ z \in 0..15
      BY <1>1, SmallBytes
    <3>2. r.ps = (y * 16) + z
      BY <1>1, Parts
    <3> QED BY <3>1, <3>2
  <2>3. Decode(c, lo, hi) = IF PsOverflow(lo, hi) THEN EOVERFLOW
                            ELSE ((hi % 64) * 16) + (lo % 16)
    BY <1>4 DEF Decode
  <2>4. (Over(c, n) <=> r.psOver) /\ Readings[n][c] = r.ps
    BY <1>4 DEF Over
  <2> HIDE DEF y, z
  <2>5. CASE r.psOver
    <3>1. lo = z + 64
      BY <2>1, <2>5 DEF Flag
    <3>2. PsOverflow(lo, hi)
      BY <2>2, <3>1, Bits DEF PsOverflow
    <3> QED BY <2>3, <2>4, <2>5, <3>2
  <2>6. CASE ~r.psOver
    <3> DEFINE f == Flag(r.psOver, 64)
    <3>1. f = 0 /\ lo = z + f /\ hi = y + f
      BY <2>1, <2>6 DEF Flag
    <3> HIDE DEF f
    <3>2. y \in Int /\ z \in Int
      BY <2>2
    <3>3. lo = z /\ hi = y
      BY <3>1, <3>2, SMT
    <3>4. ~PsOverflow(lo, hi) /\ hi % 64 = y /\ lo % 16 = z
      BY <2>2, <3>3, Bits DEF PsOverflow
    <3> QED BY <2>2, <2>3, <2>4, <2>6, <3>4
  <2> QED BY <2>5, <2>6
<1> QED BY <1>2, <1>3, <1>4

LEMMA IicDecodes ==
    ASSUME NEW n \in 1..Len(Readings)
    PROVE  LET r == Readings[n] IN
           /\ Decoded(Bytes(n), "als") = r.als
           /\ Decoded(Bytes(n), "ps") = IF r.irOver THEN 0 ELSE r.ps
           /\ r.irOver => Decoded(Bytes(n), "ir") = 0
<1> DEFINE r == Readings[n]
           b == Bytes(n)
           y == r.ps \div 16
           z == r.ps % 16
           x == r.ir % 4
<1>r. r \in Reading
  BY ReadingTypes
<1>1. TenBits(r.ir) /\ TwoBytes(r.als) /\ TenBits(r.ps)
  BY <1>r, RecordTypes
<1>2. /\ b[0] = x + Flag(r.irOver, 128)
      /\ b[2] = r.als % 256 /\ b[3] = r.als \div 256
      /\ b[4] = z + Flag(r.psOver, 64) /\ b[5] = y + Flag(r.psOver, 64)
  BY BytesAre
<1>3. /\ y \in 0..63 /\ z \in 0..15 /\ r.ps = (y * 16) + z /\ x \in 0..3
  <2>1. y \in 0..63 /\ z \in 0..15
    BY <1>1, SmallBytes
  <2>2. r.ps = (y * 16) + z
    BY <1>1, Parts
  <2>3. x \in 0..3
    BY <1>1, SmallBytes
  <2> QED BY <2>1, <2>2, <2>3
<1>4. /\ r.als = 256 * (r.als \div 256) + (r.als % 256)
      /\ r.als \div 256 \in 0..255 /\ r.als % 256 \in 0..255
  BY <1>1, WideBytes
<1> HIDE DEF b, x, y, z
<1>5. r.irOver <=> b[0] >= 128
  BY <1>2, <1>3 DEF Flag
<1>6. Decoded(b, "als") = r.als
  <2> DEFINE lo == r.als % 256
             hi == r.als \div 256
  <2>1. b[2] = lo /\ b[3] = hi
    BY <1>2
  <2>2. lo \in 0..255 /\ hi \in 0..255 /\ r.als = 256 * hi + lo
    BY <1>4
  <2> HIDE DEF lo, hi
  <2>3. Garbage \notin {b[3], b[2]}
    BY <2>1, <2>2, Numbers
  <2>4. Decoded(b, "als") = (b[3] * 256) + b[2]
    BY <2>3 DEF Decoded, Word
  <2>5. (hi * 256) + lo = 256 * hi + lo
    BY <2>2, SMT
  <2> QED BY <2>1, <2>2, <2>4, <2>5, Zenon
<1>7. Decoded(b, "ps") = IF r.irOver THEN 0 ELSE r.ps
  <2>1. b[4] \in {z, z + 64} /\ b[5] \in {y, y + 64}
    BY <1>2, <1>3 DEF Flag
  <2>2. b[4] % 16 = z /\ b[5] % 64 = y /\ Garbage \notin {b[5], b[4]}
    <3>1. y \in 0..63 /\ z \in 0..15
      BY <1>3
    <3>2. /\ (y + 64) % 64 = y /\ y % 64 = y
          /\ (z + 64) % 16 = z /\ z % 16 = z
      BY <3>1, Bits, Zenon
    <3>3. b[4] % 16 = z /\ b[5] % 64 = y
      BY <2>1, <3>2, Zenon
    <3>4. Garbage \notin {y, y + 64, z, z + 64}
      BY <3>1, SMT DEF Garbage
    <3> QED BY <2>1, <3>3, <3>4, Zenon
  <2>3. Decoded(b, "ps") = IF b[0] >= 128 THEN 0
                           ELSE ((b[5] % 64) * 16) + (b[4] % 16)
    BY <2>2 DEF Decoded, Word
  <2> QED BY <1>3, <1>5, <2>2, <2>3
<1>8. r.irOver => Decoded(b, "ir") = 0
  BY <1>5 DEF Decoded
<1> QED BY <1>6, <1>7, <1>8 DEF b

-----------------------------------------------------------------------------
\* Between transfer and return of the IIO driver's users: their own two bytes
\* are those of the reading they note, and the value is that reading's.
FetchedBy(a, c, b, v, n) ==
    v # EIO /\ n > 0 =>
        /\ a = "unlock" => /\ b[1] = Bytes(n)[Address(c)]
                           /\ b[2] = Bytes(n)[Address(c) + 1]
        /\ a = "return" =>
               v = IF Over(c, n) THEN EOVERFLOW ELSE Readings[n][c]

Fetched == \A u \in IioUsers :
               FetchedBy(iat[u], ichan[u], ibuf[u], iret[u], inow[u])

LEMMA FetchedInit == Init => Fetched
BY DEF Init, IioInit, Fetched, FetchedBy

LEMMA FetchedNext == Places /\ Fetched /\ [Next]_vars => Fetched'
<1> SUFFICES ASSUME Places, Fetched, [Next]_vars PROVE Fetched'
    OBVIOUS
<1>0. IioUserTypes /\ LockOwned
  BY DEF Places, Types
<1>1. CASE \E u \in IioUsers : IioUserStep(u)
  <2>1. PICK u \in IioUsers : IioUserStep(u)
    BY <1>1
  <2>2. \A q \in IioUsers : q # u =>
           /\ iat'[q] = iat[q] /\ ichan'[q] = ichan[q] /\ ibuf'[q] = ibuf[q]
           /\ iret'[q] = iret[q] /\ inow'[q] = inow[q]
    BY <1>0, <2>1 DEF IioUserTypes, IioUserStep, IioRead, IioLock, IioTransfer,
                      IioUnlock, IioReturn
  <2> DEFINE OK == FetchedBy(iat'[u], ichan'[u], ibuf'[u], iret'[u], inow'[u])
  <2>3. ASSUME IioRead(u) \/ IioLock(u) \/ IioReturn(u) PROVE OK
    <3>1. iat'[u] \in {"lock", "transfer", "idle"}
      BY <1>0, <2>3 DEF IioRead, IioLock, IioReturn, IioUserTypes
    <3> QED BY <3>1 DEF FetchedBy
  <2>4. ASSUME IioTransfer(u) PROVE OK
    <3>1. iat'[u] = "unlock"
      BY <1>0, <2>4 DEF IioTransfer, IioUserTypes
    <3>2. CASE iret' = [iret EXCEPT ![u] = EIO]
      BY <1>0, <3>2 DEF FetchedBy, IioUserTypes
    <3>3. CASE iret' # [iret EXCEPT ![u] = EIO]
      <4> DEFINE a == Address(ichan[u])
      <4>1. /\ ibuf' = [ibuf EXCEPT ![u] = <<Registers[a], Registers[a + 1]>>]
            /\ inow' = [inow EXCEPT ![u] = cur] /\ ichan' = ichan
        BY <2>4, <3>3 DEF IioTransfer
      <4>2. ibuf'[u] = <<Bytes(cur)[a], Bytes(cur)[a + 1]>> /\ inow'[u] = cur
        BY <1>0, <4>1, RegistersAre DEF IioUserTypes
      <4>3. ibuf'[u][1] = Bytes(cur)[a] /\ ibuf'[u][2] = Bytes(cur)[a + 1]
        BY <4>2
      <4> QED BY <3>1, <4>1, <4>2, <4>3 DEF FetchedBy
    <3> QED BY <3>2, <3>3
  <2>5. ASSUME IioUnlock(u) PROVE OK
    <3>1. /\ iat[u] = "unlock" /\ iat'[u] = "return"
          /\ ichan' = ichan /\ inow' = inow
      BY <1>0, <2>5 DEF IioUnlock, IioUserTypes
    <3>2. CASE iret[u] = EIO
      <4>1. iret'[u] = EIO
        BY <2>5, <3>2 DEF IioUnlock
      <4> QED BY <4>1 DEF FetchedBy
    <3>3. CASE iret[u] # EIO
      <4> SUFFICES ASSUME inow[u] > 0
                   PROVE  iret'[u] = IF Over(ichan[u], inow[u]) THEN EOVERFLOW
                                     ELSE Readings[inow[u]][ichan[u]]
        BY <3>1 DEF FetchedBy
      <4>1. inow[u] \in 1..Len(Readings) /\ ichan[u] \in {"ir", "als", "ps"}
        BY <1>0, <3>1, SomeReadings DEF IioUserTypes, LockOwned
      <4>2. /\ ibuf[u][1] = Bytes(inow[u])[Address(ichan[u])]
            /\ ibuf[u][2] = Bytes(inow[u])[Address(ichan[u]) + 1]
        BY <3>1, <3>3 DEF Fetched, FetchedBy
      <4>3. iret'[u] = Decode(ichan[u], ibuf[u][1], ibuf[u][2])
        BY <1>0, <2>5, <3>3 DEF IioUnlock, IioUserTypes
      <4> QED BY <4>1, <4>2, <4>3, IioDecodes
    <3> QED BY <3>2, <3>3
  <2>6. OK
    BY <2>1, <2>3, <2>4, <2>5 DEF IioUserStep
  <2> QED BY <2>2, <2>6 DEF Fetched
<1>2. CASE ~ \E u \in IioUsers : IioUserStep(u)
  <2>1. UNCHANGED <<ichan, iat, ibuf, iret, inow>>
    BY <1>2, StepKinds
       DEF vars, IicDriverStep, IioDriverStep, IioProbe, IioReset, IioSleep,
           IioEnable, IioVerify, IioRegister, IioUndo, IioRemove, PowerDown,
           IioUnregister, ChipNext, NewReading, IicUserStep, iioVars, iioUsers
  <2> QED BY <2>1 DEF Fetched
<1> QED BY <1>1, <1>2

LEMMA FetchedInv == Spec => []Fetched
BY FetchedInit, FetchedNext, PlacesInv, PTL DEF Spec

-----------------------------------------------------------------------------
\* How far a read() of the character driver has got that nothing disturbs: what
\* it has fetched, stored in the structure and copied is the chip's reading.
Got(a, p, b, w, d, n) ==
    /\ a = "bytes" => \A k \in 0..5 : k < p => b[k] = Bytes(n)[k]
    /\ a = "store" => /\ b = Bytes(n)
                      /\ p > 0 => w["ir"] = Decoded(Bytes(n), "ir")
                      /\ p > 1 => w["ps"] = Decoded(Bytes(n), "ps")
    /\ a = "copy" => /\ \A c \in Channels : w[c] = Decoded(Bytes(n), c)
                     /\ p > 0 => d["ir"] = ShortOf(Decoded(Bytes(n), "ir"))
                     /\ p > 1 => d["als"] = ShortOf(Decoded(Bytes(n), "als"))
    /\ a = "return" => \A c \in Channels : d[c] = ShortOf(Decoded(Bytes(n), c))

Position(u) ==
    /\ at[u] \notin {"bytes", "store", "copy"} => pos[u] = 0
    /\ at[u] \in {"store", "copy"} => pos[u] <= 2

Alone(u) == \A q \in IicUsers : q # u => ~Fetching(q)

Calms ==
    \A u \in IicUsers :
        /\ Position(u)
        /\ Fetching(u) /\ calm[u] =>
               Alone(u) /\ Got(at[u], pos[u], buf[u], word, data[u], cur)

LEMMA CalmsInit == Init => Calms
BY DEF Init, IicInit, Calms, Position, Fetching

LEMMA BytesTypes == ChipTypeOK => Bytes(cur) \in [0..5 -> 0..255]
BY RegisterTypes, RegistersAre

\* The steps of read() itself.
LEMMA GotByte ==
    ASSUME Places, Calms, NEW u \in IicUsers, IicByte(u), calm'[u]
    PROVE  /\ calm[u] /\ Position(u)' /\ cur' = cur
           /\ Got(at'[u], pos'[u], buf'[u], word', data'[u], cur')
<1>0. /\ IicUserTypes /\ at[u] = "bytes" /\ pos[u] \in 0..5
      /\ Bytes(cur) \in [0..5 -> 0..255]
  BY BytesTypes DEF Places, Types, IicUserTypes, IicByte
<1>1. /\ BusRead /\ calm' = calm
      /\ buf' = [buf EXCEPT ![u][pos[u]] = Registers[pos[u]]]
  BY <1>0 DEF IicByte, IicUserTypes
<1>2. calm[u] /\ cur' = cur
  BY <1>1 DEF BusRead, chip
<1>3. \A k \in 0..5 : k < pos[u] => buf[u][k] = Bytes(cur)[k]
  BY <1>0, <1>2 DEF Calms, Fetching, Got
<1>4. /\ buf[u] \in [0..5 -> Garbage..255]
      /\ buf'[u] = [buf[u] EXCEPT ![pos[u]] = Registers[pos[u]]]
  BY <1>0, <1>1 DEF IicUserTypes
<1>5. /\ buf'[u][pos[u]] = Bytes(cur)[pos[u]]
      /\ \A k \in 0..5 : k # pos[u] => buf'[u][k] = buf[u][k]
  BY <1>0, <1>4, RegistersAre
<1>6. CASE pos[u] < 5
  <2>1. at'[u] = "bytes" /\ pos'[u] = pos[u] + 1
    BY <1>0, <1>6 DEF IicByte, LastByte, IicUserTypes
  <2>2. \A k \in 0..5 : k < pos[u] + 1 => buf'[u][k] = Bytes(cur)[k]
    BY <1>0, <1>3, <1>5
  <2>3. Got(at'[u], pos'[u], buf'[u], word', data'[u], cur')
    BY <1>2, <2>1, <2>2 DEF Got
  <2>4. Position(u)'
    BY <2>1 DEF Position
  <2> QED BY <1>2, <2>3, <2>4
<1>7. CASE ~(pos[u] < 5)
  <2>1. at'[u] = "store" /\ pos'[u] = 0
    BY <1>0, <1>7 DEF IicByte, LastByte, IicUserTypes, Go
  <2>2. \A k \in 0..5 : buf'[u][k] = Bytes(cur)[k]
    BY <1>0, <1>3, <1>5, <1>7
  <2>3. buf'[u] = Bytes(cur)
    <3>1. DOMAIN buf'[u] = 0..5 /\ buf'[u] = [k \in 0..5 |-> buf'[u][k]]
      BY <1>4
    <3> QED BY <1>0, <2>2, <3>1
  <2>4. Got(at'[u], pos'[u], buf'[u], word', data'[u], cur')
    BY <1>2, <2>1, <2>3 DEF Got
  <2>5. Position(u)'
    BY <2>1 DEF Position
  <2> QED BY <1>2, <2>4, <2>5
<1> QED BY <1>6, <1>7

LEMMA Orders ==
    /\ StoreOrder[1] = "ir" /\ StoreOrder[2] = "ps" /\ StoreOrder[3] = "als"
    /\ CopyOrder[1] = "ir" /\ CopyOrder[2] = "als" /\ CopyOrder[3] = "ps"
    /\ Channels = {"ir", "als", "ps"}
BY DEF StoreOrder, CopyOrder, Channels

LEMMA GotStore ==
    ASSUME Places, Calms, NEW u \in IicUsers, IicStore(u), calm'[u]
    PROVE  /\ calm[u] /\ Position(u)' /\ cur' = cur
           /\ Got(at'[u], pos'[u], buf'[u], word', data'[u], cur')
<1>0. /\ IicUserTypes /\ at[u] = "store" /\ pos[u] \in 0..2
      /\ calm' = calm /\ buf' = buf /\ cur' = cur
  BY DEF Places, Types, IicUserTypes, IicStore, Calms, Position, chip
<1>1. /\ buf[u] = Bytes(cur)
      /\ pos[u] > 0 => word["ir"] = Decoded(Bytes(cur), "ir")
      /\ pos[u] > 1 => word["ps"] = Decoded(Bytes(cur), "ps")
  BY <1>0 DEF Calms, Fetching, Got
<1>2. word \in [Channels -> Garbage..Max16]
  BY <1>0 DEF IicUserTypes
<1> DEFINE k == StoreOrder[pos[u] + 1]
<1>3. word' = [word EXCEPT ![k] = Decoded(Bytes(cur), k)]
  BY <1>1 DEF IicStore
<1>4. CASE pos[u] < 2
  <2>1. at'[u] = "store" /\ pos'[u] = pos[u] + 1
    BY <1>0, <1>4 DEF IicStore, Step, IicUserTypes
  <2>2. Position(u)'
    BY <1>0, <1>4, <2>1 DEF Position
  <2>3. CASE pos[u] = 0
    <3>1. word'["ir"] = Decoded(Bytes(cur), "ir")
      BY <1>2, <1>3, <2>3, Orders
    <3> QED BY <1>0, <1>1, <2>1, <2>2, <2>3, <3>1 DEF Got
  <2>4. CASE pos[u] = 1
    <3>1. /\ word'["ps"] = Decoded(Bytes(cur), "ps")
          /\ word'["ir"] = word["ir"]
      BY <1>2, <1>3, <2>4, Orders
    <3> QED BY <1>0, <1>1, <2>1, <2>2, <2>4, <3>1 DEF Got
  <2> QED BY <1>0, <1>4, <2>3, <2>4
<1>5. CASE pos[u] = 2
  <2>1. at'[u] = "copy" /\ pos'[u] = 0
    BY <1>0, <1>5 DEF IicStore, Step, Go, IicUserTypes
  <2>2. Position(u)'
    BY <2>1 DEF Position
  <2>3. /\ word'["als"] = Decoded(Bytes(cur), "als")
        /\ word'["ir"] = word["ir"] /\ word'["ps"] = word["ps"]
    BY <1>2, <1>3, <1>5, Orders
  <2>4. \A c \in Channels : word'[c] = Decoded(Bytes(cur), c)
    BY <1>1, <1>5, <2>3, Orders
  <2> QED BY <1>0, <2>1, <2>2, <2>4 DEF Got
<1> QED BY <1>0, <1>4, <1>5

LEMMA GotCopy ==
    ASSUME Places, Calms, NEW u \in IicUsers, IicCopy(u), calm'[u]
    PROVE  /\ calm[u] /\ Position(u)' /\ cur' = cur
           /\ Got(at'[u], pos'[u], buf'[u], word', data'[u], cur')
<1>0. /\ IicUserTypes /\ at[u] = "copy" /\ pos[u] \in 0..2
      /\ calm' = calm /\ word' = word /\ cur' = cur
  BY DEF Places, Types, IicUserTypes, IicCopy, Calms, Position, chip
<1>1. /\ \A c \in Channels : word[c] = Decoded(Bytes(cur), c)
      /\ pos[u] > 0 => data[u]["ir"] = ShortOf(Decoded(Bytes(cur), "ir"))
      /\ pos[u] > 1 => data[u]["als"] = ShortOf(Decoded(Bytes(cur), "als"))
  BY <1>0 DEF Calms, Fetching, Got
<1>2. data[u] \in [Channels -> GarbageShort..MaxShort]
  BY <1>0 DEF IicUserTypes
<1> DEFINE k == CopyOrder[pos[u] + 1]
<1>3. data'[u] = [data[u] EXCEPT ![k] = ShortOf(word[k])]
  BY <1>0 DEF IicCopy, IicUserTypes
<1>4. CASE pos[u] < 2
  <2>1. at'[u] = "copy" /\ pos'[u] = pos[u] + 1
    BY <1>0, <1>4 DEF IicCopy, Step, IicUserTypes
  <2>2. Position(u)'
    BY <1>0, <1>4, <2>1 DEF Position
  <2>3. CASE pos[u] = 0
    <3>1. data'[u]["ir"] = ShortOf(Decoded(Bytes(cur), "ir"))
      BY <1>1, <1>2, <1>3, <2>3, Orders
    <3> QED BY <1>0, <1>1, <2>1, <2>2, <2>3, <3>1 DEF Got
  <2>4. CASE pos[u] = 1
    <3>1. /\ data'[u]["als"] = ShortOf(Decoded(Bytes(cur), "als"))
          /\ data'[u]["ir"] = data[u]["ir"]
      BY <1>1, <1>2, <1>3, <2>4, Orders
    <3> QED BY <1>0, <1>1, <2>1, <2>2, <2>4, <3>1 DEF Got
  <2> QED BY <1>0, <1>4, <2>3, <2>4
<1>5. CASE pos[u] = 2
  <2>1. at'[u] = "return" /\ pos'[u] = 0
    BY <1>0, <1>5 DEF IicCopy, Step, Go, IicUserTypes
  <2>2. Position(u)'
    BY <2>1 DEF Position
  <2>3. /\ data'[u]["ps"] = ShortOf(Decoded(Bytes(cur), "ps"))
        /\ data'[u]["ir"] = data[u]["ir"] /\ data'[u]["als"] = data[u]["als"]
    BY <1>1, <1>2, <1>3, <1>5, Orders
  <2>4. \A c \in Channels : data'[u][c] = ShortOf(Decoded(Bytes(cur), c))
    BY <1>1, <1>5, <2>3, Orders
  <2> QED BY <1>0, <2>1, <2>2, <2>4 DEF Got
<1> QED BY <1>0, <1>4, <1>5

\* Whoever is undisturbed is alone, so any other user's step leaves it alone.
LEMMA CalmsUser ==
    ASSUME Places, Calms, NEW u \in IicUsers, IicUserStep(u)
    PROVE  Calms'
<1>0. IicUserTypes
  BY DEF Places, Types
<1>1. \A q \in IicUsers : q # u =>
         /\ at'[q] = at[q] /\ pos'[q] = pos[q]
         /\ buf'[q] = buf[q] /\ data'[q] = data[q]
  BY <1>0 DEF IicUserTypes, IicUserStep, IicOpen, IicReset, IicSleep, IicEnable,
              IicVerify, IicClose, IicRead, IicByte, IicStore, IicCopy,
              IicReturn, Step, Go
<1>2. \A q \in IicUsers : q # u => Position(q)'
  BY <1>1 DEF Calms, Position
<1>3. CASE IicOpen(u) \/ IicReset(u) \/ IicSleep(u) \/ IicEnable(u)
           \/ IicVerify(u) \/ IicClose(u)
  <2>1. /\ ~Fetching(u) /\ at'[u] \notin {"bytes", "store", "copy", "return"}
        /\ pos' = pos /\ word' = word
    BY <1>0, <1>3 DEF IicOpen, IicReset, IicSleep, IicEnable, IicVerify,
                      IicClose, Go, Fetching, IicUserTypes
  <2>2. Position(u)'
    BY <2>1 DEF Calms, Position, Fetching
  <2>3. CASE calm' = [q \in IicUsers |-> ~Fetching(q)]
    <3>1. \A q \in IicUsers : Fetching(q)' => Fetching(q) /\ ~calm'[q]
      BY <1>1, <2>1, <2>3 DEF Fetching
    <3> QED BY <1>2, <2>2, <3>1 DEF Calms
  <2>4. CASE calm' # [q \in IicUsers |-> ~Fetching(q)]
    <3>1. calm' = calm /\ cur' = cur
      BY <1>3, <2>4 DEF IicOpen, IicReset, IicSleep, IicEnable, IicVerify,
                        IicClose, chip, BusRead, BusError, WriteMode
    <3>2. \A q \in IicUsers : Fetching(q)' => q # u /\ Fetching(q)
      BY <1>1, <2>1 DEF Fetching
    <3>3. \A q \in IicUsers : Fetching(q)' /\ calm'[q] =>
             /\ Alone(q)
             /\ Got(at'[q], pos'[q], buf'[q], word', data'[q], cur')
      BY <1>1, <2>1, <3>1, <3>2 DEF Calms
    <3>4. \A q \in IicUsers : Alone(q) => Alone(q)'
      BY <3>2 DEF Alone
    <3> QED BY <1>2, <2>2, <3>3, <3>4 DEF Calms
  <2> QED BY <2>3, <2>4
<1>4. CASE IicRead(u)
  <2>1. at[u] = "open" /\ at'[u] = "bytes" /\ pos' = pos
    BY <1>0, <1>4 DEF IicRead, Go, IicUserTypes
  <2>2. pos'[u] = 0
    BY <2>1 DEF Calms, Position
  <2>3. Position(u)' /\ Got(at'[u], pos'[u], buf'[u], word', data'[u], cur')
    BY <1>0, <2>1, <2>2 DEF Position, Got
  <2> DEFINE others == {q \in IicUsers \ {u} : Fetching(q)}
  <2>4. \A q \in IicUsers : calm'[q] = IF q = u THEN others = {}
                                       ELSE calm[q] /\ q \notin others
    BY <1>4 DEF IicRead
  <2>5. \A q \in IicUsers : q # u /\ Fetching(q)' => ~calm'[q]
    <3> SUFFICES ASSUME NEW q \in IicUsers, q # u, Fetching(q)' PROVE ~calm'[q]
      OBVIOUS
    <3>1. q \in others
      BY <1>1 DEF Fetching
    <3> HIDE DEF others
    <3>2. calm'[q] = (calm[q] /\ q \notin others)
      BY <2>4
    <3> QED BY <3>1, <3>2
  <2>6. calm'[u] => others = {}
    <3> HIDE DEF others
    <3> QED BY <2>4
  <2>7. calm'[u] => Alone(u)'
    BY <1>1, <2>6 DEF Alone, Fetching
  <2> QED BY <1>2, <2>3, <2>5, <2>7 DEF Calms
<1>5. CASE IicByte(u) \/ IicStore(u) \/ IicCopy(u)
  <2>1. Fetching(u)
    BY <1>5 DEF IicByte, IicStore, IicCopy, Fetching
  <2>2. \A q \in IicUsers : q # u => calm'[q] = calm[q]
    BY <1>0, <1>5 DEF IicByte, IicStore, IicCopy, IicUserTypes
  <2>3. \A q \in IicUsers : q # u /\ Fetching(q)' => ~calm'[q]
    BY <1>1, <2>1, <2>2 DEF Calms, Alone, Fetching
  <2>4. Position(u)'
    BY <1>0, <1>5 DEF IicByte, IicStore, IicCopy, Step, Go, LastByte,
         IicUserTypes, Calms, Position
  <2>5. calm'[u] =>
           calm[u] /\ Got(at'[u], pos'[u], buf'[u], word', data'[u], cur')
    BY <1>5, GotByte, GotStore, GotCopy
  <2>6. calm'[u] => Alone(u)'
    <3>1. calm[u] => Alone(u)
      BY <2>1 DEF Calms
    <3>2. Alone(u) => Alone(u)'
      BY <1>1 DEF Alone, Fetching
    <3> QED BY <2>5, <3>1, <3>2
  <2> QED BY <1>2, <2>3, <2>4, <2>5, <2>6 DEF Calms
<1>6. CASE IicReturn(u)
  <2>1. at[u] = "return" /\ at'[u] = "open" /\ pos' = pos
    BY <1>0, <1>6 DEF IicReturn, Go, IicUserTypes
  <2>2. Position(u)' /\ ~Fetching(u)'
    BY <2>1 DEF Calms, Position, Fetching
  <2>3. \A q \in IicUsers : q # u => calm'[q] = calm[q]
    BY <1>0, <1>6 DEF IicReturn, IicUserTypes
  <2>4. \A q \in IicUsers : q # u /\ Fetching(q)' => ~calm'[q]
    BY <1>1, <2>1, <2>3 DEF Calms, Alone, Fetching
  <2> QED BY <1>2, <2>2, <2>4 DEF Calms
<1> QED BY <1>3, <1>4, <1>5, <1>6 DEF IicUserStep

LEMMA CalmsNext == Places /\ Calms /\ [Next]_vars => Calms'
<1> SUFFICES ASSUME Places, Calms, [Next]_vars PROVE Calms'
    OBVIOUS
<1>1. CASE \E u \in IicUsers : IicUserStep(u)
  BY <1>1, CalmsUser
<1>2. CASE NewReading
  <2>1. /\ UNCHANGED <<at, pos>> /\ calm' = [u \in IicUsers |-> ~Fetching(u)]
    BY <1>2 DEF NewReading
  <2>2. \A u \in IicUsers : Fetching(u)' => ~calm'[u]
    BY <2>1 DEF Fetching
  <2> QED BY <2>1, <2>2 DEF Calms, Position
<1>3. CASE ~NewReading /\ ~ \E u \in IicUsers : IicUserStep(u)
  <2>1. UNCHANGED <<at, pos, buf, word, data, calm>>
    BY <1>3, StepKinds
       DEF vars, IicDriverStep, IicProbe, IicRegister, IicPrivate, IicRemove,
           IioDriverStep, ChipNext, IioUserStep, iicVars, iicUsers
  <2>2. CASE cur' = cur
    BY <2>1, <2>2 DEF Calms, Position, Alone, Fetching
  <2>3. CASE cur' # cur
    <3>1. IioReset
      BY <1>3, <2>3, StepKinds
         DEF vars, chip, IicDriverStep, IicProbe, IicRegister, IicPrivate,
             IicRemove, ChipNext, ResetEnds, IioUserStep, IioRead, IioLock,
             IioTransfer, IioUnlock, IioReturn, BusRead, BusError,
             IioDriverStep, IioProbe, IioSleep, IioEnable, IioVerify,
             IioRegister, IioUndo, IioRemove, PowerDown, IioUnregister,
             WriteMode
    <3>2. \A u \in IicUsers : at[u] \in {"closed", "oops"}
      BY <3>1 DEF Places, Turns, IioReset
    <3> QED BY <2>1, <3>2 DEF Calms, Position, Fetching
  <2> QED BY <2>2, <2>3
<1> QED BY <1>1, <1>2, <1>3

LEMMA CalmsInv == Spec => []Calms
BY CalmsInit, CalmsNext, PlacesInv, PTL DEF Spec

-----------------------------------------------------------------------------
\* The IIO driver's reads as AtomicRead's: the actions of the abstract
\* specification under the mapping.
Wants == {"ir", "als", "ps"}

LEMMA AtomicActions ==
    /\ IioReads!Init <=> /\ IioShows \in [Wants -> EOVERFLOW..Max16]
                         /\ ichan = [u \in IioUsers |-> "none"]
                         /\ IioAnswers = [u \in IioUsers |-> IioPending]
    /\ IioReads!Change <=> /\ IioShows' \in [Wants -> EOVERFLOW..Max16]
                           /\ ichan' = ichan /\ IioAnswers' = IioAnswers
    /\ \A u : IioReads!Call(u) <=>
          /\ ichan[u] = "none"
          /\ \E c \in Wants : ichan' = [ichan EXCEPT ![u] = c]
          /\ IioShows' = IioShows /\ IioAnswers' = IioAnswers
    /\ \A u : IioReads!Perform(u) <=>
          /\ ichan[u] # "none" /\ IioAnswers[u] = IioPending
          /\ IioAnswers' = [IioAnswers EXCEPT ![u] = IioShows[ichan[u]]]
          /\ IioShows' = IioShows /\ ichan' = ichan
    /\ \A u : IioReads!Fail(u) <=>
          /\ ichan[u] # "none"
          /\ IioAnswers' = [IioAnswers EXCEPT ![u] = EIO]
          /\ IioShows' = IioShows /\ ichan' = ichan
    /\ \A u : IioReads!Return(u) <=>
          /\ IioAnswers[u] # IioPending
          /\ ichan' = [ichan EXCEPT ![u] = "none"]
          /\ IioAnswers' = [IioAnswers EXCEPT ![u] = IioPending]
          /\ IioShows' = IioShows
    /\ UNCHANGED IioReads!vars <=>
          IioShows' = IioShows /\ ichan' = ichan /\ IioAnswers' = IioAnswers
BY DEF IioReads!Init, IioReads!Change, IioReads!Call, IioReads!Perform,
       IioReads!Fail, IioReads!Return, IioReads!vars, Wants

\* What the chip shows is a value or an overflow, and depends on its reading.
ShownAt(n, c) == IF n = 0 THEN 0
                 ELSE IF Over(c, n) THEN EOVERFLOW ELSE Readings[n][c]

LEMMA ShowsAre ==
    ChipTypeOK => /\ IioShows \in [Wants -> EOVERFLOW..Max16]
                  /\ \A c \in Wants : IioShows[c] = ShownAt(cur, c)
<1> SUFFICES ASSUME ChipTypeOK
             PROVE  /\ IioShows \in [Wants -> EOVERFLOW..Max16]
                    /\ \A c \in Wants : IioShows[c] = ShownAt(cur, c)
    OBVIOUS
<1>1. ASSUME NEW c \in Wants PROVE IioShows[c] = ShownAt(cur, c)
  <2>1. CASE c = "ir"
    BY <2>1 DEF IioShows, ShownAt, Over
  <2>2. CASE c = "als"
    BY <2>2 DEF IioShows, ShownAt, Over
  <2>3. CASE c = "ps"
    BY <2>3 DEF IioShows, ShownAt, Over
  <2> QED BY <2>1, <2>2, <2>3 DEF Wants
<1>2. ASSUME NEW c \in Wants PROVE ShownAt(cur, c) \in EOVERFLOW..Max16
  <2>1. CASE cur = 0
    BY <2>1, Numbers, SMT DEF ShownAt
  <2>2. CASE cur # 0
    <3>1. cur \in 1..Len(Readings)
      BY <2>2, SomeReadings DEF ChipTypeOK
    <3>2. Readings[cur] \in Reading
      BY <3>1, ReadingTypes
    <3> DEFINE r == Readings[cur]
    <3>3. TenBits(r.ir) /\ TwoBytes(r.als) /\ TenBits(r.ps)
      BY <3>2, RecordTypes
    <3>4. /\ \A x : TenBits(x) => x \in EOVERFLOW..Max16
          /\ \A x : TwoBytes(x) => x \in EOVERFLOW..Max16
          /\ EOVERFLOW \in EOVERFLOW..Max16
      BY Numbers, SMT DEF TenBits, TwoBytes
    <3>5. r[c] \in {r.ir, r.als, r.ps}
      BY DEF Wants
    <3> HIDE DEF r
    <3> QED BY <2>2, <3>3, <3>4, <3>5 DEF ShownAt, r
  <2> QED BY <2>1, <2>2
<1>3. IioShows = [c \in Wants |-> IioShows[c]]
  BY DEF IioShows, Wants
<1> QED BY <1>1, <1>2, <1>3

LEMMA ShowsStays == ChipTypeOK' => (IioShows \in [Wants -> EOVERFLOW..Max16])'
<1>1. ChipTypeOK => IioShows \in [Wants -> EOVERFLOW..Max16]
  BY ShowsAre
<1> QED BY <1>1, PTL

\* The two bytes of a channel, decoded, are what the chip shows.
LEMMA DecodesShown ==
    ASSUME ChipTypeOK, NEW c \in Wants
    PROVE  Decode(c, Registers[Address(c)], Registers[Address(c) + 1])
               = IioShows[c]
<1>1. IioShows[c] = ShownAt(cur, c)
  BY ShowsAre
<1>2. CASE cur = 0
  <2>1. Registers[Address(c)] = 0 /\ Registers[Address(c) + 1] = 0
    BY <1>2 DEF Registers, Address, Wants
  <2>2. (0 * 256) + 0 = 0 /\ (0 * 4) + (0 % 4) = 0 /\ ((0 % 64) * 16) + (0 % 16) = 0
        /\ (0 \div 64) % 2 = 0
    BY SMT
  <2>3. Decode(c, 0, 0) = 0
    BY <2>2, SMT DEF Decode, PsOverflow, Wants
  <2> QED BY <1>1, <1>2, <2>1, <2>3 DEF ShownAt
<1>3. CASE cur # 0
  <2>1. cur \in 1..Len(Readings)
    BY <1>3, SomeReadings DEF ChipTypeOK
  <2>2. Registers = Bytes(cur)
    BY RegistersAre
  <2> QED BY <1>1, <1>3, <2>1, <2>2, IioDecodes DEF ShownAt, Wants
<1> QED BY <1>2, <1>3

\* A user that does not read asks for nothing.
Asks == \A u \in IioUsers : iat[u] = "idle" => ichan[u] = "none"

LEMMA AsksNext == Places /\ Asks /\ [Next]_vars => Asks'
<1> SUFFICES ASSUME Places, Asks, [Next]_vars PROVE Asks'
    OBVIOUS
<1>0. IioUserTypes
  BY DEF Places, Types
<1>1. CASE \E u \in IioUsers : IioUserStep(u)
  BY <1>0, <1>1 DEF Asks, IioUserTypes, IioUserStep, IioRead, IioLock,
                    IioTransfer, IioUnlock, IioReturn
<1>2. CASE ~ \E u \in IioUsers : IioUserStep(u)
  <2>1. UNCHANGED <<ichan, iat>>
    BY <1>2, StepKinds
       DEF vars, IicDriverStep, IioDriverStep, IioProbe, IioReset, IioSleep,
           IioEnable, IioVerify, IioRegister, IioUndo, IioRemove, PowerDown,
           IioUnregister, ChipNext, NewReading, IicUserStep, iioVars, iioUsers
  <2> QED BY <2>1 DEF Asks
<1> QED BY <1>1, <1>2

LEMMA AsksInv == Spec => []Asks
<1>1. Init => Asks
  BY DEF Init, IioInit, Asks
<1> QED BY <1>1, AsksNext, PlacesInv, PTL DEF Spec

\* A step that is no user's changes at most what the chip shows.
LEMMA ElsewhereChanges ==
    ASSUME Places, [Next]_vars, ~ \E u \in IioUsers : IioUserStep(u)
    PROVE  IioReads!Change
<1>1. UNCHANGED <<ichan, iat, ibuf, iret>>
  BY StepKinds
     DEF vars, IicDriverStep, IioDriverStep, IioProbe, IioReset, IioSleep,
         IioEnable, IioVerify, IioRegister, IioUndo, IioRemove, PowerDown,
         IioUnregister, ChipNext, NewReading, IicUserStep, iioVars, iioUsers
<1>2. IioAnswers' = IioAnswers
  BY <1>1 DEF IioAnswers, IioAnswer
<1>3. ChipTypeOK'
  BY PlacesNext DEF Places, Types
<1>4. IioShows' \in [Wants -> EOVERFLOW..Max16]
  BY <1>3, ShowsStays
<1> QED BY <1>1, <1>2, <1>4, AtomicActions

\* A user's step is its call, the moment of the read, its failure, its return,
\* or nothing that can be seen.
LEMMA UserReads ==
    ASSUME Places, Asks, NEW u \in IioUsers, IioUserStep(u)
    PROVE  [IioReads!Next]_(IioReads!vars)
<1>0. ChipTypeOK /\ IioUserTypes /\ LockOwned
  BY DEF Places, Types
<1>1. cur' = cur /\ IioShows' = IioShows
  BY DEF IioUserStep, IioRead, IioLock, IioTransfer, IioUnlock, IioReturn, chip,
         BusRead, BusError, IioShows
<1>2. \A q \in IioUsers : q # u => IioAnswer(q)' = IioAnswer(q)
  <2>1. \A q \in IioUsers : q # u =>
           /\ iat'[q] = iat[q] /\ ichan'[q] = ichan[q] /\ ibuf'[q] = ibuf[q]
           /\ iret'[q] = iret[q]
    BY <1>0 DEF IioUserTypes, IioUserStep, IioRead, IioLock, IioTransfer,
                IioUnlock, IioReturn
  <2> QED BY <2>1 DEF IioAnswer
<1>3. \A v : IioAnswer(u)' = v => IioAnswers' = [IioAnswers EXCEPT ![u] = v]
  BY <1>2 DEF IioAnswers
<1>4. IioAnswer(u)' = IioAnswer(u) => IioAnswers' = IioAnswers
  BY <1>2 DEF IioAnswers
<1>5. IioAnswers[u] = IioAnswer(u)
  BY DEF IioAnswers
<1>6. CASE IioRead(u)
  <2>1. iat[u] = "idle" /\ iat'[u] = "lock"
    BY <1>0, <1>6 DEF IioRead, IioUserTypes
  <2>2. IioAnswers' = IioAnswers
    BY <1>4, <2>1 DEF IioAnswer
  <2>3. IioReads!Call(u)
    BY <1>1, <1>6, <2>1, <2>2, AtomicActions DEF IioRead, Asks, Wants
  <2> QED BY <2>3 DEF IioReads!Next
<1>7. CASE IioLock(u)
  <2>1. iat[u] = "lock" /\ iat'[u] = "transfer" /\ ichan' = ichan
    BY <1>0, <1>7 DEF IioLock, IioUserTypes
  <2>2. IioAnswers' = IioAnswers
    BY <1>4, <2>1 DEF IioAnswer
  <2> QED BY <1>1, <2>1, <2>2, AtomicActions
<1>8. CASE IioTransfer(u)
  <2>1. iat[u] = "transfer" /\ iat'[u] = "unlock" /\ ichan' = ichan
    BY <1>0, <1>8 DEF IioTransfer, IioUserTypes
  <2>2. ichan[u] \in Wants /\ ichan[u] # "none"
    BY <1>0, <2>1 DEF LockOwned, IioUserTypes, Wants
  <2>3. IioAnswers[u] = IioPending
    BY <1>5, <2>1 DEF IioAnswer
  <2>4. CASE iret'[u] = EIO
    <3>1. IioAnswer(u)' = EIO
      BY <2>1, <2>4 DEF IioAnswer
    <3>2. IioReads!Fail(u)
      BY <1>1, <1>3, <2>1, <2>2, <3>1, AtomicActions
    <3> QED BY <3>2 DEF IioReads!Next
  <2>5. CASE iret'[u] # EIO
    <3> DEFINE a == Address(ichan[u])
    <3>1. ibuf' = [ibuf EXCEPT ![u] = <<Registers[a], Registers[a + 1]>>]
      BY <1>0, <1>8, <2>5 DEF IioTransfer, IioUserTypes
    <3>2. ibuf'[u][1] = Registers[a] /\ ibuf'[u][2] = Registers[a + 1]
      BY <1>0, <3>1 DEF IioUserTypes
    <3>3. IioAnswer(u)' = Decode(ichan[u], Registers[a], Registers[a + 1])
      BY <2>1, <2>5, <3>2 DEF IioAnswer
    <3>4. IioAnswer(u)' = IioShows[ichan[u]]
      BY <1>0, <2>2, <3>3, DecodesShown
    <3>5. IioReads!Perform(u)
      BY <1>1, <1>3, <2>1, <2>2, <2>3, <3>4, AtomicActions
    <3> QED BY <3>5 DEF IioReads!Next
  <2> QED BY <2>4, <2>5
<1>9. CASE IioUnlock(u)
  <2>1. iat[u] = "unlock" /\ iat'[u] = "return" /\ ichan' = ichan
    BY <1>0, <1>9 DEF IioUnlock, IioUserTypes
  <2>2. iret'[u] = IF iret[u] = EIO THEN EIO
                   ELSE Decode(ichan[u], ibuf[u][1], ibuf[u][2])
    BY <1>0, <1>9 DEF IioUnlock, IioUserTypes
  <2>3. IioAnswers' = IioAnswers
    BY <1>4, <2>1, <2>2 DEF IioAnswer
  <2> QED BY <1>1, <2>1, <2>3, AtomicActions
<1>10. CASE IioReturn(u)
  <2>1. iat[u] = "return" /\ iat'[u] = "idle"
        /\ ichan' = [ichan EXCEPT ![u] = "none"]
    BY <1>0, <1>10 DEF IioReturn, IioUserTypes
  <2>2. IioAnswers[u] = iret[u] /\ IioAnswer(u)' = IioPending
    BY <1>5, <2>1 DEF IioAnswer
  <2>3. iret[u] # IioPending
    BY <1>0, SMT DEF IioUserTypes, IioPending, EIO
  <2>4. IioReads!Return(u)
    BY <1>1, <1>3, <2>1, <2>2, <2>3, AtomicActions
  <2> QED BY <2>4 DEF IioReads!Next
<1> QED BY <1>6, <1>7, <1>8, <1>9, <1>10 DEF IioUserStep

LEMMA ReadsInit == Init => IioReads!Init
<1> SUFFICES ASSUME Init PROVE IioReads!Init
    OBVIOUS
<1>1. ChipTypeOK
  BY ApInit DEF Places, Types
<1>2. IioAnswers = [u \in IioUsers |-> IioPending]
  BY DEF Init, IioInit, IioAnswers, IioAnswer
<1> QED BY <1>1, <1>2, ShowsAre, AtomicActions DEF Init, IioInit

LEMMA ReadsNext ==
    Places /\ Asks /\ [Next]_vars => [IioReads!Next]_(IioReads!vars)
<1> SUFFICES ASSUME Places, Asks, [Next]_vars
             PROVE  [IioReads!Next]_(IioReads!vars)
    OBVIOUS
<1>1. CASE \E u \in IioUsers : IioUserStep(u)
  BY <1>1, UserReads
<1>2. CASE ~ \E u \in IioUsers : IioUserStep(u)
  BY <1>2, ElsewhereChanges DEF IioReads!Next
<1> QED BY <1>1, <1>2

-----------------------------------------------------------------------------
\* The types of both drivers; at every step of probe what is registered, and the
\* mutex of the other driver owned by the user between lock and unlock.
THEOREM ApTypes == Spec => []ApTypeOK
BY PlacesInv, PlacesTypes, PTL

\* However many opens of the character driver race each other, when the last is
\* over the chip is on, if every transaction went through (ap3216c_open).
THEOREM OpensLeaveOn == Spec => []OpenChipOn
<1>1. Modes => OpenChipOn
  BY DEF Modes, MadeGood, OpenChipOn, Past, Opening
<1> QED BY <1>1, ModesInv, PTL

\* The IIO driver registers, and stays bound, only with a chip that is on
\* (ap3216c_chip_init, ap3216c_probe).
THEOREM BoundLeavesOn == Spec => []BoundChipOn
<1>1. Modes => BoundChipOn
  BY DEF Modes
<1> QED BY <1>1, ModesInv, PTL

\* The IIO driver does not leave the chip measuring, by whatever way it goes,
\* unless the write that powers the chip down failed (ap3216c_remove).
THEOREM GoneLeavesOff == Spec => GoneChipDown
<1>1. ASSUME Modes, [Next]_vars
      PROVE  [iio # "gone" /\ iio' = "gone" /\ ~iioDown'
                  => mode' # "on"]_<<chip, iioVars>>
  <2> SUFFICES ASSUME iio # "gone", iio' = "gone", ~iioDown' PROVE mode' # "on"
      BY DEF iioVars
  <2>1. IioUndo \/ IioUnregister
    BY <1>1 DEF Next, vars, IicNext, iioVars, iioDriver, ChipNext, NewReading,
         IioNext, IioProbe, IioReset, IioSleep, IioEnable, IioVerify,
         IioRegister, RegisterFailed, IioRemove, PowerDown, IioRead, IioLock,
         IioTransfer, IioUnlock, IioReturn
  <2>2. CASE IioUndo
    BY <2>2 DEF IioUndo, PowerDown, WriteMode
  <2>3. CASE IioUnregister
    BY <1>1, <2>3 DEF IioUnregister, chip, Modes, SwitchedOff
  <2> QED BY <2>1, <2>2, <2>3
<1> QED BY <1>1, ModesInv, PTL DEF Spec, GoneChipDown

\* A value the IIO driver hands out is that of one reading that was in the chip
\* during the call, and EOVERFLOW exactly when that reading overflows
\* (ap3216c_read_channel and its decoding after the unlock).
THEOREM IioReadsExact == Spec => []IioExact
<1>1. Places /\ Fetched => IioExact
  <2> SUFFICES ASSUME Places, Fetched, NEW u \in IioUsers, iat[u] = "return",
                      iret[u] # EIO, inow[u] > 0
               PROVE  iret[u] = IF Over(ichan[u], inow[u]) THEN EOVERFLOW
                                ELSE Readings[inow[u]][ichan[u]]
    BY DEF IioExact, Over
  <2> QED BY DEF Fetched, FetchedBy
<1> QED BY <1>1, PlacesInv, FetchedInv, PTL

\* The IIO driver implements AtomicRead: a channel read in four steps, among
\* other users, new readings and resets, is worth what the chip shows at one
\* moment of the call, or an I/O error (ap3216c_read_channel, read_raw).
THEOREM IioReadsAtomic == Spec => IioAtomic
BY ReadsInit, ReadsNext, PlacesInv, AsksInv, PTL
   DEF Spec, IioAtomic, IioReads!Spec

\* A read() of the character driver hands out the reading in the chip, the
\* brightness in the 16 bits of an unsigned short, when no transaction of it
\* fails, the chip keeps its reading, and nobody else reads meanwhile.
THEOREM IicReadsExact == Spec => []IicExact
<1>1. Places /\ Calms => IicExact
  <2> SUFFICES ASSUME Places, Calms, NEW u \in IicUsers, at[u] = "return",
                      calm[u], cur > 0
               PROVE  LET r == Readings[cur] IN
                      /\ data[u]["als"] % (Max16 + 1) = r.als
                      /\ data[u]["ps"] = IF r.irOver THEN 0 ELSE r.ps
                      /\ r.irOver => data[u]["ir"] = 0
    BY DEF IicExact, Undisturbed
  <2> DEFINE r == Readings[cur]
             b == Bytes(cur)
  <2>1. \A c \in Channels : data[u][c] = ShortOf(Decoded(b, c))
    BY DEF Calms, Fetching, Got
  <2>2. cur \in 1..Len(Readings)
    BY SomeReadings DEF Places, Types, ChipTypeOK
  <2>3. TwoBytes(r.als) /\ TenBits(r.ps)
    BY <2>2, ReadingTypes, RecordTypes
  <2>4. /\ Decoded(b, "als") = r.als
        /\ Decoded(b, "ps") = IF r.irOver THEN 0 ELSE r.ps
        /\ r.irOver => Decoded(b, "ir") = 0
    BY <2>2, IicDecodes
  <2>5. ShortOf(0) = 0
    BY SMT DEF ShortOf, Garbage, MaxShort
  <2> HIDE DEF r, b
  <2>6. data[u]["als"] % (Max16 + 1) = r.als
    BY <2>1, <2>3, <2>4, ShortBits, Orders
  <2>7. data[u]["ps"] = IF r.irOver THEN 0 ELSE r.ps
    BY <2>1, <2>3, <2>4, <2>5, ShortSame, Orders
  <2>8. r.irOver => data[u]["ir"] = 0
    BY <2>1, <2>4, <2>5, Orders
  <2> QED BY <2>6, <2>7, <2>8 DEF r
<1> QED BY <1>1, PlacesInv, CalmsInv, PTL

=============================================================================
