----------------------------- MODULE IicAp3216c -----------------------------
(***************************************************************************)
(* The character driver drivers/IIC_AP3216C/iic_ap3216c.c: probe and       *)
(* remove, open(), which resets and enables the chip, and read(), which    *)
(* fetches six registers one transaction at a time, decodes them into the  *)
(* global device structure and copies them from there.  There is no lock,  *)
(* and no result of a transaction is looked at.                            *)
(*                                                                         *)
(* The driver is bound and unbound by loading and unloading its module,    *)
(* which open files prevent (.owner = THIS_MODULE).  Left out: the         *)
(* reference to the adapter that every register read takes and nobody      *)
(* gives back (line 100), and copy_to_user's failure.                      *)
(***************************************************************************)
EXTENDS Ap3216cChip

CONSTANTS IicUsers,      \* open files, one system call at a time each
          MaxConcurrent, \* bound: read() calls at once
          MaxOpens       \* bound: open() calls in all

ASSUME IicAssumption ==
    IsFiniteSet(IicUsers) /\ MaxConcurrent \in Nat /\ MaxOpens \in Nat

VARIABLES
    iic,      \* where probe is, or "bound", "failed", "absent"
    held,     \* what probe has registered
    client,   \* ap3216c_dev.private_data: "NULL" or "client"
    opens,    \* open() calls so far
    word,     \* ap3216c_dev.ir, .ps and .als
    at,       \* where each user is
    pos,      \* the register or the word that comes next there
    buf,      \* its buf[6] in ap3216c_readdata
    data,     \* its data[3] in ap3216c_read
    calm      \* history: during its read() no transaction failed, the chip
              \* kept its reading, and nobody else read

iicDriver == <<iic, held, client>>
iicSteps == <<iicDriver, opens>>
iicUsers == <<word, at, pos, buf, data, calm>>
iicVars == <<iicSteps, iicUsers>>

Channels == {"ir", "als", "ps"}
Garbage == -1         \* ap3216c_read_reg's uninitialised byte
NoBytes == [i \in 0..5 |-> 0]
NoWords == [c \in Channels |-> 0]

IicInit ==
    /\ iic = "absent" /\ held = {} /\ client = "NULL" /\ opens = 0
    /\ word = NoWords
    /\ at = [u \in IicUsers |-> "closed"]
    /\ pos = [u \in IicUsers |-> 0]
    /\ buf = [u \in IicUsers |-> NoBytes]
    /\ data = [u \in IicUsers |-> NoWords]
    /\ calm = [u \in IicUsers |-> TRUE]

-----------------------------------------------------------------------------
\* ap3216c_probe, one registration after the other; a failure undoes nothing.
Registrations == {"region", "cdev", "class", "device"}
After(r) == CASE r = "region" -> "cdev" [] r = "cdev" -> "class"
              [] r = "class" -> "device" [] r = "device" -> "private"

IicProbe ==
    /\ iic = "absent" /\ iic' = "region"
    /\ UNCHANGED <<chip, held, client, opens, iicUsers>>

IicRegister ==
    /\ iic \in Registrations
    /\ \/ held' = held \union {iic} /\ iic' = After(iic)
       \/ iic' = "failed" /\ UNCHANGED held
    /\ UNCHANGED <<chip, client, opens, iicUsers>>

IicPrivate ==
    /\ iic = "private" /\ iic' = "bound" /\ client' = "client"
    /\ UNCHANGED <<chip, held, opens, iicUsers>>

Released == {"cdev", "region", "device", "class"}

\* ap3216c_remove, when the module is unloaded; the structure stays as it is.
IicRemove ==
    /\ iic = "bound" /\ \A u \in IicUsers : at[u] \in {"closed", "oops"}
    /\ iic' = "removed" /\ held' = held \ Released
    /\ UNCHANGED <<chip, client, opens, iicUsers>>

-----------------------------------------------------------------------------
Fetching(u) == at[u] \in {"bytes", "store", "copy", "return"}

\* ap3216c_open: the software reset, mdelay(50), the mode, and its read-back.
\* Before probe has stored the client the first of these oopses.
Go(u, place) == at' = [at EXCEPT ![u] = place]

IicOpen(u) ==
    /\ at[u] = "closed" /\ {"cdev", "device"} \subseteq held
    /\ opens < MaxOpens /\ opens' = opens + 1
    /\ IF client = "NULL" THEN Go(u, "oops") ELSE Go(u, "reset")
    /\ UNCHANGED <<chip, iicDriver, word, pos, buf, data, calm>>

\* Nobody's read() stays calm when the chip is reset.
IicReset(u) ==
    /\ at[u] = "reset" /\ Go(u, "sleep")
    /\ \/ WriteReset(u) /\ calm' = [q \in IicUsers |-> ~Fetching(q)]
       \/ BusError /\ UNCHANGED calm
    /\ UNCHANGED <<iicSteps, word, pos, buf, data>>

NoDelay(u) == TRUE   \* bug: the chip is not given the time to reset
Delayed(u) == ~(mode = "resetting" /\ resetter = u)

IicSleep(u) ==
    /\ at[u] = "sleep" /\ Delayed(u) /\ Go(u, "enable")
    /\ UNCHANGED <<chip, iicSteps, word, pos, buf, data, calm>>

IicEnable(u) ==
    /\ at[u] = "enable" /\ Go(u, "verify")
    /\ WriteMode("on") \/ BusError
    /\ UNCHANGED <<iicSteps, word, pos, buf, data, calm>>

IicVerify(u) ==
    /\ at[u] = "verify" /\ Go(u, "open")
    /\ BusRead \/ BusError
    /\ UNCHANGED <<iicSteps, word, pos, buf, data, calm>>

IicClose(u) ==
    /\ at[u] = "open" /\ Go(u, "closed")
    /\ UNCHANGED <<chip, iicSteps, word, pos, buf, data, calm>>

-----------------------------------------------------------------------------
\* ap3216c_read begins; it is calm when no one else is at it.
IicRead(u) ==
    /\ at[u] = "open" /\ Go(u, "bytes")
    /\ Cardinality({q \in IicUsers : Fetching(q)}) < MaxConcurrent
    /\ LET others == {q \in IicUsers \ {u} : Fetching(q)} IN
       calm' = [q \in IicUsers |-> IF q = u THEN others = {}
                                   ELSE calm[q] /\ q \notin others]
    /\ UNCHANGED <<chip, iicSteps, word, pos, buf, data>>

FiveBytes == 4   \* bug: the loop stops before the high byte of PS
LastByte == 5

\* ap3216c_readdata: the next register.
IicByte(u) ==
    /\ at[u] = "bytes"
    /\ \/ BusRead /\ buf' = [buf EXCEPT ![u][pos[u]] = Registers[pos[u]]]
          /\ UNCHANGED calm
       \/ BusError /\ buf' = [buf EXCEPT ![u][pos[u]] = Garbage]
          /\ calm' = [calm EXCEPT ![u] = FALSE]
    /\ IF pos[u] < LastByte
       THEN pos' = [pos EXCEPT ![u] = @ + 1] /\ UNCHANGED at
       ELSE pos' = [pos EXCEPT ![u] = 0] /\ Go(u, "store")
    /\ UNCHANGED <<iicSteps, word, data>>

\* Two bytes make a word, and garbage makes garbage.
Word(hi, lo, value) == IF Garbage \in {hi, lo} THEN Garbage ELSE value

\* The words that buf stands for.  A garbage byte 0 may pass or fail the test
\* of its flag; the choice makes no difference to what is asked here.
\* If byte 0 flags the data as invalid, als is decoded all the same.
Decoded(b, c) ==
    CASE c = "ir" -> IF b[0] >= 128 THEN 0 ELSE Word(b[1], b[0], (b[1] * 256) + b[0])
      [] c = "ps" -> IF b[0] >= 128 THEN 0
                     ELSE Word(b[5], b[4], ((b[5] % 64) * 16) + (b[4] % 16))
      [] c = "als" -> Word(b[3], b[2], (b[3] * 256) + b[2])

StoreOrder == <<"ir", "ps", "als">>
CopyOrder == <<"ir", "als", "ps">>

\* The conversion of an unsigned short to the short of data[3], 16 bits wide
\* and in two's complement; garbage stays apart from every short.
MaxShort == 32767
GarbageShort == -32769
ShortOf(w) == IF w = Garbage THEN GarbageShort
              ELSE IF w > MaxShort THEN w - (Max16 + 1) ELSE w

Step(u, next) ==
    IF pos[u] < 2 THEN pos' = [pos EXCEPT ![u] = @ + 1] /\ UNCHANGED at
                  ELSE pos' = [pos EXCEPT ![u] = 0] /\ Go(u, next)

\* The next assignment to the global structure, and the next from it.
IicStore(u) ==
    /\ at[u] = "store" /\ Step(u, "copy")
    /\ LET c == StoreOrder[pos[u] + 1] IN
       word' = [word EXCEPT ![c] = Decoded(buf[u], c)]
    /\ UNCHANGED <<chip, iicSteps, buf, data, calm>>

IicCopy(u) ==
    /\ at[u] = "copy" /\ Step(u, "return")
    /\ LET c == CopyOrder[pos[u] + 1] IN
       data' = [data EXCEPT ![u][c] = ShortOf(word[c])]
    /\ UNCHANGED <<chip, iicSteps, word, buf, calm>>

IicReturn(u) ==
    /\ at[u] = "return" /\ Go(u, "open")
    /\ buf' = [buf EXCEPT ![u] = NoBytes] /\ data' = [data EXCEPT ![u] = NoWords]
    /\ calm' = [calm EXCEPT ![u] = TRUE]
    /\ UNCHANGED <<chip, iicSteps, word, pos>>

IicNext ==
    \/ IicProbe \/ IicRegister \/ IicPrivate \/ IicRemove
    \/ \E u \in IicUsers :
         \/ IicOpen(u) \/ IicReset(u) \/ IicSleep(u) \/ IicEnable(u)
         \/ IicVerify(u) \/ IicClose(u) \/ IicRead(u) \/ IicByte(u)
         \/ IicStore(u) \/ IicCopy(u) \/ IicReturn(u)

-----------------------------------------------------------------------------
\* The types; what is registered is what the stage of probe says, and after
\* remove nothing.
IicTypeOK ==
    /\ ChipTypeOK
    /\ iic \in Registrations \union {"absent", "private", "bound", "failed",
                                     "removed"}
    /\ held \subseteq Registrations /\ client \in {"NULL", "client"}
    /\ iic = "bound" => held = Registrations
    /\ iic \in {"absent", "removed"} => held = {}
    /\ at \in [IicUsers -> {"closed", "oops", "reset", "sleep", "enable",
                             "verify", "open", "bytes", "store", "copy",
                             "return"}]
    /\ pos \in [IicUsers -> 0..5] /\ calm \in [IicUsers -> BOOLEAN]
    /\ word \in [Channels -> Garbage..Max16]
    /\ buf \in [IicUsers -> [0..5 -> Garbage..255]]
    /\ data \in [IicUsers -> [Channels -> GarbageShort..MaxShort]]

Opening(u) == at[u] \in {"reset", "sleep", "enable", "verify"}

\* However many opens race each other, once the last of them is over the chip
\* is on for the open files, if every transaction went through: an enable that
\* falls into the reset of another open is made good by that open.
OpenChipOn ==
    /\ \E u \in IicUsers : at[u] = "open"
    /\ \A u \in IicUsers : ~Opening(u)
    /\ errors = 0
    => mode = "on"

\* u is about to return from a read() that nothing disturbed.
Undisturbed(u) == at[u] = "return" /\ calm[u] /\ cur > 0

\* A read() that nothing disturbs hands out the proximity of the reading in
\* the chip, and its brightness to a caller that takes the 16 bits as the
\* unsigned short of technical_manual.md (line 521): the short is negative
\* from 32768 on.  Infrared overflow turns infrared and proximity to 0, but not
\* the brightness: so the code does (line 231), and so the manual has it (line
\* 515), while the comment at line 222 speaks of all sensor data.
IicExact ==
    \A u \in IicUsers : Undisturbed(u) =>
        LET r == Readings[cur] IN
        /\ data[u]["als"] % (Max16 + 1) = r.als
        /\ data[u]["ps"] = IF r.irOver THEN 0 ELSE r.ps
        /\ r.irOver => data[u]["ir"] = 0
=============================================================================
