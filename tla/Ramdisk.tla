------------------------------ MODULE Ramdisk ------------------------------
(***************************************************************************)
(* The RAM block device drivers/BLOCK_DEV/ramdisk.c: module init, which    *)
(* goes on after each failure and returns the error at the end, module     *)
(* exit, and ramdisk_make_request, which copies a bio segment by segment   *)
(* without taking the spinlock of the device structure.                    *)
(*                                                                         *)
(* A segment is one sector, and memcpy moves it word by word: another bio  *)
(* may come between any two words.  Each submitter writes its own value, a *)
(* fresh disk holds Blank, and a bio that finds no usable buffer stops.    *)
(*                                                                         *)
(* External: the block layer (bios run in the submitter's context, as soon *)
(* as add_disk has begun, its own partition scan being one of them) and    *)
(* the module loader (exit waits until nobody has the device open; a       *)
(* module whose init failed is dropped without its exit function).         *)
(***************************************************************************)
EXTENDS Naturals

CONSTANTS Submitters, Blank,
          Capacity,     \* sectors, RAMDISK_SIZE / 512 in the code
          Width         \* words in a sector

ASSUME RamAssumption ==
    Blank \notin Submitters /\ Capacity \in Nat \ {0} /\ Width \in Nat \ {0}

Sectors == 0 .. Capacity - 1
Words == 0 .. Width - 1
Cells == Sectors \X Words     \* a word of the buffer, or of a bio's pages
Values == Submitters \cup {Blank}

VARIABLES
    stage,    \* the next step of ramdisk_init, or what follows it
    ret,      \* what init will return
    buff,     \* ramdisk_buff: "null", "live" or "freed"
    has,      \* what else init has got: major, disk, queue, added
    store,    \* the contents of the buffer
    at,       \* where each submitter is
    dir, first, len,   \* its bio
    seg,      \* the segment it copies
    offset,   \* the sector for it
    pos,      \* the word that its memcpy moves next
    page,     \* its pages, one for each segment
    held,     \* history: what each word has held since the bio was submitted
    stray     \* history: a bio used a buffer that is not there

disk == <<stage, ret, buff, has>>
bio == <<dir, first, len>>
bios == <<store, at, bio, seg, offset, pos, page, held, stray>>
vars == <<disk, bios>>

Blanks == [x \in Cells |-> Blank]

Init ==
    /\ stage = "out" /\ ret = "ok" /\ buff = "null" /\ has = {} /\ stray = FALSE
    /\ store = Blanks
    /\ at = [b \in Submitters |-> "idle"]
    /\ dir = [b \in Submitters |-> "read"]
    /\ first = [b \in Submitters |-> 0] /\ len = [b \in Submitters |-> 1]
    /\ seg = [b \in Submitters |-> 0] /\ offset = [b \in Submitters |-> 0]
    /\ pos = [b \in Submitters |-> 0]
    /\ page = [b \in Submitters |-> Blanks]
    /\ held = [b \in Submitters |-> [x \in Cells |-> {}]]

-----------------------------------------------------------------------------
\* ramdisk_init.
Alloc ==
    /\ stage = "out" /\ stage' = "major"
    /\ \/ buff' = "live" /\ ret' = "ok"
       \/ buff' = "null" /\ ret' = "error"
    /\ store' = Blanks
    /\ UNCHANGED <<has, at, bio, seg, offset, pos, page, held, stray>>

RetKept == ret   \* bug: the failure of register_blkdev is not remembered
RetSet == "error"

\* register_blkdev; on failure the buffer is freed, and init goes on.
RegisterMajor ==
    /\ stage = "major" /\ stage' = "disk"
    /\ \/ has' = has \cup {"major"} /\ UNCHANGED <<ret, buff>>
       \/ /\ ret' = RetSet /\ UNCHANGED has
          /\ buff' = IF buff = "live" THEN "freed" ELSE buff
    /\ UNCHANGED <<bios>>

\* alloc_disk; on failure the major number is given back, and init goes on.
AllocDisk ==
    /\ stage = "disk" /\ stage' = "queue"
    /\ \/ has' = has \cup {"disk"} /\ UNCHANGED ret
       \/ has' = has \ {"major"} /\ ret' = "error"
    /\ UNCHANGED <<buff, bios>>

\* blk_alloc_queue, and what follows up to add_disk.  del_gendisk of a disk
\* that was never added, the use of a queue that is not there, and the use of
\* a disk that is not there stop the kernel.
AllocQueue ==
    /\ stage = "queue"
    /\ \/ has' = has \cup {"queue"} /\ UNCHANGED ret
          /\ stage' = IF "disk" \in has THEN "add" ELSE "oops"
       \/ ret' = "error" /\ stage' = "oops" /\ UNCHANGED has
    /\ UNCHANGED <<buff, bios>>

AddDisk ==
    /\ stage = "add" /\ stage' = "adding" /\ has' = has \cup {"added"}
    /\ UNCHANGED <<ret, buff, bios>>

\* add_disk comes back and init returns; on an error the module is dropped,
\* and its disk is still there.
Return ==
    /\ stage = "adding"
    /\ stage' = IF ret = "ok" THEN "live" ELSE "dropped"
    /\ UNCHANGED <<ret, buff, has, bios>>

Released == {"added", "queue", "disk", "major"}

\* ramdisk_exit; nobody has the device open and nobody can open it.
Exit ==
    /\ stage = "live" /\ \A b \in Submitters : at[b] = "idle"
    /\ stage' = "out" /\ has' = has \ Released /\ buff' = "null"
    /\ UNCHANGED <<ret, bios>>

-----------------------------------------------------------------------------
Submit(b) ==
    /\ "added" \in has /\ stage # "oops" /\ at[b] = "idle"
    /\ at' = [at EXCEPT ![b] = "copy"]
    /\ \E d \in {"read", "write"}, s \in Sectors, n \in 1..Capacity :
         /\ s + n <= Capacity
         /\ dir' = [dir EXCEPT ![b] = d] /\ offset' = [offset EXCEPT ![b] = s]
         /\ first' = [first EXCEPT ![b] = s] /\ len' = [len EXCEPT ![b] = n]
    /\ held' = [held EXCEPT ![b] = [x \in Cells |-> {store[x]}]]
    /\ UNCHANGED <<disk, store, seg, pos, page, stray>>

Stays(b) == offset[b]   \* bug: offset += len forgotten
NextOffset(b) == offset[b] + 1

Usable == buff = "live" /\ stage # "dropped"

\* The word that is read or written, and its place in the pages.
Cell(b) == <<offset[b], pos[b]>>
Spot(b) == <<seg[b], pos[b]>>

\* memcpy moves a word of the segment, to or from the buffer.
Move(b) ==
    IF dir[b] = "read"
    THEN /\ page' = [page EXCEPT ![b][Spot(b)] = store[Cell(b)]]
         /\ UNCHANGED <<store, held>>
    ELSE /\ store' = [store EXCEPT ![Cell(b)] = b]
         /\ held' = [c \in Submitters |->
                       IF at[c] = "idle" THEN held[c]
                       ELSE [held[c] EXCEPT ![Cell(b)] = @ \cup {b}]]
         /\ UNCHANGED page

\* A word in the middle of memcpy, and the last one: the next segment.
CopyWord(b) ==
    /\ at[b] = "copy" /\ Usable /\ pos[b] + 1 < Width /\ Move(b)
    /\ pos' = [pos EXCEPT ![b] = @ + 1]
    /\ UNCHANGED <<disk, at, bio, seg, offset, stray>>

CopyLast(b) ==
    /\ at[b] = "copy" /\ Usable /\ pos[b] + 1 = Width /\ Move(b)
    /\ pos' = [pos EXCEPT ![b] = 0]
    /\ offset' = [offset EXCEPT ![b] = NextOffset(b)]
    /\ seg' = [seg EXCEPT ![b] = @ + 1]
    /\ at' = [at EXCEPT ![b] = IF seg[b] + 1 < len[b] THEN "copy" ELSE "end"]
    /\ UNCHANGED <<disk, bio, stray>>

\* The bio is over; so are its pages.
Forget(b) ==
    /\ at' = [at EXCEPT ![b] = "idle"] /\ seg' = [seg EXCEPT ![b] = 0]
    /\ pos' = [pos EXCEPT ![b] = 0] /\ page' = [page EXCEPT ![b] = Blanks]
    /\ held' = [held EXCEPT ![b] = [x \in Cells |-> {}]]
    /\ UNCHANGED <<ret, buff, has, store, bio, offset>>

\* The buffer is NULL or freed, or the driver's code is gone.
CopyStray(b) ==
    /\ at[b] = "copy" /\ ~Usable
    /\ stray' = TRUE
    /\ stage' = IF buff = "null" THEN "oops" ELSE stage
    /\ Forget(b)

\* bio_endio.
End(b) ==
    /\ at[b] = "end" /\ Forget(b)
    /\ UNCHANGED <<stage, stray>>

Next ==
    \/ Alloc \/ RegisterMajor \/ AllocDisk \/ AllocQueue \/ AddDisk \/ Return
    \/ Exit
    \/ \E b \in Submitters : \/ Submit(b) \/ CopyWord(b) \/ CopyLast(b)
                            \/ CopyStray(b) \/ End(b)

Spec == Init /\ [][Next]_vars

-----------------------------------------------------------------------------
\* No copy begins outside the buffer.
RamTypeOK ==
    /\ stage \in {"out", "major", "disk", "queue", "add", "adding", "live",
                  "dropped", "oops"}
    /\ ret \in {"ok", "error"} /\ buff \in {"null", "live", "freed"}
    /\ has \subseteq {"major", "disk", "queue", "added"} /\ stray \in BOOLEAN
    /\ store \in [Cells -> Values]
    /\ at \in [Submitters -> {"idle", "copy", "end"}]
    /\ dir \in [Submitters -> {"read", "write"}]
    /\ first \in [Submitters -> Sectors] /\ len \in [Submitters -> 1..Capacity]
    /\ seg \in [Submitters -> 0..Capacity]
    /\ offset \in [Submitters -> 0..Capacity] /\ pos \in [Submitters -> Words]
    /\ page \in [Submitters -> [Cells -> Values]]
    /\ held \in [Submitters -> [Cells -> SUBSET Values]]
    /\ \A b \in Submitters : at[b] = "copy" => offset[b] \in Sectors

\* What a bio can rely on without the lock, and it is true of words only: a
\* finished read got for each word of its sectors a value that word has held
\* since the bio was submitted, and a finished write has put its value in each
\* of them, though another bio may have overwritten it, word by word.  The
\* sector as a whole may be one that nobody ever wrote.
BiosExact ==
    \A b \in Submitters : at[b] = "end" =>
        \A i \in 0 .. len[b] - 1, k \in Words :
            (IF dir[b] = "read" THEN page[b][<<i, k>>] ELSE b)
                \in held[b][<<first[b] + i, k>>]

\* An init that returns 0 has got everything and its exit gives it all back;
\* the kernel stops, and a bio copies where there is no buffer, only in the
\* course of an init that will return an error, or after it.
ZeroMeansSound ==
    /\ stage = "live" => buff = "live" /\ has = {"major", "disk", "queue", "added"}
    /\ stage = "out" => has = {}
    /\ stage \in {"oops", "dropped"} \/ stray => ret = "error"
=============================================================================
