-------------------------- MODULE IioIcm20608Proof --------------------------
(***************************************************************************)
(* Proofs about the IIO driver of the ICM20608 and its readers, for any    *)
(* number of threads, processes, channels and samples.  The argument for a *)
(* frame is that its values so far are in order and none is newer than the *)
(* one under way, which is none newer than what the chip holds.            *)
(***************************************************************************)
EXTENDS IioIcm20608, TLAPS

\* What the chip is set to, after each write of probe.
Settings ==
    /\ stage \in {"wake", "gyro", "accel"} => (accel # 2 => "reset" \in lost)
    /\ stage \in {"gyro", "accel", "who", "register", "bound", "removed"} =>
         (power = "asleep" => "wake" \in lost)
    /\ stage \in {"accel", "who", "register", "bound", "removed"} =>
         (gyro # 2000 => "gyro" \in lost)
    /\ stage \in {"who", "register", "bound", "removed"} =>
         (accel # 2 => {"reset", "accel"} \subseteq lost)

\* The channels that a user has read in its frame.
Filled(u) == IF at[u] = "filter" THEN Channels ELSE 1 .. chan[u] - 1

\* A user's frame, as far as it goes.
Partial(u) ==
    /\ since[u] <= cur
    /\ at[u] = "idle" => chan[u] = 1
    /\ \A c \in Filled(u) : frame[u][c] # Zero => frame[u][c] \in since[u]..cur
    /\ \A c, d \in Filled(u) :
         c <= d /\ frame[u][c] # Zero /\ frame[u][d] # Zero
            => frame[u][c] <= frame[u][d]
    /\ u \in Daemons => \A c \in Filled(u) : frame[u][c] # Zero
    /\ at[u] = "decode" =>
         /\ buf[u] \in since[u]..cur
         /\ \A c \in Filled(u) : frame[u][c] <= buf[u]

Frames == \A u \in Users : Partial(u)

IcmInv == IcmTypeOK /\ Settings /\ Frames

UserStep(u) == Begin(u) \/ Transfer(u) \/ Decode(u) \/ ReadFails(u) \/ Use(u)

LEMMA Bounds == MaxSample \in Nat /\ NChannels \in Nat \ {0} /\ 1 \in Channels
BY IcmAssumption DEF Channels

LEMMA IcmInit == Init => IcmInv
<1> SUFFICES ASSUME Init PROVE IcmInv
    OBVIOUS
<1> USE Bounds DEF Init
<1>1. IcmTypeOK
  <2>1. frame \in [Users -> [Channels -> Zero..MaxSample]]
    BY DEF Blank, Zero, None
  <2>2. buf \in [Users -> None..MaxSample] /\ since \in [Users -> 0..MaxSample]
    BY DEF None
  <2>3. lost \subseteq DOMAIN After /\ stage = "absent" /\ cur \in 0..MaxSample
    OBVIOUS
  <2>4. at \in [Users -> {"idle", "read", "decode", "filter"}]
    OBVIOUS
  <2>5. chan \in [Users -> Channels]
    OBVIOUS
  <2>6. power \in {"asleep", "awake"}
    OBVIOUS
  <2>7. accel \in {2, 16} /\ gyro \in {250, 2000}
    OBVIOUS
  <2> HIDE DEF Init
  <2> QED BY <2>1, <2>2, <2>3, <2>4, <2>5, <2>6, <2>7 DEF IcmTypeOK
<1>2. Settings
  BY DEF Settings
<1>3. Frames
  BY DEF Frames, Partial, Filled
<1> QED BY <1>1, <1>2, <1>3 DEF IcmInv

\* The driver's steps and the chip's leave the frames alone, and what the chip
\* holds only grows.
LEMMA DriverKeeps ==
    IcmInv /\ (Probe \/ WriteReg \/ WhoAmI \/ Register \/ Remove \/ Unregister
               \/ Sample) => IcmInv'
<1> SUFFICES ASSUME IcmInv, Probe \/ WriteReg \/ WhoAmI \/ Register \/ Remove
                            \/ Unregister \/ Sample
             PROVE  IcmInv'
    OBVIOUS
<1> USE Bounds DEF IcmInv
<1>1. UNCHANGED users
  BY DEF Probe, WriteReg, WhoAmI, Register, Remove, Unregister, Sample
<1>2. cur' \in 0..MaxSample /\ cur <= cur'
  <2> USE DEF IcmTypeOK, chip
  <2>1. CASE WriteReg \/ Sample   BY <2>1 DEF WriteReg, Sample
  <2>2. CASE Probe \/ WhoAmI \/ Register \/ Remove \/ Unregister
    BY <2>2 DEF Probe, WhoAmI, Register, Remove, Unregister
  <2> QED BY <2>1, <2>2
<1>5. IcmTypeOK'
  <2> USE <1>1, <1>2 DEF IcmTypeOK, driver, chip, users
  <2>1. CASE Probe \/ WhoAmI \/ Register \/ Remove \/ Unregister
    BY <2>1 DEF Probe, WhoAmI, Register, Remove, Unregister
  <2>2. CASE WriteReg
    <3>1. stage' \in {"wake", "gyro", "accel", "who"}
      BY <2>2 DEF WriteReg, After
    <3>2. lost' \subseteq DOMAIN After
      BY <2>2 DEF WriteReg
    <3>3. power' \in {"asleep", "awake"}
      BY <2>2 DEF WriteReg
    <3>4. accel' \in {2, 16} /\ gyro' \in {250, 2000}
      BY <2>2 DEF WriteReg
    <3> QED BY <3>1, <3>2, <3>3, <3>4
  <2>3. CASE Sample   BY <2>3 DEF Sample
  <2> QED BY <2>1, <2>2, <2>3
<1>3. Settings'
  <2> USE DEF Settings, driver, chip
  <2>1. CASE Probe   BY <2>1 DEF Probe
  <2>2. CASE WriteReg
    <3>1. CASE stage = "reset"   BY <2>2, <3>1 DEF WriteReg, After
    <3>2. CASE stage = "wake"    BY <2>2, <3>2 DEF WriteReg, After
    <3>3. CASE stage = "gyro"    BY <2>2, <3>3 DEF WriteReg, After
    <3>4. CASE stage = "accel"   BY <2>2, <3>4 DEF WriteReg, After
    <3> QED BY <2>2, <3>1, <3>2, <3>3, <3>4 DEF WriteReg, After
  <2>3. CASE WhoAmI \/ Register   BY <2>3 DEF WhoAmI, Register
  <2>4. CASE Remove \/ Unregister   BY <2>4 DEF Remove, Unregister
  <2>5. CASE Sample   BY <2>5 DEF Sample
  <2> QED BY <2>1, <2>2, <2>3, <2>4, <2>5
<1>4. Frames'
  <2> SUFFICES ASSUME NEW u \in Users PROVE Partial(u)'
      BY DEF Frames
  <2>1. Partial(u) /\ Filled(u)' = Filled(u)
    BY <1>1 DEF Frames, Filled, users
  <2>2. \A n \in Int : n \in since[u]..cur => n \in since[u]..cur'
    BY <1>2 DEF IcmTypeOK
  <2>3. buf[u] \in Int /\ \A c \in Filled(u) : frame[u][c] \in Int
    BY DEF IcmTypeOK, Filled, None, Zero, Channels
  <2>4. since[u] <= cur'
    BY <1>2, <2>1 DEF IcmTypeOK, Partial
  <2> QED BY <1>1, <2>1, <2>2, <2>3, <2>4 DEF Partial, users
<1> QED BY <1>3, <1>4, <1>5

\* The types of what a user's step changes.
LEMMA UserTypes ==
    ASSUME IcmInv, NEW u \in Users, UserStep(u)
    PROVE  IcmTypeOK' /\ UNCHANGED <<driver, chip>>
<1> USE Bounds DEF IcmInv, IcmTypeOK
<1>1. ASSUME End(u), UNCHANGED <<driver, chip, buf>> PROVE IcmTypeOK'
  <2>1. frame' \in [Users -> [Channels -> Zero..MaxSample]]
    <3>1. Blank \in [Channels -> Zero..MaxSample]
      BY DEF Blank, Zero, None
    <3> QED BY <1>1, <3>1 DEF End
  <2> QED BY <1>1, <2>1 DEF End, driver, chip
<1>2. ASSUME NEW v \in Zero..MaxSample, Got(u, v), buf' \in [Users -> None..MaxSample],
             UNCHANGED <<driver, chip>>
      PROVE IcmTypeOK'
  <2>1. frame' \in [Users -> [Channels -> Zero..MaxSample]]
    BY <1>2 DEF Got
  <2>2. chan' \in [Users -> Channels] /\ at' \in [Users -> {"idle", "read", "decode", "filter"}]
    <3>1. chan[u] < NChannels => chan[u] + 1 \in Channels
      BY DEF Channels
    <3>2. chan' \in [Users -> Channels]
      <4>1. CASE chan[u] < NChannels
        BY <1>2, <3>1, <4>1 DEF Got
      <4>2. CASE ~(chan[u] < NChannels)
        BY <1>2, <4>2 DEF Got
      <4> QED BY <4>1, <4>2
    <3>3. at' \in [Users -> {"idle", "read", "decode", "filter"}]
      BY <1>2 DEF Got
    <3> QED BY <3>2, <3>3
  <2>3. since' = since
    BY <1>2 DEF Got
  <2>4. UNCHANGED <<stage, lost, power, accel, gyro, cur>>
    BY <1>2 DEF driver, chip
  <2> QED BY <1>2, <2>1, <2>2, <2>3, <2>4
<1>3. CASE Begin(u)
  BY <1>3 DEF Begin, driver, chip
<1>4. CASE Transfer(u)
  <2>1. cur \in None..MaxSample
    BY DEF None
  <2>2. buf' \in [Users -> None..MaxSample]
    BY <1>4, <2>1 DEF Transfer, BufferOf
  <2>3. at' \in [Users -> {"idle", "read", "decode", "filter"}]
    BY <1>4 DEF Transfer
  <2> QED BY <1>4, <2>2, <2>3 DEF Transfer, driver, chip
<1>5. CASE Decode(u)
  <2>1. buf' \in [Users -> None..MaxSample]
    <3>1. None \in None..MaxSample
      BY DEF None
    <3> QED BY <1>5, <3>1 DEF Decode, BufferOf
  <2>2. buf[u] \in Zero..MaxSample
    <3>1. None..MaxSample \subseteq Zero..MaxSample
      BY DEF None, Zero
    <3> QED BY <3>1
  <2>3. Got(u, buf[u]) /\ UNCHANGED <<driver, chip>>
    BY <1>5 DEF Decode, BufferOf
  <2> QED BY <1>2, <2>1, <2>2, <2>3
<1>6. CASE ReadFails(u)
  <2>1. Zero \in Zero..MaxSample
    BY DEF Zero
  <2> QED BY <1>1, <1>2, <1>6, <2>1 DEF ReadFails
<1>7. CASE Use(u)
  BY <1>1, <1>7 DEF Use
<1> QED BY <1>3, <1>4, <1>5, <1>6, <1>7
        DEF UserStep, Begin, Transfer, Decode, ReadFails, Use

\* A step of another user leaves a frame alone.
LEMMA OthersKeep ==
    ASSUME IcmInv, NEW u \in Users, UserStep(u), NEW v \in Users, v # u
    PROVE  Partial(v)'
<1>1. UNCHANGED <<driver, chip>>
  BY UserTypes
<1>2. /\ at'[v] = at[v] /\ chan'[v] = chan[v] /\ buf'[v] = buf[v]
      /\ frame'[v] = frame[v] /\ since'[v] = since[v]
  BY DEF UserStep, Begin, Transfer, Decode, ReadFails, Use, End, Got,
         BufferOf, IcmInv, IcmTypeOK
<1>3. Filled(v)' = Filled(v)
  BY <1>2 DEF Filled
<1> QED BY <1>1, <1>2, <1>3 DEF IcmInv, Frames, Partial, chip

\* One more value, not older than any before it, keeps a frame in order.
LEMMA GotKeeps ==
    ASSUME IcmInv, NEW u \in Users, at[u] \in {"read", "decode"},
           NEW v \in Zero..MaxSample, Got(u, v), UNCHANGED chip,
           v # Zero => /\ v \in since[u]..cur
                       /\ \A c \in Filled(u) : frame[u][c] <= v,
           u \in Daemons => v # Zero
    PROVE  Partial(u)'
<1> USE Bounds DEF IcmInv, IcmTypeOK
<1>1. /\ since'[u] = since[u] /\ cur' = cur
      /\ chan[u] \in Channels /\ frame[u] \in [Channels -> Zero..MaxSample]
      /\ frame'[u] = [frame[u] EXCEPT ![chan[u]] = v]
  BY DEF Got, chip
<1>2. Filled(u) = 1 .. chan[u] - 1 /\ at'[u] \in {"read", "filter"}
  BY DEF Filled, Got
<1>3. Filled(u)' = 1 .. chan[u]
  <2>1. CASE chan[u] < NChannels
    <3>1. at'[u] = "read" /\ chan'[u] = chan[u] + 1
      BY <2>1 DEF Got
    <3> QED BY <3>1, <1>1 DEF Filled, Channels
  <2>2. CASE ~(chan[u] < NChannels)
    <3>1. at'[u] = "filter" /\ chan[u] = NChannels
      BY <2>2, <1>1 DEF Got, Channels
    <3> QED BY <3>1 DEF Filled, Channels
  <2> QED BY <2>1, <2>2
<1>4. /\ \A c \in Filled(u) : c # chan[u] /\ frame'[u][c] = frame[u][c]
      /\ frame'[u][chan[u]] = v
      /\ \A c \in Filled(u)' : c \in Filled(u) \/ c = chan[u]
      /\ chan[u] \notin Filled(u)
      /\ \A c \in Filled(u) : c \in Channels
  BY <1>1, <1>2, <1>3 DEF Channels
<1>5. Partial(u)
  BY DEF Frames
<1>6. \A c \in Filled(u)' : frame'[u][c] # Zero => frame'[u][c] \in since[u]..cur
  BY <1>4, <1>5 DEF Partial
<1>7. ASSUME NEW c \in Filled(u)', NEW d \in Filled(u)', c <= d,
             frame'[u][c] # Zero, frame'[u][d] # Zero
      PROVE  frame'[u][c] <= frame'[u][d]
  <2>1. CASE c \in Filled(u) /\ d \in Filled(u)
    BY <1>4, <1>5, <1>7, <2>1 DEF Partial
  <2>2. CASE c \in Filled(u) /\ d = chan[u]
    BY <1>4, <1>7, <2>2
  <2>3. CASE c = chan[u]
    <3>1. d = chan[u]
      BY <1>1, <1>3, <1>7, <2>3 DEF Channels
    <3> QED BY <1>4, <2>3, <3>1 DEF Zero
  <2> QED BY <1>4, <2>1, <2>2, <2>3
<1>8. u \in Daemons => \A c \in Filled(u)' : frame'[u][c] # Zero
  BY <1>4, <1>5 DEF Partial
<1> QED BY <1>1, <1>2, <1>5, <1>6, <1>7, <1>8 DEF Partial

LEMMA OwnKeeps ==
    ASSUME IcmInv, NEW u \in Users, UserStep(u)
    PROVE  Partial(u)'
<1> USE Bounds DEF IcmInv, IcmTypeOK
<1>0. Partial(u) /\ UNCHANGED <<driver, chip>>
  BY UserTypes DEF Frames
<1>1. ASSUME End(u) PROVE Partial(u)'
  <2>1. at'[u] = "idle" /\ chan'[u] = 1 /\ since'[u] = 0
    BY <1>1 DEF End
  <2>2. Filled(u)' = {}
    BY <2>1 DEF Filled
  <2> QED BY <1>0, <2>1, <2>2 DEF Partial, chip
<1>2. CASE Begin(u)
  <2>1. at'[u] = "read" /\ chan'[u] = 1 /\ since'[u] = cur /\ cur' = cur
    BY <1>0, <1>2 DEF Begin, Partial, chip
  <2>2. Filled(u)' = {}
    BY <2>1 DEF Filled
  <2> QED BY <2>1, <2>2 DEF Partial
<1>3. CASE Transfer(u)
  <2>1. /\ at[u] = "read" /\ at'[u] = "decode" /\ buf'[u] = cur /\ cur' = cur
        /\ UNCHANGED <<chan, frame, since>>
    BY <1>3 DEF Transfer, BufferOf, chip
  <2>2. Filled(u)' = Filled(u) /\ \A c \in Filled(u) : c \in Channels
    BY <2>1 DEF Filled, Channels
  <2>3. \A c \in Filled(u) : frame[u][c] <= cur
    BY <1>0, <2>2 DEF Partial, Zero
  <2> QED BY <1>0, <2>1, <2>2, <2>3 DEF Partial
<1>4. CASE Decode(u)
  <2>1. at[u] = "decode" /\ Got(u, buf[u]) /\ UNCHANGED chip
    BY <1>4 DEF Decode, BufferOf
  <2>2. buf[u] \in since[u]..cur /\ \A c \in Filled(u) : frame[u][c] <= buf[u]
    BY <1>0, <2>1 DEF Partial
  <2>3. buf[u] \in Zero..MaxSample /\ buf[u] # Zero
    BY <2>2 DEF Zero
  <2> QED BY <2>1, <2>2, <2>3, GotKeeps
<1>5. CASE ReadFails(u)
  <2>1. CASE u \in Daemons
    BY <1>1, <1>5, <2>1 DEF ReadFails
  <2>2. CASE u \notin Daemons
    <3>1. at[u] = "read" /\ Got(u, Zero) /\ UNCHANGED chip /\ Zero \in Zero..MaxSample
      BY <1>5, <2>2 DEF ReadFails, Zero
    <3> QED BY <2>2, <3>1, GotKeeps
  <2> QED BY <2>1, <2>2
<1>6. CASE Use(u)
  BY <1>1, <1>6 DEF Use
<1> QED BY <1>2, <1>3, <1>4, <1>5, <1>6 DEF UserStep

LEMMA UserKeeps ==
    ASSUME IcmInv, NEW u \in Users, UserStep(u)
    PROVE  IcmInv'
<1>1. IcmTypeOK' /\ UNCHANGED <<driver, chip>>
  BY UserTypes
<1>2. Settings'
  BY <1>1 DEF IcmInv, Settings, driver, chip
<1>3. Frames'
  <2> SUFFICES ASSUME NEW v \in Users PROVE Partial(v)'
      BY DEF Frames
  <2> QED BY OwnKeeps, OthersKeep
<1> QED BY <1>1, <1>2, <1>3 DEF IcmInv

LEMMA IcmStep == IcmInv /\ [Next]_vars => IcmInv'
<1> SUFFICES ASSUME IcmInv, [Next]_vars PROVE IcmInv'
    OBVIOUS
<1>1. CASE UNCHANGED vars
  <2>1. UNCHANGED <<driver, chip, users>>
    BY <1>1 DEF vars
  <2>2. IcmTypeOK' /\ Settings'
    BY <2>1 DEF IcmInv, IcmTypeOK, Settings, driver, chip, users
  <2>3. ASSUME NEW u \in Users PROVE Partial(u)'
    BY <2>1 DEF IcmInv, Frames, Partial, Filled, driver, chip, users
  <2> QED BY <2>2, <2>3 DEF IcmInv, Frames
<1>2. CASE \E u \in Users : UserStep(u)
  BY <1>2, UserKeeps
<1>3. CASE Probe \/ WriteReg \/ WhoAmI \/ Register \/ Remove \/ Unregister \/ Sample
  BY <1>3, DriverKeeps
<1> QED BY <1>1, <1>2, <1>3 DEF Next, UserStep

LEMMA IcmInvariant == Spec => []IcmInv
BY IcmInit, IcmStep, PTL DEF Spec

\* Every variable keeps its type.
THEOREM IcmTypes == Spec => []IcmTypeOK
<1>1. IcmInv => IcmTypeOK
  BY DEF IcmInv
<1> QED BY <1>1, IcmInvariant, PTL

\* The scales of a registered device are the chip's, or the very write that
\* sets the range was lost (icm20608_probe, icm20608_read_raw).
THEOREM IcmScales == Spec => []ScaleTrue
<1>1. IcmInv => ScaleTrue
  BY DEF IcmInv, Settings, ScaleTrue, Registered, ScaleRange
<1> QED BY <1>1, IcmInvariant, PTL

\* A frame is of samples taken since it began, in order, and the daemon's has
\* no error in it (icm20608_read_raw, task_read_icm20608, read_sysfs_int).
THEOREM IcmFrames == Spec => []FrameInOrder
<1>1. IcmInv => FrameInOrder
  <2> SUFFICES ASSUME IcmInv, NEW u \in Users, at[u] = "filter",
                      NEW c \in Channels
               PROVE  /\ frame[u][c] # Zero =>
                           /\ frame[u][c] \in since[u]..cur
                           /\ \A d \in c..NChannels :
                                frame[u][d] # Zero => frame[u][c] <= frame[u][d]
                      /\ u \in Daemons => frame[u][c] # Zero
      BY DEF FrameInOrder
  <2>1. Partial(u) /\ Filled(u) = Channels
    BY DEF IcmInv, Frames, Filled
  <2>2. \A d \in c..NChannels : d \in Channels /\ c <= d
    BY Bounds DEF Channels
  <2> QED BY <2>1, <2>2 DEF Partial
<1> QED BY <1>1, IcmInvariant, PTL
=============================================================================
