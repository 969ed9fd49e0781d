---------------------------- MODULE AimingProofs ----------------------------
(***************************************************************************)
(* The lock is earned, for every number of frames and every set of         *)
(* readings.  The argument: the statics of handle_detect never run ahead   *)
(* of what DETECT has seen, in whatever order it is interrupted.           *)
(***************************************************************************)
EXTENDS Aiming, ControlProofs

USE DEF sharedVars, readings, velocity, avoidVars, scanVars, servoVars,
        neckVars, detectVars, sprayVars, planVars,
        SetCmd, SetMode, StandStill, Running, NoHotSpot, NoLastCol

AimTypeOK == spot \in Int /\ steady \in Nat /\ aimed \in Nat

(***************************************************************************)
(* lockCount is of ticks that were all on target, and they came after      *)
(* StableFrames - 1 others, at least, of a spot that kept still.           *)
(***************************************************************************)
StaticsSeen ==
    /\ spot = lastHotCol
    /\ lockCount <= aimed
    /\ stableHotCount <= steady
    /\ lockCount > 0 => steady >= StableFrames + lockCount - 1

AimInv == ControlInv /\ AimTypeOK /\ StaticsSeen

LEMMA CountsUp ==
    ASSUME NEW b \in Nat, NEW n \in Nat
    PROVE  /\ UpTo(b, n) \in Nat
           /\ \A k \in Nat : k <= b /\ k <= n => k <= UpTo(b, n)
BY DEF UpTo

LEMMA CoreFacts ==
    ASSUME ControlInv
    PROVE  /\ StableFrames \in Nat \ {0} /\ LockFrames \in Nat \ {0}
           /\ stableHotCount \in 0..StableFrames
           /\ lockCount \in 0..(LockFrames - 1)
           /\ lastHotCol \in Int /\ hotCol \in Int
BY FramesAssumption
   DEF FramesAssumption, ControlInv, ControlTypeOK, DetectTypeOK, SharedTypeOK,
       ReadingTypeOK

(***************************************************************************)
(* A tick that aims: what it counts, it has seen.                          *)
(***************************************************************************)
LEMMA CountsAreSeen ==
    ASSUME AimInv
    PROVE  /\ SteadyNow \in Nat /\ AimedNow \in Nat
           /\ StableCount \in Nat /\ LockCount \in Nat
           /\ StableCount <= SteadyNow /\ LockCount <= AimedNow
           /\ LockCount > 0 => SteadyNow >= StableFrames + LockCount - 1
<1> DEFINE S == StableFrames  L == LockFrames
<1>1. /\ S \in Nat \ {0} /\ L \in Nat \ {0}
      /\ stableHotCount \in 0..S /\ lockCount \in 0..(L - 1)
      /\ spot = lastHotCol /\ steady \in Nat /\ aimed \in Nat
      /\ lockCount <= aimed /\ stableHotCount <= steady
      /\ lockCount > 0 => steady >= S + lockCount - 1
  BY CoreFacts DEF AimInv, AimTypeOK, StaticsSeen
<1>2. SteadyFrames = S + L - 1 /\ SteadyFrames \in Nat
  BY <1>1 DEF SteadyFrames
<1>3. CASE ~SpotHeld
  <2>1. SteadyNow = 0 /\ AimedNow = 0
    BY <1>3 DEF SteadyNow, AimedNow, OnTarget
  <2>2. StableCount = 0
    BY <1>1, <1>3 DEF StableCount, SpotHeld
  <2>3. LockCount = 0
    BY <1>1, <2>2 DEF LockCount
  <2>q. QED
    BY <2>1, <2>2, <2>3
<1>4. CASE SpotHeld
  <2>1. /\ StableCount \in 0..S
        /\ StableCount <= stableHotCount + 1
    BY <1>1, <1>4 DEF StableCount, SpotHeld
  <2>2. SteadyNow = UpTo(SteadyFrames, steady + 1)
    BY <1>4 DEF SteadyNow
  <2>3. SteadyNow \in Nat /\ \A k \in Nat : k <= SteadyFrames /\ k <= steady + 1
                                              => k <= SteadyNow
    BY <1>1, <1>2, <2>2, CountsUp
  <2>4. StableCount <= SteadyNow
    <3>1. StableCount <= SteadyFrames /\ StableCount <= steady + 1
      BY <1>1, <1>2, <2>1
    <3>q. QED
      BY <2>1, <2>3, <3>1
  <2>5. CASE LockCount = 0
    <3>1. AimedNow \in Nat
      BY <1>1, CountsUp DEF AimedNow
    <3>q. QED
      BY <2>1, <2>3, <2>4, <2>5, <3>1
  <2>6. CASE LockCount # 0
    <3>1. /\ FireReady /\ Aligned(hotCol) /\ StableCount = S
          /\ LockCount = lockCount + 1
      BY <1>1, <2>1, <2>6 DEF LockCount
    <3>2. AimedNow = UpTo(L, aimed + 1)
      BY <1>4, <3>1 DEF AimedNow, OnTarget
    <3>3. LockCount \in Nat /\ LockCount <= L /\ LockCount <= aimed + 1
      BY <1>1, <3>1
    <3>4. AimedNow \in Nat /\ LockCount <= AimedNow
      BY <1>1, <3>2, <3>3, CountsUp
    <3>5. S + LockCount - 1 <= SteadyNow
      <4>1. S + LockCount - 1 = S + lockCount
        BY <1>1, <3>1
      <4>2. S + lockCount \in Nat /\ S + lockCount <= SteadyFrames
        BY <1>1, <1>2
      <4>3. S + lockCount <= steady + 1
        <5>1. CASE lockCount > 0
          BY <1>1, <5>1
        <5>2. CASE lockCount = 0
          BY <1>1, <2>1, <3>1, <5>2
        <5>q. QED
          BY <1>1, <5>1, <5>2
      <4>q. QED
        BY <2>3, <4>1, <4>2, <4>3
    <3>q. QED
      BY <2>1, <2>3, <2>4, <3>3, <3>4, <3>5
  <2>q. QED
    BY <2>5, <2>6
<1>q. QED
  BY <1>3, <1>4
-----------------------------------------------------------------------------
LEMMA StaticsFrame ==
    ASSUME AimTypeOK, StaticsSeen, UNCHANGED <<detectVars, spot, steady, aimed>>
    PROVE  AimTypeOK' /\ StaticsSeen'
BY DEF AimTypeOK, StaticsSeen

LEMMA TickKeepsSeen ==
    ASSUME AimInv, Update, Watch PROVE AimTypeOK' /\ StaticsSeen'
<1>0. AimTypeOK /\ StaticsSeen /\ StableFrames \in Nat /\ hotCol \in Int
  BY CoreFacts DEF AimInv
<1>1. CASE Running("DETECT") /\ (hotCol = NoHotSpot \/ FireLost)
  <2>1. SpotLost
    BY <1>1 DEF Watch
  <2>2. DetectLost
    BY <1>1 DEF Update, UpdateEmergency, UpdateStop, HandleHalted, SearchFound,
       SearchOn, DetectLost, DetectAim, ApproachLost, ApproachReached,
       ApproachOn, HandleExtinguish
  <2>q. QED
    BY <2>1, <2>2 DEF SpotLost, DetectLost, AimTypeOK, StaticsSeen
<1>2. CASE Running("DETECT") /\ ~(hotCol = NoHotSpot \/ FireLost)
  <2>1. SpotSeen
    BY <1>2 DEF Watch
  <2>2. DetectAim
    BY <1>2 DEF Update, UpdateEmergency, UpdateStop, HandleHalted, SearchFound,
       SearchOn, DetectLost, DetectAim, ApproachLost, ApproachReached,
       ApproachOn, HandleExtinguish
  <2>3. /\ spot' = hotCol /\ lastHotCol' = hotCol
        /\ steady' = SteadyNow /\ stableHotCount' = StableCount
    BY <2>1, <2>2 DEF SpotSeen, DetectAim
  <2>4. \/ lockCount' = 0 /\ aimed' = 0
        \/ lockCount' = LockCount /\ aimed' = AimedNow
    BY <2>1, <2>2 DEF SpotSeen, DetectAim
  <2>q. QED
    BY <1>0, <2>3, <2>4, CountsAreSeen DEF AimTypeOK, StaticsSeen
<1>3. CASE ~Running("DETECT")
  <2>1. UNCHANGED <<spot, steady, aimed>>
    BY <1>3 DEF Watch, aimVars
  <2>2. UNCHANGED detectVars
    BY <1>3 DEF Update, UpdateEmergency, UpdateStop, HandleHalted, SearchFound,
       SearchOn, DetectLost, DetectAim, ApproachLost, ApproachReached,
       ApproachOn, HandleExtinguish
  <2>q. QED
    BY <1>0, <2>1, <2>2, StaticsFrame
<1>q. QED
  BY <1>1, <1>2, <1>3

LEMMA AimStep == AimInv /\ [AimingNext]_aimingVars => AimInv'
<1> SUFFICES ASSUME AimInv, [AimingNext]_aimingVars PROVE AimInv'
  OBVIOUS
<1>0. ControlInv /\ AimTypeOK /\ StaticsSeen
  BY DEF AimInv
<1>1. CASE Update /\ Watch
  BY <1>0, <1>1, UpdateKeepsInv, TickKeepsSeen DEF AimInv
<1>2. CASE (Sense \/ Operate \/ ClockTick) /\ UNCHANGED aimVars
  <2>1. ControlInv'
    BY <1>0, <1>2, SenseKeepsInv, OperateKeepsInv, ClockKeepsInv
  <2>2. UNCHANGED detectVars
    BY <1>2 DEF Sense, Operate, ClockTick
  <2>q. QED
    BY <1>0, <1>2, <2>1, <2>2, StaticsFrame DEF AimInv, aimVars
<1>3. CASE UNCHANGED aimingVars
  <2>1. UNCHANGED controlVars /\ UNCHANGED <<detectVars, spot, steady, aimed>>
    BY <1>3 DEF aimingVars, aimVars, controlVars
  <2>q. QED
    BY <1>0, <2>1, ControlStutter, StaticsFrame DEF AimInv
<1>q. QED
  BY <1>1, <1>2, <1>3 DEF AimingNext

LEMMA AimInit == AimingInit => AimInv
<1> SUFFICES ASSUME AimingInit PROVE AimInv
  OBVIOUS
<1>1. ControlInv
  BY InitEstablishesInv DEF AimingInit
<1>2. AimTypeOK /\ StaticsSeen
  BY DEF AimingInit, ControlInit, DetectInit, AimTypeOK, StaticsSeen
<1>q. QED
  BY <1>1, <1>2 DEF AimInv

LEMMA AimInvariant == AimingSpec => []AimInv
BY AimInit, AimStep, PTL DEF AimingSpec

(***************************************************************************)
(* Only a tick of DETECT that completes the lock leads from there to       *)
(* EXTINGUISH.                                                             *)
(***************************************************************************)
LEMMA LocksComplete ==
    ASSUME AimInv, [AimingNext]_aimingVars, mode = "DETECT", mode' = "EXTINGUISH"
    PROVE  LockCount >= LockFrames
<1>1. Update
  BY DEF AimingNext, aimingVars, controlVars, Sense, PublishThermal,
     PublishDistance, Operate, Command, CmdStart, CmdStop, CmdManual, CmdExit,
     Request, CmdEstop, CmdClearEstop, ClockTick
<1>2. DetectAim
  BY <1>1 DEF Update, UpdateEmergency, UpdateStop, HandleHalted, SearchFound,
     SearchOn, DetectLost, DetectAim, ApproachLost, ApproachReached,
     ApproachOn, HandleExtinguish
<1>q. QED
  BY <1>2 DEF DetectAim

(***************************************************************************)
(* The pump's lock is earned tick by tick: whatever interrupts the aiming, *)
(* EXTINGUISH is entered from DETECT only after LockFrames looks in a row  *)
(* at a hot and centred spot, at the end of StableFrames + LockFrames - 1  *)
(* looks at which it kept still.                                           *)
(***************************************************************************)
THEOREM LocksAreEarned == AimingSpec => LockEarned
<1>1. AimInv /\ [AimingNext]_aimingVars
        => [mode = "DETECT" /\ mode' = "EXTINGUISH"
              => AimedNow >= LockFrames /\ SteadyNow >= SteadyFrames]_aimingVars
  <2> SUFFICES ASSUME AimInv, [AimingNext]_aimingVars,
                      mode = "DETECT", mode' = "EXTINGUISH"
               PROVE  AimedNow >= LockFrames /\ SteadyNow >= SteadyFrames
    OBVIOUS
  <2>1. LockCount >= LockFrames
    BY LocksComplete
  <2>2. LockFrames \in Nat \ {0} /\ StableFrames \in Nat \ {0}
    BY FramesAssumption DEF FramesAssumption
  <2>q. QED
    BY <2>1, <2>2, CountsAreSeen DEF SteadyFrames
<1>q. QED
  BY <1>1, AimInvariant, PTL DEF AimingSpec, LockEarned

(***************************************************************************)
(* The history variables restrict nothing: every step is one of the core.  *)
(***************************************************************************)
THEOREM AimingIsControl == AimingSpec => ControlSpec
<1>1. AimingInit => ControlInit
  BY DEF AimingInit
<1>2. [AimingNext]_aimingVars => [ControlNext]_controlVars
  BY DEF AimingNext, ControlNext, aimingVars
<1>q. QED
  BY <1>1, <1>2, PTL DEF AimingSpec, ControlSpec
=============================================================================
