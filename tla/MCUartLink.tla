----------------------------- MODULE MCUartLink -----------------------------
(***************************************************************************)
(* The serial line for TLC: either with the clock of UartTiming, and no    *)
(* faults, or without it, so that windows end at any time between frames.  *)
(***************************************************************************)
EXTENDS UartTiming

(* One plain byte, a flag and an escape, and the images of both. *)
PlainCrcPayloads == {<<0>>, <<126, 125>>, <<94, 93>>}

(* What the theorems about the link ask of the messages. *)
ASSUME MCUartLinkAssumption == PlainCrcs /\ PartsAreNoFrames

(* The CRCs and the frame that HdlcFrameTest.cpp expects. *)
ASSUME TestVectors ==
  /\ CalculateCrc(<<0, 0, 6, 128, 0, 0, 0, 0>>) = 164
  /\ CalculateCrc(<<0, 0, 6, 129, 0, 0, 0, 0>>) = 105
  /\ Encode(<<0, 0, 3, 0, 255, 255, 0, 126, 125, 126>>) =
       <<126, 0, 0, 3, 0, 255, 255, 0, 125, 94, 125, 93, 125, 94, 72, 126>>

VARIABLE clocked

mcVars == <<timedVars, clocked>>

(* Nothing is said of the pauses of a sender without a clock. *)
MCInit ==
  /\ TimedInit
  /\ clocked \in BOOLEAN
  /\ ~clocked => pause = 0

MCNext ==
  \/ ~clocked /\ Next /\ UNCHANGED <<clockVars, clocked>>
  \/ clocked /\ TimedNext /\ UNCHANGED clocked

(* With the clock, the fairness of TimedFairSpec. *)
MCFairSpec ==
  /\ MCInit /\ [][MCNext]_mcVars
  /\ WF_mcVars(clocked /\ Tick /\ UNCHANGED clocked)
  /\ WF_mcVars(clocked /\ ReadsFrame /\ UNCHANGED clocked)
  /\ WF_mcVars(clocked /\ FrameGoesOn /\ UNCHANGED clocked)
  /\ WF_mcVars(clocked /\ (MessageEnds \/ NothingCame) /\ UNCHANGED clocked)
=============================================================================
