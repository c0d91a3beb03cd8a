---------------------------- MODULE BodyControl ----------------------------
(***************************************************************************)
(* BodyControl (frontend/modules/motion/bodycontrol/bodycontrol.cpp), the  *)
(* arbiter of the robot's motions, with Stiffness, the submodule that      *)
(* takes the body away from them when the robot falls. One motion at a     *)
(* time writes the actuators; one more may be on hold. Each 12 ms step()   *)
(* first runs the handlers of the commands that came in (the actions       *)
(* DoMotion, HandleRequest, SetCommand), then asks for the submodules that *)
(* want to be active, replaces the motion and executes the submodules.     *)
(*                                                                         *)
(* Of the submodules, three kinds of motions are told apart by what they   *)
(* return: the walk is always stable, a stance becomes stable, a sequence  *)
(* (kicks, throws, standing up) deactivates itself at its end. Others, the *)
(* motion designer, are never stable. Non-motions, all active from the     *)
(* beginning, are left out, except FallControl and Stiffness.              *)
(***************************************************************************)

CONSTANTS
  Motions,
  NONE,     \* no motion
  Walk,     \* BC_WALK, the only submodule that sets its activateMe
  Stances,  \* SIT and INTERPOLATE_TO_STAND
  Sequences, \* the motions of class BBMFMotion
  StandUps  \* those during which FallControl detects no falls

ASSUME BodyControlAssumption ==
  /\ NONE \notin Motions
  /\ Walk \in Motions
  /\ Stances \subseteq Motions \ {Walk}
  /\ Sequences \subseteq Motions \ ({Walk} \cup Stances)
  /\ StandUps \subseteq Sequences

VARIABLES
  body,      \* the members of BodyControl: a record, see Body
  reported,  \* bodyblackboard.activeMotion
  stiffness, \* state of the state machine of Stiffness
  cmd,       \* Stiffness::cmd
  fallen     \* qns[IS_FALLEN] at the end of the last step

vars == <<body, reported, stiffness, cmd, fallen>>

Endless == Motions \ ({Walk} \cup Stances \cup Sequences)

MotionOrNone == Motions \cup {NONE}
Results == {"MOTION_UNSTABLE", "MOTION_STABLE", "DEACTIVATE_ME"}
Said == {"nothing", "MOTION_UNSTABLE", "MOTION_STABLE"}
StiffnessStates == {"init", "standing", "falling", "fallen", "warmup",
                    "fallen_idle", "forceStiff", "forceUnstiff"}
StiffnessCommands == {"NONE", "RESTIFF_ALL", "FORCE_STIFF", "FORCE_UNSTIFF"}

(***************************************************************************)
(* said is what the active motion has returned last since its reset(). The *)
(* motions keep it in their own ways (Sit::sitDone, the state "finish").   *)
(* displaced is not in the code: what the motion that was last deactivated *)
(* in favour of another one had returned last.                             *)
(***************************************************************************)
Body == [active : SUBSET Motions, activeMotion : MotionOrNone, nextMotion : MotionOrNone,
         stable : BOOLEAN, activateMe : BOOLEAN, said : Said, displaced : Said]

TypeOK ==
  /\ body \in Body
  /\ reported \in MotionOrNone
  /\ stiffness \in StiffnessStates
  /\ cmd \in StiffnessCommands
  /\ fallen \in BOOLEAN

Init ==
  /\ body = [active |-> {}, activeMotion |-> NONE, nextMotion |-> NONE,
             stable |-> FALSE, activateMe |-> FALSE,
             said |-> "nothing", displaced |-> "MOTION_STABLE"]
  /\ reported = NONE
  /\ stiffness = "init" /\ cmd = "NONE"
  /\ fallen = FALSE

-----------------------------------------------------------------------------
(* Putting motions on hold and replacing them. What some of the            *)
(* definitions would be if the code were wrong precedes them, as a Fault,  *)
(* to show that the properties below notice.                               *)

\* activateModule() of a motion.
ActivateModule(b, m) ==
  IF m \in {b.activeMotion, b.nextMotion} THEN b ELSE [b EXCEPT !.nextMotion = m]

Running(b) == b.activeMotion \in b.active

\* Fault: a motion that is replaced stays active.
SwitchLeavingActive(b) ==
  [b EXCEPT !.active       = @ \cup {b.nextMotion},
            !.activeMotion = b.nextMotion,
            !.nextMotion   = NONE,
            !.activateMe   = @ /\ b.nextMotion # Walk,
            !.said         = "nothing",
            !.displaced    = IF Running(b) THEN b.said ELSE @]

\* The motion on hold takes the place of the active one and is reset().
Switch(b) ==
  [b EXCEPT !.active       = (@ \ {b.activeMotion}) \cup {b.nextMotion},
            !.activeMotion = b.nextMotion,
            !.nextMotion   = NONE,
            !.activateMe   = @ /\ b.nextMotion # Walk,
            !.said         = "nothing",
            !.displaced    = IF Running(b) THEN b.said ELSE @]

\* Fault: the end of a sequence is not noticed.
ReplaceOnlyStable(b) ==
  IF b.nextMotion # NONE /\ (b.activeMotion # NONE => b.stable) THEN Switch(b) ELSE b

ReplaceMotionWithNextMotion(b) ==
  LET c == IF Running(b) THEN b ELSE [b EXCEPT !.activeMotion = NONE]
  IN IF c.nextMotion # NONE /\ (Running(c) => c.stable) THEN Switch(c) ELSE c

\* What the step() of the active motion may return.
MayReturn(b) ==
  {r \in Results :
     /\ r = "MOTION_STABLE" =>
          \/ b.activeMotion = Walk
          \/ b.activeMotion \in Stances /\ b.said # "nothing"
     /\ r = "MOTION_UNSTABLE" =>
          /\ b.activeMotion # Walk
          /\ ~(b.activeMotion \in Stances /\ b.said = "MOTION_STABLE")
     /\ r = "DEACTIVATE_ME" => b.activeMotion \in Sequences}

\* Fault: the return value of a sequence that ends is taken for one of the other two.
ExecuteTrusting(b, r) ==
  LET c == IF ~Running(b) THEN b
           ELSE IF r = "DEACTIVATE_ME"
                  THEN [b EXCEPT !.active = @ \ {b.activeMotion}, !.said = r]
           ELSE [b EXCEPT !.stable = (r = "MOTION_STABLE"), !.said = r]
  IN IF c.stable THEN ReplaceMotionWithNextMotion(c) ELSE c

\* Fault: a motion that was stable once stays replaceable.
ExecuteSticky(b, r) ==
  LET c == IF ~Running(b) THEN b
           ELSE IF r = "DEACTIVATE_ME" THEN [b EXCEPT !.active = @ \ {b.activeMotion}]
           ELSE [b EXCEPT !.stable = @ \/ (r = "MOTION_STABLE"), !.said = r]
  IN IF c.stable THEN ReplaceMotionWithNextMotion(c) ELSE c

\* One pass through the submodules, if Stiffness does not end it.
ExecuteSubmodules(b, r) ==
  LET c == IF ~Running(b) THEN b
           ELSE IF r = "DEACTIVATE_ME" THEN [b EXCEPT !.active = @ \ {b.activeMotion}]
           ELSE [b EXCEPT !.stable = (r = "MOTION_STABLE"), !.said = r]
  IN IF c.stable THEN ReplaceMotionWithNextMotion(c) ELSE c

-----------------------------------------------------------------------------
(* Stiffness.                                                              *)

\* The states in which step() of Stiffness returns END_SEQUENCE.
Limp == stiffness \in {"init", "falling", "fallen", "warmup", "forceUnstiff"}

\* A state that is left keeps the command, except where it was used up.
Stays(keeps) ==
  UNCHANGED stiffness /\ IF keeps THEN UNCHANGED cmd ELSE cmd' = "NONE"

Enters(state) == stiffness' = state /\ UNCHANGED cmd

Leaves(state) == stiffness' = state /\ cmd' = "NONE"

\* isFalling is qns[IS_FALLING]; warm: the stiffness has been interpolated.
Stiffness(isFalling, warm) ==
  \/ /\ stiffness = "init"
     /\ IF warm THEN Leaves("standing") ELSE Stays(FALSE)
  \/ /\ stiffness = "standing"
     /\ IF cmd = "FORCE_STIFF" THEN Enters("forceStiff")
        ELSE IF cmd = "FORCE_UNSTIFF" THEN Enters("forceUnstiff")
        ELSE IF isFalling /\ reported \notin Endless THEN Enters("falling")
        ELSE Stays(FALSE)
  \/ /\ stiffness = "falling"
     /\ IF isFalling THEN Stays(FALSE) ELSE Enters("fallen")
  \/ /\ stiffness = "fallen"
     /\ IF cmd = "RESTIFF_ALL" THEN Leaves("warmup") ELSE Stays(TRUE)
  \/ /\ stiffness = "warmup"
     /\ IF warm THEN Leaves("fallen_idle") ELSE Stays(FALSE)
  \/ /\ stiffness = "fallen_idle"
     /\ IF cmd = "FORCE_STIFF" THEN Enters("forceStiff")
        ELSE IF ~fallen THEN Enters("standing")
        ELSE Stays(FALSE)
  \/ /\ stiffness = "forceStiff"
     /\ IF cmd # "FORCE_STIFF" THEN Enters("init") ELSE Stays(TRUE)
  \/ /\ stiffness = "forceUnstiff"
     /\ IF cmd # "FORCE_UNSTIFF" THEN Enters("warmup") ELSE Stays(TRUE)

-----------------------------------------------------------------------------
(* The handlers of commands, run by commands.update() at the start of a    *)
(* step, and the rest of the step.                                         *)

\* BehaviorControl asks for the walk with the walk's own commands.
DoMotion(m) ==
  /\ body' = ActivateModule(body, m)
  /\ UNCHANGED <<reported, stiffness, cmd, fallen>>

\* WalkWrapper::handleRequest, for all the commands of the walk.
HandleRequest ==
  /\ body' = [body EXCEPT !.activateMe = TRUE]
  /\ UNCHANGED <<reported, stiffness, cmd, fallen>>

SetCommand(c) ==
  /\ cmd' = c
  /\ UNCHANGED <<body, reported, stiffness, fallen>>

\* Fault: the request to walk is forgotten once the walk is on hold.
PrepareForgetting(b) ==
  ReplaceMotionWithNextMotion(
    IF b.activateMe THEN [ActivateModule(b, Walk) EXCEPT !.activateMe = FALSE] ELSE b)

\* After commands.update(): activateMe, and the first replacement.
Prepare(b) ==
  ReplaceMotionWithNextMotion(IF b.activateMe THEN ActivateModule(b, Walk) ELSE b)

\* FallControl sees the reported motion: no falls while standing up.
Step(r) ==
  /\ r \in MayReturn(Prepare(body))
  /\ \E isFalling, isFallen, warm \in BOOLEAN :
       /\ reported \in StandUps => ~isFalling /\ ~isFallen
       /\ Stiffness(isFalling, warm)
       /\ fallen' = isFallen
  /\ IF Limp
       THEN body' = Prepare(body) /\ UNCHANGED reported
       ELSE /\ body' = ExecuteSubmodules(Prepare(body), r)
            /\ reported' = body'.activeMotion

Next ==
  \/ \E m \in Motions \ {Walk} : DoMotion(m)
  \/ HandleRequest
  \/ \E c \in StiffnessCommands \ {"NONE"} : SetCommand(c)
  \/ \E r \in Results : Step(r)

Spec == Init /\ [][Next]_vars

\* The active motion ends, or declares itself stable.
Ending == ~Limp /\ \E r \in Results \ {"MOTION_UNSTABLE"} : Step(r)

(***************************************************************************)
(* NaoThread calls step() in every cycle; stances and sequences last for a *)
(* time that is fixed in advance. No command has to come.                  *)
(***************************************************************************)
Fairness == WF_vars(\E r \in Results : Step(r)) /\ SF_vars(Ending)

FairSpec == Spec /\ Fairness

-----------------------------------------------------------------------------
(* Safety *)

(***************************************************************************)
(* "Only one submodule registered with MOTION may run in one cycle"        *)
(* (modules.h): no motion is left active behind the arbiter's back, though *)
(* motions deactivate themselves and are replaced twice in a step. None is *)
(* on hold behind itself.                                                  *)
(***************************************************************************)
OneMotion ==
  /\ body.active \subseteq {body.activeMotion}
  /\ body.nextMotion # NONE => body.nextMotion # body.activeMotion

(***************************************************************************)
(* "Returning MOTION_UNSTABLE will protect the motion from deactivation":  *)
(* a motion is never replaced after it has returned this, although         *)
(* motion_stable is one flag for all motions and is not reset when they    *)
(* change.                                                                 *)
(***************************************************************************)
UnstableIsProtected == body.displaced # "MOTION_UNSTABLE"

-----------------------------------------------------------------------------
(* The inductive invariant behind them (BodyControlProofs).                *)

Orderly(b) ==
  /\ b \in Body
  /\ b.active \subseteq {b.activeMotion}
  /\ b.nextMotion # NONE => b.nextMotion # b.activeMotion
  /\ Running(b) /\ b.said # "nothing" => (b.stable <=> b.said = "MOTION_STABLE")
  /\ b.displaced # "MOTION_UNSTABLE"

IInv == TypeOK /\ Orderly(body)

-----------------------------------------------------------------------------
(* Liveness *)

\* The body is neither limp nor held by the motion designer.
Available == ~Limp /\ body.activeMotion \notin Endless

(***************************************************************************)
(* A motion on hold starts or is pushed aside by a later request, as long  *)
(* as the body is available: if from some time on there always is one, it  *)
(* is another one again and again. The end of a sequence, which does not   *)
(* set motion_stable, does not leave it waiting.                           *)
(***************************************************************************)
HeldMotionStarts ==
  <>[](body.nextMotion # NONE /\ Available)
    => []<><<body'.nextMotion # body.nextMotion>>_vars

(***************************************************************************)
(* A request to walk is never lost: whatever else is requested meanwhile,  *)
(* the walk starts in the end, as long as the body is available.           *)
(***************************************************************************)
WalkRequestsAreServed ==
  body.activateMe ~> (body.activeMotion = Walk \/ ~Available)

=============================================================================
