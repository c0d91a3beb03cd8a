------------------------- MODULE BodyControlProofs -------------------------
(***************************************************************************)
(* Proofs about BodyControl. Each of the arbiter's functions keeps it      *)
(* orderly: it knows which motion is active, and motion_stable is what     *)
(* that motion said last, once it has said anything.                       *)
(***************************************************************************)
EXTENDS BodyControl, TLAPS

\* activateModule() puts a motion on hold, behind another one.
LEMMA ActivateOrderly ==
  ASSUME NEW b, Orderly(b), NEW m \in Motions
  PROVE  Orderly(ActivateModule(b, m))
BY BodyControlAssumption DEF Orderly, Body, MotionOrNone, ActivateModule, Running

\* A motion gives way only if it has ended, is stable or has not run.
LEMMA SwitchOrderly ==
  ASSUME NEW b, Orderly(b), b.nextMotion # NONE, Running(b) => b.stable
  PROVE  Orderly(Switch(b))
<1> DEFINE s == Switch(b)
<1>1. b \in Body /\ b.nextMotion \in Motions
  BY DEF Orderly, Body, MotionOrNone
<1>2. /\ s.activeMotion = b.nextMotion /\ s.nextMotion = NONE
      /\ s.active = {b.nextMotion} /\ s.said = "nothing"
  BY <1>1 DEF Switch, Body, Orderly
<1>3. s \in Body
  BY <1>1 DEF Switch, Body, Said, MotionOrNone
<1>4. s.displaced # "MOTION_UNSTABLE"
  BY <1>1 DEF Switch, Body, Orderly, Said
<1> QED
  BY <1>2, <1>3, <1>4, BodyControlAssumption DEF Orderly, Running

LEMMA ReplaceOrderly ==
  ASSUME NEW b, Orderly(b)
  PROVE  Orderly(ReplaceMotionWithNextMotion(b))
<1> DEFINE c == IF Running(b) THEN b ELSE [b EXCEPT !.activeMotion = NONE]
<1>1. Orderly(c)
  BY BodyControlAssumption DEF Orderly, Body, MotionOrNone, Running
<1>2. CASE c.nextMotion # NONE /\ (Running(c) => c.stable)
  BY <1>1, <1>2, SwitchOrderly DEF ReplaceMotionWithNextMotion
<1>3. CASE ~(c.nextMotion # NONE /\ (Running(c) => c.stable))
  BY <1>1, <1>3 DEF ReplaceMotionWithNextMotion
<1> QED
  BY <1>2, <1>3

\* The active motion's return value becomes motion_stable.
LEMMA ExecuteOrderly ==
  ASSUME NEW b, Orderly(b), NEW r \in Results
  PROVE  Orderly(ExecuteSubmodules(b, r))
<1> DEFINE c == IF ~Running(b) THEN b
                ELSE IF r = "DEACTIVATE_ME" THEN [b EXCEPT !.active = @ \ {b.activeMotion}]
                ELSE [b EXCEPT !.stable = (r = "MOTION_STABLE"), !.said = r]
<1>1. Orderly(c)
  BY DEF Orderly, Body, Running, Results, Said
<1> QED
  BY <1>1, ReplaceOrderly DEF ExecuteSubmodules

LEMMA PrepareOrderly ==
  ASSUME NEW b, Orderly(b)
  PROVE  Orderly(Prepare(b))
<1>1. Orderly(IF b.activateMe THEN ActivateModule(b, Walk) ELSE b)
  BY ActivateOrderly, BodyControlAssumption
<1> QED
  BY <1>1, ReplaceOrderly DEF Prepare

\* The state machine of Stiffness stays within its states and commands.
LEMMA StiffnessTypes ==
  ASSUME TypeOK, NEW isFalling, NEW warm, Stiffness(isFalling, warm)
  PROVE  stiffness' \in StiffnessStates /\ cmd' \in StiffnessCommands
BY DEF TypeOK, Stiffness, Stays, Enters, Leaves, StiffnessStates, StiffnessCommands

\* The types hold, the arbiter is orderly: of every step and command.
THEOREM Inductive == Spec => []IInv
<1>1. Init => IInv
  <2> SUFFICES ASSUME Init PROVE IInv
    OBVIOUS
  <2>1. body \in Body
    BY DEF Init, Body, Said, MotionOrNone
  <2>2. /\ ~Running(body) /\ body.active = {} /\ body.nextMotion = NONE
        /\ body.displaced # "MOTION_UNSTABLE"
    BY DEF Init, Running
  <2>3. /\ reported \in MotionOrNone /\ stiffness \in StiffnessStates
        /\ cmd \in StiffnessCommands /\ fallen \in BOOLEAN
    BY DEF Init, MotionOrNone, StiffnessStates, StiffnessCommands
  <2> QED
    BY <2>1, <2>2, <2>3 DEF IInv, TypeOK, Orderly
<1>2. IInv /\ [Next]_vars => IInv'
  <2> SUFFICES ASSUME IInv, [Next]_vars PROVE IInv'
    OBVIOUS
  <2>0. TypeOK /\ Orderly(body)
    BY DEF IInv
  <2>1. ASSUME NEW m \in Motions, DoMotion(m) PROVE IInv'
    <3>1. Orderly(body)'
      BY <2>0, <2>1, ActivateOrderly DEF DoMotion
    <3> QED
      BY <2>0, <2>1, <3>1 DEF DoMotion, IInv, TypeOK, Orderly
  <2>2. CASE HandleRequest
    <3>1. Orderly(body)'
      BY <2>0, <2>2 DEF HandleRequest, Orderly, Body, Running
    <3> QED
      BY <2>0, <2>2, <3>1 DEF HandleRequest, IInv, TypeOK, Orderly
  <2>3. ASSUME NEW c \in StiffnessCommands, SetCommand(c) PROVE IInv'
    BY <2>0, <2>3 DEF SetCommand, IInv, TypeOK, Orderly, Running
  <2>4. ASSUME NEW r \in Results, Step(r) PROVE IInv'
    <3>1. Orderly(body)'
      BY <2>0, <2>4, PrepareOrderly, ExecuteOrderly DEF Step
    <3>2. reported' \in MotionOrNone
      BY <2>0, <2>4, <3>1 DEF Step, TypeOK, Orderly, Body
    <3>3. stiffness' \in StiffnessStates /\ cmd' \in StiffnessCommands
      BY <2>0, <2>4, StiffnessTypes DEF Step
    <3>4. fallen' \in BOOLEAN
      BY <2>4 DEF Step
    <3> QED
      BY <3>1, <3>2, <3>3, <3>4 DEF IInv, TypeOK, Orderly
  <2>5. CASE UNCHANGED vars
    BY <2>0, <2>5 DEF vars, IInv, TypeOK, Orderly, Running
  <2> QED
    BY <2>1, <2>2, <2>3, <2>4, <2>5 DEF Next
<1> QED
  BY <1>1, <1>2, PTL DEF Spec

\* The types of the arbiter, of what it reports and of Stiffness.
THEOREM TypeCorrect == Spec => []TypeOK
<1>1. IInv => TypeOK
  BY DEF IInv
<1> QED
  BY <1>1, Inductive, PTL

\* One motion at a time, and none on hold behind itself.
THEOREM OneMotionCorrect == Spec => []OneMotion
<1>1. IInv => OneMotion
  BY DEF IInv, Orderly, OneMotion
<1> QED
  BY <1>1, Inductive, PTL

\* Whoever has returned MOTION_UNSTABLE last is not replaced.
THEOREM UnstableIsProtectedCorrect == Spec => []UnstableIsProtected
<1>1. IInv => UnstableIsProtected
  BY DEF IInv, Orderly, UnstableIsProtected
<1> QED
  BY <1>1, Inductive, PTL

=============================================================================
