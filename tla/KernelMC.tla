------------------------------ MODULE KernelMC ------------------------------
(* Instances of Kernel for TLC. *)
EXTENDS Kernel

CONSTANTS vision, pose, worldmodel, behavior

\* The Require inputs of the robot's modules: VisionResultVec to Pose and
\* WorldModel, LocalizationMessageT to WorldModel, Snapshot to BehaviorControl.
RobotGraph == {<<vision, pose>>, <<vision, worldmodel>>,
               <<pose, worldmodel>>, <<worldmodel, behavior>>}

JustTheRobot == {RobotGraph \cap (Modules \X Modules)}

\* Graphs that resolve() accepts, and circular ones.
SomeGraphs ==
  JustTheRobot \cup
    {{<<vision, pose>>}, {<<vision, vision>>}, {<<vision, pose>>, <<pose, vision>>},
     {<<vision, pose>>, <<pose, worldmodel>>, <<worldmodel, vision>>}}

=============================================================================
