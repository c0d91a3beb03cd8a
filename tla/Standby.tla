------------------------------ MODULE Standby ------------------------------
(***************************************************************************)
(* How a team walks in: in STANDBY the referee raises both arms, and the   *)
(* robots have to see that for themselves, because the game controller     *)
(* (GC) announces READY only later. In each robot RefereeGesture looks at  *)
(* the images, TeamComm passes the news on to the other robots, and        *)
(* Gamestate derives the real state of the game from the official one, the *)
(* gestures and the messages of the team.                                  *)
(*                                                                         *)
(* The three are threads of their own: a gesture is emitted some time      *)
(* after its image was taken, and waits in a queue for Gamestate and in    *)
(* another one for TeamComm. A queue of events matters only by whether it  *)
(* holds one that says "both arms up": it is a Boolean here, and so are    *)
(* the messages in the air. A message may be lost, late or come twice.     *)
(***************************************************************************)
EXTENDS Integers

CONSTANTS
  Robots,
  Sighted,    \* the robots that see the referee
  Sacrifice,  \* SACRIFICE_PLAYER_NUM walks in without delay
  Offenders,  \* those the referee may penalize for moving in STANDBY
  MaxLag,     \* the GC waits for a robot that has not noticed its last MaxLag states
  Random      \* the robots whose flags do not happen to be FALSE when it starts

ASSUME StandbyAssumption ==
  /\ Sighted \subseteq Robots /\ Offenders \subseteq Robots /\ Random \subseteq Robots
  /\ MaxLag \in [Robots -> {1, 2}]

VARIABLES
  gc,         \* the state of the game as the GC has it
  fouls,      \* the robots with penalty ILLEGAL_MOTION_IN_STANDBY
  armsUp,     \* the referee's arms
  raised,     \* they were up since the GC announced STANDBY; not in the code
  told,       \* what Gamecontrol has emitted last in each robot
  looking,    \* RefereeGesture has an image with both arms up in work
  gestures,   \* Gamestate's queue of gestures holds one with both arms up
  toSend,     \* TeamComm's queue of gestures does
  air,        \* messages with refereeGestureUp: <<sender, receiver>>
  messages,   \* Gamestate's queue of team messages holds such a message
  official,   \* gameStateOfficial
  real,       \* gameStateReal
  detected,   \* gestureInStandbyDetected
  punished,   \* gestureInStandbyPenalized
  waited,     \* delayUntilWalkIn has passed since gestureDetectionTimestamp
  lag         \* how many states the GC announced since Gamestate noticed one

field == <<gc, fouls, armsUp, raised>>
queues == <<looking, gestures, toSend, air, messages>>
gamestate == <<official, real, detected, punished, waited>>
vars == <<field, told, queues, gamestate, lag>>

States == {"INITIAL", "STANDBY", "READY", "PLAYING"}

TypeOK ==
  /\ gc \in States /\ fouls \subseteq Offenders
  /\ armsUp \in BOOLEAN /\ raised \in BOOLEAN
  /\ told \in [Robots -> [state : States, fouls : SUBSET Offenders]]
  /\ {looking, gestures, toSend, messages} \subseteq [Robots -> BOOLEAN]
  /\ air \subseteq Robots \X Robots
  /\ {official, real} \subseteq [Robots -> States]
  /\ {detected, punished, waited} \subseteq [Robots -> BOOLEAN]
  /\ lag \in [Robots -> Nat]
  /\ \A r \in Robots : lag[r] <= MaxLag[r]

\* Nothing initializes the two flags of Gamestate.
Init ==
  /\ gc = "INITIAL" /\ fouls = {} /\ armsUp = FALSE /\ raised = FALSE
  /\ told = [r \in Robots |-> [state |-> "INITIAL", fouls |-> {}]]
  /\ looking = [r \in Robots |-> FALSE] /\ gestures = looking
  /\ toSend = looking /\ messages = looking /\ waited = looking
  /\ air = {}
  /\ official = [r \in Robots |-> "INITIAL"] /\ real = official
  /\ detected \in {f \in [Robots -> BOOLEAN] : \A r \in Robots \ Random : ~f[r]}
  /\ punished \in {f \in [Robots -> BOOLEAN] : \A r \in Robots \ Random : ~f[r]}
  /\ lag = [r \in Robots |-> 0]

-----------------------------------------------------------------------------
(* Faults: what some of the definitions would be if the code were wrong,   *)
(* kept to show that the properties below notice.                          *)

DetectsStill(r) == detected[r] \/ gestures[r] \/ messages[r]

BroadcastTooLate(r) ==
  /\ toSend[r]
  /\ toSend' = [toSend EXCEPT ![r] = FALSE]
  /\ UNCHANGED <<field, told, looking, gestures, air, messages, gamestate, lag>>

-----------------------------------------------------------------------------
(* The referee and the game controller.                                    *)

\* SET and PLAYING are alike here, and so are FINISHED and INITIAL.
Follows == {<<"INITIAL", "STANDBY">>, <<"STANDBY", "READY">>, <<"READY", "PLAYING">>,
            <<"PLAYING", "READY">>, <<"PLAYING", "INITIAL">>}

\* Before STANDBY the robots have had minutes to finish what is under way.
Quiet == air = {} /\ \A r \in Robots : ~looking[r] /\ ~toSend[r]

Announce(s) ==
  /\ <<gc, s>> \in Follows /\ ~armsUp
  /\ \A r \in Robots : lag[r] < MaxLag[r]
  /\ s = "STANDBY" => Quiet
  /\ gc' = s /\ fouls' = {}
  /\ raised' = (raised /\ s # "STANDBY")
  /\ lag' = [r \in Robots |-> lag[r] + 1]
  /\ UNCHANGED <<armsUp, told, queues, gamestate>>

Raise ==
  /\ gc = "STANDBY" /\ ~armsUp
  /\ armsUp' = TRUE /\ raised' = TRUE
  /\ UNCHANGED <<gc, fouls, told, queues, gamestate, lag>>

Lower ==
  /\ armsUp /\ armsUp' = FALSE
  /\ UNCHANGED <<gc, fouls, raised, told, queues, gamestate, lag>>

Penalize(r) ==
  /\ gc = "STANDBY" /\ fouls' = fouls \cup {r}
  /\ UNCHANGED <<gc, armsUp, raised, told, queues, gamestate, lag>>

Hear(r) ==
  /\ told' = [told EXCEPT ![r] = [state |-> gc, fouls |-> fouls]]
  /\ UNCHANGED <<field, queues, gamestate, lag>>

-----------------------------------------------------------------------------
(* RefereeGesture and TeamComm.                                            *)

\* process() takes the newest image ...
Look(r) ==
  /\ r \in Sighted /\ armsUp /\ told[r].state = "STANDBY" /\ ~looking[r]
  /\ looking' = [looking EXCEPT ![r] = TRUE]
  /\ UNCHANGED <<field, told, gestures, toSend, air, messages, gamestate, lag>>

\* ... and emits what it has found in it.
Gesture(r) ==
  /\ looking[r]
  /\ looking' = [looking EXCEPT ![r] = FALSE]
  /\ gestures' = [gestures EXCEPT ![r] = TRUE]
  /\ toSend' = [toSend EXCEPT ![r] = TRUE]
  /\ UNCHANGED <<field, told, air, messages, gamestate, lag>>

\* A gesture is fetched whether or not the message may be sent; the message is
\* due at once, and there is a budget left for it.
Broadcast(r) ==
  /\ toSend[r]
  /\ toSend' = [toSend EXCEPT ![r] = FALSE]
  /\ air' = IF r \in told[r].fouls THEN air
            ELSE air \cup ({r} \X (Robots \ {r}))
  /\ UNCHANGED <<field, told, looking, gestures, messages, gamestate, lag>>

NetRecv(s, r) ==
  /\ <<s, r>> \in air
  /\ air' \in {air, air \ {<<s, r>>}}
  /\ messages' = [messages EXCEPT ![r] = TRUE]
  /\ UNCHANGED <<field, told, looking, gestures, toSend, gamestate, lag>>

Lose(s, r) ==
  /\ <<s, r>> \in air /\ air' = air \ {<<s, r>>}
  /\ UNCHANGED <<field, told, looking, gestures, toSend, messages, gamestate, lag>>

-----------------------------------------------------------------------------
(* Gamestate.                                                              *)

Enters(r) == real[r] \notin {"STANDBY", "READY"}

\* Whether the flag holds when the queues have been looked at.
Detects(r) ==
  IF Enters(r) THEN FALSE ELSE detected[r] \/ gestures[r] \/ messages[r]

\* The queues are emptied on entering and until something is detected.
Fetches(r) == Enters(r) \/ ~detected[r]

Emptied(q, r) == [q EXCEPT ![r] = @ /\ ~Fetches(r)]

\* delayUntilWalkIn: 15 s, or -1 for the sacrifice player.
DelayIsOver(r) == r = Sacrifice \/ (detected[r] /\ waited[r])

HandleOfficialStandby(r) ==
  LET late == punished[r] /\ ~Enters(r)
      now  == Detects(r) /\ ~late /\ real[r] # "READY" /\ DelayIsOver(r)
  IN  /\ gestures' = Emptied(gestures, r)
      /\ messages' = Emptied(messages, r)
      /\ detected' = [detected EXCEPT ![r] = Detects(r)]
      /\ waited' = [waited EXCEPT ![r] = @ /\ ~Fetches(r)]
      /\ punished' = [punished EXCEPT ![r] = late \/ (now /\ told[r].fouls # {})]
      /\ real' = [real EXCEPT ![r] = IF now /\ told[r].fouls = {} THEN "READY"
                                     ELSE IF Enters(r) THEN "STANDBY" ELSE @]

\* INITIAL, READY, FINISHED, SET and PLAYING are taken over as they are.
Trust(r) ==
  /\ real' = [real EXCEPT ![r] = told[r].state]
  /\ UNCHANGED <<gestures, messages, detected, punished, waited>>

Process(r) ==
  /\ official' = [official EXCEPT ![r] = told[r].state]
  /\ IF told[r].state = "STANDBY" THEN HandleOfficialStandby(r) ELSE Trust(r)
  /\ lag' = IF told[r].state = gc THEN [lag EXCEPT ![r] = 0] ELSE lag
  /\ UNCHANGED <<field, told, looking, toSend, air>>

\* 15 s pass.
Wait(r) ==
  /\ official[r] = "STANDBY" /\ detected[r] /\ ~waited[r]
  /\ waited' = [waited EXCEPT ![r] = TRUE]
  /\ UNCHANGED <<field, told, queues, official, real, detected, punished, lag>>

-----------------------------------------------------------------------------

RobotStep(r) ==
  \/ Hear(r) \/ Look(r) \/ Gesture(r) \/ Broadcast(r) \/ Process(r) \/ Wait(r)
  \/ \E s \in Robots : NetRecv(s, r)

Next ==
  \/ \E s \in States : Announce(s)
  \/ Raise \/ Lower
  \/ \E r \in Robots : RobotStep(r) \/ \E s \in Robots : Lose(s, r)
  \/ \E r \in Offenders : Penalize(r)

Spec == Init /\ [][Next]_vars

\* The threads run, 15 s pass, and what is sent again and again arrives in the end.
Fairness ==
  \A r \in Robots :
    /\ WF_vars(Hear(r)) /\ WF_vars(Look(r)) /\ WF_vars(Gesture(r))
    /\ WF_vars(Broadcast(r)) /\ WF_vars(Process(r)) /\ WF_vars(Wait(r))
    /\ \A s \in Robots : SF_vars(NetRecv(s, r))

FairSpec == Spec /\ Fairness

-----------------------------------------------------------------------------
(* Properties *)

(***************************************************************************)
(* No robot walks in while its game controller still says STANDBY unless   *)
(* the referee has raised the arms in this very STANDBY, whatever is left  *)
(* in the queues from the last one, whatever states of the game the robot  *)
(* has failed to notice, and whatever the flags were when it was switched  *)
(* on.                                                                     *)
(***************************************************************************)
WalksInOnSignal ==
  \A r \in Robots : official[r] = "STANDBY" /\ real[r] = "READY" => raised

\* The inductive invariant behind it (StandbyProofs). Where a robot is in the
\* sequence of states: it has noticed the one before the last lag[r].
Timeline(r) ==
  \/ lag[r] = 0 /\ official[r] = gc /\ told[r].state = gc
  \/ /\ lag[r] = 1 /\ <<official[r], gc>> \in Follows
     /\ told[r].state \in {official[r], gc}
  \/ /\ lag[r] = 2
     /\ \E s \in States :
          /\ <<s, gc>> \in Follows
          /\ \/ official[r] = s /\ told[r].state \in {s, gc}
             \/ <<official[r], s>> \in Follows /\ told[r].state \in {official[r], s, gc}

\* Without a signal nothing is under way, and who is in STANDBY knows of none.
NoSignal ==
  ~raised =>
    /\ ~armsUp /\ Quiet
    /\ \A r \in Robots : official[r] = "STANDBY" =>
         real[r] = "STANDBY" /\ ~detected[r] /\ ~gestures[r] /\ ~messages[r]

IInv ==
  /\ TypeOK /\ NoSignal
  /\ \A r \in Robots :
       Timeline(r) /\ (official[r] # "STANDBY" => real[r] = official[r])

(***************************************************************************)
(* If the referee's arms stay up and one robot that may send sees them,    *)
(* each robot walks in, also one that does not see the referee, or it has  *)
(* heard of a foul.                                                        *)
(***************************************************************************)
AllWalkIn ==
  (<>[](armsUp /\ Sighted \cap fouls = {}))
    => <>[](\A r \in Robots : real[r] = "READY" \/ punished[r])

=============================================================================
