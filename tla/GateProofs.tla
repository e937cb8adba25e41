----------------------------- MODULE GateProofs ------------------------------
(***************************************************************************)
(* Theorems about the gate between mission and bridge, for every depth of  *)
(* the motor queues and through every stop, death and restart of the two.  *)
(***************************************************************************)
EXTENDS MotorGate, SequenceTheorems, TLAPS

\* What the mission remembers to have said is what is latched, and it has said
\* "off" where it drives itself or has ended.
MissionInv ==
  /\ latch = nav_enabled
  /\ phase \in {"maneuver", "ended"} => nav_enabled = "off"

\* The sample the bridge has not looked at yet is the mission's last word, and a
\* bridge that does not run is shut.
BridgeInv ==
  /\ ~up => ~enabled /\ pending = "none"
  /\ up /\ pending # "none" /\ nav_enabled # "none" => pending = nav_enabled

GateInv == TypeOK /\ MissionInv /\ BridgeInv /\ GateFollows

-----------------------------------------------------------------------------
\* A queue stays one of commands, and no longer than it may be.
LEMMA PushedTyping ==
  ASSUME NEW q \in Seq(Commands), Len(q) <= Depth, NEW c \in Commands
  PROVE  Pushed(q, c) \in Seq(Commands) /\ Len(Pushed(q, c)) <= Depth
<1> USE GateAssumption
<1>1. CASE Len(q) = Depth
  <2>1. q # <<>>
    BY <1>1
  <2>2. Tail(q) \in Seq(Commands) /\ Len(Tail(q)) = Len(q) - 1
    BY <2>1, HeadTailProperties
  <2>3. Append(Tail(q), c) \in Seq(Commands) /\ Len(Append(Tail(q), c)) = Len(Tail(q)) + 1
    BY <2>2, AppendProperties
  <2>4. QED
    BY <1>1, <2>2, <2>3 DEF Pushed
<1>2. CASE Len(q) # Depth
  <2>1. Append(q, c) \in Seq(Commands) /\ Len(Append(q, c)) = Len(q) + 1
    BY AppendProperties
  <2>2. Len(q) \in Nat
    BY LenProperties
  <2>3. QED
    BY <1>2, <2>1, <2>2 DEF Pushed
<1>3. QED
  BY <1>1, <1>2

QueueOK ==
  /\ queue \in [Publishers -> Seq(Commands)]
  /\ \A p \in Publishers : Len(queue[p]) <= Depth

\* Publishing keeps the queues in order.
LEMMA PublishTyping ==
  ASSUME QueueOK, NEW p \in Publishers, NEW c \in Commands, Publish(p, c)
  PROVE  QueueOK'
<1>1. Pushed(queue[p], c) \in Seq(Commands) /\ Len(Pushed(queue[p], c)) <= Depth
  BY PushedTyping DEF QueueOK
<1>2. QED
  BY <1>1 DEF QueueOK, Publish

\* So does taking a command.
LEMMA TakeTyping ==
  ASSUME QueueOK, NEW p \in Publishers, queue[p] # <<>>,
         queue' = [queue EXCEPT ![p] = Tail(@)]
  PROVE  QueueOK' /\ Head(queue[p]) \in Commands
<1> USE GateAssumption
<1>1. queue[p] \in Seq(Commands)
  BY DEF QueueOK
<1>2. /\ Head(queue[p]) \in Commands /\ Tail(queue[p]) \in Seq(Commands)
      /\ Len(Tail(queue[p])) = Len(queue[p]) - 1
  BY <1>1, HeadTailProperties
<1>3. Len(queue[p]) \in Nat
  BY <1>1, LenProperties
<1>4. QED
  BY <1>2, <1>3 DEF QueueOK

-----------------------------------------------------------------------------
\* Every step keeps the variables in their types.
LEMMA GateTyping == ASSUME TypeOK, [Next]_gateVars PROVE TypeOK'
<1> USE DEF TypeOK, Phases, Switches
<1>0. QueueOK
  BY DEF QueueOK
<1>1. "mission" \in Publishers /\ "bridge" \in Publishers /\ "stand" \in Commands
  BY DEF Publishers, Commands
<1>2. QueueOK' => queue' \in [Publishers -> Seq(Commands)] /\ \A p \in Publishers : Len(queue'[p]) <= Depth
  BY DEF QueueOK
<1>3. CASE EnterLeg
  BY <1>3 DEF EnterLeg, SetNavEnabled, bridgeVars, driverVars
<1>4. CASE TakeTheWheel
  <2>1. QueueOK'
    BY <1>0, <1>1, <1>4, PublishTyping DEF TakeTheWheel
  <2>2. QED
    BY <1>2, <1>4, <2>1 DEF TakeTheWheel, SetNavEnabled, bridgeVars, driverVars
<1>5. ASSUME NEW c \in Commands, Drive(c) PROVE TypeOK'
  <2>1. QueueOK'
    BY <1>0, <1>1, <1>5, PublishTyping DEF Drive
  <2>2. QED
    BY <1>2, <1>5, <2>1 DEF Drive, bridgeVars, driverVars
<1>6. CASE Finish
  <2>1. QueueOK'
    BY <1>0, <1>1, <1>6, PublishTyping DEF Finish
  <2>2. QED
    BY <1>2, <1>6, <2>1 DEF Finish, SetNavEnabled, bridgeVars, driverVars
<1>7. CASE Quit
  <2>1. QueueOK'
    BY <1>0, <1>1, <1>7, PublishTyping DEF Quit
  <2>2. QED
    BY <1>2, <1>7, <2>1 DEF Quit, bridgeVars, driverVars
<1>8. CASE MissionDies \/ Restart
  BY <1>8 DEF MissionDies, Restart, bridgeVars, driverVars
<1>9. CASE OnEnable
  <2>1. QueueOK'
    BY <1>0, <1>1, <1>9, PublishTyping DEF OnEnable, QueueOK
  <2>2. QED
    BY <1>2, <1>9, <2>1 DEF OnEnable, driverVars
<1>10. ASSUME NEW c \in Commands, OnCmdVel(c) PROVE TypeOK'
  <2>1. QueueOK'
    BY <1>0, <1>1, <1>10, PublishTyping DEF OnCmdVel
  <2>2. QED
    BY <1>2, <1>10, <2>1 DEF OnCmdVel, bridgeVars, driverVars
<1>11. CASE BridgeQuits
  <2>1. QueueOK'
    BY <1>0, <1>1, <1>11, PublishTyping DEF BridgeQuits
  <2>2. QED
    BY <1>2, <1>11, <2>1 DEF BridgeQuits, driverVars
<1>12. CASE BridgeDies \/ BridgeStarts
  BY <1>12 DEF BridgeDies, BridgeStarts, driverVars
<1>13. ASSUME NEW p \in Publishers, Obey(p) PROVE TypeOK'
  <2>1. QueueOK' /\ Head(queue[p]) \in Commands
    BY <1>0, <1>13, TakeTyping DEF Obey
  <2>2. QED
    BY <1>2, <1>13, <2>1 DEF Obey, bridgeVars
<1>14. CASE Silence
  BY <1>14 DEF Silence, bridgeVars
<1>15. CASE UNCHANGED gateVars
  BY <1>15 DEF gateVars
<1>16. QED
  BY <1>3, <1>4, <1>5, <1>6, <1>7, <1>8, <1>9, <1>10, <1>11, <1>12, <1>13, <1>14, <1>15
     DEF Next, Mission, Bridge, Driver

\* Every step keeps mission, latch and bridge in agreement.
LEMMA GateStep == ASSUME GateInv, [Next]_gateVars PROVE GateInv'
<1> USE DEF GateInv, MissionInv, BridgeInv, GateFollows
<1>1. TypeOK'
  BY GateTyping
<1>2. phase \in Phases /\ enabled \in BOOLEAN /\ up \in BOOLEAN /\ pending \in Switches
      /\ nav_enabled \in Switches /\ latch \in Switches
  BY DEF TypeOK
<1>3. CASE EnterLeg
  BY <1>1, <1>2, <1>3 DEF EnterLeg, SetNavEnabled, bridgeVars
<1>4. CASE TakeTheWheel
  BY <1>1, <1>2, <1>4 DEF TakeTheWheel, SetNavEnabled, bridgeVars
<1>5. ASSUME NEW c \in Commands, Drive(c) \/ OnCmdVel(c) PROVE GateInv'
  BY <1>1, <1>2, <1>5 DEF Drive, OnCmdVel, bridgeVars
<1>6. CASE Finish
  BY <1>1, <1>2, <1>6 DEF Finish, SetNavEnabled, bridgeVars
<1>7. CASE Quit \/ MissionDies
  BY <1>1, <1>2, <1>7 DEF Quit, MissionDies, bridgeVars
<1>8. CASE Restart
  BY <1>1, <1>2, <1>8 DEF Restart, bridgeVars
<1>9. CASE OnEnable
  BY <1>1, <1>2, <1>9 DEF OnEnable, Switches
<1>10. CASE BridgeQuits \/ BridgeDies
  BY <1>1, <1>2, <1>10 DEF BridgeQuits, BridgeDies
<1>11. CASE BridgeStarts
  BY <1>1, <1>2, <1>11 DEF BridgeStarts
<1>12. ASSUME NEW p \in Publishers, Obey(p) PROVE GateInv'
  BY <1>1, <1>2, <1>12 DEF Obey, bridgeVars
<1>13. CASE Silence
  BY <1>1, <1>2, <1>13 DEF Silence, bridgeVars
<1>14. CASE UNCHANGED gateVars
  BY <1>1, <1>2, <1>14 DEF gateVars
<1>15. QED
  BY <1>3, <1>4, <1>5, <1>6, <1>7, <1>8, <1>9, <1>10, <1>11, <1>12, <1>13, <1>14
     DEF Next, Mission, Bridge, Driver

\* The inductive invariant holds throughout.
THEOREM GateInvariant == Spec => []GateInv
<1>1. Init => GateInv
  <2> SUFFICES ASSUME Init PROVE GateInv
    OBVIOUS
  <2>1. <<>> \in Seq(Commands) /\ Len(<<>>) = 0
    BY EmptySeq
  <2>2. queue \in [Publishers -> Seq(Commands)] /\ \A p \in Publishers : Len(queue[p]) <= Depth
    BY <2>1, GateAssumption DEF Init
  <2>3. TypeOK
    BY <2>2 DEF Init, TypeOK, Phases, Switches, Publishers, Commands
  <2>4. MissionInv /\ BridgeInv /\ GateFollows
    BY DEF Init, MissionInv, BridgeInv, GateFollows
  <2>5. QED
    BY <2>3, <2>4 DEF GateInv
<1>2. QED
  BY <1>1, GateStep, PTL DEF Spec

\* The processes and topics keep their types, and no queue outgrows its depth.
THEOREM GateTypeCorrect == Spec => []TypeOK
BY GateInvariant, PTL DEF GateInv

\* When nothing is on its way the bridge is open exactly when the mission last said
\* so, whatever was stopped, killed and started in between.
THEOREM GateAlwaysFollows == Spec => []GateFollows
BY GateInvariant, PTL DEF GateInv

-----------------------------------------------------------------------------
AllStand(q) == \A i \in DOMAIN q : q[i] = "stand"

\* A queue of stops that gets another one, or loses its first, is one of stops.
LEMMA PushedStand ==
  ASSUME NEW q \in Seq(Commands), AllStand(q)
  PROVE  AllStand(Pushed(q, "stand")) /\ (q # <<>> => AllStand(Tail(q)))
<1> USE DEF AllStand
<1>1. AllStand(Append(q, "stand"))
  BY AppendProperties, LenProperties DEF Commands
<1>2. ASSUME q # <<>>
      PROVE  AllStand(Tail(q)) /\ AllStand(Append(Tail(q), "stand"))
  <2>1. /\ Tail(q) \in Seq(Commands) /\ Len(Tail(q)) = Len(q) - 1
        /\ \A i \in 1..Len(Tail(q)) : Tail(q)[i] = q[i + 1]
    BY <1>2, HeadTailProperties
  <2>2. AllStand(Tail(q))
    BY <2>1, LenProperties
  <2>3. QED
    BY <2>1, <2>2, AppendProperties, LenProperties DEF Commands
<1>3. Len(q) = Depth => q # <<>>
  BY GateAssumption
<1>4. QED
  BY <1>1, <1>2, <1>3 DEF Pushed

\* No step of mission, bridge or driver lets Nav2 speak up again in a maneuver, or
\* after the end, unless it leaves them.
LEMMA SilenceStep ==
  ASSUME GateInv, [Next]_gateVars, NavSilent, phase \in {"maneuver", "ended"},
         phase' \in {"maneuver", "ended"}
  PROVE  NavSilent'
<1>1. latch = "off" /\ queue \in [Publishers -> Seq(Commands)]
  BY DEF GateInv, MissionInv, TypeOK
<1>2. ~enabled /\ pending # "on" /\ AllStand(queue["bridge"])
  BY DEF NavSilent, AllStand
<1>3. "bridge" \in Publishers /\ "mission" \in Publishers /\ queue["bridge"] \in Seq(Commands)
  BY <1>1 DEF Publishers
<1>4. AllStand(Pushed(queue["bridge"], "stand"))
  BY <1>2, <1>3, PushedStand
<1>5. SUFFICES ~enabled' /\ pending' # "on" /\ AllStand(queue'["bridge"])
  BY DEF NavSilent, AllStand
<1>6. ASSUME NEW c \in Commands, Publish("mission", c) PROVE queue'["bridge"] = queue["bridge"]
  BY <1>1, <1>3, <1>6 DEF Publish
<1>7. Publish("bridge", "stand") => AllStand(queue'["bridge"])
  BY <1>1, <1>3, <1>4 DEF Publish
<1>8. CASE EnterLeg \/ Quit \/ MissionDies \/ Restart
  BY <1>8 DEF EnterLeg, Quit, MissionDies, Restart
<1>9. CASE TakeTheWheel \/ Finish
  <2>1. queue'["bridge"] = queue["bridge"]
    BY <1>6, <1>9 DEF TakeTheWheel, Finish, Commands
  <2>2. ~enabled' /\ pending' # "on"
    BY <1>2, <1>9 DEF TakeTheWheel, Finish, SetNavEnabled, bridgeVars
  <2>3. QED
    BY <1>2, <2>1, <2>2
<1>10. ASSUME NEW c \in Commands, Drive(c) PROVE ~enabled' /\ pending' # "on" /\ AllStand(queue'["bridge"])
  <2>1. queue'["bridge"] = queue["bridge"]
    BY <1>6, <1>10 DEF Drive
  <2>2. QED
    BY <1>2, <1>10, <2>1 DEF Drive, bridgeVars
<1>11. CASE OnEnable
  BY <1>2, <1>11 DEF OnEnable
<1>12. ASSUME NEW c \in Commands, OnCmdVel(c) PROVE FALSE
  BY <1>2, <1>12 DEF OnCmdVel
<1>13. CASE BridgeQuits
  BY <1>2, <1>7, <1>13 DEF BridgeQuits
<1>14. CASE BridgeDies \/ BridgeStarts
  BY <1>1, <1>2, <1>14 DEF BridgeDies, BridgeStarts
<1>15. ASSUME NEW p \in Publishers, Obey(p) PROVE ~enabled' /\ pending' # "on" /\ AllStand(queue'["bridge"])
  <2>1. AllStand(queue'["bridge"])
    <3>1. CASE p = "bridge"
      <4>1. queue'["bridge"] = Tail(queue["bridge"]) /\ queue["bridge"] # <<>>
        BY <1>1, <1>3, <1>15, <3>1 DEF Obey
      <4>2. QED
        BY <1>2, <1>3, <4>1, PushedStand
    <3>2. CASE p # "bridge"
      BY <1>1, <1>2, <1>3, <1>15, <3>2 DEF Obey
    <3>3. QED
      BY <3>1, <3>2
  <2>2. QED
    BY <1>2, <1>15, <2>1 DEF Obey, bridgeVars
<1>16. CASE Silence
  BY <1>2, <1>16 DEF Silence, bridgeVars
<1>17. CASE UNCHANGED gateVars
  BY <1>2, <1>17 DEF gateVars
<1>18. QED
  BY <1>8, <1>9, <1>10, <1>11, <1>12, <1>13, <1>14, <1>15, <1>16, <1>17
     DEF Next, Mission, Bridge, Driver

\* Once Nav2 has fallen silent in a maneuver or after the mission's end, it stays
\* so until the mission gives it the wheel again or is started anew.
THEOREM ManeuversUndisturbed == Spec => ManeuverUndisturbed
<1>1. ASSUME GateInv, [Next]_gateVars
      PROVE  [NavSilent /\ phase \in {"maneuver", "ended"} =>
                NavSilent' \/ phase' \notin {"maneuver", "ended"}]_gateVars
  BY <1>1, SilenceStep
<1>2. QED
  BY <1>1, GateInvariant, PTL DEF Spec, ManeuverUndisturbed
=============================================================================
