----------------------------- MODULE MotorGate ------------------------------
(***************************************************************************)
(* Who drives the motor: mission_manager and cmd_vel_bridge both publish   *)
(* on the motor topic, and mission_manager opens and shuts the bridge over *)
(* the latched topic /nav_drive_enable.  The two are processes of their    *)
(* own, started by two launch files, and each may be stopped and started   *)
(* again.                                                                  *)
(*                                                                         *)
(* A topic keeps the order of one publisher and no order between two, so   *)
(* each publisher of the motor topic has a queue of its own.  The enable   *)
(* topic keeps the last sample: `latch' at the publisher, for a subscriber *)
(* that comes later, and `pending' at the subscriber.  A motor command is  *)
(* what it does to the car: it stands or it rolls.  The motor driver is    *)
(* that of fake_hardware.py, which lets the car stand when no command has  *)
(* come for half a second.  A process may also be killed, without the stop *)
(* that main() sends.                                                      *)
(***************************************************************************)
EXTENDS Integers, Sequences

CONSTANT Depth   \* depth of the motor queues

ASSUME GateAssumption == Depth \in Nat \ {0}

VARIABLES
  phase,        \* of mission_manager: see Phases
  nav_enabled,  \* its _nav_enabled: "none" before the first call
  latch,        \* its latched sample on the enable topic, "none" without one
  pending,      \* the sample the bridge has not looked at yet, or "none"
  up,           \* the bridge runs
  enabled,      \* its enabled
  queue,        \* motor commands on their way, by publisher
  motor,        \* the latest command the motor driver has received: _cmd
  late,         \* no command has come for longer than the driver waits
  killed        \* history: the bridge has been killed

gateVars == <<phase, nav_enabled, latch, pending, up, enabled, queue, motor, late, killed>>
bridgeVars == <<up, enabled, killed>>
driverVars == <<motor, late>>

\* down: not running.  waiting: before start().  leg: Nav2 is to drive.
\* maneuver: the mission drives, in a maneuver, a retreat or a dwell.  ended:
\* after _finish().
Phases == {"down", "waiting", "leg", "maneuver", "ended"}
Switches == {"none", "on", "off"}
Commands == {"stand", "roll"}
Publishers == {"mission", "bridge"}

TypeOK ==
  /\ phase \in Phases
  /\ nav_enabled \in Switches /\ latch \in Switches /\ pending \in Switches
  /\ up \in BOOLEAN /\ enabled \in BOOLEAN
  /\ queue \in [Publishers -> Seq(Commands)]
  /\ \A p \in Publishers : Len(queue[p]) <= Depth
  /\ motor \in [by : Publishers, command : Commands]
  /\ late \in BOOLEAN /\ killed \in BOOLEAN

-----------------------------------------------------------------------------
\* Publishing on a full queue drops its oldest command.
Pushed(q, c) == Append(IF Len(q) = Depth THEN Tail(q) ELSE q, c)

Publish(p, c) == queue' = [queue EXCEPT ![p] = Pushed(@, c)]

Init ==
  /\ phase = "waiting"
  /\ nav_enabled = "none" /\ latch = "none" /\ pending = "none"
  /\ up = TRUE /\ enabled = FALSE
  /\ queue = [p \in Publishers |-> <<>>]
  /\ motor = [by |-> "mission", command |-> "stand"] /\ late = FALSE /\ killed = FALSE

-----------------------------------------------------------------------------
(* mission_manager *)
\* set_nav_enabled(): nothing is published when it would only repeat itself.
SetNavEnabled(s) ==
  /\ nav_enabled' = s
  /\ IF nav_enabled = s THEN UNCHANGED <<latch, pending>>
     ELSE latch' = s /\ pending' = (IF up THEN s ELSE "none")

\* A leg is entered, or its next route is started after a retreat.
EnterLeg ==
  /\ phase \in {"waiting", "leg", "maneuver"}
  /\ phase' = "leg"
  /\ SetNavEnabled("on")
  /\ UNCHANGED <<bridgeVars, queue, driverVars>>

\* ParkStep, HomeStep and DwellStep on entry, and a retreat: the gate, then a stop.
TakeTheWheel ==
  /\ phase \in {"leg", "maneuver"}
  /\ phase' = "maneuver"
  /\ SetNavEnabled("off")
  /\ Publish("mission", "stand")
  /\ UNCHANGED <<bridgeVars, driverVars>>

\* A tick of the executor, or of DwellStep.
Drive(c) ==
  /\ phase = "maneuver"
  /\ Publish("mission", c)
  /\ UNCHANGED <<phase, nav_enabled, latch, pending, bridgeVars, driverVars>>

\* _finish()
Finish ==
  /\ phase \in {"leg", "maneuver"}
  /\ phase' = "ended"
  /\ SetNavEnabled("off")
  /\ Publish("mission", "stand")
  /\ UNCHANGED <<bridgeVars, driverVars>>

\* main(), when spin() returns: one stop, and the node is gone, its latched sample
\* with it; the gate is left as it is.
Quit ==
  /\ phase # "down"
  /\ phase' = "down"
  /\ nav_enabled' = "none" /\ latch' = "none"
  /\ Publish("mission", "stand")
  /\ UNCHANGED <<pending, bridgeVars, driverVars>>

\* The process is killed.
MissionDies ==
  /\ phase # "down"
  /\ phase' = "down"
  /\ nav_enabled' = "none" /\ latch' = "none"
  /\ UNCHANGED <<pending, bridgeVars, queue, driverVars>>

Restart ==
  /\ phase = "down"
  /\ phase' = "waiting"
  /\ UNCHANGED <<nav_enabled, latch, pending, bridgeVars, queue, driverVars>>

-----------------------------------------------------------------------------
(* cmd_vel_bridge *)
\* Mutant: the gate is shut without a stop.
OnEnableQuietly ==
  /\ up /\ pending # "none"
  /\ pending' = "none"
  /\ enabled' = (pending = "on")
  /\ UNCHANGED <<phase, nav_enabled, latch, up, killed, queue, driverVars>>

\* _on_enable()
OnEnable ==
  /\ up /\ pending # "none"
  /\ pending' = "none"
  /\ enabled' = (pending = "on")
  /\ IF enabled /\ pending = "off" THEN Publish("bridge", "stand") ELSE UNCHANGED queue
  /\ UNCHANGED <<phase, nav_enabled, latch, up, killed, driverVars>>

\* Mutant: the gate is not looked at.
OnCmdVelUngated(c) ==
  /\ up
  /\ Publish("bridge", c)
  /\ UNCHANGED <<phase, nav_enabled, latch, pending, bridgeVars, driverVars>>

\* _on_cmd_vel(): a command that is not zero is made large enough to roll.
OnCmdVel(c) ==
  /\ up /\ enabled
  /\ Publish("bridge", c)
  /\ UNCHANGED <<phase, nav_enabled, latch, pending, bridgeVars, driverVars>>

\* main(), when spin() returns.
BridgeQuits ==
  /\ up
  /\ up' = FALSE
  /\ enabled' = FALSE /\ pending' = "none"
  /\ Publish("bridge", "stand")
  /\ UNCHANGED <<phase, nav_enabled, latch, killed, driverVars>>

\* The process is killed.
BridgeDies ==
  /\ up
  /\ up' = FALSE
  /\ enabled' = FALSE /\ pending' = "none" /\ killed' = TRUE
  /\ UNCHANGED <<phase, nav_enabled, latch, queue, driverVars>>

\* Mutant: the enable topic is not latched.
BridgeStartsUnlatched ==
  /\ ~up
  /\ up' = TRUE
  /\ UNCHANGED <<phase, nav_enabled, latch, pending, enabled, killed, queue, driverVars>>

\* The bridge starts disabled and receives the latched sample, if there is one.
BridgeStarts ==
  /\ ~up
  /\ up' = TRUE
  /\ pending' = latch
  /\ UNCHANGED <<phase, nav_enabled, latch, enabled, killed, queue, driverVars>>

-----------------------------------------------------------------------------
(* the motor driver *)
\* _on_motor()
Obey(p) ==
  /\ queue[p] # <<>>
  /\ motor' = [by |-> p, command |-> Head(queue[p])]
  /\ late' = FALSE
  /\ queue' = [queue EXCEPT ![p] = Tail(@)]
  /\ UNCHANGED <<phase, nav_enabled, latch, pending, bridgeVars>>

\* Mutant: the driver goes on with the last command.
SilenceIgnored ==
  /\ queue["mission"] = <<>> /\ queue["bridge"] = <<>>
  /\ UNCHANGED gateVars

\* _step(), when the last command is older than half a second.
Silence ==
  /\ queue["mission"] = <<>> /\ queue["bridge"] = <<>>
  /\ late' = TRUE
  /\ UNCHANGED <<phase, nav_enabled, latch, pending, bridgeVars, queue, motor>>

\* The speed that _step() drives with: a command below the dead band is a stand.
Rolling == motor.command = "roll" /\ ~late

Mission ==
  \/ EnterLeg \/ TakeTheWheel \/ (\E c \in Commands : Drive(c)) \/ Finish
  \/ Quit \/ MissionDies \/ Restart

Bridge == OnEnable \/ (\E c \in Commands : OnCmdVel(c)) \/ BridgeQuits \/ BridgeDies \/ BridgeStarts

Driver == (\E p \in Publishers : Obey(p)) \/ Silence

Next == Mission \/ Bridge \/ Driver

Spec == Init /\ [][Next]_gateVars

\* The transport is reliable and the motor driver keeps up; nothing is assumed of
\* Nav2, which may send commands for ever, or of how often the nodes restart.
FairSpec ==
  /\ Spec
  /\ WF_gateVars(OnEnable)
  /\ \A p \in Publishers : WF_gateVars(Obey(p))
  /\ WF_gateVars(Silence)

-----------------------------------------------------------------------------
\* When nothing is on its way the bridge is open exactly when the mission last
\* said so, through a restart of the bridge (latched sample, 35-43) and through
\* calls that set_nav_enabled swallows because they would repeat themselves (963).
GateFollows ==
  up /\ pending = "none" /\ nav_enabled # "none" => (enabled <=> nav_enabled = "on")

\* Nav2 can no longer move the car: the bridge is shut, is not about to open, and
\* no command of Nav2's is on its way.
NavSilent ==
  /\ ~enabled /\ pending # "on"
  /\ \A i \in DOMAIN queue["bridge"] : queue["bridge"][i] = "stand"

\* Once Nav2 has fallen silent in a maneuver, or after the mission's end, it stays
\* so until the mission gives it the wheel again or is started anew: the two do
\* not fight over the motor (cmd_vel_bridge.py, 10-17).
ManeuverUndisturbed ==
  [][NavSilent /\ phase \in {"maneuver", "ended"} =>
       NavSilent' \/ phase' \notin {"maneuver", "ended"}]_gateVars

\* A mission that has ended stops the car for good, whatever Nav2 still sends and
\* whichever of the stops and commands in flight arrives first: the stop that
\* _on_enable adds (98-100) comes after Nav2's last command.  Only a bridge that is
\* killed leaves the last word to a command that rolls.
StopSettles == <>[](phase = "ended" /\ ~killed) => <>[](motor.command = "stand")

\* When nobody is left to drive the car, for the mission is over, gone or waits for
\* its start and the bridge is shut or gone, the car comes to a stand and stays so,
\* also if both were killed in the middle of a drive (fake_hardware.py 257-261).
OrphanStands == <>[](phase \notin {"leg", "maneuver"} /\ ~enabled) => <>[]~Rolling

\* cmd_vel_bridge.py:60-66: the car does not move on its own before a mission; the
\* bridge is disabled, or about to be, while mission_manager waits for its start.
WaitsUndriven == phase = "waiting" => ~enabled \/ pending = "off"
=============================================================================
