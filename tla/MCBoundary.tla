----------------------------- MODULE MCBoundary -----------------------------
(* What crosses the wasm boundary, for TLC: the CLI's handles and its dot  *)
(* commands, the core's blocks, and the values of callbacks. The three     *)
(* share no state, so that a behaviour has steps of one of them, which     *)
(* leaves out no state of any.                                             *)
EXTENDS DotCommands, TvmSlots, ColumnBridge

\* Two components with commands of one name, two that are passed over, one
\* with a field that the interface does not know.
SpecOf(name, id) == [name |-> name, id |-> id]
Fields == {"id", "name", "summary", "usage"}
MCFolder == <<
  [starts |-> FALSE, fields |-> Fields, specs |-> <<SpecOf("fb", 9)>>],
  [starts |-> TRUE, fields |-> Fields, specs |-> <<SpecOf("FB", 1), SpecOf("fb", 2)>>],
  [starts |-> TRUE, fields |-> Fields \ {"usage"}, specs |-> <<SpecOf("run", 8)>>],
  [starts |-> TRUE, fields |-> Fields \cup {"since"}, specs |-> <<SpecOf("fb", 3), SpecOf("run", 1)>>] >>
MCLower == [fb |-> "fb", FB |-> "fb", run |-> "run", help |-> "help"]

CrossingInit == HandlesInit /\ DotInit /\ Init /\ BridgeInit

HandlesUntouched == next = 1 /\ phase = "running" /\ traps = 0 /\ DotInit
SlotsUntouched == up = {} /\ \A r \in Regions : incarnation[r] = 0
BridgeUntouched == call = NoValue /\ ~bytes

HandleStep == SlotsUntouched /\ BridgeUntouched /\ DotNext /\ UNCHANGED <<vars, bridgeVars>>
SlotStep == HandlesUntouched /\ BridgeUntouched /\ Next /\ UNCHANGED <<handleVars, dotVars, bridgeVars>>
BridgeStep == HandlesUntouched /\ SlotsUntouched /\ BridgeNext /\ UNCHANGED <<handleVars, dotVars, vars>>

CrossingSpec ==
  CrossingInit /\ [][HandleStep \/ SlotStep \/ BridgeStep]_<<handleVars, dotVars, vars, bridgeVars>>
=============================================================================
