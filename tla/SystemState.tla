---------------------------- MODULE SystemState -----------------------------
(***************************************************************************)
(* The state of the detector system (fsm/system_state.c): one state, moved *)
(* by the conditions that the software's parts report one after the other. *)
(* A condition the state does not expect is logged and ignored.            *)
(*                                                                         *)
(* The environment is what system_state.h says of the conditions: external *)
(* software sets a configuration or standby, the hardware takes its time   *)
(* to follow and then says that it is ready or has failed, or falls silent,*)
(* and the software stops waiting for it with a timeout.  Reports arrive   *)
(* in the order they were sent and do not say which order they answer.     *)
(***************************************************************************)
EXTENDS Integers, Sequences, SequencesExt

CONSTANT MaxReports  \* bound: reports under way

ASSUME StateAssumption == MaxReports \in Nat

VARIABLES
  system_state, background_state,
  hardware,   \* "cold", "warm", on its way ("warming", "cooling"), "failed", "silent"
  reports,    \* conditions reported and not handled
  overtaken   \* an order was given before the last one was carried out

stateVars == <<system_state, background_state, hardware, reports, overtaken>>

Waits   == {"WARMUP", "CHILL"}
Working == {"INIT", "STANDBY", "WARMUP", "OPERATIONAL", "CHILL"}

(* The arrows of change_system_state that are not failures.                *)
Arrows ==
  { <<"INIT", "CS_SOFTWARE_INITIALIZED", "STANDBY">>,
    <<"STANDBY", "SET_CONFIGURATION", "WARMUP">>,
    <<"WARMUP", "SET_STANDBY", "CHILL">>,
    <<"WARMUP", "HARDWARE_READY", "OPERATIONAL">>,
    <<"WARMUP", "CS_SOFTWARE_TIMEOUT", "FAILED">>,
    <<"OPERATIONAL", "SET_CONFIGURATION", "WARMUP">>,
    <<"OPERATIONAL", "SET_STANDBY", "CHILL">>,
    <<"CHILL", "HARDWARE_READY", "STANDBY">> }

(* A failure is taken in every state that works, and never left again.     *)
Failures == {<<s, "CS_SOFTWARE_FAILURE", "REDUCED">> : s \in Working}
              \cup {<<s, "CS_HARDWARE_FAILURE", "FAILED">> : s \in Working}

Leaving(s, c) == {a \in Arrows \cup Failures : a[1] = s /\ a[2] = c}

(* Mutant: the hardware that is ready is always ready to operate.          *)
ReadyToOperate(s, c) ==
  {IF c = "HARDWARE_READY" THEN "OPERATIONAL" ELSE a[3] : a \in Leaving(s, c)}

Targets(s, c) == {a[3] : a \in Leaving(s, c)}

(* change_system_state.                                                    *)
Change(c) ==
  IF Targets(system_state, c) = {} THEN UNCHANGED system_state
                                   ELSE system_state' \in Targets(system_state, c)

StateInit ==
  /\ system_state = "INIT" /\ background_state = "NO_COLLECTING"
  /\ hardware = "cold" /\ reports = << >> /\ overtaken = FALSE

-----------------------------------------------------------------------------
(* The software.                                                           *)

Initialized ==
  /\ Change("CS_SOFTWARE_INITIALIZED")
  /\ UNCHANGED <<background_state, hardware, reports, overtaken>>

SoftwareFails ==
  /\ Change("CS_SOFTWARE_FAILURE")
  /\ UNCHANGED <<background_state, hardware, reports, overtaken>>

(* The hardware is at work on an order, or what it reported has not been   *)
(* handled.                                                                *)
Busy == hardware \in {"warming", "cooling"} \/ reports # << >>

(* An order of the external software goes on to the hardware when the      *)
(* state expected it.                                                      *)
Order(c, work) ==
  /\ Change(c)
  /\ IF Targets(system_state, c) # {}
       THEN /\ overtaken' = (overtaken \/ Busy)
            /\ hardware' = IF hardware \in {"failed", "silent"} THEN hardware ELSE work
       ELSE UNCHANGED <<overtaken, hardware>>
  /\ UNCHANGED <<background_state, reports>>

SetConfiguration == Order("SET_CONFIGURATION", "warming")
SetStandby       == Order("SET_STANDBY", "cooling")

WaitsTooLong ==
  /\ system_state \in Waits
  /\ Change("CS_SOFTWARE_TIMEOUT")
  /\ UNCHANGED <<background_state, hardware, reports, overtaken>>

HandleReport ==
  /\ reports # << >>
  /\ Change(Head(reports))
  /\ reports' = Tail(reports)
  /\ UNCHANGED <<background_state, hardware, overtaken>>

(* set_standby_system_state: whatever the state is.                        *)
SetStandbySystemState ==
  /\ system_state' = "STANDBY"
  /\ overtaken' = (overtaken \/ Busy)
  /\ UNCHANGED <<background_state, hardware, reports>>

(* change_background_mode: the condition that fits the mode toggles it.    *)
ChangeBackgroundMode ==
  /\ background_state' =
       IF background_state = "NO_COLLECTING" THEN "OFFSET_COLLECTING" ELSE "NO_COLLECTING"
  /\ UNCHANGED <<system_state, hardware, reports, overtaken>>

-----------------------------------------------------------------------------
(* The hardware.                                                           *)

Report(c) == Len(reports) < MaxReports /\ reports' = Append(reports, c)

HardwareIsReady ==
  /\ hardware \in {"warming", "cooling"}
  /\ hardware' = IF hardware = "warming" THEN "warm" ELSE "cold"
  /\ Report("HARDWARE_READY")
  /\ UNCHANGED <<system_state, background_state, overtaken>>

HardwareFails ==
  /\ hardware \notin {"failed", "silent"}
  /\ hardware' = "failed"
  /\ Report("CS_HARDWARE_FAILURE")
  /\ UNCHANGED <<system_state, background_state, overtaken>>

HardwareFallsSilent ==
  /\ hardware \in {"warming", "cooling"}
  /\ hardware' = "silent"
  /\ UNCHANGED <<system_state, background_state, reports, overtaken>>

StateNext ==
  \/ Initialized \/ SoftwareFails \/ SetConfiguration \/ SetStandby
  \/ HandleReport \/ WaitsTooLong \/ SetStandbySystemState \/ ChangeBackgroundMode
  \/ HardwareIsReady \/ HardwareFails \/ HardwareFallsSilent

StateSpec == StateInit /\ [][StateNext]_stateVars

-----------------------------------------------------------------------------
(* Properties.                                                             *)

Conditions == {"HARDWARE_READY", "CS_HARDWARE_FAILURE"}

StateTypeOK ==
  /\ system_state \in Working \cup {"FAILED", "REDUCED"}
  /\ background_state \in {"NO_COLLECTING", "OFFSET_COLLECTING"}
  /\ hardware \in {"cold", "warm", "warming", "cooling", "failed", "silent"}
  /\ reports \in BoundedSeq(Conditions, MaxReports) /\ overtaken \in BOOLEAN

(* HARDWARE_READY answers SET_CONFIGURATION and SET_STANDBY alike.  As     *)
(* long as no order overtakes the last one, the system is operational only *)
(* on hardware that is warm, or whose failure has been reported.           *)
OperationalIsWarm ==
  system_state = "OPERATIONAL" /\ ~overtaken
    => hardware = "warm" \/ Contains(reports, "CS_HARDWARE_FAILURE")

=============================================================================
