---------------------------- MODULE MCPrograms ------------------------------
(* Four programs that do not interact, checked one after the other in one  *)
(* run: which of them runs is chosen at the start, the others stay where   *)
(* they begin.                                                             *)
EXTENDS UxServer, TagTable, ThreadRing, SystemState, TLC

VARIABLE program

vars == <<program, serverVars, tagVars, threadVars, stateVars>>

ProgramsInit ==
  /\ program \in {"ux_server", "tag", "pthreads", "system_state"}
  /\ ServerInit /\ TagInit /\ ThreadInit /\ StateInit

InServer  == program = "ux_server" /\ UNCHANGED <<program, tagVars, threadVars, stateVars>>
InTag     == program = "tag" /\ UNCHANGED <<program, serverVars, threadVars, stateVars>>
InThreads == program = "pthreads" /\ UNCHANGED <<program, serverVars, tagVars, stateVars>>
InState   == program = "system_state" /\ UNCHANGED <<program, serverVars, tagVars, threadVars>>

ProgramsNext ==
  \/ InServer /\ ServerNext
  \/ InTag /\ TagNext
  \/ InThreads /\ ThreadNext
  \/ InState /\ StateNext

(* The server's fairness; the other three are checked for safety alone.    *)
ProgramsSpec ==
  /\ ProgramsInit /\ [][ProgramsNext]_vars
  /\ WF_vars(InServer /\ Serve) /\ \A c \in Clients : WF_vars(InServer /\ Finish(c))

(* The four programs keep their types.                                     *)
ProgramsTypeOK == ServerTypeOK /\ TagTypeOK /\ ThreadTypeOK /\ StateTypeOK

=============================================================================
