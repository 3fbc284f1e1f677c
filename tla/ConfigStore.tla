----------------------------- MODULE ConfigStore ----------------------------
(***************************************************************************)
(* The configuration store of the detector's control system                *)
(* (configuration/configuration.c).                                        *)
(*                                                                         *)
(* The store has two copies.  read_configuration_file fills i_config in    *)
(* RAM, which every getter reads; the functions that save or update a      *)
(* configuration parse the file into a tree of their own, change that and  *)
(* write all of it back, and leave i_config alone.  Only                   *)
(* set_calibration_flag changes both, one after the other.                 *)
(*                                                                         *)
(* A write truncates the file first: a crash before it is complete leaves  *)
(* a file nobody can parse, until somebody puts a copy in its place that   *)
(* copy_configuration_file made.  The settings of a configuration are one  *)
(* value; libconfig and the file system are external.                      *)
(*                                                                         *)
(* A configuration number is a signed int.  The file takes more of them    *)
(* than i_config has slots for: of a number without a slot only the fact   *)
(* that i_config was written outside of its array is kept, not what memory *)
(* that was.                                                               *)
(***************************************************************************)
EXTENDS Integers, FiniteSets

CONSTANTS
  Limit,     \* MAX_NO_OF_CONFIGS
  Below,     \* bound: how far below zero the numbers of the callers go
  Settings,  \* what a configuration holds besides its calibration flags
  Zero,      \* the settings memset leaves
  Flags,     \* the calibration flags
  Torn,      \* a file, or a copy, that cannot be parsed
  None,      \* nothing
  MaxWrites, \* bound: calls that write the file
  MaxCrashes \* bound: crashes

ASSUME StoreAssumption ==
  /\ Limit \in Nat \ {0} /\ Below \in Nat /\ Zero \notin Settings
  /\ MaxWrites \in Nat /\ MaxCrashes \in Nat

Slots   == 0 .. Limit - 1       \* i_config.configurations
Given   == -Below .. Limit + 1  \* numbers the functions are called with
Numbers == -Below .. Limit      \* those save_configuration lets pass: it checks
                                \* the upper bound alone, and lets Limit pass

(* The groups a hand-written configuration may lack: hvps, regs and misc   *)
(* together; calibration.                                                  *)
Groups == {"settings", "calibration"}

(* A configuration in the file; calib has the flags that are there.        *)
FileConf == [data : Settings, groups : SUBSET Groups,
             calib : UNION {[S -> BOOLEAN] : S \in SUBSET Flags}]
RamConf  == [data : Settings \cup {Zero}, calib : [Flags -> BOOLEAN]]

VARIABLES
  file,     \* the configuration file: max, default, confs; or Torn
  pending,  \* what is being written to it, or None
  backup,   \* the newest copy of the file: its contents, Torn or None
  ram,      \* i_config: max, default, confs
  up,       \* the control system runs
  dirty,    \* numbers whose file entry was written since the last read
  asked,    \* what set_calibration_flag was last told since the last read
  lowered,  \* somebody saved a number below the highest one
  strayed,  \* somebody saved a number that has no slot
  spilled,  \* such numbers through which memory was written since the start
  writes, crashes  \* bounds

storeVars == <<file, pending, backup, ram, up, dirty, asked, lowered, strayed,
               spilled, writes, crashes>>

NoConf  == [data |-> Zero, calib |-> [f \in Flags |-> FALSE]]
Cleared == [max |-> 0, default |-> 0, confs |-> [n \in Slots |-> NoConf]]
NothingAsked == [k \in {} |-> "on"]

(* The function g with v at k, where g may have had nothing.               *)
With(g, k, v) == [m \in DOMAIN g \cup {k} |-> IF m = k THEN v ELSE g[m]]

Busy     == pending # None
Readable == file # Torn          \* fopen and config_read succeed
Known(n) == Readable /\ n \in DOMAIN file.confs

-----------------------------------------------------------------------------
(* read_configuration_file.                                                *)

(* The entry of configuration n as it is read: groups and flags that are   *)
(* missing stay cleared, as does a configuration that is.                  *)
Entry(n) ==
  IF ~Known(n) THEN NoConf
  ELSE LET c == file.confs[n] IN
    [data  |-> IF "settings" \in c.groups THEN c.data ELSE Zero,
     calib |-> [f \in Flags |-> "calibration" \in c.groups
                                  /\ f \in DOMAIN c.calib /\ c.calib[f]]]

(* The loop stops at the count in the file.                                *)
Loaded(n) == IF n < file.max THEN Entry(n) ELSE NoConf

(* It does not stop at the end of the array.                               *)
Beyond == {n \in Numbers : n >= Limit /\ n < file.max /\ Known(n)}

(* Mutant: memset is left out.                                             *)
ReadOver ==
  /\ IF Readable
       THEN /\ ram' = [max |-> file.max, default |-> file.default,
                       confs |-> [n \in Slots |->
                         IF Known(n) /\ n < file.max THEN Loaded(n)
                         ELSE ram.confs[n]]]
            /\ dirty' = {} /\ asked' = NothingAsked
            /\ spilled' = spilled \cup Beyond
       ELSE UNCHANGED <<ram, dirty, asked, spilled>>
  /\ UNCHANGED <<file, pending, backup, lowered, strayed, writes, crashes>>

ReadFile ==
  /\ IF Readable
       THEN /\ ram' = [max |-> file.max, default |-> file.default,
                       confs |-> [n \in Slots |-> Loaded(n)]]
            /\ dirty' = {} /\ asked' = NothingAsked
            /\ spilled' = spilled \cup Beyond
       ELSE UNCHANGED <<ram, dirty, asked, spilled>>
  /\ UNCHANGED <<file, pending, backup, lowered, strayed, writes, crashes>>

Read == up /\ ~Busy /\ ReadFile /\ UNCHANGED up

-----------------------------------------------------------------------------
(* Writing the file.                                                       *)

(* config_write_file truncates the file and writes all of contents, or     *)
(* cannot open it and changes nothing.                                     *)
WriteFile(contents) ==
  /\ writes < MaxWrites /\ writes' = writes + 1
  /\ \/ file' = Torn /\ pending' = contents
     \/ UNCHANGED <<file, pending>>
  /\ UNCHANGED <<backup, up, crashes>>

(* A full disk goes unnoticed: config_write_file checks the open alone.    *)
WriteEnds ==
  /\ Busy
  /\ file' \in {pending, Torn} /\ pending' = None
  /\ UNCHANGED <<backup, ram, up, dirty, asked, lowered, strayed, spilled, writes,
                 crashes>>

Calling == up /\ ~Busy /\ Readable

(* save_default_configuration_number, which checks nothing.                *)
SaveDefault(n) ==
  /\ Calling
  /\ WriteFile([file EXCEPT !.default = n])
  /\ UNCHANGED <<ram, dirty, asked, lowered, strayed, spilled>>

(* update_configuration: the settings, not the calibration flags.  It      *)
(* fails before the write when a group is missing.                         *)
Update(n, d) ==
  /\ Calling /\ Known(n) /\ "settings" \in file.confs[n].groups
  /\ WriteFile([file EXCEPT !.confs[n].data = d])
  /\ dirty' = dirty \cup {n}
  /\ UNCHANGED <<ram, asked, lowered, strayed, spilled>>

New(d) == [data |-> d, groups |-> Groups, calib |-> [f \in Flags |-> FALSE]]

(* Mutant: an off-by-one, the file's count is the new number itself.       *)
SaveShort(n, d) ==
  /\ Calling /\ n <= Limit /\ ~Known(n)
  /\ WriteFile([file EXCEPT !.max = n,
                            !.confs = With(@, n, New(d))])
  /\ dirty' = dirty \cup {n}
  /\ lowered' = (lowered \/ n + 1 < file.max)
  /\ strayed' = (strayed \/ n \notin Slots)
  /\ UNCHANGED <<ram, asked, spilled>>

(* Mutant: the range is not checked.                                       *)
SaveAnywhere(n, d) ==
  /\ Calling /\ ~Known(n)
  /\ WriteFile([file EXCEPT !.max = n + 1,
                            !.confs = With(@, n, New(d))])
  /\ dirty' = dirty \cup {n}
  /\ lowered' = (lowered \/ n + 1 < file.max)
  /\ strayed' = (strayed \/ n \notin Slots)
  /\ UNCHANGED <<ram, asked, spilled>>

(* save_configuration: config_setting_add refuses a number that exists.    *)
Save(n, d) ==
  /\ Calling /\ n <= Limit /\ ~Known(n)
  /\ WriteFile([file EXCEPT !.max = n + 1,
                            !.confs = With(@, n, New(d))])
  /\ dirty' = dirty \cup {n}
  /\ lowered' = (lowered \/ n + 1 < file.max)
  /\ strayed' = (strayed \/ n \notin Slots)
  /\ UNCHANGED <<ram, asked, spilled>>

-----------------------------------------------------------------------------
(* set_calibration_flag(file, n, f, c): i_config first, whose flag becomes *)
(* the number of the flag, which is not zero, whatever c is; then the file.*)

(* Mutant: only the file is changed.                                       *)
FlagSetNot(n, f) == UNCHANGED <<ram, spilled>>

FlagSet(n, f) ==
  IF n \in Slots
    THEN /\ ram' = [ram EXCEPT !.confs[n].calib[f] = TRUE]
         /\ UNCHANGED spilled
    ELSE /\ spilled' = spilled \cup {n}
         /\ UNCHANGED ram

Answered(n, f, how) == asked' = With(asked, <<n, f>>, how)

(* Mutant: i_config is changed before the configuration is looked up.      *)
SetFlagUnseen(n, f) ==
  /\ Calling
  /\ writes < MaxWrites /\ writes' = writes + 1
  /\ FlagSet(n, f) /\ Answered(n, f, "failed")
  /\ UNCHANGED <<file, pending, backup, up, dirty, lowered, strayed, crashes>>

(* The call fails after i_config was changed: the flag is not in the file, *)
(* or the file cannot be written.                                          *)
SetFlagFails(n, f) ==
  /\ Calling /\ Known(n) /\ "calibration" \in file.confs[n].groups
  /\ writes < MaxWrites /\ writes' = writes + 1
  /\ FlagSet(n, f) /\ Answered(n, f, "failed")
  /\ UNCHANGED <<file, pending, backup, up, dirty, lowered, strayed, crashes>>

SetFlag(n, f, c) ==
  /\ Calling /\ Known(n) /\ "calibration" \in file.confs[n].groups
  /\ f \in DOMAIN file.confs[n].calib
  /\ writes < MaxWrites /\ writes' = writes + 1
  /\ file' = Torn
  /\ pending' = [file EXCEPT !.confs[n].calib[f] = c]
  /\ FlagSet(n, f) /\ Answered(n, f, IF c THEN "on" ELSE "off")
  /\ UNCHANGED <<backup, up, dirty, lowered, strayed, crashes>>

-----------------------------------------------------------------------------
(* copy_configuration_file opens the copy before it parses the file, and   *)
(* leaves it empty when it cannot.                                         *)
Copy ==
  /\ up /\ ~Busy
  /\ backup' = file
  /\ UNCHANGED <<file, pending, ram, up, dirty, asked, lowered, strayed, spilled,
                 writes, crashes>>

(* The control system crashes, also in the middle of a write, ...          *)
Crash ==
  /\ up /\ crashes < MaxCrashes /\ crashes' = crashes + 1
  /\ up' = FALSE /\ pending' = None
  /\ ram' = Cleared /\ dirty' = {} /\ asked' = NothingAsked /\ spilled' = {}
  /\ UNCHANGED <<file, backup, lowered, strayed, writes>>

(* ... somebody puts the copy in the file's place, ...                     *)
Restore ==
  /\ ~up /\ backup # None /\ file # backup
  /\ file' = backup
  /\ UNCHANGED <<pending, backup, ram, up, dirty, asked, lowered, strayed, spilled,
                 writes, crashes>>

(* ... also while the control system runs, ...                             *)
Replace ==
  /\ up /\ ~Busy /\ backup \notin {None, Torn} /\ file # backup
  /\ file' = backup /\ dirty' = Numbers
  /\ UNCHANGED <<pending, backup, ram, up, asked, lowered, strayed, spilled, writes,
                 crashes>>

(* ... and it starts again, which reads the file.                          *)
Restart == ~up /\ up' = TRUE /\ ReadFile

StoreNext ==
  \/ Read \/ WriteEnds \/ Copy \/ Crash \/ Restore \/ Replace \/ Restart
  \/ \E n \in Given : SaveDefault(n)
  \/ \E n \in Given, d \in Settings : Update(n, d) \/ Save(n, d)
  \/ \E n \in Given, f \in Flags :
       SetFlagFails(n, f) \/ \E c \in BOOLEAN : SetFlag(n, f, c)

(* A file somebody wrote by hand: configurations 0 .. max - 1, the last of *)
(* which may be incomplete.                                                *)
StoreInit ==
  /\ \E max \in 0 .. 1, d \in Settings, g \in SUBSET Groups, S \in SUBSET Flags :
       file = [max |-> max, default |-> 0,
               confs |-> [n \in 0 .. max - 1 |->
                 [data |-> d, groups |-> g, calib |-> [f \in S |-> TRUE]]]]
  /\ pending = None /\ backup = None /\ ram = Cleared /\ up = FALSE
  /\ dirty = {} /\ asked = NothingAsked /\ lowered = FALSE
  /\ strayed = FALSE /\ spilled = {}
  /\ writes = 0 /\ crashes = 0

StoreSpec == StoreInit /\ [][StoreNext]_storeVars

-----------------------------------------------------------------------------
(* Properties.                                                             *)

IsContents(c) ==
  /\ c.max \in Given /\ c.default \in Given
  /\ DOMAIN c.confs \subseteq Numbers
  /\ \A n \in DOMAIN c.confs : c.confs[n] \in FileConf

StoreTypeOK ==
  /\ file # Torn => IsContents(file)
  /\ pending # None => IsContents(pending)
  /\ backup \notin {Torn, None} => IsContents(backup)
  /\ ram \in [max : Given, default : Given, confs : [Slots -> RamConf]]
  /\ up \in BOOLEAN /\ lowered \in BOOLEAN /\ strayed \in BOOLEAN
  /\ dirty \subseteq Numbers /\ spilled \subseteq Numbers \ Slots
  /\ DOMAIN asked \subseteq Numbers \X Flags
  /\ writes \in 0 .. MaxWrites /\ crashes \in 0 .. MaxCrashes

(* The two copies of a configuration differ only where this program made   *)
(* them differ since it read the file: settings that were saved or         *)
(* updated, and flags set_calibration_flag was called for.  Nothing of an  *)
(* earlier file survives a read (the memset in read_configuration_file).   *)
CopiesAgree ==
  up /\ Readable => \A n \in Slots \ dirty :
    /\ n < ram.max => ram.confs[n].data = Entry(n).data
    /\ \A f \in Flags : <<n, f>> \notin DOMAIN asked =>
         (ram.confs[n].calib[f] => Entry(n).calib[f])
    /\ ~Known(n) => ram.confs[n].data = Zero

(* Calibration data that are valid in the file are valid in RAM, which is  *)
(* what get_calibration_flag reads: no sequence of calls and crashes makes *)
(* the control system forget a calibration it still has on disk.           *)
ValidStaysValid ==
  up /\ Readable => \A n \in Slots \ dirty, f \in Flags :
    n < ram.max /\ Entry(n).calib[f] => ram.confs[n].calib[f]

(* The count in the file is above the number of every configuration in it, *)
(* so that the next read_configuration_file stops behind them, as long as  *)
(* nobody saves a number below the highest one: save_configuration sets the*)
(* count to the new number plus one, whether that is more or less than it  *)
(* was.                                                                    *)
NothingForgotten ==
  up /\ Readable /\ ~lowered => \A n \in DOMAIN file.confs : n < file.max

(* Memory outside of the array is written only after somebody saved a      *)
(* number that has no slot: of itself no order of reads, flags, copies put *)
(* back and crashes makes read_configuration_file or set_calibration_flag  *)
(* leave the array, for both look the number up in the file first.         *)
SpillsOnlyStrays == spilled # {} => strayed

(* "Finally, we ready increment max_config_no" (configuration.c:1168): no  *)
(* write makes the count smaller.                                          *)
CountGrows ==
  [][pending = None /\ pending' # None => pending'.max >= file.max]_storeVars

(* What set_calibration_flag was told is what get_calibration_flag         *)
(* answers ("Get value on flag, reading from RAM", configuration.c:1397;   *)
(* INVALIDATE, configuration.h:66).                                        *)
FlagReadsBack ==
  up /\ ~Busy => \A k \in {j \in DOMAIN asked : j[1] \in Slots} :
    /\ asked[k] = "on" => ram.confs[k[1]].calib[k[2]]
    /\ asked[k] = "off" => ~ram.confs[k[1]].calib[k[2]]

=============================================================================
