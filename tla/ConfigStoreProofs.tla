------------------------- MODULE ConfigStoreProofs -------------------------
(***************************************************************************)
(* Proofs about ConfigStore, for any limit, settings and flags and for any *)
(* number of writes and crashes: where i_config and the file may differ,   *)
(* that a valid calibration stays valid in RAM, that the count in the file *)
(* covers what is in it, and when i_config is written outside its array.   *)
(***************************************************************************)
EXTENDS ConfigStore, TLAPS

(* The contents of a file as one record, so that its parts can be changed. *)
Contents == [max : Given, default : Given,
             confs : UNION {[S -> FileConf] : S \in SUBSET Numbers}]

StoreTypes ==
  /\ file \in Contents \cup {Torn} /\ pending \in Contents \cup {None}
  /\ backup \in Contents \cup {Torn, None}
  /\ ram \in [max : Given, default : Given, confs : [Slots -> RamConf]]
  /\ up \in BOOLEAN /\ lowered \in BOOLEAN /\ strayed \in BOOLEAN
  /\ dirty \subseteq Numbers /\ spilled \subseteq Numbers \ Slots
  /\ DOMAIN asked \subseteq Numbers \X Flags
  /\ writes \in 0 .. MaxWrites /\ crashes \in 0 .. MaxCrashes

(* Nothing is being written while the control system is down.              *)
NoWriteWhenDown == ~up => ~Busy

(* What read_configuration_file would make of configuration n in c.        *)
EntryIn(c, n) ==
  IF n \notin DOMAIN c.confs THEN NoConf
  ELSE [data  |-> IF "settings" \in c.confs[n].groups THEN c.confs[n].data ELSE Zero,
        calib |-> [f \in Flags |-> "calibration" \in c.confs[n].groups
                     /\ f \in DOMAIN c.confs[n].calib /\ c.confs[n].calib[f]]]

(* What CopiesAgree and ValidStaysValid say of file and ram, said of any   *)
(* contents c and any i_config r, changed apart from c where told.         *)
AgreesWith(c, r, changed, told) ==
  \A n \in Slots \ changed :
    /\ n < r.max => r.confs[n].data = EntryIn(c, n).data
    /\ \A f \in Flags :
         /\ <<n, f>> \notin DOMAIN told =>
              (r.confs[n].calib[f] => EntryIn(c, n).calib[f])
         /\ n < r.max /\ EntryIn(c, n).calib[f] => r.confs[n].calib[f]
    /\ n \notin DOMAIN c.confs => r.confs[n].data = Zero

Agrees(c) == AgreesWith(c, ram, dirty, asked)

(* The file that a call is writing agrees before it is there.              *)
CopiesInv == up => (Readable => Agrees(file)) /\ (Busy => Agrees(pending))

(* Every file, also the copy and the one being written, is counted right.  *)
Counted(c) == \A n \in DOMAIN c.confs : n < c.max
CountInv ==
  ~lowered => /\ Readable => Counted(file)
              /\ Busy => Counted(pending)
              /\ backup \notin {Torn, None} => Counted(backup)

(* A number without a slot is in no file before it was saved.              *)
Housed(c) == DOMAIN c.confs \subseteq Slots
SpillInv ==
  ~strayed => /\ spilled = {}
              /\ Readable => Housed(file)
              /\ Busy => Housed(pending)
              /\ backup \notin {Torn, None} => Housed(backup)

-----------------------------------------------------------------------------
(* Types.                                                                  *)

Groupings == UNION {[S -> BOOLEAN] : S \in SUBSET Flags}

(* An entry put into the file, new or in another's place.                  *)
LEMMA EntryAdded ==
  ASSUME NEW c \in Contents, NEW n \in Numbers, NEW e \in FileConf
  PROVE  /\ With(c.confs, n, e) \in UNION {[S -> FileConf] : S \in SUBSET Numbers}
         /\ DOMAIN With(c.confs, n, e) = DOMAIN c.confs \cup {n}
         /\ \A m \in DOMAIN c.confs : m # n => With(c.confs, n, e)[m] = c.confs[m]
<1>1. PICK S \in SUBSET Numbers : c.confs \in [S -> FileConf]
  BY DEF Contents
<1>2. With(c.confs, n, e) \in [S \cup {n} -> FileConf]
  BY <1>1 DEF With
<1> QED BY <1>1, <1>2 DEF With

LEMMA EntryIsThere ==
  ASSUME NEW c \in Contents, NEW n \in DOMAIN c.confs
  PROVE  n \in Numbers /\ c.confs[n] \in FileConf
BY DEF Contents

LEMMA EntryReplaced ==
  ASSUME NEW c \in Contents, NEW n \in DOMAIN c.confs, NEW e \in FileConf
  PROVE  [c EXCEPT !.confs = [c.confs EXCEPT ![n] = e]] \in Contents
<1>1. PICK S \in SUBSET Numbers : c.confs \in [S -> FileConf]
  BY DEF Contents
<1>2. [c.confs EXCEPT ![n] = e] \in [S -> FileConf]
  BY <1>1
<1> QED BY <1>2 DEF Contents

LEMMA NewIsEntry == ASSUME NEW d \in Settings PROVE New(d) \in FileConf
<1>1. [f \in Flags |-> FALSE] \in Groupings
  BY DEF Groupings
<1> QED BY <1>1 DEF New, FileConf, Groups, Groupings

LEMMA ReadsRamConf ==
  ASSUME NEW n, file \in Contents \cup {Torn}
  PROVE  Entry(n) \in RamConf /\ Loaded(n) \in RamConf
<1>1. NoConf \in RamConf
  BY DEF NoConf, RamConf
<1>2. ASSUME Known(n) PROVE Entry(n) \in RamConf
  <2>1. file.confs[n] \in FileConf
    BY <1>2, EntryIsThere DEF Known, Readable
  <2> DEFINE c == file.confs[n]
             data == IF "settings" \in c.groups THEN c.data ELSE Zero
             calib == [f \in Flags |-> "calibration" \in c.groups
                                          /\ f \in DOMAIN c.calib /\ c.calib[f]]
  <2>2. data \in Settings \cup {Zero}
    BY <2>1 DEF FileConf
  <2>3. calib \in [Flags -> BOOLEAN]
    <3>1. c.calib \in Groupings
      BY <2>1 DEF FileConf, Groupings
    <3>2. \A f \in Flags : ("calibration" \in c.groups /\ f \in DOMAIN c.calib /\ c.calib[f])
                             \in BOOLEAN
      BY <3>1, Zenon DEF Groupings
    <3> QED BY <3>2
  <2>4. Entry(n) = [data |-> data, calib |-> calib]
    BY <1>2 DEF Entry
  <2> QED BY <2>2, <2>3, <2>4 DEF RamConf
<1>3. ASSUME ~Known(n) PROVE Entry(n) \in RamConf
  BY <1>1, <1>3 DEF Entry
<1>4. Entry(n) \in RamConf
  BY <1>2, <1>3
<1> QED BY <1>1, <1>4 DEF Loaded

(* What the calls write is a configuration file again.                     *)
LEMMA UpdateWritesContents ==
  ASSUME NEW c \in Contents, NEW n \in DOMAIN c.confs, NEW d \in Settings
  PROVE  [c EXCEPT !.confs[n].data = d] \in Contents
<1> DEFINE e == [c.confs[n] EXCEPT !.data = d]
<1>1. e \in FileConf
  BY EntryIsThere DEF FileConf
<1>2. [c EXCEPT !.confs[n].data = d] = [c EXCEPT !.confs = [c.confs EXCEPT ![n] = e]]
  BY DEF Contents
<1> QED BY <1>1, <1>2, EntryReplaced

LEMMA SaveWritesContents ==
  ASSUME NEW c \in Contents, NEW n \in Numbers, NEW d \in Settings
  PROVE  [c EXCEPT !.max = n + 1, !.confs = With(@, n, New(d))] \in Contents
<1>1. With(c.confs, n, New(d)) \in UNION {[S -> FileConf] : S \in SUBSET Numbers}
  BY EntryAdded, NewIsEntry
<1>2. n + 1 \in Given
  BY StoreAssumption DEF Numbers, Given
<1> QED BY <1>1, <1>2 DEF Contents

LEMMA SetFlagWritesContents ==
  ASSUME NEW c \in Contents, NEW n \in DOMAIN c.confs, NEW f \in Flags, NEW b \in BOOLEAN
  PROVE  [c EXCEPT !.confs[n].calib[f] = b] \in Contents
<1> DEFINE new == [c.confs[n].calib EXCEPT ![f] = b]
           e == [c.confs[n] EXCEPT !.calib = new]
<1>1. c.confs[n] \in FileConf
  BY EntryIsThere
<1>2. new \in Groupings
  <2>1. PICK S \in SUBSET Flags : c.confs[n].calib \in [S -> BOOLEAN]
    BY <1>1 DEF FileConf
  <2>2. new \in [S -> BOOLEAN]
    BY <2>1, Zenon
  <2> QED BY <2>2 DEF Groupings
<1>3. e \in FileConf
  BY <1>1, <1>2 DEF FileConf, Groupings
<1>4. [c EXCEPT !.confs[n].calib[f] = b] = [c EXCEPT !.confs = [c.confs EXCEPT ![n] = e]]
  BY DEF Contents
<1> QED BY <1>3, <1>4, EntryReplaced

LEMMA FlagSetType ==
  ASSUME StoreTypes, NEW n \in Numbers, NEW f \in Flags, FlagSet(n, f)
  PROVE  /\ ram' \in [max : Given, default : Given, confs : [Slots -> RamConf]]
         /\ spilled' \subseteq Numbers \ Slots
<1>5. CASE n \notin Slots
  BY <1>5 DEF FlagSet, StoreTypes
<1> SUFFICES ASSUME n \in Slots
             PROVE  ram' \in [max : Given, default : Given, confs : [Slots -> RamConf]]
                    /\ spilled' \subseteq Numbers \ Slots
  BY <1>5
<1> DEFINE old == ram.confs[n]
           new == [old.calib EXCEPT ![f] = TRUE]
           e == [old EXCEPT !.calib = new]
<1>1. old \in RamConf
  BY DEF StoreTypes
<1>2. new \in [Flags -> BOOLEAN]
  <2>1. old.calib \in [Flags -> BOOLEAN]
    BY <1>1 DEF RamConf
  <2> QED BY <2>1, Zenon
<1>3. e \in RamConf
  BY <1>1, <1>2 DEF RamConf
<1>4. ram' = [ram EXCEPT !.confs = [ram.confs EXCEPT ![n] = e]]
  BY DEF FlagSet, StoreTypes
<1>6. spilled' = spilled
  BY DEF FlagSet
<1> QED BY <1>3, <1>4, <1>6 DEF StoreTypes

StoreInv == StoreTypes /\ NoWriteWhenDown /\ CopiesInv /\ CountInv /\ SpillInv

LEMMA StoreInitially == StoreInit => StoreInv
<1> SUFFICES ASSUME StoreInit PROVE StoreInv
  OBVIOUS
<1>1. PICK max \in 0 .. 1, d \in Settings, g \in SUBSET Groups, S \in SUBSET Flags :
        file = [max |-> max, default |-> 0,
                confs |-> [n \in 0 .. max - 1 |->
                  [data |-> d, groups |-> g, calib |-> [f \in S |-> TRUE]]]]
  BY DEF StoreInit
<1> DEFINE e == [data |-> d, groups |-> g, calib |-> [f \in S |-> TRUE]]
<1>2. e \in FileConf
  <2>1. [f \in S |-> TRUE] \in [S -> BOOLEAN]
    OBVIOUS
  <2> QED BY <2>1 DEF FileConf
<1>3. /\ 0 .. max - 1 \in SUBSET Numbers /\ 0 .. max - 1 \subseteq Slots
      /\ max \in Given /\ 0 \in Given
  BY StoreAssumption DEF Numbers, Slots, Given
<1>4. file \in Contents
  <2> HIDE DEF e
  <2>1. file = [max |-> max, default |-> 0, confs |-> [n \in 0 .. max - 1 |-> e]]
    BY <1>1 DEF e
  <2> QED BY <1>2, <1>3, <2>1 DEF Contents
<1>5. up \in BOOLEAN /\ lowered \in BOOLEAN /\ strayed \in BOOLEAN /\ ~up
  BY Zenon DEF StoreInit
<1>6. ram \in [max : Given, default : Given, confs : [Slots -> RamConf]]
  <2>1. NoConf \in RamConf
    BY DEF NoConf, RamConf
  <2> QED BY <1>3, <2>1, StoreAssumption DEF StoreInit, Cleared
<1>7. StoreTypes
  BY <1>4, <1>5, <1>6, StoreAssumption DEF StoreInit, StoreTypes, NothingAsked
<1>8. Counted(file)
  BY <1>1, <1>3 DEF Counted
<1>9. Housed(file)
  BY <1>1, <1>3 DEF Housed
<1>10. NoWriteWhenDown /\ CopiesInv /\ CountInv
  BY <1>5, <1>8 DEF StoreInit, NoWriteWhenDown, Busy, CopiesInv, CountInv
<1>11. SpillInv
  BY <1>9 DEF StoreInit, Busy, SpillInv
<1> QED BY <1>7, <1>10, <1>11 DEF StoreInv

LEMMA ReadFileTypes ==
  ASSUME StoreTypes, ReadFile
  PROVE  /\ ram' \in [max : Given, default : Given, confs : [Slots -> RamConf]]
         /\ dirty' \subseteq Numbers /\ DOMAIN asked' \subseteq Numbers \X Flags
         /\ spilled' \subseteq Numbers \ Slots
<1>1. CASE Readable
  <2>1. file \in Contents
    BY <1>1 DEF StoreTypes, Readable
  <2>2. [n \in Slots |-> Loaded(n)] \in [Slots -> RamConf]
    BY ReadsRamConf DEF StoreTypes
  <2>3. file.max \in Given /\ file.default \in Given
    BY <2>1 DEF Contents
  <2>4. Beyond \subseteq Numbers \ Slots
    BY StoreAssumption DEF Beyond, Numbers, Slots
  <2>5. spilled' \subseteq Numbers \ Slots
    BY <1>1, <2>4 DEF ReadFile, StoreTypes
  <2> QED BY <1>1, <2>2, <2>3, <2>5 DEF ReadFile, NothingAsked
<1>2. CASE ~Readable
  BY <1>2 DEF ReadFile, StoreTypes
<1> QED BY <1>1, <1>2

LEMMA StoreTypesStay ==
  ASSUME StoreTypes, [StoreNext]_storeVars
  PROVE  StoreTypes'
<1> USE StoreAssumption
<1>1. ASSUME Read PROVE StoreTypes'
  BY <1>1, ReadFileTypes DEF Read, ReadFile, StoreTypes
<1>2. ASSUME WriteEnds PROVE StoreTypes'
  BY <1>2 DEF WriteEnds, Busy, StoreTypes
<1>3. ASSUME Copy PROVE StoreTypes'
  BY <1>3 DEF Copy, StoreTypes
<1>4. ASSUME Crash PROVE StoreTypes'
  <2>1. up' \in BOOLEAN
    BY <1>4, Zenon DEF Crash
  <2>2. NoConf \in RamConf
    BY DEF NoConf, RamConf
  <2>3. ram' \in [max : Given, default : Given, confs : [Slots -> RamConf]]
    BY <1>4, <2>2 DEF Crash, Cleared, Given
  <2> QED BY <1>4, <2>1, <2>3 DEF Crash, StoreTypes, NothingAsked
<1>5. ASSUME Restore \/ Replace PROVE StoreTypes'
  BY <1>5 DEF Restore, Replace, StoreTypes
<1>6. ASSUME Restart PROVE StoreTypes'
  <2>1. up' \in BOOLEAN
    BY <1>6, Zenon DEF Restart
  <2> QED BY <1>6, <2>1, ReadFileTypes DEF Restart, ReadFile, StoreTypes
<1>7. ASSUME Calling, NEW c \in Contents, WriteFile(c)
      PROVE  /\ file' \in Contents \cup {Torn} /\ pending' \in Contents \cup {None}
             /\ backup' \in Contents \cup {Torn, None} /\ up' \in BOOLEAN
             /\ writes' \in 0 .. MaxWrites /\ crashes' \in 0 .. MaxCrashes
  BY <1>7 DEF WriteFile, StoreTypes
<1>8. ASSUME Calling PROVE file \in Contents
  BY <1>8 DEF Calling, Readable, StoreTypes
<1>9. ASSUME NEW n \in Given, SaveDefault(n) PROVE StoreTypes'
  <2>1. [file EXCEPT !.default = n] \in Contents
    BY <1>8, <1>9 DEF SaveDefault, Contents
  <2>2. UNCHANGED <<ram, dirty, asked, lowered, strayed, spilled>>
    BY <1>9 DEF SaveDefault
  <2> QED BY <1>7, <1>9, <2>1, <2>2 DEF SaveDefault, StoreTypes
<1>10. ASSUME NEW n \in Given, NEW d \in Settings, Update(n, d) PROVE StoreTypes'
  <2>1. n \in DOMAIN file.confs /\ n \in Numbers
    BY <1>8, <1>10, EntryIsThere DEF Update, Known
  <2>2. [file EXCEPT !.confs[n].data = d] \in Contents
    BY <1>8, <1>10, <2>1, UpdateWritesContents DEF Update
  <2>3. dirty' \subseteq Numbers /\ UNCHANGED <<ram, asked, lowered, strayed, spilled>>
    BY <1>10, <2>1 DEF Update, StoreTypes
  <2> QED BY <1>7, <1>10, <2>2, <2>3 DEF Update, StoreTypes
<1>11. ASSUME NEW n \in Given, NEW d \in Settings, Save(n, d) PROVE StoreTypes'
  <2>1. n \in Numbers
    BY <1>11 DEF Save, Numbers, Given
  <2>2. [file EXCEPT !.max = n + 1, !.confs = With(@, n, New(d))] \in Contents
    BY <1>8, <1>11, <2>1, SaveWritesContents DEF Save
  <2>3. dirty' \subseteq Numbers /\ UNCHANGED <<ram, asked, spilled>>
    BY <1>11, <2>1 DEF Save, StoreTypes
  <2>4. lowered' \in BOOLEAN /\ strayed' \in BOOLEAN
    BY <1>11, Zenon DEF Save
  <2> QED BY <1>7, <1>11, <2>2, <2>3, <2>4 DEF Save, StoreTypes
<1>12. ASSUME NEW n \in Numbers, NEW f \in Flags, NEW how, Answered(n, f, how)
       PROVE  DOMAIN asked' \subseteq Numbers \X Flags
  BY <1>12 DEF Answered, With, StoreTypes
<1>13. ASSUME NEW n \in Given, NEW f \in Flags, SetFlagFails(n, f) PROVE StoreTypes'
  <2>1. n \in Numbers
    BY <1>8, <1>13, EntryIsThere DEF SetFlagFails, Known
  <2> QED BY <1>12, <1>13, <2>1, FlagSetType DEF SetFlagFails, StoreTypes
<1>14. ASSUME NEW n \in Given, NEW f \in Flags, NEW b \in BOOLEAN, SetFlag(n, f, b)
       PROVE  StoreTypes'
  <2>1. [file EXCEPT !.confs[n].calib[f] = b] \in Contents
    BY <1>8, <1>14, SetFlagWritesContents DEF SetFlag, Known
  <2>3. n \in Numbers
    BY <1>8, <1>14, EntryIsThere DEF SetFlag, Known
  <2>2. /\ file' = Torn /\ pending' = [file EXCEPT !.confs[n].calib[f] = b]
        /\ FlagSet(n, f) /\ Answered(n, f, IF b THEN "on" ELSE "off")
        /\ writes < MaxWrites /\ writes' = writes + 1
        /\ UNCHANGED <<backup, up, dirty, lowered, strayed, crashes>>
    BY <1>14 DEF SetFlag
  <2> QED BY <1>12, <2>1, <2>2, <2>3, FlagSetType DEF StoreTypes
<1>15. CASE UNCHANGED storeVars
  BY <1>15 DEF storeVars, StoreTypes
<1> QED
  BY <1>1, <1>2, <1>3, <1>4, <1>5, <1>6, <1>9, <1>10, <1>11, <1>13, <1>14, <1>15
     DEF StoreNext

-----------------------------------------------------------------------------
(* The two copies.                                                         *)

LEMMA EntryInFile ==
  ASSUME Readable, NEW n
  PROVE  Entry(n) = EntryIn(file, n) /\ (Known(n) <=> n \in DOMAIN file.confs)
BY DEF Entry, EntryIn, Known

(* Changes to the contents where they are allowed to differ.               *)
LEMMA AgreementCarries ==
  ASSUME NEW c, NEW d, NEW r, NEW g, NEW h, NEW told,
         AgreesWith(c, r, g, told), g \subseteq h,
         \A n \in Slots \ h : /\ EntryIn(d, n) = EntryIn(c, n)
                              /\ n \in DOMAIN d.confs <=> n \in DOMAIN c.confs
  PROVE  AgreesWith(d, r, h, told)
BY DEF AgreesWith

(* An i_config that was just read agrees with what it was read from.       *)
LEMMA ReadAgrees ==
  ASSUME StoreTypes, Readable, ReadFile
  PROVE  AgreesWith(file, ram', dirty', asked')
<1>1. file \in Contents
  BY DEF StoreTypes, Readable
<1>2. /\ ram' = [max |-> file.max, default |-> file.default,
                  confs |-> [n \in Slots |-> Loaded(n)]]
      /\ dirty' = {} /\ asked' = NothingAsked
  BY DEF ReadFile
<1>3. ASSUME NEW n \in Slots, n < file.max PROVE ram'.confs[n] = EntryIn(file, n)
  BY <1>2, <1>3, EntryInFile DEF Loaded
<1>4. ASSUME NEW n \in Slots, ~(n < file.max) PROVE ram'.confs[n] = NoConf
  BY <1>2, <1>4 DEF Loaded
<1>5. ASSUME NEW n, n \notin DOMAIN file.confs PROVE EntryIn(file, n) = NoConf
  BY <1>5 DEF EntryIn
<1> SUFFICES ASSUME NEW n \in Slots
             PROVE  /\ n < ram'.max => ram'.confs[n].data = EntryIn(file, n).data
                    /\ \A f \in Flags :
                         /\ ram'.confs[n].calib[f] => EntryIn(file, n).calib[f]
                         /\ n < ram'.max /\ EntryIn(file, n).calib[f] => ram'.confs[n].calib[f]
                    /\ n \notin DOMAIN file.confs => ram'.confs[n].data = Zero
  BY DEF AgreesWith
<1>6. CASE n < file.max
  BY <1>2, <1>3, <1>5, <1>6 DEF NoConf
<1>7. CASE ~(n < file.max)
  BY <1>2, <1>4, <1>7 DEF NoConf
<1> QED BY <1>6, <1>7

(* The other entries do not notice that one was changed.                   *)
LEMMA UpdateKeepsOthers ==
  ASSUME NEW c \in Contents, NEW n \in DOMAIN c.confs, NEW d \in Settings, NEW m, m # n
  PROVE  /\ EntryIn([c EXCEPT !.confs[n].data = d], m) = EntryIn(c, m)
         /\ m \in DOMAIN [c EXCEPT !.confs[n].data = d].confs <=> m \in DOMAIN c.confs
<1> DEFINE e == [c EXCEPT !.confs[n].data = d]
<1>1. DOMAIN e.confs = DOMAIN c.confs /\ (m \in DOMAIN c.confs => e.confs[m] = c.confs[m])
  BY DEF Contents
<1> HIDE DEF e
<1>2. EntryIn(e, m) = EntryIn(c, m)
  BY <1>1 DEF EntryIn
<1> QED BY <1>1, <1>2 DEF e

LEMMA SaveKeepsOthers ==
  ASSUME NEW c \in Contents, NEW n \in Numbers, NEW d \in Settings, NEW m, m # n
  PROVE  LET e == [c EXCEPT !.max = n + 1, !.confs = With(@, n, New(d))]
         IN  EntryIn(e, m) = EntryIn(c, m) /\ (m \in DOMAIN e.confs <=> m \in DOMAIN c.confs)
<1> DEFINE e == [c EXCEPT !.max = n + 1, !.confs = With(@, n, New(d))]
<1>1. e.confs = With(c.confs, n, New(d))
  BY DEF Contents
<1> HIDE DEF e
<1>2. /\ m \in DOMAIN e.confs <=> m \in DOMAIN c.confs
      /\ m \in DOMAIN c.confs => e.confs[m] = c.confs[m]
  <2>1. New(d) \in FileConf
    BY NewIsEntry
  <2>2. DOMAIN With(c.confs, n, New(d)) = DOMAIN c.confs \cup {n}
    BY <2>1, EntryAdded
  <2>3. \A k \in DOMAIN c.confs : k # n => With(c.confs, n, New(d))[k] = c.confs[k]
    BY <2>1, EntryAdded
  <2> QED BY <1>1, <2>2, <2>3
<1>3. EntryIn(e, m) = EntryIn(c, m)
  BY <1>2 DEF EntryIn
<1> QED BY <1>2, <1>3 DEF e

(* A calibration flag of one entry, in the file ...                        *)
LEMMA FlagInFile ==
  ASSUME NEW c \in Contents, NEW n \in DOMAIN c.confs, NEW f \in Flags, NEW b \in BOOLEAN,
         NEW m
  PROVE  LET d == [c EXCEPT !.confs[n].calib[f] = b]
         IN  /\ EntryIn(d, m).data = EntryIn(c, m).data
             /\ m \in DOMAIN d.confs <=> m \in DOMAIN c.confs
             /\ \A h \in Flags : <<m, h>> # <<n, f>> =>
                  (EntryIn(d, m).calib[h] <=> EntryIn(c, m).calib[h])
<1> DEFINE d == [c EXCEPT !.confs[n].calib[f] = b]
           new == [c.confs[n].calib EXCEPT ![f] = b]
<1>1. c.confs[n] \in FileConf
  BY EntryIsThere
<1>2. /\ DOMAIN d.confs = DOMAIN c.confs
      /\ m # n /\ m \in DOMAIN c.confs => d.confs[m] = c.confs[m]
      /\ d.confs[n] = [c.confs[n] EXCEPT !.calib = new]
  BY DEF Contents
<1>3. /\ d.confs[n].data = c.confs[n].data /\ d.confs[n].groups = c.confs[n].groups
      /\ d.confs[n].calib = new
  BY <1>1, <1>2 DEF FileConf
<1>4. DOMAIN new = DOMAIN c.confs[n].calib
      /\ \A h : h # f /\ h \in DOMAIN new => new[h] = c.confs[n].calib[h]
  OBVIOUS
<1> HIDE DEF d, new
<1>5. CASE m # n
  <2>1. EntryIn(d, m) = EntryIn(c, m)
    BY <1>2, <1>5 DEF EntryIn
  <2> QED BY <1>2, <2>1 DEF d
<1>6. CASE m = n
  <2>1. EntryIn(d, m).data = EntryIn(c, m).data
    BY <1>2, <1>3, <1>6 DEF EntryIn
  <2>2. ASSUME NEW h \in Flags, h # f PROVE EntryIn(d, m).calib[h] <=> EntryIn(c, m).calib[h]
    <3>1. EntryIn(d, m).calib[h] <=> /\ "calibration" \in d.confs[n].groups
                                     /\ h \in DOMAIN d.confs[n].calib /\ d.confs[n].calib[h]
      BY <1>2, <1>6 DEF EntryIn
    <3>2. EntryIn(c, m).calib[h] <=> /\ "calibration" \in c.confs[n].groups
                                     /\ h \in DOMAIN c.confs[n].calib /\ c.confs[n].calib[h]
      BY <1>6 DEF EntryIn
    <3>3. h \in DOMAIN new => (new[h] <=> c.confs[n].calib[h])
      BY <1>4, <2>2
    <3>4. /\ "calibration" \in d.confs[n].groups <=> "calibration" \in c.confs[n].groups
          /\ h \in DOMAIN d.confs[n].calib <=> h \in DOMAIN c.confs[n].calib
          /\ h \in DOMAIN d.confs[n].calib => (d.confs[n].calib[h] <=> c.confs[n].calib[h])
      BY <1>3, <1>4, <3>3
    <3> QED BY <3>1, <3>2, <3>4
  <2> QED BY <1>2, <1>6, <2>1, <2>2 DEF d
<1> QED BY <1>5, <1>6

(* ... and in RAM.                                                         *)
RamType == [max : Given, default : Given, confs : [Slots -> RamConf]]

LEMMA FlagInRam ==
  ASSUME NEW r \in RamType, NEW n \in Slots, NEW f \in Flags, NEW m \in Slots
  PROVE  LET q == [r EXCEPT !.confs[n].calib[f] = TRUE]
         IN  /\ q.max = r.max /\ q.confs[m].data = r.confs[m].data
             /\ q.confs[n].calib[f]
             /\ \A h \in Flags : <<m, h>> # <<n, f>> =>
                  (q.confs[m].calib[h] <=> r.confs[m].calib[h])
<1> DEFINE q == [r EXCEPT !.confs[n].calib[f] = TRUE]
           new == [r.confs[n].calib EXCEPT ![f] = TRUE]
<1>1. r.confs[n] \in RamConf
  BY DEF RamType
<1>2. /\ q.max = r.max /\ (m # n => q.confs[m] = r.confs[m])
      /\ q.confs[n] = [r.confs[n] EXCEPT !.calib = new]
  BY DEF RamType
<1>3. q.confs[n].data = r.confs[n].data /\ q.confs[n].calib = new
  BY <1>1, <1>2 DEF RamConf
<1>4. new[f]
  BY <1>1, Zenon DEF RamConf
<1>5. \A h \in Flags : h # f => (new[h] <=> r.confs[n].calib[h])
  BY <1>1 DEF RamConf
<1> HIDE DEF q, new
<1>6. q.confs[n].calib[f]
  BY <1>3, <1>4
<1>7. CASE m # n
  BY <1>2, <1>6, <1>7 DEF q
<1>8. CASE m = n
  <2>1. \A h \in Flags : h # f => (q.confs[m].calib[h] <=> r.confs[m].calib[h])
    BY <1>3, <1>5, <1>8
  <2> QED BY <1>2, <1>3, <1>6, <1>8, <2>1 DEF q
<1> QED BY <1>7, <1>8

(* set_calibration_flag, whether or not it has changed the file too.       *)
LEMMA FlagAgrees ==
  ASSUME NEW c \in Contents, NEW d, NEW r \in RamType, NEW g, NEW told, NEW how,
         NEW n \in DOMAIN c.confs, NEW f \in Flags, NEW b \in BOOLEAN,
         AgreesWith(c, r, g, told), d = c \/ d = [c EXCEPT !.confs[n].calib[f] = b]
  PROVE  AgreesWith(d, IF n \in Slots THEN [r EXCEPT !.confs[n].calib[f] = TRUE] ELSE r,
                    g, With(told, <<n, f>>, how))
<1> DEFINE q == IF n \in Slots THEN [r EXCEPT !.confs[n].calib[f] = TRUE] ELSE r
           now == With(told, <<n, f>>, how)
<1>1. DOMAIN now = DOMAIN told \cup {<<n, f>>}
  BY DEF With
<1>2. ASSUME NEW m \in Slots
      PROVE  /\ EntryIn(d, m).data = EntryIn(c, m).data
             /\ m \in DOMAIN d.confs <=> m \in DOMAIN c.confs
             /\ \A h \in Flags : <<m, h>> # <<n, f>> =>
                  (EntryIn(d, m).calib[h] <=> EntryIn(c, m).calib[h])
  <2>1. CASE d = c
    BY <2>1
  <2>2. CASE d = [c EXCEPT !.confs[n].calib[f] = b]
    <3> DEFINE e == [c EXCEPT !.confs[n].calib[f] = b]
    <3>1. /\ EntryIn(e, m).data = EntryIn(c, m).data
          /\ m \in DOMAIN e.confs <=> m \in DOMAIN c.confs
          /\ \A h \in Flags : <<m, h>> # <<n, f>> =>
               (EntryIn(e, m).calib[h] <=> EntryIn(c, m).calib[h])
      BY FlagInFile
    <3> HIDE DEF e
    <3>2. d = e
      BY <2>2 DEF e
    <3> QED BY <3>1, <3>2
  <2> QED BY <2>1, <2>2
<1>3. ASSUME NEW m \in Slots
      PROVE  /\ q.max = r.max /\ q.confs[m].data = r.confs[m].data
             /\ n = m => q.confs[m].calib[f]
             /\ \A h \in Flags : <<m, h>> # <<n, f>> =>
                  (q.confs[m].calib[h] <=> r.confs[m].calib[h])
  <2>1. CASE n \in Slots
    BY <2>1, FlagInRam
  <2>2. CASE n \notin Slots
    BY <2>2
  <2> QED BY <2>1, <2>2
<1> HIDE DEF q, now
<1> SUFFICES ASSUME NEW m \in Slots \ g
             PROVE  /\ m < q.max => q.confs[m].data = EntryIn(d, m).data
                    /\ \A h \in Flags :
                         /\ <<m, h>> \notin DOMAIN now =>
                              (q.confs[m].calib[h] => EntryIn(d, m).calib[h])
                         /\ m < q.max /\ EntryIn(d, m).calib[h] => q.confs[m].calib[h]
                    /\ m \notin DOMAIN d.confs => q.confs[m].data = Zero
  BY DEF AgreesWith, q, now
<1>4. /\ m < r.max => r.confs[m].data = EntryIn(c, m).data
      /\ \A h \in Flags :
           /\ <<m, h>> \notin DOMAIN told =>
                (r.confs[m].calib[h] => EntryIn(c, m).calib[h])
           /\ m < r.max /\ EntryIn(c, m).calib[h] => r.confs[m].calib[h]
      /\ m \notin DOMAIN c.confs => r.confs[m].data = Zero
  BY DEF AgreesWith
<1>5. (m < q.max => q.confs[m].data = EntryIn(d, m).data)
      /\ (m \notin DOMAIN d.confs => q.confs[m].data = Zero)
  BY <1>2, <1>3, <1>4
<1>6. ASSUME NEW h \in Flags
      PROVE  /\ <<m, h>> \notin DOMAIN now =>
                  (q.confs[m].calib[h] => EntryIn(d, m).calib[h])
             /\ m < q.max /\ EntryIn(d, m).calib[h] => q.confs[m].calib[h]
  <2>1. CASE <<m, h>> = <<n, f>>
    BY <1>1, <1>3, <2>1
  <2>2. CASE <<m, h>> # <<n, f>>
    BY <1>1, <1>2, <1>3, <1>4, <2>2
  <2> QED BY <2>1, <2>2
<1> QED BY <1>5, <1>6

(* A call that writes contents or cannot open the file.                    *)
LEMMA WriteAgrees ==
  ASSUME CopiesInv, Calling, NEW c, WriteFile(c), UNCHANGED <<ram, asked>>,
         dirty \subseteq dirty',
         \A n \in Slots \ dirty' : /\ EntryIn(c, n) = EntryIn(file, n)
                                   /\ n \in DOMAIN c.confs <=> n \in DOMAIN file.confs
  PROVE  CopiesInv'
<1>1. up /\ ~Busy /\ Readable /\ Agrees(file)
  BY DEF Calling, CopiesInv
<1>2. AgreesWith(c, ram, dirty', asked)
  BY <1>1, AgreementCarries DEF Agrees
<1>3. AgreesWith(file, ram, dirty', asked)
  BY <1>1, AgreementCarries DEF Agrees
<1>4. CASE file' = Torn /\ pending' = c
  BY <1>2, <1>4 DEF CopiesInv, Readable, Busy, Agrees
<1>5. CASE UNCHANGED <<file, pending>>
  BY <1>1, <1>3, <1>5 DEF CopiesInv, Readable, Busy, Agrees
<1> QED BY <1>4, <1>5 DEF WriteFile

LEMMA CopiesStay ==
  ASSUME StoreTypes, NoWriteWhenDown, CopiesInv, [StoreNext]_storeVars
  PROVE  NoWriteWhenDown' /\ CopiesInv'
<1> USE StoreAssumption
<1>1. ASSUME ReadFile, up', ~Busy, UNCHANGED <<file, pending>>, Readable PROVE CopiesInv'
  BY <1>1, ReadAgrees DEF CopiesInv, Agrees, Readable, Busy
<1>2. ASSUME Read PROVE CopiesInv'
  <2>1. CASE Readable
    BY <1>1, <1>2, <2>1 DEF Read, ReadFile
  <2>2. CASE ~Readable
    BY <1>2, <2>2 DEF Read, ReadFile, CopiesInv, Readable, Busy
  <2> QED BY <2>1, <2>2
<1>3. ASSUME Restart PROVE CopiesInv'
  <2>1. ~Busy /\ up' /\ ReadFile /\ UNCHANGED <<file, pending>>
    BY <1>3 DEF Restart, ReadFile, NoWriteWhenDown
  <2>2. CASE Readable
    BY <1>1, <2>1, <2>2
  <2>3. CASE ~Readable
    BY <2>1, <2>3 DEF CopiesInv, Readable, Busy
  <2> QED BY <2>2, <2>3
<1>4. ASSUME WriteEnds PROVE CopiesInv'
  BY <1>4 DEF WriteEnds, CopiesInv, Readable, Busy, Agrees
<1>5. ASSUME Copy PROVE CopiesInv'
  BY <1>5 DEF Copy, CopiesInv, Readable, Busy, Agrees
<1>6. ASSUME Crash \/ Restore PROVE CopiesInv'
  BY <1>6 DEF Crash, Restore, CopiesInv
<1>7. ASSUME Replace PROVE CopiesInv'
  <2>1. dirty' = Numbers /\ ~Busy /\ UNCHANGED pending
    BY <1>7 DEF Replace
  <2>2. Agrees(file)'
    <3>1. Slots \ Numbers = {}
      BY DEF Slots, Numbers
    <3> QED BY <2>1, <3>1 DEF Agrees, AgreesWith
  <2> QED BY <2>1, <2>2 DEF CopiesInv, Busy
<1>8. ASSUME Calling PROVE file \in Contents /\ Agrees(file) /\ ~Busy /\ up
  BY <1>8 DEF Calling, Readable, StoreTypes, CopiesInv
<1>9. ASSUME NEW n \in Given, SaveDefault(n) PROVE CopiesInv'
  <2> DEFINE c == [file EXCEPT !.default = n]
  <2>1. c.confs = file.confs
    BY <1>8, <1>9 DEF SaveDefault, Contents
  <2>2. WriteFile(c) /\ UNCHANGED <<ram, dirty, asked>> /\ Calling
    BY <1>9 DEF SaveDefault
  <2> HIDE DEF c
  <2>3. \A m : EntryIn(c, m) = EntryIn(file, m)
    BY <2>1 DEF EntryIn
  <2> QED BY <2>1, <2>2, <2>3, WriteAgrees
<1>10. ASSUME NEW n \in Given, NEW d \in Settings, Update(n, d) PROVE CopiesInv'
  <2> DEFINE c == [file EXCEPT !.confs[n].data = d]
  <2>1. Calling /\ WriteFile(c) /\ dirty' = dirty \cup {n} /\ UNCHANGED <<ram, asked>>
        /\ n \in DOMAIN file.confs
    BY <1>10 DEF Update, Known
  <2>2. \A m \in Slots \ dirty' : /\ EntryIn(c, m) = EntryIn(file, m)
                                  /\ m \in DOMAIN c.confs <=> m \in DOMAIN file.confs
    BY <1>8, <2>1, UpdateKeepsOthers
  <2> HIDE DEF c
  <2> QED BY <2>1, <2>2, WriteAgrees
<1>11. ASSUME NEW n \in Given, NEW d \in Settings, Save(n, d) PROVE CopiesInv'
  <2> DEFINE c == [file EXCEPT !.max = n + 1, !.confs = With(@, n, New(d))]
  <2>1. Calling /\ WriteFile(c) /\ dirty' = dirty \cup {n} /\ UNCHANGED <<ram, asked>>
        /\ n \in Numbers
    BY <1>11 DEF Save, Numbers, Given
  <2>2. \A m \in Slots \ dirty' : /\ EntryIn(c, m) = EntryIn(file, m)
                                  /\ m \in DOMAIN c.confs <=> m \in DOMAIN file.confs
    BY <1>8, <2>1, SaveKeepsOthers
  <2> HIDE DEF c
  <2> QED BY <2>1, <2>2, WriteAgrees
<1>12. ASSUME NEW n \in Given, NEW f \in Flags, SetFlagFails(n, f) PROVE CopiesInv'
  <2>1. /\ Calling /\ n \in DOMAIN file.confs /\ UNCHANGED <<file, pending, up, dirty>>
        /\ ram' = IF n \in Slots THEN [ram EXCEPT !.confs[n].calib[f] = TRUE] ELSE ram
        /\ asked' = With(asked, <<n, f>>, "failed")
    BY <1>12 DEF SetFlagFails, Known, FlagSet, Answered
  <2>2. AgreesWith(file, ram', dirty, asked')
    BY <1>8, <2>1, FlagAgrees DEF Agrees, StoreTypes, RamType
  <2> QED BY <1>8, <2>1, <2>2 DEF CopiesInv, Agrees, Readable, Busy
<1>13. ASSUME NEW n \in Given, NEW f \in Flags, NEW b \in BOOLEAN, SetFlag(n, f, b)
       PROVE  CopiesInv'
  <2>1. /\ Calling /\ n \in DOMAIN file.confs /\ UNCHANGED <<up, dirty>>
        /\ file' = Torn /\ pending' = [file EXCEPT !.confs[n].calib[f] = b]
        /\ ram' = IF n \in Slots THEN [ram EXCEPT !.confs[n].calib[f] = TRUE] ELSE ram
        /\ asked' = With(asked, <<n, f>>, IF b THEN "on" ELSE "off")
    BY <1>13 DEF SetFlag, Known, FlagSet, Answered
  <2>2. AgreesWith(pending', ram', dirty, asked')
    BY <1>8, <2>1, FlagAgrees DEF Agrees, StoreTypes, RamType
  <2> QED BY <2>1, <2>2 DEF CopiesInv, Agrees, Readable
<1>14. ASSUME UNCHANGED storeVars PROVE CopiesInv'
  BY <1>14 DEF storeVars, CopiesInv, Agrees, Readable, Busy
<1>15. CopiesInv'
  BY <1>2, <1>3, <1>4, <1>5, <1>6, <1>7, <1>9, <1>10, <1>11, <1>12, <1>13, <1>14 DEF StoreNext
<1>16. NoWriteWhenDown'
  <2>1. CASE Crash
    BY <2>1 DEF Crash, NoWriteWhenDown, Busy
  <2>2. CASE Restart
    BY <2>2 DEF Restart, NoWriteWhenDown
  <2>3. CASE WriteEnds
    BY <2>3 DEF WriteEnds, NoWriteWhenDown, Busy
  <2>4. CASE Read \/ Copy \/ Restore \/ Replace \/ UNCHANGED storeVars
    BY <2>4 DEF Read, ReadFile, Copy, Restore, Replace, storeVars, NoWriteWhenDown, Busy
  <2>5. ASSUME up, UNCHANGED up PROVE NoWriteWhenDown'
    BY <2>5 DEF NoWriteWhenDown
  <2>6. ASSUME NEW n, SaveDefault(n) PROVE up /\ UNCHANGED up
    BY <2>6 DEF SaveDefault, Calling, WriteFile
  <2>7. ASSUME NEW n, NEW d, Update(n, d) \/ Save(n, d) PROVE up /\ UNCHANGED up
    BY <2>7 DEF Update, Save, Calling, WriteFile
  <2>8. ASSUME NEW n, NEW f, NEW b, SetFlagFails(n, f) \/ SetFlag(n, f, b)
        PROVE  up /\ UNCHANGED up
    BY <2>8 DEF SetFlagFails, SetFlag, Calling
  <2> QED BY <2>1, <2>2, <2>3, <2>4, <2>5, <2>6, <2>7, <2>8 DEF StoreNext
<1> QED BY <1>15, <1>16

-----------------------------------------------------------------------------
(* The count in the file.                                                  *)

LEMMA WriteCounts ==
  ASSUME CountInv, Calling, NEW c, WriteFile(c), ~lowered, ~lowered' => Counted(c)
  PROVE  CountInv'
<1>1. CASE file' = Torn /\ pending' = c
  BY <1>1 DEF CountInv, WriteFile, Readable, Busy, Counted
<1>2. CASE UNCHANGED <<file, pending>>
  BY <1>2 DEF CountInv, WriteFile, Readable, Busy, Counted
<1> QED BY <1>1, <1>2 DEF WriteFile

LEMMA CountStays ==
  ASSUME StoreTypes, CountInv, [StoreNext]_storeVars
  PROVE  CountInv'
<1> USE StoreAssumption
<1>0. CASE lowered
  <2>1. lowered'
    BY <1>0 DEF StoreNext, storeVars, Read, ReadFile, WriteEnds, Copy, Crash, Restore, Replace,
         Restart, SaveDefault, Update, Save, SetFlagFails, SetFlag
  <2> QED BY <2>1 DEF CountInv
<1>1. CASE ~lowered
  <2> USE <1>1
  <2>1. ASSUME Read \/ Restart \/ Crash \/ UNCHANGED storeVars PROVE CountInv'
    BY <2>1 DEF Read, Restart, Crash, ReadFile, storeVars, CountInv, Readable, Busy, Counted
  <2>2. ASSUME WriteEnds PROVE CountInv'
    BY <2>2 DEF WriteEnds, CountInv, Readable, Busy, Counted
  <2>3. ASSUME Copy PROVE CountInv'
    BY <2>3 DEF Copy, CountInv, Readable, Busy, Counted
  <2>4. ASSUME Restore \/ Replace PROVE CountInv'
    BY <2>4 DEF Restore, Replace, CountInv, Readable, Busy, Counted
  <2>5. ASSUME Calling PROVE file \in Contents /\ Counted(file)
    BY <2>5 DEF Calling, Readable, StoreTypes, CountInv
  <2>6. ASSUME NEW n, SaveDefault(n) PROVE CountInv'
    <3>1. Calling /\ WriteFile([file EXCEPT !.default = n])
      BY <2>6 DEF SaveDefault
    <3>2. Counted([file EXCEPT !.default = n])
      BY <2>5, <3>1 DEF Counted, Contents
    <3> QED BY <3>1, <3>2, WriteCounts
  <2>7. ASSUME NEW n, NEW d, Update(n, d) PROVE CountInv'
    <3> DEFINE c == [file EXCEPT !.confs[n].data = d]
    <3>1. Calling /\ WriteFile(c)
      BY <2>7 DEF Update
    <3>2. Counted(c)
      BY <2>5, <3>1 DEF Counted, Contents
    <3> HIDE DEF c
    <3> QED BY <3>1, <3>2, WriteCounts
  <2>8. ASSUME NEW n \in Given, NEW d \in Settings, Save(n, d) PROVE CountInv'
    <3> DEFINE c == [file EXCEPT !.max = n + 1, !.confs = With(@, n, New(d))]
    <3>1. /\ Calling /\ WriteFile(c) /\ n \in Numbers
          /\ lowered' = (lowered \/ n + 1 < file.max)
      BY <2>8 DEF Save, Numbers, Given
    <3>2. file \in Contents /\ Counted(file)
      BY <2>5, <3>1
    <3>3. ASSUME ~lowered' PROVE Counted(c)
      <4>1. file.max <= n + 1
        <5>1. ~(n + 1 < file.max)
          BY <3>1, <3>3, Zenon
        <5>2. file.max \in Int /\ n \in Int
          BY <3>1, <3>2 DEF Contents, Numbers, Given
        <5> QED BY <5>1, <5>2
      <4>2. c.max = n + 1 /\ c.confs = With(file.confs, n, New(d))
        BY <3>2 DEF Contents
      <4>3. DOMAIN c.confs = DOMAIN file.confs \cup {n}
        BY <4>2 DEF With
      <4> HIDE DEF c
      <4>4. ASSUME NEW m \in DOMAIN c.confs PROVE m < n + 1
        <5>1. CASE m = n
          BY <3>1, <5>1 DEF Numbers
        <5>2. CASE m \in DOMAIN file.confs
          <6>1. m < file.max /\ m \in Numbers /\ file.max \in Given
            BY <3>2, <5>2, EntryIsThere DEF Counted, Contents
          <6> QED BY <3>1, <4>1, <6>1 DEF Numbers, Given
        <5> QED BY <4>3, <4>4, <5>1, <5>2
      <4> QED BY <4>2, <4>4 DEF Counted
    <3> HIDE DEF c
    <3> QED BY <3>1, <3>3, WriteCounts
  <2>9. ASSUME NEW n, NEW f, SetFlagFails(n, f) PROVE CountInv'
    BY <2>9 DEF SetFlagFails, CountInv, Readable, Busy, Counted
  <2>10. ASSUME NEW n, NEW f, NEW b, SetFlag(n, f, b) PROVE CountInv'
    <3>1. Calling /\ file' = Torn /\ UNCHANGED <<backup, lowered>>
          /\ pending' = [file EXCEPT !.confs[n].calib[f] = b]
      BY <2>10 DEF SetFlag
    <3>2. Counted(pending')
      BY <2>5, <3>1 DEF Counted, Contents
    <3> QED BY <3>1, <3>2 DEF CountInv, Readable, Counted
  <2> QED BY <2>1, <2>2, <2>3, <2>4, <2>6, <2>7, <2>8, <2>9, <2>10 DEF StoreNext
<1> QED BY <1>0, <1>1

-----------------------------------------------------------------------------
(* Memory outside of the array.                                            *)

LEMMA WriteHoused ==
  ASSUME SpillInv, Calling, NEW c, WriteFile(c), ~strayed, UNCHANGED spilled,
         ~strayed' => Housed(c)
  PROVE  SpillInv'
<1>1. CASE file' = Torn /\ pending' = c
  BY <1>1 DEF SpillInv, WriteFile, Readable, Busy, Housed
<1>2. CASE UNCHANGED <<file, pending>>
  BY <1>2 DEF SpillInv, WriteFile, Readable, Busy, Housed
<1> QED BY <1>1, <1>2 DEF WriteFile

LEMMA SpillStays ==
  ASSUME StoreTypes, SpillInv, [StoreNext]_storeVars
  PROVE  SpillInv'
<1> USE StoreAssumption
<1>0. CASE strayed
  <2>1. strayed'
    BY <1>0 DEF StoreNext, storeVars, Read, ReadFile, WriteEnds, Copy, Crash, Restore, Replace,
         Restart, SaveDefault, Update, Save, SetFlagFails, SetFlag
  <2> QED BY <2>1 DEF SpillInv
<1>1. CASE ~strayed
  <2> USE <1>1
  <2>1. ASSUME Read \/ Restart PROVE SpillInv'
    <3>1. Readable => Beyond = {}
      BY DEF Beyond, Known, Housed, SpillInv, Slots
    <3>2. spilled' = spilled /\ UNCHANGED <<file, pending, backup, strayed>>
      BY <2>1, <3>1 DEF Read, Restart, ReadFile
    <3> QED BY <3>2 DEF SpillInv, Readable, Busy, Housed
  <2>2. ASSUME Crash \/ UNCHANGED storeVars PROVE SpillInv'
    BY <2>2 DEF Crash, storeVars, SpillInv, Readable, Busy, Housed
  <2>3. ASSUME WriteEnds \/ Copy PROVE SpillInv'
    BY <2>3 DEF WriteEnds, Copy, SpillInv, Readable, Busy, Housed
  <2>4. ASSUME Restore \/ Replace PROVE SpillInv'
    BY <2>4 DEF Restore, Replace, SpillInv, Readable, Busy, Housed
  <2>5. ASSUME Calling PROVE file \in Contents /\ Housed(file)
    BY <2>5 DEF Calling, Readable, StoreTypes, SpillInv
  <2>6. ASSUME NEW n, SaveDefault(n) PROVE SpillInv'
    <3>1. Calling /\ WriteFile([file EXCEPT !.default = n]) /\ UNCHANGED <<strayed, spilled>>
      BY <2>6 DEF SaveDefault
    <3>2. Housed([file EXCEPT !.default = n])
      BY <2>5, <3>1 DEF Housed, Contents
    <3> QED BY <3>1, <3>2, WriteHoused
  <2>7. ASSUME NEW n, NEW d, Update(n, d) PROVE SpillInv'
    <3> DEFINE c == [file EXCEPT !.confs[n].data = d]
    <3>1. Calling /\ WriteFile(c) /\ UNCHANGED <<strayed, spilled>>
      BY <2>7 DEF Update
    <3>2. Housed(c)
      BY <2>5, <3>1 DEF Housed, Contents
    <3> HIDE DEF c
    <3> QED BY <3>1, <3>2, WriteHoused
  <2>8. ASSUME NEW n, NEW d, Save(n, d) PROVE SpillInv'
    <3> DEFINE c == [file EXCEPT !.max = n + 1, !.confs = With(@, n, New(d))]
    <3>1. /\ Calling /\ WriteFile(c) /\ UNCHANGED spilled
          /\ strayed' <=> (strayed \/ n \notin Slots)
      BY <2>8 DEF Save
    <3>2. c.confs = With(file.confs, n, New(d)) /\ Housed(file)
      BY <2>5, <3>1 DEF Contents
    <3>3. DOMAIN c.confs = DOMAIN file.confs \cup {n}
      BY <3>2 DEF With
    <3> HIDE DEF c
    <3>4. ~strayed' => Housed(c)
      BY <3>1, <3>2, <3>3 DEF Housed
    <3> QED BY <3>1, <3>4, WriteHoused
  <2>9. ASSUME NEW n, NEW f, Calling, Known(n), FlagSet(n, f) PROVE UNCHANGED spilled
    <3>1. n \in Slots
      BY <2>5, <2>9 DEF Known, Housed
    <3> QED BY <2>9, <3>1 DEF FlagSet
  <2>10. ASSUME NEW n, NEW f, SetFlagFails(n, f) PROVE SpillInv'
    <3>1. UNCHANGED <<file, pending, backup, strayed, spilled>>
      BY <2>9, <2>10 DEF SetFlagFails
    <3> QED BY <3>1 DEF SpillInv, Readable, Busy, Housed
  <2>11. ASSUME NEW n, NEW f, NEW b, SetFlag(n, f, b) PROVE SpillInv'
    <3>1. /\ Calling /\ file' = Torn /\ UNCHANGED <<backup, strayed, spilled>>
          /\ pending' = [file EXCEPT !.confs[n].calib[f] = b]
      BY <2>9, <2>11 DEF SetFlag
    <3>2. Housed(pending')
      BY <2>5, <3>1 DEF Housed, Contents
    <3> QED BY <3>1, <3>2 DEF SpillInv, Readable, Housed
  <2> QED BY <2>1, <2>2, <2>3, <2>4, <2>6, <2>7, <2>8, <2>10, <2>11 DEF StoreNext
<1> QED BY <1>0, <1>1

LEMMA StoreInvariant == StoreSpec => []StoreInv
<1>1. StoreInv /\ [StoreNext]_storeVars => StoreInv'
  BY StoreTypesStay, CopiesStay, CountStays, SpillStays DEF StoreInv
<1> QED BY <1>1, StoreInitially, PTL DEF StoreSpec, StoreInv

(* Types of the store, for every limit and every number of writes: the     *)
(* counts and numbers are those a caller can cause, RAM has only its slots.*)
THEOREM StoreTypesHold == StoreSpec => []StoreTypeOK
<1>1. StoreTypes => StoreTypeOK
  <2>1. ASSUME NEW c \in Contents PROVE IsContents(c)
    BY <2>1 DEF Contents, IsContents
  <2> QED BY <2>1 DEF StoreTypes, StoreTypeOK
<1> QED BY <1>1, StoreInvariant, PTL DEF StoreInv

(* Whatever is saved, updated, calibrated, copied, put back or lost in a   *)
(* crash, i_config and a readable file differ only where this program has  *)
(* made them differ since it read the file.                                *)
THEOREM TheCopiesAgree == StoreSpec => []CopiesAgree
<1>1. StoreInv => CopiesAgree
  BY EntryInFile DEF StoreInv, CopiesInv, Agrees, AgreesWith, CopiesAgree
<1> QED BY <1>1, StoreInvariant, PTL

(* A calibration that is valid in a readable file is valid in the slot of  *)
(* i_config that get_calibration_flag reads, unless the configuration was  *)
(* written to the file since the last read.                                *)
THEOREM ValidDoesStayValid == StoreSpec => []ValidStaysValid
<1>1. StoreInv => ValidStaysValid
  BY EntryInFile DEF StoreInv, CopiesInv, Agrees, AgreesWith, ValidStaysValid
<1> QED BY <1>1, StoreInvariant, PTL

(* As long as save_configuration is called with rising numbers the count   *)
(* in the file is above the number of every configuration there, also once *)
(* a write has ended, a copy was put back or the program was restarted.    *)
THEOREM NothingIsForgotten == StoreSpec => []NothingForgotten
<1>1. StoreInv => NothingForgotten
  BY DEF StoreInv, CountInv, Counted, NothingForgotten
<1> QED BY <1>1, StoreInvariant, PTL

(* read_configuration_file and set_calibration_flag leave the array only   *)
(* through a number without a slot that save_configuration let pass.       *)
THEOREM OnlyStraysSpill == StoreSpec => []SpillsOnlyStrays
<1>1. StoreInv => SpillsOnlyStrays
  BY DEF StoreInv, SpillInv, SpillsOnlyStrays
<1> QED BY <1>1, StoreInvariant, PTL

=============================================================================
