------------------------------ MODULE RollingLog ------------------------------
(****************************************************************************)
(* The log files of a process: one per day, and within a day the parts that *)
(* lumberjack splits off when the file is full.  With the first line of a   *)
(* day, and with every start, the writer removes what is too old or too     *)
(* much.  The clock may be set back; the process may be killed.             *)
(*                                                                          *)
(* One process with RotateDaily; writes are serialised by its mutex.  An    *)
(* error of the file system leaves everything as it was and loses the line. *)
(* lumberjack removes (and compresses) its parts in the background, here at *)
(* once: until it has, there are as many more as were split off since.      *)
(****************************************************************************)
EXTENDS Naturals, FiniteSetsExt

CONSTANTS MaxBackups, MaxAgeDays, \* the options, 0 for no limit
          DayLength,              \* ticks of the clock in a day
          MaxTime,                \* bound of the clock
          MaxBack                 \* bound of the number of times it is set back

ASSUME RollingAssumption ==
  /\ DayLength \in Nat \ {0}
  /\ {MaxBackups, MaxAgeDays, MaxTime, MaxBack} \subseteq Nat

VARIABLES time, back, \* the clock, and how often it was set back
          files,      \* <<day, part>> of a file -> its modification time
          writer,     \* currentDate, NoDay when w.writer is nil
          cleaned     \* lastCleanupDate

logVars == <<time, back, files, writer, cleaned>>

NoDay == MaxTime + 1
Day == 0 .. MaxTime \div DayLength
Today == time \div DayLength

\* Part 0 is the active file; a process that runs has cleaned up on the day it
\* opened.
RollingTypeOK ==
  /\ time \in 0 .. MaxTime /\ back \in 0 .. MaxBack
  /\ \A f \in DOMAIN files : f[1] \in Day /\ f[2] \in Nat /\ files[f] \in 0 .. MaxTime
  /\ writer \in Day \union {NoDay}
  /\ writer # NoDay => cleaned = writer

RollingInit ==
  /\ time = 0 /\ back = 0
  /\ files = <<>>
  /\ writer = NoDay /\ cleaned = NoDay

Only(kept) == [f \in kept |-> files[f]]

TooOld(f) == MaxAgeDays > 0 /\ files[f] + MaxAgeDays * DayLength < time
Young == {f \in DOMAIN files : ~TooOld(f)}

\* Seeded fault: sorted the other way round.
Kept_oldest(kept) ==
  \A f \in kept, g \in Young \ kept : files[f] <= files[g]

\* Sorted by modification time; files of the same time come in any order.
Kept(kept) == \A f \in kept, g \in Young \ kept : files[f] >= files[g]

\* Seeded fault: a day without anything to remove is not noted.
CleanedOn_removed(kept) == IF kept = DOMAIN files THEN cleaned ELSE Today
CleanedOn(kept) == Today

\* Seeded fault: only the age counts.
KeptCount_age == Cardinality(Young)
KeptCount == IF MaxBackups = 0 THEN Cardinality(Young)
             ELSE Min({Cardinality(Young), MaxBackups + 1})

\* What a cleanup may leave, and the day it is noted for: of files of one age the
\* order is open.
cleanupOldFiles ==
  IF cleaned = Today
  THEN {[left |-> files, on |-> cleaned]}
  ELSE {[left |-> Only(kept), on |-> CleanedOn(kept)] :
          kept \in {k \in SUBSET Young : Cardinality(k) = KeptCount /\ Kept(k)}}

\* A new writer, and a cleanup, for a new day and after Close.
rotateIfNeeded ==
  IF writer = Today THEN {[left |-> files, on |-> cleaned]} ELSE cleanupOldFiles

\* lumberjack opens the file with the first line.
Append(left) ==
  files' = [f \in DOMAIN left \union {<<Today, 0>>} |->
              IF f = <<Today, 0>> THEN time ELSE left[f]]

Parts(left) == {f \in DOMAIN left : f[1] = Today /\ f[2] > 0}

\* lumberjack: the full file is renamed after the time, the line starts a new one,
\* and of the parts of this day the latest MaxBackups are kept.  No two parts are
\* filled in the same tick.
Split(left) ==
  LET active == <<Today, 0>>
      part == <<Today, time + 1>>
      parts == Parts(left) \union {part}
      split == [f \in DOMAIN left \union {part} |->
                  CASE f = active -> time
                    [] f = part -> left[active]
                    [] OTHER -> left[f]]
      dropped == {f \in parts : /\ MaxBackups > 0
                                /\ Cardinality({g \in parts : g[2] > f[2]}) >= MaxBackups}
  IN /\ active \in DOMAIN left /\ part \notin DOMAIN left
     /\ files' = [f \in DOMAIN split \ dropped |-> split[f]]

Write ==
  /\ \E rotated \in rotateIfNeeded :
       /\ cleaned' = rotated.on
       /\ Append(rotated.left) \/ Split(rotated.left)
  /\ writer' = Today
  /\ UNCHANGED <<time, back>>

\* newRollingFileWriter of a process that starts: no line yet.
NewWriter ==
  /\ writer = NoDay /\ cleaned = NoDay
  /\ \E rotated \in rotateIfNeeded : cleaned' = rotated.on /\ files' = rotated.left
  /\ writer' = Today
  /\ UNCHANGED <<time, back>>

\* The next Write opens the file again.
Close ==
  /\ writer' = NoDay
  /\ UNCHANGED <<time, back, files, cleaned>>

Killed ==
  /\ writer' = NoDay /\ cleaned' = NoDay
  /\ UNCHANGED <<time, back, files>>

Tick ==
  /\ time < MaxTime /\ time' = time + 1
  /\ UNCHANGED <<back, files, writer, cleaned>>

SetBack ==
  /\ back < MaxBack /\ back' = back + 1
  /\ time' \in 0 .. time
  /\ UNCHANGED <<files, writer, cleaned>>

RollingNext == Write \/ NewWriter \/ Close \/ Killed \/ Tick \/ SetBack

RollingSpec == RollingInit /\ [][RollingNext]_logVars

-----------------------------------------------------------------------------
(* Properties. *)

\* Neither restarts nor a clock that is set back nor full files make the directory
\* grow without bound: what a cleanup keeps, the active file and its parts
\* (cleanupOldFiles with LOG_MAX_BACKUPS, unless it is 0), and for a moment what
\* lumberjack has not removed yet.
FilesAreBounded == MaxBackups > 0 => Cardinality(DOMAIN files) <= 2 * MaxBackups + 2

\* Whatever a step removes, the file of the day that was written last stays until
\* it is too old, or another one that was written at the same time does
\* (cleanupOldFiles).  It need not be the file of the latest day.
LatestLinesAreKept ==
  [][\A f \in DOMAIN files \ DOMAIN files' :
       f[2] = 0 /\ (\A g \in DOMAIN files : files[g] <= files[f]) =>
         \/ TooOld(f)
         \/ \E g \in DOMAIN files' : files'[g] >= files[f]]_logVars
===============================================================================
