------------------------------- MODULE Logger -------------------------------
(***************************************************************************)
(* pkg/logger: the process-wide logger and its file.  Init and Close take  *)
(* the write lock, the package's functions hold the read lock while they   *)
(* write; but a goroutine that calls zap.L() holds no lock, and may write  *)
(* with the logger it got after Init or Close has put another in its       *)
(* place.  A lumberjack.Logger opens its file at the first write, and      *)
(* again at a write after its Close: hence guardedLogFile.closed.  What    *)
(* such a goroutine writes in the middle of Init or Close it may as well   *)
(* have written before, so each of them is one step.                       *)
(***************************************************************************)
CONSTANTS
  Files,     \* one for every guardedLogFile that Init makes
  Writers    \* goroutines that log

Off  == "off"     \* no logger taken, nothing to restore
Nop  == "nop"     \* the logger before Init and after Close
Con  == "console" \* the logger of an Init without a file name

VARIABLES
  global,    \* globalLogger: the file it writes to, Con or Nop
  zapL,      \* the same for the logger of zap.L()
  restore,   \* what restoreGlobal puts back, or Off when it is nil
  closed,    \* files whose guardedLogFile.closed is set
  handle,    \* files that lumberjack has open
  taken      \* what a goroutine got from zap.L() and has still to use

loggerVars == <<global, zapL, restore, closed, handle, taken>>

Loggers == Files \union {Nop, Con}

TypeOK ==
  /\ global \in Loggers /\ zapL \in Loggers
  /\ restore \in {Off, Nop}
  /\ closed \subseteq Files
  /\ handle \subseteq Files
  /\ taken \in [Writers -> Loggers \union {Off}]

Init ==
  /\ global = Nop /\ zapL = Nop /\ restore = Off
  /\ closed = {} /\ handle = {}
  /\ taken = [w \in Writers |-> Off]

\* guardedLogFile.Close for the file of the global logger, if it has one.
CloseFile ==
  LET file == {global} \intersect Files
  IN  closed' = closed \union file /\ handle' = handle \ file

\* mutant: the file is not closed before it is forgotten
CloseFileForgotten == UNCHANGED <<closed, handle>>

\* Init: the new logger, with a file of its own or without, takes the place of both
\* globals, what zap had before the first Init is kept, the previous file is closed.
Configure(new) ==
  /\ new \in (Files \ (closed \union {global})) \union {Con}
  /\ CloseFile
  /\ global' = new /\ zapL' = new
  /\ restore' = IF restore = Off THEN zapL ELSE restore
  /\ UNCHANGED taken

\* Close, safe to call repeatedly: what zap had comes back.
Close ==
  /\ CloseFile
  /\ global' = Nop
  /\ zapL' = IF restore = Off THEN zapL ELSE restore
  /\ restore' = Off
  /\ UNCHANGED taken

\* mutant: the file is written to although it is closed
WriteReopens(logger) == handle' = handle \union ({logger} \intersect Files)

\* guardedLogFile.Write: dropped when closed, else lumberjack opens what is not open.
Write(logger) == handle' = handle \union (({logger} \intersect Files) \ closed)

\* Debug, Infof and the others, with the read lock held; or zap.L() in the goroutine
\* that alone calls Init and Close.  Sync writes nothing.
WriteNow(logger) ==
  /\ logger \in {global, zapL}
  /\ Write(logger)
  /\ UNCHANGED <<global, zapL, restore, closed, taken>>

\* zap.L(), and the use of what it returned.
Take(w) ==
  /\ taken[w] = Off
  /\ taken' = [taken EXCEPT ![w] = zapL]
  /\ UNCHANGED <<global, zapL, restore, closed, handle>>

WriteTaken(w) ==
  /\ taken[w] # Off
  /\ Write(taken[w])
  /\ taken' = [taken EXCEPT ![w] = Off]
  /\ UNCHANGED <<global, zapL, restore, closed>>

Next ==
  \/ \E logger \in Loggers : Configure(logger) \/ WriteNow(logger)
  \/ Close
  \/ \E w \in Writers : Take(w) \/ WriteTaken(w)

Spec == Init /\ [][Next]_loggerVars

\* Whoever logs, and with whatever logger: a file is open only while it is the one
\* that lines go to, so that Close leaves no file behind that a late line opens again
\* (guardedLogFile, logger.go 19-42), and zap.L() and the package's functions write to
\* the same place.
OnlyCurrentOpen ==
  /\ handle \subseteq {global}
  /\ zapL = global
  /\ global \notin closed

=============================================================================
