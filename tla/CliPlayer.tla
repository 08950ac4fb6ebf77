------------------------------ MODULE CliPlayer ------------------------------
(***************************************************************************)
(* The command line player, src/src/cliairplay2.c: the main thread reads   *)
(* audio from a file or stdin in a loop, while a second thread reads       *)
(* commands, a line each, from a named pipe and sets the status the loop   *)
(* looks at. A line that is not about the status is "META", one of artwork *)
(* "ARTWORK". No event loop runs, so the session that airplay_create asks  *)
(* for does not get further than its first request.                        *)
(***************************************************************************)
EXTENDS Integers, Sequences

CONSTANTS
  MaxChunks,   \* bound: chunks in the input
  MaxLines     \* bound: lines written to the pipe

ASSUME CliPlayerAssumption == MaxChunks \in Nat /\ MaxLines \in Nat

VARIABLES
  player,      \* where main is: "setup", "spawned", "loop", "reading", "left", "destroyed",
               \* "exit", "exited", "crashed"
  status,      \* "STOPPED", "PAUSED", "PLAYING"
  running,     \* glMainRunning
  input,       \* chunks left in infile, -1 when every read of it fails
  late,        \* chunks read since the status was last PLAYING
  cmdreader,   \* CmdPipeReaderThread: "none", "opening", "check", "read", "lines", "done"
  writer,      \* the other end of the pipe: "none", "open", "closed"
  written,     \* lines written
  pipe,        \* lines in the pipe
  batch        \* lines of cmdPipeBuf not looked at yet

cliVars == <<player, status, running, input, late, cmdreader, writer, written, pipe, batch>>

CliInit ==
  /\ player = "setup" /\ status = "STOPPED" /\ running = TRUE /\ late = 0
  /\ input \in -1..MaxChunks
  /\ cmdreader = "none" /\ writer = "none" /\ written = 0 /\ pipe = <<>> /\ batch = <<>>

-----------------------------------------------------------------------------
(* main *)

\* What the arguments say, and what there is behind them.
Arguments ==
  [ends : BOOLEAN,        \* -ntp, -check or -h
   hostname : BOOLEAN, resolves : BOOLEAN, family : {"INET", "INET6", "other"},
   fname : BOOLEAN, opens : BOOLEAN,
   password : BOOLEAN,    \* -password, with -pw true
   udn : BOOLEAN]

\* main, from the arguments to the host's address. secret is never NULL, so a secret is not
\* asked for.
Refuses(args) ==
  \/ args.ends \/ ~args.hostname \/ ~args.fname \/ ~args.opens \/ ~args.resolves

\* The password is combined with the UDN, also when there is none, which crashes.
PasswordFails(args) == args.password /\ ~args.udn

\* ap_device and ap_extra: the address is that of one family or the other.
Addressed(args) == args.family # "other"

\* platform_init returns EXIT_FAILURE, which is 1, when mdns_init fails.
PlatformInit(mdns) == IF mdns THEN 0 ELSE 1

\* main up to pthread_create. Only a negative result of platform_init stops it, so none does.
Setup ==
  /\ player = "setup"
  /\ \E args \in Arguments, mdns \in BOOLEAN :
       \/ (Refuses(args) \/ PlatformInit(mdns) < 0) /\ player' = "exited" /\ UNCHANGED cmdreader
       \/ /\ ~Refuses(args) /\ PlatformInit(mdns) >= 0
          /\ \/ PasswordFails(args) /\ player' = "crashed" /\ UNCHANGED cmdreader
             \/ ~PasswordFails(args) /\ ~Addressed(args) /\ player' = "exit" /\ UNCHANGED cmdreader
             \/ /\ ~PasswordFails(args) /\ Addressed(args)
                /\ player' = "spawned" /\ cmdreader' = "opening"
  /\ UNCHANGED <<status, running, input, late, writer, written, pipe, batch>>

\* The line after pthread_create overwrites what the thread may have set by then.
SetPlaying ==
  /\ player = "spawned" /\ player' = "loop" /\ status' = "PLAYING" /\ late' = 0
  /\ UNCHANGED <<running, input, cmdreader, writer, written, pipe, batch>>

\* The loop is left, glMainRunning is cleared.
Leave == player' = "left" /\ running' = FALSE

\* Mutant: the loop ends with its input only.
LookAtStatusPlaying ==
  /\ player = "loop" /\ player' = "reading" /\ status \in {"PLAYING", "STOPPED"} /\ UNCHANGED running
  /\ UNCHANGED <<status, input, late, cmdreader, writer, written, pipe, batch>>

\* The top of the loop; when it is paused it sleeps and looks again.
LookAtStatus ==
  /\ player = "loop"
  /\ \/ status = "STOPPED" /\ Leave
     \/ status = "PLAYING" /\ player' = "reading" /\ UNCHANGED running
  /\ UNCHANGED <<status, input, late, cmdreader, writer, written, pipe, batch>>

\* read(infile) and the loop's condition.
ReadInput ==
  /\ player = "reading"
  /\ IF input = 0 THEN Leave /\ UNCHANGED <<input, late>>
     ELSE /\ player' = "loop" /\ UNCHANGED running
          /\ input' = IF input = -1 THEN -1 ELSE input - 1
          /\ late' = IF input = -1 \/ status = "PLAYING" THEN late ELSE late + 1
  /\ UNCHANGED <<status, cmdreader, writer, written, pipe, batch>>

\* airplay_destroy and platform_deinit, before the reader has ended. The events thread,
\* which airplay_events_deinit joins, has no event to wait for.
Destroy ==
  /\ player = "left" /\ player' = "destroyed"
  /\ UNCHANGED <<status, running, input, late, cmdreader, writer, written, pipe, batch>>

\* pthread_join
Join ==
  /\ player = "destroyed" /\ cmdreader = "done" /\ player' = "exit"
  /\ UNCHANGED <<status, running, input, late, cmdreader, writer, written, pipe, batch>>

\* The label exit: airplay_destroy and platform_deinit once more, of what the first have
\* freed, or of what was never made.
Exit ==
  /\ player = "exit" /\ player' \in {"exited", "crashed"}
  /\ UNCHANGED <<status, running, input, late, cmdreader, writer, written, pipe, batch>>

-----------------------------------------------------------------------------
(* CmdPipeReaderThread *)

\* Mutant: the thread does not look at glMainRunning between two reads.
CheckRunningNever ==
  /\ cmdreader = "check" /\ cmdreader' = "read"
  /\ UNCHANGED <<player, status, running, input, late, writer, written, pipe, batch>>

\* The condition of the outer loop.
CheckRunning ==
  /\ cmdreader = "check" /\ cmdreader' = IF running THEN "read" ELSE "done"
  /\ UNCHANGED <<player, status, running, input, late, writer, written, pipe, batch>>

\* read(cmdPipeFd): it waits as long as the pipe is empty and a writer has it open. Of more
\* than the buffer holds the last line may be cut: neither part of it is a command, and
\* "=" alone may be what is left of it.
ReadPipe ==
  /\ cmdreader = "read"
  /\ \/ pipe = <<>> /\ writer = "closed" /\ cmdreader' = "check" /\ UNCHANGED <<pipe, batch>>
     \/ \E n \in 1..Len(pipe) :
          /\ cmdreader' = "lines"
          /\ \/ batch' = SubSeq(pipe, 1, n) /\ pipe' = SubSeq(pipe, n + 1, Len(pipe))
             \/ /\ batch' = Append(SubSeq(pipe, 1, n - 1), "META")
                /\ \E rest \in {"META"} \cup (IF pipe[n] \in {"META", "ARTWORK"} THEN {"="} ELSE {}) :
                     pipe' = <<rest>> \o SubSeq(pipe, n + 1, Len(pipe))
  /\ UNCHANGED <<player, status, running, input, late, writer, written>>

\* What a line does to the status.
StatusAfter(line) ==
  IF line = "PAUSE" /\ status = "PLAYING" THEN "PAUSED"
  ELSE IF line = "PLAY" THEN "PLAYING"
  ELSE IF line = "STOP" THEN "STOPPED"
  ELSE status

\* Whether a line can crash the player: strlen of the key that "=" does not have does, and
\* artwork that cannot be opened or read.
Crashes(line) == CASE line = "=" -> {TRUE} [] line = "ARTWORK" -> BOOLEAN [] OTHER -> {FALSE}

\* One turn of the loop over the lines. STOP breaks it, and what was read after it is dropped.
ReadLine ==
  /\ cmdreader = "lines"
  /\ IF batch = <<>> \/ ~running
     THEN cmdreader' = "check" /\ batch' = <<>> /\ UNCHANGED <<player, status, late>>
     ELSE LET line == Head(batch)
          IN /\ status' = StatusAfter(line)
             /\ late' = IF status' = "PLAYING" THEN 0 ELSE late
             /\ \E crashes \in Crashes(line) : player' = IF crashes THEN "crashed" ELSE player
             /\ batch' = IF line = "STOP" THEN <<>> ELSE Tail(batch)
             /\ UNCHANGED cmdreader
  /\ UNCHANGED <<running, input, writer, written, pipe>>

-----------------------------------------------------------------------------
(* Who writes to the pipe; both ends wait for the other to open it. *)

WriterOpens ==
  /\ writer = "none" /\ cmdreader = "opening" /\ writer' = "open" /\ cmdreader' = "check"
  /\ UNCHANGED <<player, status, running, input, late, written, pipe, batch>>

WriterWrites ==
  /\ writer = "open" /\ cmdreader # "done" /\ written < MaxLines /\ written' = written + 1
  /\ \E line \in {"PLAY", "PAUSE", "STOP", "META", "ARTWORK"} : pipe' = Append(pipe, line)
  /\ UNCHANGED <<player, status, running, input, late, cmdreader, writer, batch>>

WriterCloses ==
  /\ writer = "open" /\ writer' = "closed"
  /\ UNCHANGED <<player, status, running, input, late, cmdreader, written, pipe, batch>>

Running == player \notin {"exited", "crashed"}

CliNext ==
  /\ Running
  /\ \/ Setup \/ SetPlaying \/ LookAtStatus \/ ReadInput \/ Destroy \/ Join \/ Exit
     \/ CheckRunning \/ ReadPipe \/ ReadLine
     \/ WriterOpens \/ WriterWrites \/ WriterCloses

\* Both threads get the processor; input that is not at its end arrives.
CliFair ==
  /\ WF_cliVars(Running /\ (SetPlaying \/ LookAtStatus \/ ReadInput \/ Destroy \/ Join \/ Exit))
  /\ WF_cliVars(Running /\ (CheckRunning \/ ReadPipe \/ ReadLine))

CliSpec == CliInit /\ [][CliNext]_cliVars /\ CliFair

-----------------------------------------------------------------------------
(* Properties *)

(* The loop and the reader share the status without a lock: once it is not PLAYING, at     *)
(* most the chunk of a read that had begun is still played (cliairplay2.c:701).            *)
HeededSoon == player \in {"loop", "reading", "left"} /\ status # "PLAYING" => late <= 1

(* Once no more commands can come, the player ends: it is not left waiting for its reader, *)
(* unless it was paused or its input cannot be read (cliairplay2.c:743).                   *)
PlayerEnds ==
  writer = "closed" ~>
    (player \in {"exited", "crashed"} \/ (player = "loop" /\ status = "PAUSED") \/ input = -1)
=============================================================================
