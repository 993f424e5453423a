--------------------------- MODULE TerminalCapture ---------------------------
(***************************************************************************)
(* evalsim/cli/_terminal.py, capture_terminal: descriptors 1 and 2 are     *)
(* bound to a pipe while a callback runs, a daemon thread drains the pipe, *)
(* and an irreversible terminal commit runs only if nothing was printed.   *)
(*                                                                         *)
(* Three kinds of actors touch the descriptors: the main thread that runs  *)
(* capture_terminal, the drain thread, and writers nobody controls: other  *)
(* threads of the process (Python or native), and child processes that     *)
(* inherited the pipe and may outlive the callback.                        *)
(***************************************************************************)
EXTENDS Naturals

CONSTANTS
  PipeCapacity,   \* bytes the kernel pipe holds
  RetainLimit,    \* MAX_TERMINAL_TRANSCRIPT_BYTES less the truncation notice
  ReadSize,       \* _TRANSCRIPT_CHUNK_BYTES
  MaxWritten      \* bound of the model: bytes ever written to the pipe

ASSUME CaptureAssumption ==
  /\ {PipeCapacity, ReadSize, RetainLimit} \subseteq Nat \ {0}
  /\ MaxWritten \in Nat

VARIABLES
  seal,            \* seal_terminal
  commitGiven,     \* terminal_commit is not None
  pc,              \* the next step of capture_terminal
  fd,              \* what descriptors 1 and 2 are bound to
  redirected,      \* stdout_redirected and stderr_redirected
  have,            \* the descriptors and the pipe that were set up
  started,         \* callback_started
  primary,         \* the callback or the commit raised
  captureFailure,  \* capture_failure is set
  committed,       \* terminal_commit_succeeded
  transcript,      \* bytes in the transcript that finish() returned
  result,          \* how capture_terminal ended
  drain,           \* the drain thread: "off", "running" or "done"
  stop,            \* the stop event
  drainFailure,    \* _BoundedTranscript.failure
  retained,        \* retained_bytes
  truncated,       \* the truncation flag
  pipe,            \* bytes in the pipe
  writeEnd,        \* capture.write_fd is open
  thread,          \* a thread inside write(2): "idle" or "in_pipe"
  child,           \* a child process holds the pipe
  written,         \* bytes ever written to the pipe
  dropped,         \* bytes drained but not retained
  leaked,          \* output reached the real terminal while it was captured
  osFault          \* some call on a descriptor failed

mode      == <<seal, commitGiven>>
mainVars  == <<mode, pc, fd, redirected, have, started, primary, captureFailure,
               committed, transcript, result>>
drainVars == <<drain, stop, drainFailure, retained, truncated, dropped>>
pipeVars  == <<pipe, writeEnd, thread, child, written, leaked>>
captureVars == <<mainVars, drainVars, pipeVars, osFault>>

Streams == {1, 2}

\* Who still holds the write end; the drain thread sees end of file when nobody
\* does. A thread that is inside write(2) keeps the pipe open.
PipeHeld ==
  \/ writeEnd \/ child \/ thread = "in_pipe"
  \/ \E s \in Streams : fd[s] = "pipe"

-----------------------------------------------------------------------------
(* The main thread *)

CaptureGoto(next) == pc' = next

\* A step that fails jumps to the finally block with capture_failure set.
Setup(at, ok, next) ==
  /\ pc = at
  /\ \/ ok /\ CaptureGoto(next) /\ UNCHANGED <<captureFailure, osFault>>
     \/ /\ captureFailure' = TRUE /\ osFault' = TRUE
        /\ CaptureGoto("swap_open")
        /\ UNCHANGED <<have, fd, redirected, started, drain, writeEnd>>
  /\ UNCHANGED <<mode, primary, committed, transcript, result, stop,
                 drainFailure, retained, truncated, pipe, thread, child,
                 written, dropped, leaked>>

DuplicateStatus ==
  Setup("dup_status",
        have' = have \union {"status"}
          /\ UNCHANGED <<fd, redirected, started, drain, writeEnd>>,
        "dup_restore")

DuplicateRestore ==
  Setup("dup_restore",
        have' = have \union {"restore"}
          /\ UNCHANGED <<fd, redirected, started, drain, writeEnd>>,
        "pipe")

\* _bounded_transcript_pipe opens the pipe and starts the drain thread.
OpenPipe ==
  Setup("pipe",
        have' = have \union {"capture"} /\ drain' = "running" /\ writeEnd' = TRUE
          /\ UNCHANGED <<fd, redirected, started>>,
        "flush_before")

FlushBefore ==
  Setup("flush_before",
        UNCHANGED <<have, fd, redirected, started, drain, writeEnd>>,
        "redirect_stdout")

Redirect(s) == /\ fd' = [fd EXCEPT ![s] = "pipe"]
               /\ redirected' = redirected \union {s}

RedirectStdout ==
  Setup("redirect_stdout",
        Redirect(1) /\ UNCHANGED <<have, started, drain, writeEnd>>,
        "redirect_stderr")

RedirectStderr ==
  Setup("redirect_stderr",
        Redirect(2) /\ started' = TRUE /\ UNCHANGED <<have, drain, writeEnd>>,
        "callback")

\* One byte into the pipe. A write to a full pipe blocks; a write to a pipe whose
\* reader is gone fails without effect.
PutByte == /\ pipe < PipeCapacity /\ written < MaxWritten
           /\ drain = "running"
           /\ pipe' = pipe + 1 /\ written' = written + 1

\* The callback itself prints.
CallbackPrints ==
  /\ pc = "callback" /\ fd[1] = "pipe"
  /\ PutByte
  /\ UNCHANGED <<mainVars, drainVars, writeEnd, thread, child, leaked, osFault>>

CallbackEnds ==
  /\ pc = "callback"
  /\ primary' \in BOOLEAN
  /\ CaptureGoto("flush_after")
  /\ UNCHANGED <<mode, fd, redirected, have, started, captureFailure, committed,
                 transcript, result, drainVars, pipeVars, osFault>>

\* Python and native buffers are written out now, or the flush fails.
FlushAfter ==
  /\ pc = "flush_after"
  /\ CaptureGoto("swap_open")
  /\ \/ UNCHANGED <<pipe, written, captureFailure, osFault>>
     \/ PutByte /\ UNCHANGED <<captureFailure, osFault>>
     \/ /\ captureFailure' = TRUE /\ osFault' = TRUE
        /\ UNCHANGED <<pipe, written>>
  /\ UNCHANGED <<mode, fd, redirected, have, started, primary, committed,
                 transcript, result, drainVars, writeEnd, thread, child, leaked>>

\* A step of the finally block: it does its effect or notes the failure, and goes
\* on in either case.
Cleanup(at, ok, next) ==
  /\ pc = at
  /\ CaptureGoto(next)
  /\ \/ ok /\ UNCHANGED <<captureFailure, osFault>>
     \/ /\ captureFailure' = TRUE /\ osFault' = TRUE
        /\ UNCHANGED <<have, fd>>
  /\ UNCHANGED <<mode, redirected, started, primary, committed, transcript,
                 result, drainVars, pipeVars>>

Skip(at, next) ==
  /\ pc = at
  /\ CaptureGoto(next)
  /\ UNCHANGED <<mode, fd, redirected, have, started, primary, captureFailure,
                 committed, transcript, result, drainVars, pipeVars, osFault>>

\* Faulty: the real terminal comes back before the commit.
ReplacementFaulty == IF started THEN "terminal" ELSE "closed"

\* What replaces the pipe while the transcript is drained and the commit runs.
Replacement == IF started THEN "sink" ELSE "closed"

OpenSink == IF started
            THEN Cleanup("swap_open", have' = have \union {"sink"} /\ UNCHANGED fd,
                         "swap_stdout")
            ELSE Skip("swap_open", "swap_stdout")

Replace(s, at, next) ==
  IF s \in redirected /\ (started => "sink" \in have)
  THEN Cleanup(at, fd' = [fd EXCEPT ![s] = Replacement] /\ UNCHANGED have, next)
  ELSE Skip(at, next)

ReplaceStreams == \/ Replace(1, "swap_stdout", "swap_stderr")
                  \/ Replace(2, "swap_stderr", "finish")

\* finish(): the last write descriptor of this process is closed, then the drain
\* thread gets a grace period to reach end of file.
CloseWriteEnd ==
  /\ pc = "finish"
  /\ IF "capture" \in have
     THEN /\ writeEnd' = FALSE
          /\ CaptureGoto("join")
          /\ \E ok \in BOOLEAN : /\ drainFailure' = (drainFailure \/ ~ok)
                                 /\ osFault' = (osFault \/ ~ok)
     ELSE CaptureGoto("commit") /\ UNCHANGED <<writeEnd, drainFailure, osFault>>
  /\ UNCHANGED <<mode, fd, redirected, have, started, primary, captureFailure,
                 committed, transcript, result, drain, stop, retained, truncated,
                 dropped, pipe, thread, child, written, leaked>>

\* Faulty: a thread that outlived its grace period is no failure.
OutlivedFaulty == drainFailure

\* The drain thread outlived its grace period: something still holds the pipe.
Outlived == TRUE

\* Faulty: the join has no timeout.
JoinDrainForever ==
  /\ pc = "join"
  /\ drain = "done"
  /\ CaptureGoto("payload")
  /\ UNCHANGED <<mode, fd, redirected, have, started, primary, captureFailure,
                 committed, transcript, result, drain, stop, drainFailure,
                 retained, truncated, dropped, pipeVars, osFault>>

\* The first join returns because the thread ended, or times out.
JoinDrain ==
  /\ pc = "join"
  /\ IF drain = "done" THEN CaptureGoto("payload") /\ UNCHANGED stop
                       ELSE CaptureGoto("join_again") /\ stop' = TRUE
  /\ UNCHANGED <<mode, fd, redirected, have, started, primary, captureFailure,
                 committed, transcript, result, drain, drainFailure, retained,
                 truncated, dropped, pipeVars, osFault>>

\* The second join also ends by the thread or by its timeout.
JoinAgain ==
  /\ pc = "join_again"
  /\ drainFailure' = Outlived
  /\ CaptureGoto("payload")
  /\ UNCHANGED <<mode, fd, redirected, have, started, primary, captureFailure,
                 committed, transcript, result, drain, stop, retained, truncated,
                 dropped, pipeVars, osFault>>

ReadTranscript ==
  /\ pc = "payload"
  /\ transcript' = retained
  /\ captureFailure' = (captureFailure \/ drainFailure)
  /\ CaptureGoto("commit")
  /\ UNCHANGED <<mode, fd, redirected, have, started, primary, committed, result,
                 drainVars, pipeVars, osFault>>

MayCommit == commitGiven /\ ~primary /\ ~captureFailure /\ transcript = 0

\* terminal_commit runs, and may raise.
TerminalCommit ==
  /\ pc = "commit"
  /\ IF MayCommit
     THEN committed' \in BOOLEAN /\ primary' = ~committed'
     ELSE UNCHANGED <<committed, primary>>
  /\ CaptureGoto("restore_stdout")
  /\ UNCHANGED <<mode, fd, redirected, have, started, captureFailure, transcript,
                 result, drainVars, pipeVars, osFault>>

StaysSealed == seal /\ started

Restore(s, at, next) ==
  IF ~StaysSealed /\ s \in redirected /\ "restore" \in have
  THEN Cleanup(at, fd' = [fd EXCEPT ![s] = "terminal"] /\ UNCHANGED have, next)
  ELSE Skip(at, next)

RestoreStreams == \/ Restore(1, "restore_stdout", "restore_stderr")
                  \/ Restore(2, "restore_stderr", "close")

CloseSaved == Cleanup("close", have' = have \ {"sink", "restore"} /\ UNCHANGED fd,
                      "return")

\* The order in which capture_terminal reports what went wrong.
Verdict ==
  IF "status" \notin have THEN "boundary_error"
  ELSE IF primary THEN "primary"
  ELSE IF captureFailure /\ ~committed THEN "capture_failed"
  ELSE IF transcript # 0 THEN "output_detected"
  ELSE "captured"

Return ==
  /\ pc = "return"
  /\ result' = Verdict
  /\ CaptureGoto("returned")
  /\ UNCHANGED <<mode, fd, redirected, have, started, primary, captureFailure,
                 committed, transcript, drainVars, pipeVars, osFault>>

CaptureTerminal ==
  \/ DuplicateStatus \/ DuplicateRestore \/ OpenPipe \/ FlushBefore
  \/ RedirectStdout \/ RedirectStderr
  \/ CallbackEnds \/ FlushAfter
  \/ OpenSink \/ ReplaceStreams
  \/ CloseWriteEnd \/ JoinDrain \/ JoinAgain \/ ReadTranscript
  \/ TerminalCommit \/ RestoreStreams \/ CloseSaved \/ Return

-----------------------------------------------------------------------------
(* The drain thread *)

Least(a, b) == IF a < b THEN a ELSE b

Overflows(chunk, available) == chunk > available

Kept(chunk, available) == Least(chunk, available)

DrainRead ==
  /\ drain = "running" /\ pipe > 0
  /\ LET chunk     == Least(pipe, ReadSize)
         available == RetainLimit - retained
     IN /\ pipe' = pipe - chunk
        /\ retained' = retained + Kept(chunk, available)
        /\ dropped' = dropped + (chunk - Kept(chunk, available))
        /\ truncated' = (truncated \/ Overflows(chunk, available))
  /\ UNCHANGED <<mainVars, drain, stop, drainFailure, writeEnd, thread, child,
                 written, leaked, osFault>>

\* End of file: nobody holds the write end and nothing is left in the pipe.
DrainReachesEnd ==
  /\ drain = "running" /\ pipe = 0 /\ ~PipeHeld
  /\ drain' = "done"
  /\ UNCHANGED <<mainVars, stop, drainFailure, retained, truncated, dropped,
                 pipeVars, osFault>>

\* The thread gives up when it is told to, or on an error of its own.
DrainGivesUp ==
  /\ drain = "running"
  /\ osFault' = (osFault \/ ~stop)
  /\ drain' = "done"
  /\ drainFailure' = TRUE
  /\ UNCHANGED <<mainVars, stop, retained, truncated, dropped, pipeVars>>

Drain == DrainRead \/ DrainReachesEnd \/ (stop /\ DrainGivesUp)

-----------------------------------------------------------------------------
(* Writers nobody controls *)

Captured == started /\ (StaysSealed \/ pc \notin {"restore_stdout",
              "restore_stderr", "close", "return", "returned"})

\* A thread of this process enters write(2) on descriptor 1 or 2.
ThreadWrites(s) ==
  /\ thread = "idle"
  /\ \/ fd[s] = "pipe" /\ thread' = "in_pipe" /\ UNCHANGED leaked
     \/ fd[s] = "terminal" /\ leaked' = (leaked \/ Captured) /\ UNCHANGED thread
  /\ UNCHANGED <<mainVars, drainVars, pipe, writeEnd, child, written, osFault>>

\* The write ends: the byte is in the pipe, or the reader is gone.
ThreadFinishesWrite ==
  /\ thread = "in_pipe"
  /\ thread' = "idle"
  /\ PutByte \/ (drain = "done" /\ UNCHANGED <<pipe, written>>)
  /\ UNCHANGED <<mainVars, drainVars, writeEnd, child, leaked, osFault>>

\* Any thread, the callback's own included, starts a child process that inherits
\* a captured descriptor.
ChildStarts ==
  /\ ~child
  /\ \E s \in Streams : fd[s] = "pipe"
  /\ child' = TRUE
  /\ UNCHANGED <<mainVars, drainVars, pipe, writeEnd, thread, written, leaked,
                 osFault>>

ChildWrites ==
  /\ child
  /\ PutByte
  /\ UNCHANGED <<mainVars, drainVars, writeEnd, thread, child, leaked, osFault>>

ChildExits ==
  /\ child
  /\ child' = FALSE
  /\ UNCHANGED <<mainVars, drainVars, pipe, writeEnd, thread, written, leaked,
                 osFault>>

Others ==
  \/ CallbackPrints
  \/ \E s \in Streams : ThreadWrites(s)
  \/ ThreadFinishesWrite
  \/ ChildStarts \/ ChildWrites \/ ChildExits

-----------------------------------------------------------------------------

CaptureInit ==
  /\ seal \in BOOLEAN /\ commitGiven \in BOOLEAN
  /\ pc = "dup_status"
  /\ fd = [s \in Streams |-> "terminal"]
  /\ redirected = {} /\ have = {} /\ started = FALSE
  /\ primary = FALSE /\ captureFailure = FALSE /\ committed = FALSE
  /\ transcript = 0 /\ result = "none"
  /\ drain = "off" /\ stop = FALSE /\ drainFailure = FALSE
  /\ retained = 0 /\ truncated = FALSE /\ dropped = 0
  /\ pipe = 0 /\ writeEnd = FALSE /\ thread = "idle" /\ child = FALSE
  /\ written = 0 /\ leaked = FALSE /\ osFault = FALSE

CaptureNext == CaptureTerminal \/ Drain \/ DrainGivesUp \/ Others

\* The main thread keeps running (its joins have timeouts and the callback is
\* assumed to return) and so does the drain thread; the other writers need never
\* do anything.
CaptureSpec ==
  /\ CaptureInit /\ [][CaptureNext]_captureVars
  /\ WF_captureVars(CaptureTerminal) /\ WF_captureVars(Drain)

-----------------------------------------------------------------------------
(* Properties *)

\* The irreversible commit happened, or a capture was reported clean, only if not
\* one byte was ever written to the captured descriptors, by anybody, and nobody
\* can write to them any more: neither a child that outlived the callback nor a
\* thread caught inside write(2) can still produce output the transcript did not
\* see.
CommitWasSilent == committed \/ result = "captured" => written = 0 /\ ~PipeHeld

\* Between the start of the callback and the restoration of the descriptors no
\* output reaches the real terminal, and without an operating-system error the
\* descriptors end where the mode says: on the sink for a sealed command, whose
\* terminal never gets any output, on the real terminal for every other one.
TerminalIsGuarded ==
  /\ ~leaked
  /\ pc = "returned" /\ ~osFault =>
       \A s \in Streams : fd[s] = IF StaysSealed THEN "sink" ELSE "terminal"

\* capture_terminal ends even if a child keeps the pipe open for ever.
CaptureEnds == <>(pc = "returned")
=============================================================================
