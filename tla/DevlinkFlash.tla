---------------------------- MODULE DevlinkFlash ----------------------------
(***************************************************************************)
(* "devlink dev flash" (devlink/devlink.c): a child sends the request,     *)
(* which lasts as long as the flash does, while its parent follows the     *)
(* notifications of the kernel and a pipe on which the child tells that it *)
(* has returned.                                                           *)
(***************************************************************************)
EXTENDS Naturals, Sequences

CONSTANTS
  MaxStatus,    \* status messages of one flash
  MaxQueue,     \* notifications that a socket holds
  FlashSetups   \* the circumstances: see FlashInit

ASSUME FlashAssumption ==
  /\ MaxStatus \in Nat /\ MaxQueue \in Nat \ {0}
  /\ FlashSetups \subseteq [other : BOOLEAN, kill : BOOLEAN, noise : BOOLEAN]

VARIABLES
  fset,      \* whether another process flashes the same device at first, the child may be
             \* killed, the socket gets other notifications
  flash,     \* the kernel: "none", "running", then "good" or "bad"
  other,     \* the other process' flash: "running" or "none"
  left,      \* status messages that may still come
  queue,     \* the notification socket; lost: some did not fit
  answer,    \* the acknowledgement on dl->nlg, which parent and child share
  child,     \* "fork", "send" or "failed", "write", "gone"
  pipe,      \* data: the child's value is in it; err: the value is not 0; open: the child has
             \* it open
  parent,    \* pc, and what select returned
  ctx        \* cmd_dev_flash_status_ctx; last: whether last_msg is set

flashVars == <<fset, flash, other, left, queue, answer, child, pipe, parent, ctx>>

Msg(type, own) == [type |-> type, own |-> own]

----------------------------------------------------------------------------
(* The kernel: the begin message, status messages, the end message, the    *)
(* acknowledgement.                                                        *)

Notify(m) ==
  queue' = IF Len(queue.msgs) < MaxQueue THEN [queue EXCEPT !.msgs = Append(@, m)]
           ELSE [queue EXCEPT !.lost = TRUE]

FlashStatus ==
  /\ flash = "running" \/ other = "running"
  /\ left > 0
  /\ left' = left - 1
  /\ Notify(Msg("STATUS", flash = "running"))
  /\ UNCHANGED <<fset, flash, other, answer, child, pipe, parent, ctx>>

OtherEnds ==
  /\ other = "running"
  /\ other' = "none"
  /\ left' = MaxStatus
  /\ Notify(Msg("END", FALSE))
  /\ UNCHANGED <<fset, flash, answer, child, pipe, parent, ctx>>

\* The socket is in the group of all configuration messages.
Noise ==
  /\ fset.noise /\ left > 0
  /\ left' = left - 1
  /\ Notify(Msg("ELSE", FALSE))
  /\ UNCHANGED <<fset, flash, other, answer, child, pipe, parent, ctx>>

FlashEnds ==
  /\ flash = "running"
  /\ flash' \in {"good", "bad"}
  /\ answer' = flash'
  /\ Notify(Msg("END", TRUE))
  /\ UNCHANGED <<fset, other, left, child, pipe, parent, ctx>>

----------------------------------------------------------------------------
(* The child.                                                              *)

\* _mnlg_socket_send: the device is locked while it is flashed.  The flash begins
\* with a notification of its own.
ChildSend ==
  /\ child = "fork" /\ other = "none"
  /\ child' = "send"
  /\ flash' = "running"
  /\ Notify(Msg("BEGIN", TRUE))
  /\ UNCHANGED <<fset, other, left, answer, pipe, parent, ctx>>

\* The request cannot be sent.
ChildSendFails ==
  /\ child = "fork"
  /\ child' = "failed"
  /\ UNCHANGED <<fset, flash, other, left, queue, answer, pipe, parent, ctx>>

\* What _mnlg_socket_send returned goes into the pipe.
ChildWrite ==
  /\ child \in {"send", "failed"} /\ flash # "running"
  /\ child' = "write"
  /\ pipe' = [pipe EXCEPT !.data = TRUE, !.err = child = "failed"]
  /\ UNCHANGED <<fset, flash, other, left, queue, answer, parent, ctx>>

ChildExit ==
  /\ child = "write"
  /\ child' = "gone"
  /\ pipe' = [pipe EXCEPT !.open = FALSE]
  /\ UNCHANGED <<fset, flash, other, left, queue, answer, parent, ctx>>

ChildKilled ==
  /\ fset.kill /\ child \in {"fork", "send", "failed"} /\ flash # "running"
  /\ child' = "gone"
  /\ pipe' = [pipe EXCEPT !.open = FALSE]
  /\ UNCHANGED <<fset, flash, other, left, queue, answer, parent, ctx>>

----------------------------------------------------------------------------
(* The parent.                                                             *)

\* cmd_dev_flash_fds_process: select.
ReadyFds == (IF queue.msgs # <<>> \/ queue.lost THEN {"nlfd"} ELSE {})
            \cup (IF pipe.data \/ ~pipe.open THEN {"pipe_r"} ELSE {})

Select ==
  /\ parent.pc = "select" /\ ReadyFds # {}
  /\ parent' = [parent EXCEPT !.pc = "nlfd", !.fds = ReadyFds]
  /\ UNCHANGED <<fset, flash, other, left, queue, answer, child, pipe, ctx>>

Leave(ret) == parent' = [pc |-> "returned", fds |-> {}, ret |-> ret]

\* cmd_dev_flash_status_cb, for a message of this device.  The end message frees last_msg
\* and last_component and leaves the pointers as they are.
StatusCb(m) ==
  CASE m.type = "END" -> [ctx EXCEPT !.received_end = TRUE,
                                     !.last = IF @ = "unset" THEN @ ELSE "freed"]
    [] m.type = "STATUS" -> [ctx EXCEPT !.not_first = TRUE, !.last = "set"]
    [] OTHER -> ctx

\* The next message of this device then reads them and frees them once more.
FreedAgain(m) == ctx.last = "freed" /\ m.type \in {"STATUS", "END"}

\* One notification is read; ENOBUFS ends the command.
ReadNotificationLossy ==
  /\ parent.pc = "nlfd" /\ "nlfd" \in parent.fds
  /\ IF queue.lost
     THEN queue' = [queue EXCEPT !.lost = FALSE] /\ UNCHANGED ctx
     ELSE ctx' = StatusCb(Head(queue.msgs)) /\ queue' = [queue EXCEPT !.msgs = Tail(@)]
  /\ parent' = [parent EXCEPT !.pc = "pipe_r"]
  /\ UNCHANGED <<fset, flash, other, left, answer, child, pipe>>
ReadNotification ==
  /\ parent.pc = "nlfd" /\ "nlfd" \in parent.fds
  /\ \/ /\ queue.lost
        /\ queue' = [queue EXCEPT !.lost = FALSE]
        /\ Leave("error")
        /\ UNCHANGED ctx
     \/ /\ ~queue.lost
        /\ queue' = [queue EXCEPT !.msgs = Tail(@)]
        /\ \/ /\ ctx' = StatusCb(Head(queue.msgs))
              /\ parent' = [parent EXCEPT !.pc = "pipe_r"]
           \/ /\ FreedAgain(Head(queue.msgs))
              /\ Leave("killed")
              /\ UNCHANGED ctx
  /\ UNCHANGED <<fset, flash, other, left, answer, child, pipe>>

NoNotification ==
  /\ parent.pc = "nlfd" /\ "nlfd" \notin parent.fds
  /\ parent' = [parent EXCEPT !.pc = "pipe_r"]
  /\ UNCHANGED <<fset, flash, other, left, queue, answer, child, pipe, ctx>>

\* while (!ctx.flash_done || (ctx.not_first && !ctx.received_end))
OnceMoreUntilDone(c) == ~c.flash_done
OnceMore(c) == ~c.flash_done \/ (c.not_first /\ ~c.received_end)

Loop(c) ==
  /\ ctx' = c
  /\ parent' = [parent EXCEPT !.pc = IF OnceMore(c) THEN "select" ELSE "answer"]

\* The pipe: the child's value, which ends the command if it is not 0, or the end of
\* the pipe.  There nothing is read and err2 is whatever it was: it has not been
\* initialized.
ReadPipe ==
  /\ parent.pc = "pipe_r"
  /\ IF "pipe_r" \notin parent.fds THEN Loop(ctx)
     ELSE \/ ~(pipe.data /\ pipe.err) /\ Loop([ctx EXCEPT !.flash_done = TRUE])
          \/ ~(pipe.data /\ ~pipe.err) /\ Leave("error") /\ UNCHANGED ctx
  /\ pipe' = IF "pipe_r" \in parent.fds THEN [pipe EXCEPT !.data = FALSE] ELSE pipe
  /\ UNCHANGED <<fset, flash, other, left, queue, answer, child>>

\* mnlu_gen_socket_recv_run(&dl->nlg): the acknowledgement.
ReadAnswerIgnored ==
  /\ parent.pc = "answer"
  /\ Leave("success")
  /\ answer' = "none"
  /\ UNCHANGED <<fset, flash, other, left, queue, child, pipe, ctx>>
ReadAnswer ==
  /\ parent.pc = "answer" /\ answer # "none"
  /\ Leave(IF answer = "good" THEN "success" ELSE "error")
  /\ answer' = "none"
  /\ UNCHANGED <<fset, flash, other, left, queue, child, pipe, ctx>>

----------------------------------------------------------------------------

FlashInit ==
  /\ fset \in FlashSetups
  /\ flash = "none"
  /\ other = IF fset.other THEN "running" ELSE "none"
  /\ left = MaxStatus
  /\ queue = [msgs |-> <<>>, lost |-> FALSE]
  /\ answer = "none"
  /\ child = "fork"
  /\ pipe = [data |-> FALSE, err |-> FALSE, open |-> TRUE]
  /\ parent = [pc |-> "select", fds |-> {}, ret |-> "none"]
  /\ ctx = [not_first |-> FALSE, received_end |-> FALSE, flash_done |-> FALSE,
             last |-> "unset"]

Parent == Select \/ ReadNotification \/ NoNotification \/ ReadPipe \/ ReadAnswer
Child == ChildSend \/ ChildWrite \/ ChildExit
Kernel == OtherEnds \/ FlashEnds
FlashNext == Parent \/ Child \/ Kernel \/ FlashStatus \/ Noise \/ ChildSendFails \/ ChildKilled

\* The two processes run, and the kernel finishes every flash.
FlashSpec == /\ FlashInit /\ [][FlashNext]_flashVars
             /\ WF_flashVars(Parent) /\ WF_flashVars(Child) /\ WF_flashVars(Kernel)

----------------------------------------------------------------------------
(* Properties.                                                             *)

\* The command reports success only when the device has been flashed: it does not
\* take the notifications of another flash, the end of the pipe or an early
\* wake-up for the acknowledgement of its own request.
FlashTruthful == parent.ret = "success" => flash = "good"

\* Once the command has shown a status message it shows them all before it reports
\* success, however the notifications and the pipe are timed, if nobody else flashes
\* the device.  (It may show none: if the pipe is ready by the time the begin message
\* is read, the loop ends with that round.)
StatusShown ==
  parent.ret = "success" /\ ~fset.other /\ ctx.not_first =>
    \A i \in DOMAIN queue.msgs : queue.msgs[i].type # "STATUS"

\* The command comes to its end, unless its child is killed before it has sent the
\* request: notifications that are lost or belong to others do not block it.
FlashReturns == ~fset.kill => <>(parent.pc = "returned")

=============================================================================
