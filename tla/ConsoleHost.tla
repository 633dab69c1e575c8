----------------------------- MODULE ConsoleHost -----------------------------
(***************************************************************************)
(* The console of a process (linkrpc-infra, console/consoleHost.ts): its   *)
(* output goes to a bounded history and to every attachment.  An           *)
(* attachment first replays the history, which may take a while to be      *)
(* read, and then goes on with what was output since it was made.          *)
(* Outputs and notices are numbered; the replay is of the newest ones.     *)
(***************************************************************************)
EXTENDS Naturals, Sequences

CONSTANTS
    Attachment,   \* the calls of attach
    MaxOutput,    \* bound: outputs and notices
    MaxHistory,   \* the budget of the history, in outputs
    MaxRun        \* bound: processes started

ASSUME ConsoleAssumption == {MaxOutput, MaxHistory, MaxRun} \subseteq Nat /\ MaxHistory > 0

VARIABLE console

(***************************************************************************)
(* pc is where a call of attach is: "snapshot" while the history is read,  *)
(* "live" while it waits for the end, "flush" while it waits for its sends.*)
(* snapshot is what is read, pending the queue of an attachment that is    *)
(* not live, chain what it has yet to send and sent what it has sent.      *)
(* due is how much of the chain flush() waits for.  attached are the       *)
(* members of _attachments, ended those told to end.                       *)
(***************************************************************************)
ConsoleInit ==
    console =
        [made |-> 0, history |-> << >>, runs |-> 0, running |-> FALSE, finished |-> FALSE, closed |-> FALSE,
         pc |-> [a \in Attachment |-> "none"], attached |-> {}, ended |-> {}, aborted |-> {},
         snapshot |-> [a \in Attachment |-> << >>], pending |-> [a \in Attachment |-> << >>],
         chain |-> [a \in Attachment |-> << >>], due |-> [a \in Attachment |-> 0], sent |-> [a \in Attachment |-> << >>]]

\* deliver, to every attachment: a live one sends, another one keeps it.
broadcast(c, m) ==
    [c EXCEPT !.pending = [a \in Attachment |-> IF a \in c.attached /\ c.pc[a] = "snapshot"
                                                THEN Append(@[a], m) ELSE @[a]],
              !.chain = [a \in Attachment |-> IF a \in c.attached /\ c.pc[a] # "snapshot"
                                              THEN Append(@[a], m) ELSE @[a]]]

\* The newest of the history, within its budget.
trimmed(s) == IF Len(s) > MaxHistory THEN Tail(s) ELSE s

\* finish: current attachments complete.
consoleFinished(c) == [c EXCEPT !.finished = TRUE, !.ended = @ \cup c.attached]

\* flush waits for what is in the chain at this moment.
flushing(c, a) == [c EXCEPT !.pc[a] = "flush", !.due[a] = Len(c.chain[a])]

-----------------------------------------------------------------------------
ConsoleOutput ==
    /\ console.made < MaxOutput /\ ~console.closed
    /\ LET m == console.made + 1
       IN  console' = broadcast([console EXCEPT !.made = m, !.history = trimmed(Append(@, m))], m)

ConsoleStarted ==
    /\ ~console.running /\ ~console.closed /\ console.runs < MaxRun
    /\ console' = [console EXCEPT !.running = TRUE, !.finished = FALSE, !.runs = @ + 1]

ConsoleExited ==
    /\ console.running
    /\ console' = [console EXCEPT !.running = FALSE]

ConsoleFinish ==
    /\ ~console.running /\ ~console.finished
    /\ console' = consoleFinished(console)

\* Mutant: close forgets the attachments.
ConsoleClose_silent ==
    /\ ~console.closed
    /\ console' = [console EXCEPT !.closed = TRUE, !.finished = TRUE]

ConsoleClose ==
    /\ ~console.closed
    /\ console' = consoleFinished([console EXCEPT !.closed = TRUE])

\* attach: registration and the call of snapshot happen in one turn.
Attaches(a) ==
    /\ console.pc[a] = "none"
    /\ console' = IF console.closed THEN [console EXCEPT !.pc[a] = "over"]
                  ELSE [console EXCEPT !.pc[a] = "snapshot", !.attached = @ \cup {a},
                                       !.snapshot[a] = console.history]

\* Mutant: what was output in the meantime goes first.
GoesLive_pendingFirst(a) ==
    /\ console.pc[a] = "snapshot"
    /\ LET c == [console EXCEPT !.chain[a] = console.pending[a] \o console.snapshot[a], !.pending[a] = << >>]
       IN  console' = IF console.finished THEN flushing(c, a) ELSE [c EXCEPT !.pc[a] = "live"]

\* goLive: the replay, then what was output in the meantime.
GoesLive(a) ==
    /\ console.pc[a] = "snapshot"
    /\ LET c == [console EXCEPT !.chain[a] = console.snapshot[a] \o console.pending[a], !.pending[a] = << >>]
       IN  console' = IF console.finished THEN flushing(c, a) ELSE [c EXCEPT !.pc[a] = "live"]

AttachmentEnds(a) ==
    /\ console.pc[a] = "live" /\ a \in console.ended \cup console.aborted
    /\ console' = flushing(console, a)

AttachmentSends(a) ==
    /\ console.chain[a] # << >>
    /\ console' = [console EXCEPT !.chain[a] = Tail(@), !.sent[a] = Append(@, Head(console.chain[a])),
                                  !.due[a] = IF @ > 0 THEN @ - 1 ELSE 0]

\* attach returns; what was put in the chain since is not sent any more.
AttachReturns(a) ==
    /\ console.pc[a] = "flush"
    /\ console.due[a] = 0 \/ a \in console.aborted
    /\ console' = [console EXCEPT !.pc[a] = "over", !.attached = @ \ {a}, !.chain[a] = << >>, !.due[a] = 0]

\* The caller cancels.
AttachmentAborts(a) ==
    /\ a \in console.attached \ console.aborted
    /\ console' = [console EXCEPT !.aborted = @ \cup {a}]

ConsoleStep(a) == GoesLive(a) \/ AttachmentEnds(a) \/ AttachmentSends(a) \/ AttachReturns(a)

ConsoleNext ==
    \/ ConsoleOutput
    \/ ConsoleStarted
    \/ ConsoleExited
    \/ ConsoleFinish
    \/ ConsoleClose
    \/ \E a \in Attachment : Attaches(a) \/ ConsoleStep(a) \/ AttachmentAborts(a)

ConsoleSpec == ConsoleInit /\ [][ConsoleNext]_console

\* The history is read and messages are sent, one way or the other.
ConsoleLiveSpec == ConsoleSpec /\ \A a \in Attachment : WF_console(ConsoleStep(a))

-----------------------------------------------------------------------------
\* An attachment misses nothing and gets nothing twice: what it was and will be sent
\* is a run of consecutive outputs, in order, up to the newest one, however output
\* interleaves with the reading of the history.
NoReplayGap ==
    \A a \in Attachment :
        LET s == console.sent[a] \o console.chain[a] \o
                 (IF console.pc[a] = "snapshot" THEN console.snapshot[a] \o console.pending[a] ELSE << >>)
        IN  /\ \A n \in 1..Len(s) : s[n] = s[1] + n - 1
            /\ a \in console.attached /\ s # << >> => s[Len(s)] = console.made

\* When the process is over for good (the endpoint is removed), every call of attach
\* returns, and with it run().
CloseEndsAttachments ==
    console.closed ~> \A a \in Attachment : console.pc[a] \in {"none", "over"}

\* An attachment gets the whole output from where it starts, and its end.
ConsoleIsComplete == []NoReplayGap /\ CloseEndsAttachments
=============================================================================
