--------------------------- MODULE GuardedCommand ----------------------------
(***************************************************************************)
(* The command of one guarded run: the choice of a backend (_select_backend *)
(* in guarded_runner.py, select_execution_backend in execution_backend.py), *)
(* and the supervision of the processes it starts.  The local and the       *)
(* developer Bubblewrap backend use _run_subprocess (guarded_runner.py),    *)
(* production uses run_bounded_process (production_containment.py), with a  *)
(* reader thread for each stream.  POSIX only.                              *)
(*                                                                          *)
(*   choosing -> waiting -> stopping -> termed -> forcing -> killed         *)
(*     -> draining -> done                       (_run_subprocess)          *)
(*     -> joining -> closing -> done             (run_bounded_process)      *)
(*                                                                          *)
(* The tree has a leader, which is bwrap itself in a sandbox, a child in    *)
(* the group of the leader and a stray that left the group (setsid).        *)
(***************************************************************************)
EXTENDS Naturals

CONSTANTS
    Hosts,      \* what the probes of a host find
    Limit,      \* limits.max_output_bytes, in units
    Chunk,      \* the size of a read, in the same units
    MaxUnits    \* bound: output of the tree on each stream

ASSUME CommandAssumption ==
    /\ Limit \in Nat \ {0} /\ Chunk \in Nat \ {0} /\ MaxUnits \in Nat

Host == [linux: BOOLEAN, bwrap: BOOLEAN, helper: BOOLEAN, systemd: BOOLEAN,
         container: BOOLEAN, eligible: BOOLEAN]

Kin == {"leader", "child", "stray"}
Streams == {"out", "err"}

VARIABLES
    call,      \* the caller: backend, pc, and what the result will say
    kin,       \* [Kin -> {"absent", "running", "zombie", "gone"}]
    doomed,    \* processes with a deadly signal on its way
    deaf,      \* processes that ignore SIGTERM
    holders,   \* processes that hold the ends of the pipes
    code,      \* how the leader ended
    written,   \* [Streams -> units written]
    capture    \* [Streams -> the reader thread and its _StreamCapture]

treeVars == <<kin, doomed, deaf, holders, code, written>>
commandVars == <<call, treeVars, capture>>

NoCall == [backend |-> "none", pc |-> "choosing", timedOut |-> FALSE,
           signal |-> "none", warned |-> FALSE]

CommandInit ==
    /\ call = NoCall
    /\ kin = [k \in Kin |-> "absent"]
    /\ doomed = {} /\ deaf = {} /\ holders = {}
    /\ code = "none"
    /\ written = [s \in Streams |-> 0]
    /\ capture = [s \in Streams |-> [reader |-> "reading", hand |-> 0, total |-> 0,
                                     retained |-> 0, truncated |-> FALSE]]

----------------------------------------------------------------------------
\* The backend.

\* select_execution_backend: the first that is available, in this order.
SelectExecutionBackend(host, unsafe) ==
    IF unsafe THEN "unsafe_local"
    ELSE IF host.linux /\ host.bwrap THEN "linux_bubblewrap"
    ELSE IF host.linux /\ host.helper THEN "linux_bubblewrap_helper"
    ELSE IF host.linux /\ host.systemd THEN "linux_systemd_user"
    ELSE IF host.container THEN "configured_container"
    ELSE "error"

\* _select_backend: production accepts only a verified Bubblewrap.
SelectBackend(host, production, unsafe) ==
    IF ~production THEN SelectExecutionBackend(host, unsafe)
    ELSE IF unsafe \/ ~host.eligible THEN "error"
    ELSE "linux_bubblewrap"

\* _command_backend_for: two of them can run a command.
CommandBackendFor(name, production) ==
    IF name = "linux_bubblewrap" THEN IF production THEN "production" ELSE "bubblewrap"
    ELSE IF name = "unsafe_local" THEN "local"
    ELSE "none"

Sandboxed == call.backend \in {"bubblewrap", "production"}

\* What killpg reaches.  Production puts the command in a session of its own.
Group == IF call.backend = "production" THEN {"leader"} ELSE {"leader", "child"}

Running(k) == kin[k] = "running"

At(p) == call.pc = p
Go(from, to) == At(from) /\ call' = [call EXCEPT !.pc = to]
Warn(from, to) == At(from) /\ call' = [call EXCEPT !.pc = to, !.warned = TRUE]

\* Selection, then the start of the process.  A backend that is missing, not
\* implemented or cannot start the process ends the run without a command.
StartCommand ==
    /\ At("choosing")
    /\ \E host \in Hosts, production, unsafe \in BOOLEAN :
         LET b == CommandBackendFor(SelectBackend(host, production, unsafe), production)
         IN \/ /\ b # "none"
               /\ call' = [call EXCEPT !.backend = b, !.pc = "waiting"]
               /\ kin' = [kin EXCEPT !["leader"] = "running"]
               /\ holders' = {"leader"}
               /\ deaf' \in IF b = "local" THEN SUBSET {"leader"} ELSE {{}}
            \/ /\ call' = [call EXCEPT !.backend = b, !.pc = "raised"]
               /\ UNCHANGED <<kin, holders, deaf>>
    /\ UNCHANGED <<doomed, code, written, capture>>

----------------------------------------------------------------------------
\* The processes of the command.

\* fork does not pass a pending signal by.
Spawn(k) ==
    /\ kin[k] = "absent" /\ Running("leader") /\ "leader" \notin doomed
    /\ kin' = [kin EXCEPT ![k] = "running"]
    /\ holders' \in {holders, holders \cup {k}}
    /\ deaf' \in {deaf, deaf \cup {k}}
    /\ UNCHANGED <<call, doomed, code, written, capture>>

\* Only the bounded capture of production looks at the amount.
WriteOutput(k, s) ==
    /\ Running(k) /\ k \in holders
    /\ call.backend = "production"
    /\ written[s] < MaxUnits
    /\ written' = [written EXCEPT ![s] = @ + 1]
    /\ UNCHANGED <<call, kin, doomed, deaf, holders, code, capture>>

\* A process ends; the leader stays a zombie until its parent waits for it.
End(k, how) ==
    /\ Running(k)
    /\ kin' = [kin EXCEPT ![k] = IF k = "leader" THEN "zombie" ELSE "gone"]
    /\ code' = IF k = "leader" THEN how ELSE code
    /\ holders' = holders \ {k}
    /\ doomed' = doomed \ {k}
    /\ deaf' = deaf \ {k}
    /\ UNCHANGED <<call, written, capture>>

\* By itself; bwrap and the resource launcher exit with the status of the
\* command, or with one of their own when the sandbox cannot be set up.
Exits(k) == \E how \in {"zero", "nonzero", "setup"} : (how = "setup" => Sandboxed) /\ End(k, how)

Dies(k) == k \in doomed /\ End(k, "signal")

\* Fault: the sandbox outlives its parent.
SandboxStays(k) == FALSE /\ UNCHANGED commandVars

\* --die-with-parent and --unshare-pid: the sandbox falls with its bwrap.
SandboxFalls(k) == Sandboxed /\ ~Running("leader") /\ End(k, "signal")

\* A signal to the group, or the OSError of killpg, which leaves a message.
Signal(targets, from, to) ==
    \/ /\ Go(from, to)
       /\ doomed' = doomed \cup {k \in targets \cap Group : Running(k)}
    \/ Warn(from, to) /\ UNCHANGED doomed

----------------------------------------------------------------------------
\* Reader threads (_capture_stream).

EOF == holders = {}

Unread(s) == written[s] - capture[s].total - capture[s].hand

\* A buffered read returns a full chunk, or what is left at the end.
ReadyToRead(s) == Unread(s) >= Chunk \/ EOF

ReadChunk(s) ==
    /\ call.backend = "production" /\ ~At("choosing")
    /\ capture[s].reader = "reading"
    /\ ReadyToRead(s)
    /\ LET n == IF Unread(s) >= Chunk THEN Chunk ELSE Unread(s)
       IN capture' = [capture EXCEPT ![s].hand = n,
                                     ![s].reader = IF n = 0 THEN "ended" ELSE "noting"]
    /\ UNCHANGED <<call, treeVars>>

\* Keeps what fits below the limit and counts the rest.  A stream that has
\* been closed meanwhile ends the thread.
NoteChunk(s) ==
    /\ capture[s].reader = "noting"
    /\ LET c == capture[s]
           room == Limit - c.retained
           n == IF c.hand < room THEN c.hand ELSE room
           total == c.total + c.hand
       IN capture' = [capture EXCEPT ![s] =
              [reader |-> IF At("done") \/ At("raised") THEN "ended" ELSE "reading",
               hand |-> 0, total |-> total, retained |-> c.retained + n,
               truncated |-> c.truncated \/ total > Limit]]
    /\ UNCHANGED <<call, treeVars>>

----------------------------------------------------------------------------
\* The caller.

\* poll and wait collect the status of a leader that has ended.
Reap == kin["leader"] # "running" /\ kin' = [kin EXCEPT !["leader"] = "gone"]

Supervised == call.backend # "production"

\* A signal handler goes on to the previous handler, which raises or, where
\* the signal was ignored, returns to the wait.
AfterKill ==
    IF ~Supervised THEN "joining"
    ELSE IF call.timedOut THEN "draining"
    ELSE IF call.signal = "raises" THEN "raised"
    ELSE "waiting"

\* process.wait, or communicate, which waits for the end of the streams too.
CommandEnds ==
    /\ Supervised => EOF
    /\ Go("waiting", IF Supervised THEN "done" ELSE "joining")
    /\ Reap
    /\ UNCHANGED <<doomed, deaf, holders, code, written, capture>>

TimeOut ==
    /\ At("waiting")
    /\ call' = [call EXCEPT !.pc = "stopping", !.timedOut = TRUE]
    /\ UNCHANGED <<treeVars, capture>>

\* SIGINT or SIGTERM at Rygnal: _temporary_process_signal_cleanup stops the
\* tree; run_bounded_process has only its finally block.
Interrupt ==
    /\ At("waiting") /\ call.signal = "none"
    /\ \E how \in IF Supervised THEN {"raises", "returns"} ELSE {"raises"} :
          call' = [call EXCEPT !.pc = IF Supervised THEN "stopping" ELSE "joining",
                               !.signal = how]
    /\ UNCHANGED <<treeVars, capture>>

\* The polite signal, unless the leader has ended by now.  The process group
\* exists: the leader is not reaped before.
Terminate ==
    /\ \/ /\ Go("stopping", IF Supervised THEN "forcing" ELSE "joining")
          /\ Reap /\ UNCHANGED doomed
       \/ /\ Running("leader")
          /\ Signal(Kin \ deaf, "stopping", "termed")
          /\ UNCHANGED kin
    /\ UNCHANGED <<deaf, holders, code, written, capture>>

\* Fault: a leader that obeyed settles the matter.
GraceTrusting ==
    /\ \/ Go("termed", AfterKill) /\ Reap
       \/ Go("termed", "forcing") /\ Running("leader") /\ UNCHANGED kin
    /\ UNCHANGED <<doomed, deaf, holders, code, written, capture>>

\* The grace period.  _terminate_process_tree returns when the leader obeys;
\* _terminate_guarded_process_tree goes on in every case.
Grace ==
    /\ \/ Go("termed", IF Supervised THEN "forcing" ELSE "joining") /\ Reap
       \/ Go("termed", "forcing") /\ Running("leader") /\ UNCHANGED kin
    /\ UNCHANGED <<doomed, deaf, holders, code, written, capture>>

ForceKill ==
    /\ Signal(Kin, "forcing", "killed")
    /\ UNCHANGED <<kin, deaf, holders, code, written, capture>>

\* "did not exit after force-kill".
AwaitKilled ==
    /\ \/ Go("killed", AfterKill) /\ Reap
       \/ Warn("killed", AfterKill) /\ Running("leader") /\ UNCHANGED kin
    /\ UNCHANGED <<doomed, deaf, holders, code, written, capture>>

\* _drain_guarded_process_output: the rest, or what there is, with a warning.
Drain ==
    /\ \/ Go("draining", "done") /\ EOF /\ Reap
       \/ Warn("draining", "done") /\ UNCHANGED kin
    /\ UNCHANGED <<doomed, deaf, holders, code, written, capture>>

\* Fault: the readers are not waited for.
SkipJoin ==
    /\ Go("joining", "closing")
    /\ UNCHANGED <<treeVars, capture>>

\* A sandbox without its leader falls within the grace period, and a thread
\* that can run does.
Blocked(s) == capture[s].reader = "reading" /\ ~ReadyToRead(s) /\ Running("leader")

JoinReaders ==
    /\ \A s \in Streams : capture[s].reader = "ended" \/ Blocked(s)
    /\ Go("joining", "closing")
    /\ UNCHANGED <<treeVars, capture>>

\* Closing a stream waits for a read in progress, and then wins or loses
\* against the next one.
CloseStreams ==
    /\ Go("closing", IF call.signal = "raises" THEN "raised" ELSE "done")
    /\ \A s \in Streams : capture[s].reader # "reading"
    /\ UNCHANGED <<treeVars, capture>>

ReaderStep(s) == ReadChunk(s) \/ NoteChunk(s)

CallerStep ==
    \/ StartCommand \/ CommandEnds \/ TimeOut \/ Terminate \/ Grace \/ ForceKill
    \/ AwaitKilled \/ Drain \/ JoinReaders \/ CloseStreams

TreeStep(k) ==
    \/ (k # "leader" /\ Spawn(k)) \/ (\E s \in Streams : WriteOutput(k, s))
    \/ Exits(k) \/ Dies(k) \/ SandboxFalls(k)

CommandNext ==
    \/ CallerStep \/ Interrupt
    \/ \E k \in Kin : TreeStep(k)
    \/ \E s \in Streams : ReaderStep(s)

\* Time passes and threads run, a deadly signal kills and the kernel tears the
\* sandbox down.  Nothing makes a command end.
CommandSpec ==
    /\ CommandInit /\ [][CommandNext]_commandVars
    /\ WF_commandVars(CallerStep)
    /\ \A s \in Streams : WF_commandVars(ReaderStep(s))
    /\ \A k \in Kin : WF_commandVars(Dies(k)) /\ WF_commandVars(SandboxFalls(k))

----------------------------------------------------------------------------

Kept(s) == IF written[s] < Limit THEN written[s] ELSE Limit

\* A result without a warning is true: unless it reports a timeout the status
\* of the leader has been collected, and the bounded output is all that the
\* tree wrote, or exactly the limit of it and reported as truncated, whatever
\* the order in which processes end, threads read and waits expire.
CommandResultIsTrue ==
    At("done") /\ ~call.warned =>
        /\ ~call.timedOut => kin["leader"] = "gone"
        /\ call.backend = "production" =>
              \A s \in Streams : /\ capture[s].retained = Kept(s)
                                 /\ capture[s].truncated <=> written[s] > Limit

\* A command that was stopped, by its timeout or, except in production, by a
\* signal to Rygnal, leaves
\* nothing of its group behind, and in a sandbox nothing at all, or a warning
\* says so.  Otherwise it would write to the workspace while the patch is
\* collected.
StoppedTreeIsDead ==
    /\ At("done") \/ At("raised")
    /\ call.timedOut \/ (Supervised /\ call.signal # "none")
    /\ ~call.warned
    =>
        /\ \A k \in Group : Running(k) => k \in doomed
        /\ Sandboxed => ~Running("leader")

\* The supervision of a command ends, even if a process keeps the pipes open
\* for ever.  The exception is production after an interrupt or a failed kill:
\* closing the streams then waits for a command that nobody stops.
SupervisionEnds ==
    At("waiting") ~> \/ At("done") \/ At("raised")
                     \/ call.backend = "production" /\ Running("leader")
                        /\ (call.signal # "none" \/ call.warned)

=============================================================================
