------------------------ MODULE GuardedCommandProofs -------------------------
(***************************************************************************)
(* Proofs about GuardedCommand, for every host, every limit and size of a   *)
(* read, and any amount of output.                                          *)
(***************************************************************************)
EXTENDS GuardedCommand, TLAPS

Backends == {"none", "local", "bubblewrap", "production"}

CallerPC == {"choosing", "waiting", "stopping", "termed", "forcing", "killed", "draining",
             "joining", "closing", "done", "raised"}

Reactions == {"none", "raises", "returns"}

CallState == [backend: Backends, pc: CallerPC, timedOut: BOOLEAN, signal: Reactions,
              warned: BOOLEAN]

Life == {"absent", "running", "zombie", "gone"}

Readers == {"reading", "noting", "ended"}

CaptureState == [reader: Readers, hand: Nat, total: Nat, retained: Nat, truncated: BOOLEAN]

TreeTyped ==
    /\ kin \in [Kin -> Life]
    /\ doomed \subseteq Kin /\ deaf \subseteq Kin /\ holders \subseteq Kin
    /\ written \in [Streams -> Nat]

CommandTyped ==
    /\ call \in CallState
    /\ TreeTyped
    /\ capture \in [Streams -> CaptureState]

\* What a reader thread has noted: the amount, what is kept of it, and whether
\* that is everything; what it has in hand comes on top.
CaptureInv ==
    \A s \in Streams :
        /\ capture[s].total + capture[s].hand <= written[s]
        /\ capture[s].reader = "reading" => capture[s].hand = 0
        /\ capture[s].retained = IF capture[s].total < Limit THEN capture[s].total ELSE Limit
        /\ capture[s].truncated <=> capture[s].total > Limit

\* The leader keeps its ends of the pipes as long as it runs.
LeaderHolds == kin["leader"] = "running" => "leader" \in holders

\* A stream has been read to its end, and nobody can write to it any more.
Complete(s) ==
    /\ capture[s].reader = "ended"
    /\ capture[s].hand = 0
    /\ capture[s].total = written[s]
    /\ holders = {}

\* A reader thread of a call that is not over ends at the end of its stream,
\* and production closes the streams behind threads that have ended, unless
\* it has to leave a command alone that nobody stopped.
ReaderInv ==
    /\ call.pc = "choosing" =>
           /\ call = NoCall /\ kin["leader"] = "absent"
           /\ \A s \in Streams : capture[s].reader = "reading"
    /\ call.pc \notin {"done", "raised"} =>
           \A s \in Streams : capture[s].reader = "ended" => Complete(s)
    /\ call.backend = "production" /\ call.pc \in {"closing", "done"}
           /\ ~call.warned /\ call.signal = "none" => \A s \in Streams : Complete(s)

\* Everything of the group that runs has its death before it.
GroupDoomed ==
    \A k \in {"leader", "child"} : kin[k] = "running" => k \in doomed

Stopped == call.timedOut \/ call.signal # "none"

\* _terminate_guarded_process_tree, with everything between the signals.
SupervisedInv ==
    call.backend # "production" /\ ~call.warned =>
        /\ call.pc = "killed" => GroupDoomed
        /\ call.pc = "draining" \/ (call.pc \in {"waiting", "done", "raised"} /\ Stopped)
               => GroupDoomed /\ kin["leader"] # "running"
        /\ call.pc = "done" => call.timedOut \/ kin["leader"] = "gone"

\* run_bounded_process: before it joins its threads it has the status of the
\* leader, unless a signal at Rygnal took it out of its wait.
ProductionInv ==
    call.backend = "production" /\ ~call.warned =>
        /\ call.pc \in {"joining", "closing"} /\ call.signal = "none" => kin["leader"] = "gone"
        /\ call.pc = "done" => kin["leader"] = "gone"
        /\ call.pc = "raised" /\ call.timedOut => kin["leader"] = "gone"

CallInv ==
    /\ call.backend = "production" => call.signal # "returns"
    /\ call.backend = "production" /\ call.signal # "none" => ~call.timedOut
    /\ call.backend = "production" /\ call.pc = "done" => call.signal = "none"
    /\ call.backend = "production" /\ call.signal # "none" => call.pc \in {"joining", "closing", "raised"}
    /\ call.pc = "waiting" => ~call.timedOut
    /\ call.pc = "draining" => call.timedOut /\ call.backend # "production"
    /\ call.pc \in {"joining", "closing"} => call.backend = "production"
    /\ call.pc # "choosing" => call.backend # "none" \/ call.pc = "raised"

CommandInv ==
    /\ CommandTyped /\ CaptureInv /\ LeaderHolds /\ ReaderInv
    /\ SupervisedInv /\ ProductionInv /\ CallInv

----------------------------------------------------------------------------
\* The processes of the command

LEMMA EndFacts ==
    ASSUME TreeTyped, NEW k \in Kin, NEW how, End(k, how)
    PROVE  /\ TreeTyped'
           /\ kin[k] = "running" /\ kin'[k] # "running" /\ kin'[k] # "absent"
           /\ \A j \in Kin \ {k} : kin'[j] = kin[j]
           /\ holders' = holders \ {k} /\ doomed' = doomed \ {k}
           /\ UNCHANGED <<call, written, capture>>
  <1>1. PICK e \in {"zombie", "gone"} : kin' = [kin EXCEPT ![k] = e]
    BY DEF End
  <1>2. kin' \in [Kin -> Life]
    BY <1>1 DEF TreeTyped, Life
  <1>3. QED
    BY <1>1, <1>2 DEF End, TreeTyped, Running

\* What a step of a process can do: nobody rises again, the dead hold nothing,
\* and once nobody holds the pipes nothing is written.
LEMMA TreeFacts ==
    ASSUME TreeTyped, LeaderHolds, NEW k \in Kin, TreeStep(k)
    PROVE  /\ TreeTyped' /\ LeaderHolds'
           /\ UNCHANGED <<call, capture>>
           /\ kin'["leader"] = kin["leader"]
                 \/ (kin["leader"] = "running" /\ kin'["leader"] # "running" /\ kin'["leader"] # "absent")
           /\ \A s \in Streams : written'[s] >= written[s]
           /\ holders = {} => holders' = {} /\ written' = written
           /\ GroupDoomed => GroupDoomed'
  <1>1. ASSUME NEW how, End(k, how)
        PROVE  /\ TreeTyped' /\ LeaderHolds'
               /\ UNCHANGED <<call, capture>>
               /\ kin'["leader"] = kin["leader"]
                     \/ (kin["leader"] = "running" /\ kin'["leader"] # "running" /\ kin'["leader"] # "absent")
               /\ \A s \in Streams : written'[s] >= written[s]
               /\ holders = {} => holders' = {} /\ written' = written
               /\ GroupDoomed => GroupDoomed'
    <2>1. /\ TreeTyped'
          /\ kin[k] = "running" /\ kin'[k] # "running" /\ kin'[k] # "absent"
          /\ \A j \in Kin \ {k} : kin'[j] = kin[j]
          /\ holders' = holders \ {k} /\ doomed' = doomed \ {k}
          /\ UNCHANGED <<call, written, capture>>
      BY <1>1, EndFacts
    <2>2. LeaderHolds'
      BY <2>1 DEF LeaderHolds, Kin
    <2>3. GroupDoomed => GroupDoomed'
      BY <2>1 DEF GroupDoomed, Kin
    <2>4. \A s \in Streams : written'[s] >= written[s]
      BY <2>1 DEF TreeTyped
    <2>5. QED
      BY <2>1, <2>2, <2>3, <2>4 DEF Kin
  <1>2. CASE k # "leader" /\ Spawn(k)
    <2>1. /\ kin[k] = "absent" /\ kin["leader"] = "running" /\ "leader" \notin doomed
          /\ kin' = [kin EXCEPT ![k] = "running"]
          /\ holders' \in {holders, holders \cup {k}}
          /\ deaf' \in {deaf, deaf \cup {k}}
          /\ UNCHANGED <<call, doomed, written, capture>>
      BY <1>2 DEF Spawn, Running
    <2>2. TreeTyped'
      BY <2>1 DEF TreeTyped, Life
    <2>3. kin'["leader"] = kin["leader"] /\ holders # {}
      BY <1>2, <2>1 DEF TreeTyped, LeaderHolds, Kin
    <2>4. ~GroupDoomed
      BY <2>1 DEF GroupDoomed
    <2>5. \A s \in Streams : written'[s] >= written[s]
      BY <2>1 DEF TreeTyped
    <2>6. QED
      BY <2>1, <2>2, <2>3, <2>4, <2>5 DEF LeaderHolds
  <1>3. ASSUME NEW s \in Streams, WriteOutput(k, s)
        PROVE  /\ TreeTyped' /\ LeaderHolds'
               /\ UNCHANGED <<call, capture, kin, doomed>>
               /\ \A t \in Streams : written'[t] >= written[t]
               /\ holders # {}
    BY <1>3 DEF WriteOutput, TreeTyped, LeaderHolds
  <1>4. QED
    BY <1>1, <1>2, <1>3 DEF TreeStep, Exits, Dies, SandboxFalls, GroupDoomed

LEMMA TreeKeepsInv ==
    ASSUME CommandInv, NEW k \in Kin, TreeStep(k)
    PROVE  CommandInv'
  <1>1. /\ TreeTyped' /\ LeaderHolds'
        /\ UNCHANGED <<call, capture>>
        /\ kin'["leader"] = kin["leader"]
              \/ (kin["leader"] = "running" /\ kin'["leader"] # "running" /\ kin'["leader"] # "absent")
        /\ \A s \in Streams : written'[s] >= written[s]
        /\ holders = {} => holders' = {} /\ written' = written
        /\ GroupDoomed => GroupDoomed'
    BY TreeFacts DEF CommandInv, CommandTyped
  <1>2. CommandTyped'
    BY <1>1 DEF CommandInv, CommandTyped
  <1>3. CaptureInv'
    <2>1. \A s \in Streams : /\ capture[s].total \in Nat /\ capture[s].hand \in Nat
                             /\ written[s] \in Nat /\ written'[s] \in Nat
      BY <1>1 DEF CommandInv, CommandTyped, TreeTyped, CaptureState
    <2>2. \A s \in Streams : capture[s].total + capture[s].hand <= written'[s]
      BY <1>1, <2>1 DEF CommandInv, CaptureInv
    <2>3. QED
      BY <1>1, <2>2 DEF CommandInv, CaptureInv
  <1>4. \A s \in Streams : Complete(s) => Complete(s)'
    BY <1>1 DEF Complete
  <1>5. ReaderInv'
    <2>1. kin["leader"] = "absent" => kin'["leader"] = "absent"
      BY <1>1
    <2>2. QED
      BY <1>1, <1>4, <2>1 DEF CommandInv, ReaderInv
  <1>6. SupervisedInv' /\ ProductionInv' /\ CallInv'
    BY <1>1 DEF CommandInv, SupervisedInv, ProductionInv, CallInv, Stopped
  <1>7. QED
    BY <1>1, <1>2, <1>3, <1>5, <1>6 DEF CommandInv

----------------------------------------------------------------------------
\* The reader threads

\* The numbers of a reader thread, in one place for the arithmetic.
LEMMA CaptureFacts ==
    ASSUME CommandInv, NEW s \in Streams
    PROVE  /\ capture[s] \in CaptureState
           /\ capture[s].total \in Nat /\ capture[s].hand \in Nat /\ capture[s].retained \in Nat
           /\ written[s] \in Nat
           /\ capture[s].total + capture[s].hand <= written[s]
           /\ capture[s].reader = "reading" => capture[s].hand = 0
           /\ capture[s].retained = IF capture[s].total < Limit THEN capture[s].total ELSE Limit
           /\ capture[s].truncated <=> capture[s].total > Limit
           /\ capture[s].truncated \in BOOLEAN
           /\ Limit \in Nat \ {0} /\ Chunk \in Nat \ {0}
  <1>1. capture[s] \in CaptureState /\ written[s] \in Nat
    BY DEF CommandInv, CommandTyped, TreeTyped
  <1>2. QED
    BY <1>1, CommandAssumption DEF CommandInv, CaptureInv, CaptureState

\* Whatever a thread does to its own capture, the rest of the invariant needs
\* only that a thread that has ended before stays as it was, and that one that
\* ends has read everything or comes too late.
LEMMA ReaderKeepsInv ==
    ASSUME CommandInv, NEW s \in Streams, NEW c \in CaptureState,
           capture' = [capture EXCEPT ![s] = c], UNCHANGED <<call, treeVars>>,
           capture[s].reader # "ended", ~At("choosing"),
           c.total + c.hand <= written[s],
           c.reader = "reading" => c.hand = 0,
           c.retained = IF c.total < Limit THEN c.total ELSE Limit,
           c.truncated <=> c.total > Limit,
           c.reader = "ended" => \/ At("done") \/ At("raised")
                                 \/ c.hand = 0 /\ c.total = written[s] /\ holders = {}
    PROVE  CommandInv'
  <1>1. /\ capture \in [Streams -> CaptureState]
        /\ UNCHANGED <<call, kin, doomed, deaf, holders, code, written>>
    BY DEF CommandInv, CommandTyped, treeVars
  <1>2. capture'[s] = c /\ \A t \in Streams \ {s} : capture'[t] = capture[t]
    BY <1>1
  <1>3. CommandTyped'
    BY <1>1 DEF CommandInv, CommandTyped, TreeTyped
  <1>4. CaptureInv'
    <2>1. SUFFICES ASSUME NEW t \in Streams
          PROVE  /\ capture'[t].total + capture'[t].hand <= written[t]
                 /\ capture'[t].reader = "reading" => capture'[t].hand = 0
                 /\ capture'[t].retained = IF capture'[t].total < Limit THEN capture'[t].total ELSE Limit
                 /\ capture'[t].truncated <=> capture'[t].total > Limit
      BY <1>1 DEF CaptureInv
    <2>2. CASE t = s
      BY <1>2, <2>2
    <2>3. CASE t # s
      BY <1>2, <2>3 DEF CommandInv, CaptureInv
    <2>4. QED
      BY <2>2, <2>3
  <1>5. ~Complete(s)
    BY DEF Complete
  <1>6. ReaderInv'
    <2>1. \A t \in Streams \ {s} : Complete(t) => Complete(t)'
      BY <1>1, <1>2 DEF Complete
    <2>2. call.pc \notin {"done", "raised"} /\ c.reader = "ended" => Complete(s)'
      BY <1>1, <1>2 DEF Complete, At
    <2>3. QED
      BY <1>1, <1>2, <1>5, <2>1, <2>2 DEF CommandInv, ReaderInv, At
  <1>7. LeaderHolds' /\ SupervisedInv' /\ ProductionInv' /\ CallInv'
    BY <1>1 DEF CommandInv, LeaderHolds, SupervisedInv, ProductionInv, CallInv, Stopped, GroupDoomed
  <1>8. QED
    BY <1>3, <1>4, <1>6, <1>7 DEF CommandInv

\* A read takes a whole chunk, or the rest when nobody can write any more;
\* nothing at all is the end of the stream.
LEMMA ReadKeepsInv ==
    ASSUME CommandInv, NEW s \in Streams, ReadChunk(s)
    PROVE  CommandInv'
  <1> DEFINE n == IF Unread(s) >= Chunk THEN Chunk ELSE Unread(s)
             r == IF n = 0 THEN "ended" ELSE "noting"
             c == [capture[s] EXCEPT !.hand = n, !.reader = r]
  <1>1. /\ ~At("choosing") /\ capture[s].reader = "reading" /\ ReadyToRead(s)
        /\ capture' = [capture EXCEPT ![s].hand = n, ![s].reader = r]
        /\ UNCHANGED <<call, treeVars>>
    BY DEF ReadChunk
  <1>2. capture[s].hand = 0 /\ Unread(s) \in Nat /\ Unread(s) = written[s] - capture[s].total
    BY <1>1, CaptureFacts DEF Unread
  <1>3. n \in Nat /\ capture[s].total + n <= written[s]
    BY <1>2, CaptureFacts
  <1>4. n = 0 => capture[s].total = written[s] /\ holders = {}
    BY <1>1, <1>2, CaptureFacts DEF ReadyToRead, EOF
  <1>5. r \in Readers /\ r # "reading" /\ (r = "ended" => n = 0)
    BY DEF Readers
  <1> HIDE DEF n, r
  <1>6. capture[s] \in CaptureState
    BY CaptureFacts
  <1>7. c \in CaptureState
    BY <1>3, <1>5, <1>6 DEF CaptureState
  <1>8. /\ c.hand = n /\ c.reader = r /\ c.total = capture[s].total
        /\ c.retained = capture[s].retained /\ c.truncated = capture[s].truncated
    BY <1>6 DEF CaptureState
  <1>9. capture' = [capture EXCEPT ![s] = c]
    <2>1. capture \in [Streams -> CaptureState]
      BY DEF CommandInv, CommandTyped
    <2>2. QED
      BY <1>1, <2>1
  <1>10. c.total + c.hand <= written[s] /\ (c.truncated <=> c.total > Limit)
    BY <1>3, <1>8, CaptureFacts
  <1>11. c.retained = IF c.total < Limit THEN c.total ELSE Limit
    BY <1>8, CaptureFacts
  <1>12. c.reader # "reading" /\ (c.reader = "ended" => c.hand = 0 /\ c.total = written[s] /\ holders = {})
    BY <1>4, <1>5, <1>8
  <1> HIDE DEF c
  <1>13. QED
    BY <1>1, <1>7, <1>9, <1>10, <1>11, <1>12, ReaderKeepsInv

\* A chunk that is noted leaves as much as fits below the limit.
LEMMA NoteKeepsInv ==
    ASSUME CommandInv, NEW s \in Streams, NoteChunk(s)
    PROVE  CommandInv'
  <1> DEFINE room == Limit - capture[s].retained
             n == IF capture[s].hand < room THEN capture[s].hand ELSE room
             total == capture[s].total + capture[s].hand
             r == IF At("done") \/ At("raised") THEN "ended" ELSE "reading"
             kept == capture[s].retained + n
             cut == capture[s].truncated \/ total > Limit
             c == [reader |-> r, hand |-> 0, total |-> total, retained |-> kept, truncated |-> cut]
  <1>1. /\ capture[s].reader = "noting"
        /\ capture' = [capture EXCEPT ![s] = c]
        /\ UNCHANGED <<call, treeVars>>
    BY DEF NoteChunk
  <1>2. total \in Nat /\ total <= written[s]
    BY CaptureFacts
  <1>3. kept = (IF total < Limit THEN total ELSE Limit) /\ kept \in Nat
    BY CaptureFacts
  <1>4. (cut <=> total > Limit) /\ cut \in BOOLEAN
    BY CaptureFacts
  <1>5. r \in Readers /\ (r = "ended" => At("done") \/ At("raised"))
    BY DEF Readers
  <1>6. ~At("choosing")
    BY <1>1 DEF CommandInv, ReaderInv, At
  <1> HIDE DEF total, r, kept, cut
  <1>7. c \in CaptureState
    BY <1>2, <1>3, <1>4, <1>5 DEF CaptureState
  <1>8. c.reader = r /\ c.hand = 0 /\ c.total = total /\ c.retained = kept /\ c.truncated = cut
    OBVIOUS
  <1>9. c.total + c.hand <= written[s]
    BY <1>2, <1>8, CaptureFacts
  <1> HIDE DEF c
  <1>10. QED
    BY <1>1, <1>3, <1>4, <1>5, <1>6, <1>7, <1>8, <1>9, ReaderKeepsInv

----------------------------------------------------------------------------
\* The caller

LEMMA GoFacts ==
    ASSUME call \in CallState, NEW from, NEW to \in CallerPC, Go(from, to)
    PROVE  /\ call.pc = from /\ call'.pc = to /\ call' \in CallState
           /\ call'.backend = call.backend /\ call'.timedOut = call.timedOut
           /\ call'.signal = call.signal /\ call'.warned = call.warned
  BY DEF Go, At, CallState

LEMMA WarnFacts ==
    ASSUME call \in CallState, NEW from, NEW to \in CallerPC, Warn(from, to)
    PROVE  /\ call.pc = from /\ call'.pc = to /\ call' \in CallState
           /\ call'.backend = call.backend /\ call'.timedOut = call.timedOut
           /\ call'.signal = call.signal /\ call'.warned = TRUE
  BY DEF Warn, At, CallState

LEMMA ReapFacts ==
    ASSUME TreeTyped, Reap
    PROVE  /\ kin' \in [Kin -> Life]
           /\ kin["leader"] # "running" /\ kin'["leader"] = "gone"
           /\ \A k \in Kin \ {"leader"} : kin'[k] = kin[k]
           /\ GroupDoomed /\ UNCHANGED doomed => GroupDoomed'
  <1>1. /\ kin' \in [Kin -> Life]
        /\ kin["leader"] # "running" /\ kin'["leader"] = "gone"
        /\ \A k \in Kin \ {"leader"} : kin'[k] = kin[k]
    BY DEF Reap, TreeTyped, Kin, Life
  <1>2. GroupDoomed /\ UNCHANGED doomed => GroupDoomed'
    BY <1>1 DEF GroupDoomed, Kin
  <1>3. QED
    BY <1>1, <1>2

\* A signal to the group: it reaches every target that runs, or a warning is
\* left.
LEMMA SignalFacts ==
    ASSUME CommandTyped, NEW targets, NEW from, NEW to \in CallerPC, Signal(targets, from, to)
    PROVE  /\ call.pc = from /\ call'.pc = to /\ call' \in CallState
           /\ call'.backend = call.backend /\ call'.timedOut = call.timedOut
           /\ call'.signal = call.signal
           /\ doomed' \subseteq Kin /\ doomed \subseteq doomed'
           /\ ~call'.warned => /\ ~call.warned
                               /\ \A k \in targets \cap Group : Running(k) => k \in doomed'
  <1>1. CASE Go(from, to) /\ doomed' = doomed \cup {k \in targets \cap Group : Running(k)}
    <2>1. Group \subseteq Kin
      BY DEF Group, Kin
    <2>2. QED
      BY <1>1, <2>1, GoFacts DEF CommandTyped, TreeTyped
  <1>2. CASE Warn(from, to) /\ UNCHANGED doomed
    BY <1>2, WarnFacts DEF CommandTyped, TreeTyped
  <1>3. QED
    BY <1>1, <1>2 DEF Signal

\* What a step of the caller leaves to the threads and the processes: it
\* starts and revives nobody, and touches neither pipes nor captures.
LEMMA CallerFrame ==
    ASSUME CommandInv, call' \in CallState, kin' \in [Kin -> Life], doomed' \subseteq Kin,
           UNCHANGED <<deaf, holders, written, capture>>,
           kin'["leader"] = kin["leader"] \/ kin'["leader"] = "gone",
           call.pc \notin {"choosing", "done", "raised"}, call'.pc # "choosing"
    PROVE  /\ CommandTyped' /\ CaptureInv' /\ LeaderHolds'
           /\ \A s \in Streams : Complete(s)' <=> Complete(s)
           /\ call'.pc \notin {"done", "raised"} =>
                  \A s \in Streams : capture'[s].reader = "ended" => Complete(s)'
           /\ \A s \in Streams : capture[s].reader = "ended" => Complete(s)
  <1>1. CommandTyped' /\ CaptureInv' /\ LeaderHolds'
    BY DEF CommandInv, CommandTyped, TreeTyped, CaptureInv, LeaderHolds
  <1>2. \A s \in Streams : Complete(s)' <=> Complete(s)
    BY DEF Complete
  <1>3. QED
    BY <1>1, <1>2 DEF CommandInv, ReaderInv

LEMMA StartKeepsInv ==
    ASSUME CommandInv, StartCommand
    PROVE  CommandInv'
  <1>1. PICK b \in Backends :
          /\ UNCHANGED <<doomed, written, capture>>
          /\ \/ /\ b # "none"
                /\ call' = [call EXCEPT !.backend = b, !.pc = "waiting"]
                /\ kin' = [kin EXCEPT !["leader"] = "running"]
                /\ holders' = {"leader"}
                /\ deaf' \subseteq Kin
             \/ /\ call' = [call EXCEPT !.backend = b, !.pc = "raised"]
                /\ UNCHANGED <<kin, holders, deaf>>
    <2>1. PICK host \in Hosts, production \in BOOLEAN, unsafe \in BOOLEAN :
            LET b == CommandBackendFor(SelectBackend(host, production, unsafe), production)
            IN \/ /\ b # "none"
                  /\ call' = [call EXCEPT !.backend = b, !.pc = "waiting"]
                  /\ kin' = [kin EXCEPT !["leader"] = "running"]
                  /\ holders' = {"leader"}
                  /\ deaf' \in IF b = "local" THEN SUBSET {"leader"} ELSE {{}}
               \/ /\ call' = [call EXCEPT !.backend = b, !.pc = "raised"]
                  /\ UNCHANGED <<kin, holders, deaf>>
      BY DEF StartCommand
    <2> DEFINE b == CommandBackendFor(SelectBackend(host, production, unsafe), production)
    <2>2. b \in Backends
      BY DEF CommandBackendFor, Backends
    <2> HIDE DEF b
    <2>3. UNCHANGED <<doomed, written, capture>>
      BY DEF StartCommand
    <2>4. /\ \/ /\ b # "none"
                /\ call' = [call EXCEPT !.backend = b, !.pc = "waiting"]
                /\ kin' = [kin EXCEPT !["leader"] = "running"]
                /\ holders' = {"leader"}
                /\ deaf' \in IF b = "local" THEN SUBSET {"leader"} ELSE {{}}
             \/ /\ call' = [call EXCEPT !.backend = b, !.pc = "raised"]
                /\ UNCHANGED <<kin, holders, deaf>>
      BY <2>1 DEF b
    <2>5. QED
      BY <2>2, <2>3, <2>4 DEF Kin
  <1>2. /\ call.pc = "choosing" /\ call = NoCall /\ kin["leader"] = "absent"
        /\ \A s \in Streams : capture[s].reader = "reading"
    BY DEF StartCommand, At, CommandInv, ReaderInv
  <1>3. /\ call' \in CallState /\ call'.pc \in {"waiting", "raised"}
        /\ call'.backend = b /\ (b = "none" => call'.pc = "raised")
        /\ ~call'.timedOut /\ call'.signal = "none" /\ ~call'.warned
    BY <1>1, <1>2 DEF NoCall, CallState, CallerPC, Reactions
  <1>4. kin' \in [Kin -> Life] /\ holders' \subseteq Kin /\ deaf' \subseteq Kin
    BY <1>1 DEF CommandInv, CommandTyped, TreeTyped, Kin, Life
  <1>5. CommandTyped'
    BY <1>1, <1>3, <1>4 DEF CommandInv, CommandTyped, TreeTyped
  <1>6. LeaderHolds'
    BY <1>1, <1>2 DEF LeaderHolds
  <1>7. CaptureInv'
    BY <1>1 DEF CommandInv, CaptureInv
  <1>8. ReaderInv'
    BY <1>1, <1>2, <1>3 DEF ReaderInv
  <1>9. SupervisedInv' /\ ProductionInv' /\ CallInv'
    BY <1>3 DEF SupervisedInv, ProductionInv, CallInv, Stopped
  <1>10. QED
    BY <1>5, <1>6, <1>7, <1>8, <1>9 DEF CommandInv

\* The wait, and the two ways out of it that stop the command.
LEMMA WaitKeepsInv ==
    ASSUME CommandInv, CommandEnds \/ TimeOut \/ Interrupt
    PROVE  CommandInv'
  <1>0. call \in CallState /\ TreeTyped /\ call.backend \in Backends /\ call.signal \in Reactions
    BY DEF CommandInv, CommandTyped, CallState
  <1>1. CASE CommandEnds
    <2> DEFINE to == IF Supervised THEN "done" ELSE "joining"
    <2>1. Go("waiting", to) /\ Reap /\ UNCHANGED <<doomed, deaf, holders, written, capture>>
      BY <1>1 DEF CommandEnds
    <2>2. to \in CallerPC /\ to # "choosing"
      BY DEF CallerPC
    <2>3. (to = "done" /\ call.backend # "production") \/ (to = "joining" /\ call.backend = "production")
      BY DEF Supervised
    <2> HIDE DEF to
    <2>4. /\ call.pc = "waiting" /\ call'.pc = to /\ call' \in CallState
          /\ call'.backend = call.backend /\ call'.timedOut = call.timedOut
          /\ call'.signal = call.signal /\ call'.warned = call.warned
      BY <1>0, <2>1, <2>2, GoFacts
    <2>5. /\ kin' \in [Kin -> Life]
          /\ kin'["leader"] = "gone"
          /\ GroupDoomed => GroupDoomed'
      BY <1>0, <2>1, ReapFacts
    <2>6. /\ CommandTyped' /\ CaptureInv' /\ LeaderHolds'
          /\ call'.pc \notin {"done", "raised"} =>
                  \A s \in Streams : capture'[s].reader = "ended" => Complete(s)'
      BY <1>0, <2>1, <2>2, <2>4, <2>5, CallerFrame DEF TreeTyped
    <2>7. ReaderInv'
      BY <2>2, <2>3, <2>4, <2>6 DEF ReaderInv
    <2>8. SupervisedInv' /\ ProductionInv'
      BY <2>3, <2>4, <2>5 DEF CommandInv, SupervisedInv, ProductionInv, Stopped
    <2>9. CallInv'
      BY <2>3, <2>4 DEF CommandInv, CallInv
    <2>10. QED
      BY <2>6, <2>7, <2>8, <2>9 DEF CommandInv
  <1>2. CASE TimeOut
    <2>1. /\ call.pc = "waiting" /\ call' = [call EXCEPT !.pc = "stopping", !.timedOut = TRUE]
          /\ UNCHANGED <<kin, doomed, deaf, holders, written, capture>>
      BY <1>2 DEF TimeOut, At, treeVars
    <2>2. /\ call' \in CallState /\ call'.pc = "stopping"
          /\ call'.backend = call.backend /\ call'.timedOut = TRUE
          /\ call'.signal = call.signal /\ call'.warned = call.warned
      BY <1>0, <2>1 DEF CallState, CallerPC
    <2>3. /\ CommandTyped' /\ CaptureInv' /\ LeaderHolds'
          /\ \A s \in Streams : capture'[s].reader = "ended" => Complete(s)'
      BY <1>0, <2>1, <2>2, CallerFrame DEF TreeTyped
    <2>4. ReaderInv' /\ SupervisedInv' /\ ProductionInv'
      BY <2>2, <2>3 DEF ReaderInv, SupervisedInv, ProductionInv
    <2>5. CallInv'
      BY <2>1, <2>2 DEF CommandInv, CallInv
    <2>6. QED
      BY <2>3, <2>4, <2>5 DEF CommandInv
  <1>3. CASE Interrupt
    <2>1. PICK how \in IF Supervised THEN {"raises", "returns"} ELSE {"raises"} :
            call' = [call EXCEPT !.pc = IF Supervised THEN "stopping" ELSE "joining", !.signal = how]
      BY <1>3 DEF Interrupt
    <2>2. /\ call.pc = "waiting" /\ call.signal = "none"
          /\ UNCHANGED <<kin, doomed, deaf, holders, written, capture>>
      BY <1>3 DEF Interrupt, At, treeVars
    <2>3. /\ call' \in CallState /\ call'.signal = how /\ how \in {"raises", "returns"}
          /\ call'.backend = call.backend /\ call'.timedOut = call.timedOut
          /\ call'.warned = call.warned
          /\ call'.pc = IF Supervised THEN "stopping" ELSE "joining"
      BY <1>0, <2>1 DEF CallState, CallerPC, Reactions
    <2>4. \/ call'.pc = "stopping" /\ call.backend # "production"
          \/ call'.pc = "joining" /\ call.backend = "production" /\ how = "raises"
      BY <2>1, <2>3 DEF Supervised
    <2>5. /\ CommandTyped' /\ CaptureInv' /\ LeaderHolds'
          /\ \A s \in Streams : capture'[s].reader = "ended" => Complete(s)'
      BY <1>0, <2>2, <2>3, <2>4, CallerFrame DEF TreeTyped
    <2>6. ReaderInv' /\ SupervisedInv' /\ ProductionInv'
      BY <2>3, <2>4, <2>5 DEF ReaderInv, SupervisedInv, ProductionInv
    <2>7. CallInv'
      BY <2>2, <2>3, <2>4 DEF CommandInv, CallInv
    <2>8. QED
      BY <2>5, <2>6, <2>7 DEF CommandInv
  <1>4. QED
    BY <1>1, <1>2, <1>3

\* The ways from one stage of a stop to the next, whatever it does to the tree.
LEMMA StopKeepsInv ==
    ASSUME CommandInv, call' \in CallState, kin' \in [Kin -> Life], doomed' \subseteq Kin,
           UNCHANGED <<deaf, holders, written, capture>>,
           kin'["leader"] = kin["leader"] \/ kin'["leader"] = "gone",
           call'.backend = call.backend, call'.timedOut = call.timedOut,
           call'.signal = call.signal, ~call'.warned => ~call.warned,
           call.pc \in {"stopping", "termed", "forcing", "killed"},
           \/ call'.pc \in {"termed", "forcing"}
           \/ call'.pc = "killed" /\ (~call'.warned /\ call.backend # "production" => GroupDoomed')
           \/ call'.pc = "joining" /\ call.backend = "production"
                 /\ (~call'.warned => kin'["leader"] = "gone")
           \/ /\ call.backend # "production"
              /\ ~call'.warned => GroupDoomed' /\ kin'["leader"] # "running"
              /\ \/ call'.pc = "draining" /\ call.timedOut
                 \/ call'.pc = "raised"
                 \/ call'.pc = "waiting" /\ ~call.timedOut
    PROVE  CommandInv'
  <1>1. /\ CommandTyped' /\ CaptureInv' /\ LeaderHolds'
        /\ call'.pc \notin {"done", "raised"} =>
              \A s \in Streams : capture'[s].reader = "ended" => Complete(s)'
    BY CallerFrame
  <1>2. ReaderInv'
    BY <1>1 DEF ReaderInv
  <1>3. call.backend = "production" => call.signal = "none"
    BY DEF CommandInv, CallInv
  <1>4. SupervisedInv' /\ ProductionInv'
    BY <1>3 DEF SupervisedInv, ProductionInv, Stopped
  <1>5. CallInv'
    BY <1>3 DEF CommandInv, CallInv
  <1>6. QED
    BY <1>1, <1>2, <1>4, <1>5 DEF CommandInv

LEMMA PoliteKeepsInv ==
    ASSUME CommandInv, Terminate \/ Grace
    PROVE  CommandInv'
  <1> DEFINE to == IF Supervised THEN "forcing" ELSE "joining"
  <1>0. CommandTyped /\ call \in CallState /\ TreeTyped
    BY DEF CommandInv, CommandTyped
  <1>1. /\ to \in CallerPC
        /\ to = "forcing" \/ (to = "joining" /\ call.backend = "production")
    BY DEF CallerPC, Supervised
  <1> HIDE DEF to
  <1>2. UNCHANGED <<deaf, holders, written, capture>>
    BY DEF Terminate, Grace
  <1>3. CASE /\ Reap /\ UNCHANGED doomed
             /\ Go("stopping", to) \/ Go("termed", to)
    <2>1. /\ call.pc \in {"stopping", "termed"} /\ call'.pc = to /\ call' \in CallState
          /\ call'.backend = call.backend /\ call'.timedOut = call.timedOut
          /\ call'.signal = call.signal /\ call'.warned = call.warned
      BY <1>0, <1>1, <1>3, GoFacts
    <2>2. kin' \in [Kin -> Life] /\ kin'["leader"] = "gone"
      BY <1>0, <1>3, ReapFacts
    <2>3. QED
      BY <1>0, <1>1, <1>2, <1>3, <2>1, <2>2, StopKeepsInv DEF TreeTyped
  <1>4. CASE Signal(Kin \ deaf, "stopping", "termed") /\ UNCHANGED kin
    <2>1. "termed" \in CallerPC
      BY DEF CallerPC
    <2>2. /\ call.pc = "stopping" /\ call'.pc = "termed" /\ call' \in CallState
          /\ call'.backend = call.backend /\ call'.timedOut = call.timedOut
          /\ call'.signal = call.signal /\ (~call'.warned => ~call.warned)
          /\ doomed' \subseteq Kin
      BY <1>0, <1>4, <2>1, SignalFacts
    <2>3. QED
      BY <1>0, <1>2, <1>4, <2>2, StopKeepsInv DEF TreeTyped
  <1>5. CASE Go("termed", "forcing") /\ UNCHANGED <<kin, doomed>>
    <2>1. "forcing" \in CallerPC
      BY DEF CallerPC
    <2>2. /\ call.pc = "termed" /\ call'.pc = "forcing" /\ call' \in CallState
          /\ call'.backend = call.backend /\ call'.timedOut = call.timedOut
          /\ call'.signal = call.signal /\ call'.warned = call.warned
      BY <1>0, <1>5, <2>1, GoFacts
    <2>3. QED
      BY <1>0, <1>2, <1>5, <2>2, StopKeepsInv DEF TreeTyped
  <1>6. QED
    BY <1>3, <1>4, <1>5 DEF Terminate, Grace, to

\* SIGKILL reaches everything in the group that runs.
LEMMA ForceKeepsInv ==
    ASSUME CommandInv, ForceKill
    PROVE  CommandInv'
  <1>0. CommandTyped /\ TreeTyped
    BY DEF CommandInv, CommandTyped
  <1>1. /\ Signal(Kin, "forcing", "killed")
        /\ UNCHANGED <<kin, deaf, holders, written, capture>>
    BY DEF ForceKill
  <1>2. "killed" \in CallerPC
    BY DEF CallerPC
  <1>3. /\ call.pc = "forcing" /\ call'.pc = "killed" /\ call' \in CallState
        /\ call'.backend = call.backend /\ call'.timedOut = call.timedOut
        /\ call'.signal = call.signal
        /\ doomed' \subseteq Kin
        /\ ~call'.warned => ~call.warned /\ \A k \in Kin \cap Group : Running(k) => k \in doomed'
    BY <1>0, <1>1, <1>2, SignalFacts
  <1>4. ~call'.warned /\ call.backend # "production" => GroupDoomed'
    BY <1>1, <1>3 DEF GroupDoomed, Group, Running, Kin
  <1>5. QED
    BY <1>0, <1>1, <1>3, <1>4, StopKeepsInv DEF TreeTyped

LEMMA AwaitKeepsInv ==
    ASSUME CommandInv, AwaitKilled
    PROVE  CommandInv'
  <1> DEFINE to == AfterKill
  <1>0. CommandTyped /\ call \in CallState /\ TreeTyped /\ call.timedOut \in BOOLEAN
    BY DEF CommandInv, CommandTyped, CallState
  <1>1. /\ to \in CallerPC
        /\ \/ to = "joining" /\ call.backend = "production"
           \/ /\ call.backend # "production"
              /\ \/ to = "draining" /\ call.timedOut
                 \/ to = "raised"
                 \/ to = "waiting" /\ ~call.timedOut
    BY DEF AfterKill, CallerPC, Supervised
  <1> HIDE DEF to
  <1>2. UNCHANGED <<doomed, deaf, holders, written, capture>>
    BY DEF AwaitKilled
  <1>3. CASE Go("killed", to) /\ Reap
    <2>1. /\ call.pc = "killed" /\ call'.pc = to /\ call' \in CallState
          /\ call'.backend = call.backend /\ call'.timedOut = call.timedOut
          /\ call'.signal = call.signal /\ call'.warned = call.warned
      BY <1>0, <1>1, <1>3, GoFacts
    <2>2. kin' \in [Kin -> Life] /\ kin'["leader"] = "gone" /\ (GroupDoomed => GroupDoomed')
      BY <1>0, <1>2, <1>3, ReapFacts
    <2>3. ~call'.warned /\ call.backend # "production" => GroupDoomed'
      BY <2>1, <2>2 DEF CommandInv, SupervisedInv
    <2>4. QED
      BY <1>0, <1>1, <1>2, <2>1, <2>2, <2>3, StopKeepsInv DEF TreeTyped
  <1>4. CASE Warn("killed", to) /\ UNCHANGED kin
    <2>1. /\ call.pc = "killed" /\ call'.pc = to /\ call' \in CallState
          /\ call'.backend = call.backend /\ call'.timedOut = call.timedOut
          /\ call'.signal = call.signal /\ call'.warned = TRUE
      BY <1>0, <1>1, <1>4, WarnFacts
    <2>2. QED
      BY <1>0, <1>1, <1>2, <1>4, <2>1, StopKeepsInv DEF TreeTyped
  <1>5. QED
    BY <1>3, <1>4 DEF AwaitKilled, to

LEMMA DrainKeepsInv ==
    ASSUME CommandInv, Drain
    PROVE  CommandInv'
  <1>0. call \in CallState /\ TreeTyped
    BY DEF CommandInv, CommandTyped
  <1>1. UNCHANGED <<doomed, deaf, holders, written, capture>> /\ "done" \in CallerPC
    BY DEF Drain, CallerPC
  <1>2. /\ call.pc = "draining" /\ call'.pc = "done" /\ call' \in CallState
        /\ call'.backend = call.backend /\ call'.timedOut = call.timedOut
        /\ call'.signal = call.signal /\ (~call'.warned => ~call.warned)
    BY <1>0, <1>1, GoFacts, WarnFacts DEF Drain
  <1>3. /\ kin' \in [Kin -> Life] /\ (kin'["leader"] = kin["leader"] \/ kin'["leader"] = "gone")
        /\ GroupDoomed => GroupDoomed'
    BY <1>0, <1>1, ReapFacts DEF Drain, TreeTyped, GroupDoomed
  <1>4. CommandTyped' /\ CaptureInv' /\ LeaderHolds'
    BY <1>0, <1>1, <1>2, <1>3, CallerFrame DEF TreeTyped
  <1>5. call.timedOut /\ call.backend \notin {"none", "production"}
    BY <1>2 DEF CommandInv, CallInv
  <1>6. ReaderInv'
    BY <1>2, <1>5 DEF ReaderInv
  <1>7. SupervisedInv' /\ ProductionInv'
    BY <1>2, <1>3, <1>5 DEF CommandInv, SupervisedInv, ProductionInv, Stopped
  <1>8. CallInv'
    BY <1>2, <1>5 DEF CommandInv, CallInv
  <1>9. QED
    BY <1>4, <1>6, <1>7, <1>8 DEF CommandInv

\* The threads are joined when each has come to the end of its stream, or
\* waits for a leader that still runs.
LEMMA JoinKeepsInv ==
    ASSUME CommandInv, JoinReaders
    PROVE  CommandInv'
  <1>0. call \in CallState /\ TreeTyped
    BY DEF CommandInv, CommandTyped
  <1>1. /\ UNCHANGED <<kin, doomed, deaf, holders, written, capture>> /\ "closing" \in CallerPC
        /\ Go("joining", "closing")
        /\ \A s \in Streams : capture[s].reader = "ended" \/ kin["leader"] = "running"
    BY DEF JoinReaders, CallerPC, treeVars, Blocked, Running
  <1>2. /\ call.pc = "joining" /\ call'.pc = "closing" /\ call' \in CallState
        /\ call'.backend = call.backend /\ call'.timedOut = call.timedOut
        /\ call'.signal = call.signal /\ call'.warned = call.warned
    BY <1>0, <1>1, GoFacts
  <1>3. /\ CommandTyped' /\ CaptureInv' /\ LeaderHolds'
        /\ \A s \in Streams : capture'[s].reader = "ended" => Complete(s)'
    BY <1>0, <1>1, <1>2, CallerFrame DEF TreeTyped
  <1>4. ProductionInv'
    BY <1>1, <1>2 DEF CommandInv, ProductionInv
  <1>5. ReaderInv'
    <2>1. call.backend = "production" /\ ~call.warned /\ call.signal = "none"
             => kin["leader"] = "gone"
      BY <1>2 DEF CommandInv, ProductionInv
    <2>2. QED
      BY <1>1, <1>2, <1>3, <2>1 DEF ReaderInv
  <1>6. SupervisedInv' /\ CallInv'
    BY <1>2 DEF CommandInv, SupervisedInv, CallInv
  <1>7. QED
    BY <1>3, <1>4, <1>5, <1>6 DEF CommandInv

LEMMA CloseKeepsInv ==
    ASSUME CommandInv, CloseStreams
    PROVE  CommandInv'
  <1> DEFINE to == IF call.signal = "raises" THEN "raised" ELSE "done"
  <1>0. call \in CallState /\ TreeTyped
    BY DEF CommandInv, CommandTyped
  <1>1. /\ UNCHANGED <<kin, doomed, deaf, holders, written, capture>>
        /\ Go("closing", to)
    BY DEF CloseStreams, treeVars
  <1>2. /\ to \in CallerPC
        /\ (to = "raised" /\ call.signal = "raises") \/ (to = "done" /\ call.signal # "raises")
    BY DEF CallerPC
  <1> HIDE DEF to
  <1>3. /\ call.pc = "closing" /\ call'.pc = to /\ call' \in CallState
        /\ call'.backend = call.backend /\ call'.timedOut = call.timedOut
        /\ call'.signal = call.signal /\ call'.warned = call.warned
    BY <1>0, <1>1, <1>2, GoFacts
  <1>4. /\ CommandTyped' /\ CaptureInv' /\ LeaderHolds'
        /\ \A s \in Streams : Complete(s)' <=> Complete(s)
    BY <1>0, <1>1, <1>2, <1>3, CallerFrame DEF TreeTyped
  <1>5. /\ call.backend = "production" /\ call.signal # "returns"
        /\ call.signal # "none" => ~call.timedOut
    BY <1>3 DEF CommandInv, CallInv
  <1>6. to = "done" => call.signal = "none"
    BY <1>0, <1>2, <1>5 DEF CallState, Reactions
  <1>7. ReaderInv'
    BY <1>2, <1>3, <1>4, <1>6 DEF CommandInv, ReaderInv
  <1>8. SupervisedInv' /\ ProductionInv'
    BY <1>1, <1>2, <1>3, <1>5, <1>6 DEF CommandInv, SupervisedInv, ProductionInv
  <1>9. CallInv'
    BY <1>2, <1>3, <1>5, <1>6 DEF CommandInv, CallInv
  <1>10. QED
    BY <1>4, <1>7, <1>8, <1>9 DEF CommandInv

----------------------------------------------------------------------------
\* The whole

LEMMA CommandInitInv ==
    ASSUME CommandInit
    PROVE  CommandInv
  <1>1. CommandTyped
    <2>1. call \in CallState
      BY DEF CommandInit, NoCall, CallState, Backends, CallerPC, Reactions
    <2>2. TreeTyped
      BY DEF CommandInit, TreeTyped, Life
    <2>3. capture \in [Streams -> CaptureState]
      BY DEF CommandInit, CaptureState, Readers
    <2>4. QED
      BY <2>1, <2>2, <2>3 DEF CommandTyped
  <1>2. CaptureInv
    BY CommandAssumption DEF CommandInit, CaptureInv
  <1>3. LeaderHolds /\ ReaderInv
    BY DEF CommandInit, LeaderHolds, ReaderInv, NoCall, Kin
  <1>4. SupervisedInv /\ ProductionInv /\ CallInv
    BY DEF CommandInit, NoCall, SupervisedInv, ProductionInv, CallInv, Stopped
  <1>5. QED
    BY <1>1, <1>2, <1>3, <1>4 DEF CommandInv

LEMMA CommandStepInv ==
    ASSUME CommandInv, [CommandNext]_commandVars
    PROVE  CommandInv'
  <1>1. CASE CallerStep \/ Interrupt
    BY <1>1, StartKeepsInv, WaitKeepsInv, PoliteKeepsInv, ForceKeepsInv, AwaitKeepsInv,
       DrainKeepsInv, JoinKeepsInv, CloseKeepsInv DEF CallerStep
  <1>2. CASE \E k \in Kin : TreeStep(k)
    BY <1>2, TreeKeepsInv
  <1>3. CASE \E s \in Streams : ReaderStep(s)
    BY <1>3, ReadKeepsInv, NoteKeepsInv DEF ReaderStep
  <1>4. CASE UNCHANGED commandVars
    BY <1>4 DEF commandVars, treeVars, CommandInv, CommandTyped, TreeTyped, CaptureInv,
       LeaderHolds, ReaderInv, Complete, SupervisedInv, ProductionInv, CallInv, GroupDoomed, Stopped
  <1>5. QED
    BY <1>1, <1>2, <1>3, <1>4 DEF CommandNext

\* The supervision of a command keeps its books: what the reader threads have
\* noted is what was written, and each stage of a stop has reached the group
\* it was meant for, whatever the order of processes, threads and signals.
THEOREM CommandSupervised == CommandSpec => []CommandInv
  <1>1. CommandInit => CommandInv
    BY CommandInitInv
  <1>2. CommandInv /\ [CommandNext]_commandVars => CommandInv'
    BY CommandStepInv
  <1>3. QED
    BY <1>1, <1>2, PTL DEF CommandSpec

\* A result without a warning is true, for every limit, every size of a read
\* and any amount of output: the status was collected unless a timeout is
\* reported, and run_bounded_process returns all that was written, or exactly
\* the limit of it, marked as truncated.
THEOREM ResultsAreTrue == CommandSpec => []CommandResultIsTrue
  <1>1. ASSUME CommandInv, At("done"), ~call.warned
        PROVE  ~call.timedOut => kin["leader"] = "gone"
    BY <1>1 DEF CommandInv, SupervisedInv, ProductionInv, At
  <1>2. ASSUME CommandInv, At("done"), ~call.warned, call.backend = "production", NEW s \in Streams
        PROVE  /\ capture[s].retained = Kept(s)
               /\ capture[s].truncated <=> written[s] > Limit
    <2>1. call.signal = "none"
      BY <1>2 DEF CommandInv, CallInv, At
    <2>2. capture[s].total = written[s]
      BY <1>2, <2>1 DEF CommandInv, ReaderInv, Complete, At
    <2>3. QED
      BY <1>2, <2>2, CaptureFacts DEF Kept
  <1>3. CommandInv => CommandResultIsTrue
    BY <1>1, <1>2 DEF CommandResultIsTrue
  <1>4. QED
    BY <1>3, CommandSupervised, PTL

\* A command that was stopped without a warning leaves nothing of its group
\* alive that is not about to die, and its sandbox has lost its leader.
THEOREM StoppedTreeDies == CommandSpec => []StoppedTreeIsDead
  <1>1. ASSUME CommandInv, At("done") \/ At("raised"), ~call.warned,
               call.timedOut \/ (Supervised /\ call.signal # "none")
        PROVE  /\ \A k \in Group : Running(k) => k \in doomed
               /\ Sandboxed => ~Running("leader")
    <2>1. CASE call.backend = "production"
      <3>1. kin["leader"] = "gone"
        BY <1>1, <2>1 DEF CommandInv, ProductionInv, At, Supervised
      <3>2. QED
        BY <2>1, <3>1 DEF Group, Running
    <2>2. CASE call.backend # "production"
      <3>1. GroupDoomed /\ kin["leader"] # "running"
        BY <1>1, <2>2 DEF CommandInv, SupervisedInv, Stopped, At
      <3>2. QED
        BY <2>2, <3>1 DEF Group, Running, GroupDoomed
    <2>3. QED
      BY <2>1, <2>2
  <1>2. CommandInv => StoppedTreeIsDead
    BY <1>1 DEF StoppedTreeIsDead
  <1>3. QED
    BY <1>2, CommandSupervised, PTL

=============================================================================
