--------------------------- MODULE EventPersistence ---------------------------
(***************************************************************************)
(* Event sourcing: the EventObserver records every write event, the        *)
(* EventCollector appends the blobs to files named after the time of their *)
(* creation, and at the next start the EventImporter replays the files in  *)
(* the order of their names.  The module follows the process through       *)
(* starting, serving, stopping and crashing.                               *)
(*                                                                         *)
(* The state of the forum is abstracted to the sequence of events applied  *)
(* to it.  The queue between observer and collector is the channel that    *)
(* SeparateThreadConsumer is proved to implement (EventChannel).           *)
(* The input folder is the output folder (Install.md allows both).         *)
(***************************************************************************)
EXTENDS Naturals, Sequences

CONSTANTS
    MaxEvents,       \* bound of the model: events recorded over all runs
    MaxClock,        \* bound of the model: seconds of system time
    MaxStarts,       \* bound of the model: number of starts
    Refresh,         \* createNewOutputFileEverySeconds
    Needs(_),        \* Needs(e): the events whose entities event e refers to
    AfterDestruction \* what FileAppender does once it has been destroyed

Event == 1 .. MaxEvents
Torn == 0                  \* a blob of which only some bytes reached the file
Time == 0 .. MaxClock
Outcome == {"intact", "abort"}
Fault == {"killed", "aborted", "clock"}

ASSUME MaxEventsAssumption == MaxEvents \in Nat
ASSUME MaxStartsAssumption == MaxStarts \in Nat
ASSUME RefreshAssumption == Refresh \in Nat
\* The time since 1970 is longer than the life of an output file.
ASSUME MaxClockAssumption == MaxClock \in Nat /\ MaxClock > Refresh
ASSUME NeedsAssumption == \A e \in Event : Needs(e) \subseteq Event
ASSUME AfterDestructionAssumption ==
    AfterDestruction \subseteq Outcome /\ AfterDestruction # {}

VARIABLES
    phase,         \* where the process is
    starts,        \* number of starts so far
    clock,         \* system_clock in seconds
    state,         \* events applied to the in-memory entities, in order
    queue,         \* blobs enqueued and not yet taken by the collector
    batch,         \* blobs FileAppender::append is writing
    appender,      \* the FileAppender is alive or destroyed
    created,       \* lastFileNameCreatedAt_; also names the current file
    files,         \* files[t]: contents of forum-t.events, <<>> if missing
    used,          \* history: events recorded in some run
    faults,        \* history: what has gone wrong so far
    atStop         \* history: state when an orderly stop was requested

vars == <<phase, starts, clock, state, queue, batch, appender, created, files,
          used, faults, atStop>>

clockVars == <<clock, faults>>

Phase == {"off", "importing", "serving", "stopping", "refused"}

TypeOK ==
    /\ phase \in Phase
    /\ starts \in 0 .. MaxStarts
    /\ clock \in Time
    /\ state \in Seq(Event)
    /\ queue \in Seq(Event)
    /\ batch \in Seq(Event)
    /\ appender \in {"alive", "destroyed"}
    /\ created \in Time
    /\ files \in [Time -> Seq(Event \cup {Torn})]
    /\ used \subseteq Event
    /\ faults \subseteq Fault
    /\ atStop \in Seq(Event)

Init ==
    /\ phase = "off"
    /\ starts = 0
    /\ clock = Refresh + 1
    /\ state = <<>>
    /\ queue = <<>>
    /\ batch = <<>>
    /\ appender = "alive"
    /\ created = 0
    /\ files = [t \in Time |-> <<>>]
    /\ used = {}
    /\ faults = {}
    /\ atStop = <<>>

Elements(s) == {s[i] : i \in 1 .. Len(s)}
-----------------------------------------------------------------------------
(* Reading the files back.                                                 *)

\* import() keeps the files in a std::map ordered by the timestamp in their
\* names; a file that cannot be mapped because it is empty adds nothing.
FilesUpTo[t \in Time] ==
    IF t = 0 THEN files[0] ELSE FilesUpTo[t - 1] \o files[t]
OnDisk == FilesUpTo[MaxClock]

\* iterateBlobsInFile stops at a blob that does not fit into the file, and
\* processEvent at an event that refers to an entity that is not there.
Importable(blobs) ==
    \A i \in 1 .. Len(blobs) :
        /\ blobs[i] # Torn
        /\ Needs(blobs[i]) \subseteq Elements(SubSeq(blobs, 1, i - 1))
-----------------------------------------------------------------------------
(* The life of the process.                                                *)

\* createCommandHandler builds an empty EntityCollection and an
\* EventObserver whose FileAppender has no current file.
createCommandHandler ==
    /\ phase = "off"
    /\ starts < MaxStarts
    /\ starts' = starts + 1
    /\ phase' = "importing"
    /\ state' = <<>>
    /\ appender' = "alive"
    /\ created' = 0
    /\ UNCHANGED <<clockVars, queue, batch, files, used, atStop>>

\* importEvents: the application only starts to serve after a successful
\* import, otherwise initialize() fails and run() returns.
importEvents ==
    /\ phase = "importing"
    /\ \/ /\ Importable(OnDisk)
          /\ state' = OnDisk
          /\ phase' = "serving"
       \/ /\ ~Importable(OnDisk)
          /\ phase' = "refused"
          /\ UNCHANGED state
    /\ UNCHANGED <<starts, clockVars, queue, batch, appender, created, files, used,
                   atStop>>

\* A write command changes the entities and fires its event under the write
\* lock; the observer enqueues the blob before the lock is released.
recordBlob(e) ==
    /\ phase = "serving"
    /\ e \notin used
    /\ Needs(e) \subseteq Elements(state)
    /\ state' = Append(state, e)
    /\ queue' = Append(queue, e)
    /\ used' = used \cup {e}
    /\ UNCHANGED <<phase, starts, clockVars, batch, appender, created, files, atStop>>

\* The I/O threads are joined, the signals disconnected and the timer joined:
\* no event is recorded any more.
prepareToStop ==
    /\ phase = "serving"
    /\ phase' = "stopping"
    /\ atStop' = state
    /\ UNCHANGED <<starts, clockVars, state, queue, batch, appender, created, files,
                   used>>

\* ~EventCollector destroys appender_ before the destructor of the base
\* class stops the consumer thread.
DestroyAppender ==
    /\ phase = "stopping"
    /\ appender = "alive"
    /\ appender' = "destroyed"
    /\ UNCHANGED <<phase, starts, clockVars, state, queue, batch, created, files,
                   used, atStop>>

MutantExitWithoutJoin ==
    /\ phase = "stopping"
    /\ appender = "destroyed"
    /\ phase' = "off"
    /\ queue' = <<>>
    /\ batch' = <<>>
    /\ UNCHANGED <<starts, clockVars, state, appender, created, files, used, atStop>>

\* stopConsumer joins the consumer thread, which has drained the queue.
Exit ==
    /\ phase = "stopping"
    /\ appender = "destroyed"
    /\ queue = <<>> /\ batch = <<>>
    /\ phase' = "off"
    /\ UNCHANGED <<starts, clockVars, state, queue, batch, appender, created, files,
                   used, atStop>>
-----------------------------------------------------------------------------
(* The consumer thread.                                                    *)

Alive == phase \in {"importing", "serving", "stopping"}

\* updateCurrentFileIfNeeded
CurrentFile == IF created + Refresh < clock THEN clock ELSE created

MutantBlobsKept ==
    /\ Alive
    /\ batch = <<>> /\ queue # <<>>
    /\ appender = "alive" \/ "intact" \in AfterDestruction
    /\ batch' = queue
    /\ created' = CurrentFile
    /\ UNCHANGED <<phase, starts, clockVars, state, queue, appender, files, used,
                   atStop>>

MutantWaitForSecondBlob ==
    /\ Alive
    /\ batch = <<>> /\ Len(queue) > 1
    /\ appender = "alive" \/ "intact" \in AfterDestruction
    /\ batch' = queue
    /\ queue' = <<>>
    /\ created' = CurrentFile
    /\ UNCHANGED <<phase, starts, clockVars, state, appender, files, used, atStop>>

\* EventCollector::consumeValues has been handed everything enqueued so far
\* and calls FileAppender::append.
append ==
    /\ Alive
    /\ batch = <<>> /\ queue # <<>>
    /\ appender = "alive" \/ "intact" \in AfterDestruction
    /\ batch' = queue
    /\ queue' = <<>>
    /\ created' = CurrentFile
    /\ UNCHANGED <<phase, starts, clockVars, state, appender, files, used, atStop>>

MutantReopenTruncates ==
    /\ Alive
    /\ batch # <<>>
    /\ files' = [files EXCEPT ![created] = batch]
    /\ batch' = <<>>
    /\ UNCHANGED <<phase, starts, clockVars, state, queue, appender, created, used,
                   atStop>>

\* The file, opened in append mode, is closed: all blobs of the batch are in
\* it, behind what it held before.
CloseFile ==
    /\ Alive
    /\ batch # <<>>
    /\ files' = [files EXCEPT ![created] = @ \o batch]
    /\ batch' = <<>>
    /\ UNCHANGED <<phase, starts, clockVars, state, queue, appender, created, used,
                   atStop>>

\* A prefix of the bytes of the batch is in the file: some whole blobs and
\* possibly one that is cut off.
Torso(k, cut) ==
    SubSeq(batch, 1, k) \o (IF cut THEN <<Torn>> ELSE <<>>)

\* The process is gone: killed, std::abort in writeOrAbort, or std::abort in
\* append.  Memory and queue are lost.
Gone(written, fault) ==
    /\ phase' = "off"
    /\ faults' = faults \cup {fault}
    /\ files' = [files EXCEPT ![created] = @ \o written]
    /\ queue' = <<>>
    /\ batch' = <<>>
    /\ UNCHANGED <<starts, clock, state, appender, created, used, atStop>>

crash ==
    /\ Alive
    /\ \E k \in 0 .. Len(batch), cut \in BOOLEAN :
          /\ cut => k < Len(batch)
          /\ Gone(Torso(k, cut), "killed")

\* append on the destroyed FileAppender: the file name is garbage, fopen
\* fails and the process aborts.
appendAfterDestruction ==
    /\ phase = "stopping"
    /\ appender = "destroyed"
    /\ batch = <<>> /\ queue # <<>>
    /\ "abort" \in AfterDestruction
    /\ Gone(<<>>, "aborted")
-----------------------------------------------------------------------------
\* The clock advances, or is set back while no process runs.
Tick ==
    /\ clock < MaxClock
    /\ clock' = clock + 1
    /\ UNCHANGED <<phase, starts, faults, state, queue, batch, appender, created, files,
                   used, atStop>>

SetClockBack ==
    /\ phase = "off"
    /\ clock > Refresh + 1
    /\ clock' = clock - 1
    /\ faults' = faults \cup {"clock"}
    /\ UNCHANGED <<phase, starts, state, queue, batch, appender, created, files,
                   used, atStop>>

Collector == append \/ CloseFile \/ appendAfterDestruction

Next ==
    \/ createCommandHandler \/ importEvents \/ prepareToStop
    \/ DestroyAppender \/ Exit
    \/ \E e \in Event : recordBlob(e)
    \/ Collector \/ crash
    \/ Tick \/ SetClockBack

Spec == Init /\ [][Next]_vars

\* The operating system runs the consumer thread and a start or a stop that
\* has begun completes; requests, stops, crashes and the clock are free.
FairSpec ==
    /\ Spec
    /\ WF_vars(Collector)
    /\ WF_vars(importEvents)
    /\ WF_vars(DestroyAppender \/ Exit)
-----------------------------------------------------------------------------
(* Properties.                                                             *)

\* While the forum serves requests, the files read in import order, followed
\* by the batch being written and by the queue, are exactly the events that
\* made the current state: nothing lost, duplicated or reordered by the
\* switch to a new file, by an append to a file of an earlier run, or by a
\* crash.  A clock that was set back can put the events into another order.
NothingLostWhileServing ==
    phase = "serving" /\ "clock" \notin faults => OnDisk \o batch \o queue = state

\* After a crash and an import, the events that reached the disk are all
\* there, whatever the clock did between the runs: files never overwrite
\* each other.
DurableEventsSurvive ==
    phase = "serving" =>
        Elements(OnDisk) \cup Elements(batch) \cup Elements(queue) = Elements(state)

\* An orderly stop in which the freed FileAppender kept its contents writes
\* everything that was recorded before it: ~EventCollector joins the consumer
\* thread, and the files read back are the state that was served last.
StopLosesNothing ==
    phase = "off" /\ appender = "destroyed" /\ faults = {} => OnDisk = atStop

\* What Architecture&Details.md promises: without a crash from outside, a stop
\* loses nothing, even if append finds the FileAppender destroyed.
OrderlyStopLosesNothing ==
    phase = "off" /\ appender = "destroyed" /\ faults \subseteq {"aborted"}
        => OnDisk = atStop

\* The application can be started again, also after it aborted in its stop,
\* unless a kill tore a blob or the clock was set back.
NeverRefused == phase = "refused" => faults \cap {"killed", "clock"} # {}

\* What README.md promises of a crash: the events that have not reached the
\* disk are lost, and no others, so that the application starts again.
\* iterateBlobsInFile refuses the torso that writeOrAbort left behind.
StartsAfterCrash == phase = "refused" => "clock" \in faults

\* Every event that was recorded reaches a file unless something fails.
EventuallyDurable ==
    \A e \in Event :
        (e \in used) ~> (e \in Elements(OnDisk) \/ faults # {})
=============================================================================
