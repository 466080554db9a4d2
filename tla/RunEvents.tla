----------------------------- MODULE RunEvents -----------------------------
(***************************************************************************)
(* The event stream of one background run, and the clients that follow it. *)
(* The producer (a detached task) appends each event to the run's buffer,  *)
(* puts it into the queue of the client that started the run (or continued *)
(* it after a pause), and publishes it to the queues of clients that came  *)
(* back through the /resume endpoint.  All queues are unbounded and all    *)
(* code runs in one event loop, so a step is what happens between two      *)
(* suspensions: a yield to the client, the get of a queue, the shielded    *)
(* call that completes the run.                                            *)
(***************************************************************************)
EXTENDS Naturals, Sequences, FiniteSets

CONSTANTS
    Clients,
    MaxEvents,      \* bound: events the run produces
    MaxBuffer,      \* max_events_per_run
    MaxLegs,        \* bound: the first run and its continuations after a pause
    MaxResumes,     \* bound: calls of /resume
    Unbuffered,     \* events yielded without _handle_event (workflows; {} for agents and teams)
    KnownRun,       \* is the continued run handed over, or (REST) only its id?
    Retention,      \* may the buffer of a completed run be cleaned up?
    None

ASSUME RunEventsAssumption ==
    /\ MaxEvents \in Nat /\ MaxResumes \in Nat
    /\ MaxLegs \in Nat \ {0} /\ MaxBuffer \in Nat \ {0}
    /\ Unbuffered \subseteq 1..MaxEvents
    /\ KnownRun \in BOOLEAN /\ Retention \in BOOLEAN
    /\ None \notin Clients

VARIABLES
    run,        \* the producer: state, leg, client on its own queue, events so far
    buffer,     \* events[run_id]
    next,       \* _next_index[run_id]
    status,     \* run_metadata[run_id]["status"], "none" without metadata
    pending,    \* shielded complete() calls still to run
    subs,       \* _subscribers[run_id]
    queue,      \* the queue of each open stream
    client,     \* the stream of each client
    resumes

vars == <<run, buffer, next, status, pending, subs, queue, client, resumes>>

-----------------------------------------------------------------------------
RunStates == {"idle", "running", "paused", "over"}
Statuses == {"none", "running", "paused", "completed"}

(* A client is away, or reads the queue it got when it started the run, or   *)
(* is served by _resume_stream_generator: replaying (for the last time),      *)
(* catching up before it goes live, live; "dbended" was answered from the     *)
(* database, with the message that the run has completed.                     *)
Streams == {"primary", "replay", "catchup", "live"}
ClientStates == Streams \cup {"away", "ended", "dbended"}

Numbers == 1..MaxEvents
End == [mark |-> 0, event |-> 0]    \* the None sentinel

(* An event on its way to a client: its number, and event_index + 1.         *)
Items == [mark : 0..MaxEvents, event : Numbers]

TypeOK ==
    /\ run \in [st : RunStates, leg : 0..MaxLegs, owner : Clients \cup {None}, made : 0..MaxEvents]
    /\ buffer \in Seq(Numbers)
    /\ next \in 0..MaxEvents
    /\ status \in Statuses
    /\ pending \in 0..MaxLegs
    /\ subs \subseteq Clients
    /\ queue \in [Clients -> Seq(Items \cup {End})]
    /\ client \in [Clients -> [pc : ClientStates, todo : Seq(Items), known : 0..MaxEvents,
                               got : Seq(Numbers)]]
    /\ resumes \in 0..MaxResumes
    /\ Len(buffer) <= MaxBuffer /\ Len(buffer) <= next
    /\ status = "none" <=> buffer = <<>>

Open(c) == client[c].pc \in Streams

Init ==
    /\ run = [st |-> "idle", leg |-> 0, owner |-> None, made |-> 0]
    /\ buffer = <<>>
    /\ next = 0
    /\ status = "none"
    /\ pending = 0
    /\ subs = {}
    /\ queue = [c \in Clients |-> <<>>]
    /\ client = [c \in Clients |-> [pc |-> "away", todo |-> <<>>, known |-> 0, got |-> <<>>]]
    /\ resumes = 0

-----------------------------------------------------------------------------
(* EventsBuffer. *)

(* Mutant of Trimmed: one more than allowed is kept. *)
TrimmedLate(events) ==
    IF Len(events) > MaxBuffer + 1 THEN SubSeq(events, Len(events) - MaxBuffer, Len(events)) ELSE events

(* The last max_events_per_run events. *)
Trimmed(events) ==
    IF Len(events) > MaxBuffer THEN SubSeq(events, Len(events) - MaxBuffer + 1, Len(events)) ELSE events

AddEvent(e) ==
    /\ buffer' = Trimmed(Append(buffer, e))
    /\ next' = next + 1
    /\ status' = IF status = "none" THEN "running" ELSE status

(* Mutant of Missed: the position is not shifted by what was trimmed. *)
MissedUnshifted(known) ==
    LET from == IF known < Len(buffer) THEN known ELSE Len(buffer)
    IN  [i \in 1..(Len(buffer) - from) |-> [mark |-> from + i, event |-> buffer[from + i]]]

(* Mutant of Missed: from last_event_index on, not after it. *)
MissedInclusive(known) ==
    LET first == next - Len(buffer)
        from  == IF known <= first THEN 0 ELSE known - first - 1
    IN  [i \in 1..(Len(buffer) - from) |-> [mark |-> first + from + i, event |-> buffer[from + i]]]

(* get_events(last_event_index), known = last_event_index + 1: what is        *)
(* still buffered of the events from index known on, with their indices.      *)
Missed(known) ==
    LET first == next - Len(buffer)
        from  == IF known <= first THEN 0 ELSE IF known >= next THEN Len(buffer) ELSE known - first
    IN  [i \in 1..(Len(buffer) - from) |-> [mark |-> first + from + i, event |-> buffer[from + i]]]

(* cleanup_runs, called whenever another run ends. *)
Cleanup ==
    /\ Retention
    /\ status = "completed"
    /\ buffer' = <<>> /\ next' = 0 /\ status' = "none"
    /\ UNCHANGED <<run, pending, subs, queue, client, resumes>>

-----------------------------------------------------------------------------
(* The producer. *)

(* A client opens the stream of the run it starts or continues. *)
OpenPrimary(c) ==
    /\ client' = [client EXCEPT ![c].pc = "primary", ![c].todo = <<>>]
    /\ queue' = [queue EXCEPT ![c] = <<>>]

Begin(c) ==
    /\ run.st = "idle"
    /\ run' = [run EXCEPT !.st = "running", !.leg = 1, !.owner = c]
    /\ OpenPrimary(c)
    /\ UNCHANGED <<buffer, next, status, pending, subs, resumes>>

(* /continue: the status in the buffer stays what it was. *)
Continue(c) ==
    /\ run.st = "paused" /\ ~Open(c)
    /\ run' = [run EXCEPT !.st = "running", !.leg = @ + 1, !.owner = c]
    /\ OpenPrimary(c)
    /\ UNCHANGED <<buffer, next, status, pending, subs, resumes>>

(* Those whose queue gets what the producer sends. *)
Listeners == {c \in Clients : c = run.owner \/ c \in subs}

PutAll(to, item) ==
    queue' = [c \in Clients |-> IF c \in to THEN Append(queue[c], item) ELSE queue[c]]

(* One event: buffered, then sent under its index, or, when it bypasses       *)
(* _handle_event, under get_last_index.                                       *)
Emit ==
    LET e == run.made + 1 IN
    /\ run.st = "running" /\ run.made < MaxEvents
    /\ run' = [run EXCEPT !.made = e]
    /\ IF e \in Unbuffered THEN UNCHANGED <<buffer, next, status>> ELSE AddEvent(e)
    /\ PutAll(Listeners, [mark |-> next', event |-> e])
    /\ UNCHANGED <<pending, subs, client, resumes>>

(* Mutant of SetRunCompleted: a run that ends is not marked. *)
SetRunCompletedNever(st) == UNCHANGED status

SetRunCompleted(st) == status' = IF status = "none" THEN "none" ELSE st

(* The finally block of _background_producer up to its await. *)
EndLeg(st, reported) ==
    /\ run.st = "running"
    /\ run' = [run EXCEPT !.st = st, !.owner = None]
    /\ PutAll({run.owner} \ {None}, End)
    /\ SetRunCompleted(reported)
    /\ pending' = pending + 1
    /\ UNCHANGED <<buffer, next, subs, client, resumes>>

(* Completed, cancelled or failed. *)
Finish == EndLeg("over", "completed")

(* A continuation that knows only the run's id reports "completed" anyway. *)
Pause ==
    /\ run.leg < MaxLegs
    /\ EndLeg("paused", IF run.leg = 1 \/ KnownRun THEN "paused" ELSE "completed")

(* SSESubscriberManager.complete, in a task of its own. *)
Complete ==
    /\ pending > 0
    /\ pending' = pending - 1
    /\ PutAll(subs, End)
    /\ UNCHANGED <<run, buffer, next, status, subs, client, resumes>>

-----------------------------------------------------------------------------
(* The clients. *)

Become(c, state, todo) == client' = [client EXCEPT ![c].pc = state, ![c].todo = todo]

(* A client that knows the events up to its last_event_index comes back. *)
Resume(c) ==
    /\ run.st # "idle" /\ ~Open(c)
    /\ resumes < MaxResumes /\ resumes' = resumes + 1
    /\ UNCHANGED <<run, buffer, next, status, pending>>

(* Path 3: not in the buffer. *)
ResumeFromDatabase(c) ==
    /\ Resume(c) /\ status = "none"
    /\ Become(c, "dbended", <<>>)
    /\ UNCHANGED <<subs, queue>>

(* Path 2: the buffer says that the run is over, or paused. *)
ResumeStopped(c) ==
    /\ Resume(c) /\ status \notin {"none", "running"}
    /\ Become(c, "replay", Missed(client[c].known))
    /\ UNCHANGED <<subs, queue>>

(* Path 1: subscribe, take what was missed. *)
ResumeActive(c) ==
    /\ Resume(c) /\ status = "running"
    /\ Become(c, "catchup", Missed(client[c].known))
    /\ subs' = subs \cup {c}
    /\ queue' = [queue EXCEPT ![c] = <<>>]

(* yield: the client has the event, and knows its index if there is one. *)
Delivered(r, item) ==
    [r EXCEPT !.got = Append(@, item.event), !.known = IF item.mark = 0 THEN @ ELSE item.mark]

Replay(c) ==
    /\ client[c].pc \in {"replay", "catchup"} /\ client[c].todo # <<>>
    /\ client' = [client EXCEPT ![c] =
                    [Delivered(client[c], Head(client[c].todo)) EXCEPT !.todo = Tail(client[c].todo)]]
    /\ UNCHANGED <<run, buffer, next, status, pending, subs, queue, resumes>>

(* Mutant of Close: the queue is not unsubscribed. *)
CloseLeaky(c, state) ==
    /\ Become(c, state, <<>>)
    /\ run' = IF run.owner = c THEN [run EXCEPT !.owner = None] ELSE run
    /\ queue' = [queue EXCEPT ![c] = <<>>]
    /\ UNCHANGED <<buffer, next, status, pending, subs, resumes>>

(* The generator ends: its finally block unsubscribes the queue. *)
Close(c, state) ==
    /\ Become(c, state, <<>>)
    /\ run' = IF run.owner = c THEN [run EXCEPT !.owner = None] ELSE run
    /\ subs' = subs \ {c}
    /\ queue' = [queue EXCEPT ![c] = <<>>]
    /\ UNCHANGED <<buffer, next, status, pending, resumes>>

ReplayEnds(c) ==
    /\ client[c].pc = "replay" /\ client[c].todo = <<>>
    /\ Close(c, "ended")

(* Mutant of Recheck: a run that ended meanwhile ends the stream at once. *)
RecheckEnds(c) ==
    /\ client[c].pc = "catchup" /\ client[c].todo = <<>>
    /\ IF status \in {"none", "running"} THEN Become(c, "live", <<>>) ELSE Become(c, "replay", <<>>)
    /\ UNCHANGED <<run, buffer, next, status, pending, subs, queue, resumes>>

(* The run may have ended during the catch-up. *)
Recheck(c) ==
    /\ client[c].pc = "catchup" /\ client[c].todo = <<>>
    /\ IF status \in {"none", "running"}
       THEN Become(c, "live", <<>>)
       ELSE Become(c, "replay", Missed(client[c].known))
    /\ UNCHANGED <<run, buffer, next, status, pending, subs, queue, resumes>>

(* Already replayed: a live item is dropped by its index. *)
Duplicate(c, item) == item.mark > 0 /\ item.mark <= client[c].known

Take(c) ==
    /\ client[c].pc \in {"primary", "live"} /\ queue[c] # <<>>
    /\ Head(queue[c]) # End
    /\ queue' = [queue EXCEPT ![c] = Tail(@)]
    /\ client' = IF client[c].pc = "live" /\ Duplicate(c, Head(queue[c])) THEN client
                 ELSE [client EXCEPT ![c] = Delivered(@, Head(queue[c]))]
    /\ UNCHANGED <<run, buffer, next, status, pending, subs, resumes>>

TakeEnd(c) ==
    /\ client[c].pc \in {"primary", "live"} /\ queue[c] # <<>>
    /\ Head(queue[c]) = End
    /\ Close(c, "ended")

(* 30 s without an item, and the run is no longer running. *)
Timeout(c) ==
    /\ client[c].pc = "live" /\ queue[c] = <<>>
    /\ status # "running"
    /\ Become(c, "replay", Missed(client[c].known))
    /\ UNCHANGED <<run, buffer, next, status, pending, subs, queue, resumes>>

Disconnect(c) == Open(c) /\ Close(c, "away")

-----------------------------------------------------------------------------
Produce == Emit \/ Pause \/ Finish

Stream(c) == Replay(c) \/ ReplayEnds(c) \/ Recheck(c) \/ Take(c) \/ TakeEnd(c) \/ Timeout(c)

Next ==
    \/ Produce \/ Complete \/ Cleanup
    \/ \E c \in Clients :
          \/ Begin(c) \/ Continue(c) \/ Disconnect(c) \/ Stream(c)
          \/ ResumeFromDatabase(c) \/ ResumeStopped(c) \/ ResumeActive(c)

Spec == Init /\ [][Next]_vars

(* The run makes progress and ends, and the server serves its streams. *)
Fairness ==
    /\ WF_vars(Produce)
    /\ WF_vars(Complete)
    /\ \A c \in Clients : WF_vars(Stream(c))

FairSpec == Spec /\ Fairness

-----------------------------------------------------------------------------
(* Over all its connections a client gets events in order and none twice:    *)
(* the replay and the live queue join without overlap.                       *)
InOrderOnce ==
    \A c \in Clients : \A i, j \in DOMAIN client[c].got :
        i < j => client[c].got[i] < client[c].got[j]

(* No gap either, until the run is continued (the client that continues it is *)
(* given what follows only): an event a client was never given, though it has *)
(* a later one, has been trimmed from the buffer.                            *)
SkippedIsTrimmed ==
    run.leg <= 1 =>
        \A c \in Clients : \A k \in DOMAIN buffer : \A i \in DOMAIN client[c].got :
            buffer[k] < client[c].got[i] => \E j \in DOMAIN client[c].got : client[c].got[j] = buffer[k]

(* The queues that are published to are those of open streams: a client that *)
(* is gone, for whatever reason, leaves nothing behind that fills up.        *)
NoQueueLeaks == \A c \in subs : client[c].pc \in {"catchup", "live", "replay"}

(* Until the run is continued the server ends a stream only when the run has  *)
(* stopped, and its client then knows the last event that has an index.      *)
EndedWithAll ==
    [][\A c \in Clients : Open(c) /\ run.leg = 1 /\ client'[c].pc = "ended"
        => run.st # "running" /\ client[c].known = Cardinality((1..run.made) \ Unbuffered)]_vars

(* Every stream ends by itself, whenever the client came. *)
StreamsEnd == \A c \in Clients : Open(c) ~> ~Open(c)

(* The abstract stream that this one implements. *)
Kept == {buffer[k] : k \in DOMAIN buffer}

Phase == IF run.st \in {"running", "over"} THEN run.st ELSE "waiting"

StreamOf(c) == IF Open(c) THEN "open" ELSE IF client[c].pc = "ended" THEN "ended" ELSE "away"

OpenStreams == [c \in Clients |-> StreamOf(c)]

Given == [c \in Clients |-> client[c].got]

Log == INSTANCE EventLog WITH
    made <- run.made, kept <- Kept, phase <- Phase, legs <- run.leg, stream <- OpenStreams, got <- Given

(* The buffer, the queues and the four ways to be served keep what EventLog   *)
(* promises: one order, no gap and no early end on the first leg.            *)
ImplementsLog == Log!Spec

(* agents/router.py:332: "Run still active (in buffer): replay missed events *)
(* + subscribe for live events via Queue".  A client that comes back through *)
(* /resume while the run is under way is subscribed to what follows; else its *)
(* stream ends with the replay.                                              *)
ResumesSubscribed ==
    [][\A c \in Clients : ~Open(c) /\ client'[c].pc \in {"replay", "catchup"} /\ run.st = "running"
        => c \in subs']_vars
=============================================================================
