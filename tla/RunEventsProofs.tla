-------------------------- MODULE RunEventsProofs --------------------------
(* Proofs about RunEvents, for any set of clients, any size of the buffer and *)
(* any number of events, continuations and resumptions.                      *)
EXTENDS RunEvents, SequenceTheorems, FiniteSetTheorems, TLAPS

-----------------------------------------------------------------------------
(* Sequences. *)

LEMMA Appended ==
    ASSUME NEW S, NEW s \in Seq(S), NEW x \in S
    PROVE  /\ Append(s, x) \in Seq(S) /\ Len(Append(s, x)) = Len(s) + 1
           /\ DOMAIN Append(s, x) = 1..(Len(s) + 1)
           /\ \A i \in DOMAIN s : Append(s, x)[i] = s[i]
           /\ Append(s, x)[Len(s) + 1] = x
           /\ DOMAIN s = 1..Len(s) /\ Len(s) \in Nat
  OBVIOUS

LEMMA Behead ==
    ASSUME NEW S, NEW s \in Seq(S), s # <<>>
    PROVE  /\ Tail(s) \in Seq(S) /\ Head(s) = s[1] /\ s[1] \in S
           /\ Len(s) \in Nat \ {0} /\ DOMAIN s = 1..Len(s)
           /\ DOMAIN Tail(s) = 1..(Len(s) - 1)
           /\ \A i \in DOMAIN Tail(s) : i + 1 \in DOMAIN s /\ Tail(s)[i] = s[i + 1]
<1>1. Len(s) \in Nat \ {0} /\ DOMAIN s = 1..Len(s)
  BY EmptySeq
<1>2. /\ Tail(s) \in Seq(S) /\ Len(Tail(s)) = Len(s) - 1
      /\ \A i \in 1..Len(Tail(s)) : Tail(s)[i] = s[i + 1]
  BY HeadTailProperties
<1>3. DOMAIN Tail(s) = 1..(Len(s) - 1)
  BY <1>1, <1>2
<1>4. Head(s) = s[1]
  BY <1>1
<1>5. s[1] \in S
  BY <1>1
<1>6. \A i \in 1..(Len(s) - 1) : i + 1 \in 1..Len(s)
  BY <1>1
<1>. QED
  BY <1>1, <1>2, <1>3, <1>4, <1>5, <1>6

-----------------------------------------------------------------------------
(* Type correctness. *)

RunType == [st : RunStates, leg : 0..MaxLegs, owner : Clients \cup {None}, made : 0..MaxEvents]

ClientType == [pc : ClientStates, todo : Seq(Items), known : 0..MaxEvents, got : Seq(Numbers)]

(* The run is either not begun, or on a leg that has reported no end yet, or *)
(* between two legs, or over.                                                *)
TypeInv ==
    /\ TypeOK
    /\ next <= run.made
    /\ pending <= run.leg
    /\ run.st = "idle" => run.leg = 0 /\ run.made = 0
    /\ run.st # "idle" => run.leg >= 1
    /\ run.st = "running" => pending < run.leg
    /\ run.st = "paused" => run.leg < MaxLegs

(* What is buffered, with its index (event_index + 1). *)
Held == {<<k + (next - Len(buffer)), buffer[k]>> : k \in DOMAIN buffer}

ItemSeqs == Seq(Items \cup {End})

LEMMA ItemFacts ==
    /\ End \in Items \cup {End} /\ End \notin Items
    /\ \A item \in Items \cup {End} :
          /\ item.mark \in Nat /\ item.event \in Nat
          /\ item # End <=> item.event > 0
          /\ item # End => item \in Items
  BY DEF Items, End, Numbers

LEMMA Parts ==
    ASSUME TypeInv
    PROVE  /\ run \in RunType /\ client \in [Clients -> ClientType] /\ queue \in [Clients -> ItemSeqs]
           /\ next \in Nat /\ next <= MaxEvents /\ run.made \in Nat /\ run.leg \in Nat
           /\ buffer \in Seq(Numbers) /\ Len(buffer) \in Nat /\ Len(buffer) <= next
           /\ DOMAIN buffer = 1..Len(buffer)
           /\ pending \in Nat /\ resumes \in Nat
           /\ MaxEvents \in Nat /\ MaxLegs \in Nat
           /\ \A c \in Clients : client[c] \in ClientType /\ queue[c] \in ItemSeqs
           /\ \A c \in Clients : /\ client[c].known \in Nat /\ client[c].pc \in ClientStates
                                 /\ client[c].todo \in Seq(Items) /\ client[c].got \in Seq(Numbers)
  BY RunEventsAssumption DEF TypeInv, TypeOK, RunType, ClientType, ItemSeqs

LEMMA HeldType ==
    ASSUME TypeInv
    PROVE  /\ Held \subseteq Nat \X Nat
           /\ \A p \in Held : p[1] >= 1 /\ p[1] <= next /\ p[2] \in Numbers /\ p[2] >= 1
<1>1. ASSUME NEW p \in Held
      PROVE  p \in Nat \X Nat /\ p[1] >= 1 /\ p[1] <= next /\ p[2] \in Numbers /\ p[2] >= 1
  <2>1. PICK k \in DOMAIN buffer : p = <<k + (next - Len(buffer)), buffer[k]>>
    BY <1>1 DEF Held
  <2>2. buffer[k] \in Numbers /\ k \in 1..Len(buffer)
    BY <2>1, Parts
  <2>. QED
    <3>1. buffer[k] \in Nat /\ buffer[k] >= 1
      BY <2>2 DEF Numbers
    <3>2. k + (next - Len(buffer)) \in Nat /\ k + (next - Len(buffer)) >= 1 /\ k + (next - Len(buffer)) <= next
      BY <2>2, Parts
    <3>. QED
      BY <2>1, <2>2, <3>1, <3>2
<1>. QED
  BY <1>1

-----------------------------------------------------------------------------
(* What the steps do. *)

Rest(c) == \A d \in Clients \ {c} : client'[d] = client[d] /\ queue'[d] = queue[d]

Keeps(c) == client'[c].got = client[c].got /\ client'[c].known = client[c].known

BufferStays == Held' = Held /\ UNCHANGED <<buffer, next, status, pending>>

(* An event, put into the queues of those who listen. *)
Emits ==
    /\ run.st = "running" /\ run'.made = run.made + 1
    /\ run'.st = run.st /\ run'.leg = run.leg /\ run'.owner = run.owner
    /\ UNCHANGED <<client, subs, pending>>
    /\ \A c \in Clients :
          queue'[c] = IF c \in Listeners THEN Append(queue[c], [mark |-> next', event |-> run.made + 1]) ELSE queue[c]
    /\ \/ run.made + 1 \in Unbuffered /\ next' = next /\ status' = status /\ Held' = Held
       \/ /\ run.made + 1 \notin Unbuffered /\ next' = next + 1
          /\ status' = IF status = "none" THEN "running" ELSE status
          /\ Held' \subseteq Held \cup {<<next + 1, run.made + 1>>}

(* Sentinels. *)
Signals ==
    /\ Held' = Held
    /\ UNCHANGED <<client, subs, buffer, next>>
    /\ run'.made = run.made /\ run'.leg = run.leg
    /\ \A c \in Clients : queue'[c] \in {queue[c], Append(queue[c], End)}
    /\ \/ /\ run.st = "running" /\ run'.st \in {"paused", "over"}
          /\ status' = "none" <=> status = "none"
       \/ run'.st = run.st /\ status' = status /\ pending > 0 /\ pending' = pending - 1

Cleans ==
    /\ status = "completed" /\ status' = "none"
    /\ Held' = {} /\ next' = 0 /\ buffer' = <<>>
    /\ UNCHANGED <<run, client, queue, subs, pending>>

Opens(c) ==
    /\ Rest(c) /\ Keeps(c) /\ BufferStays /\ subs' = subs
    /\ client'[c].pc = "primary" /\ client'[c].todo = <<>> /\ queue'[c] = <<>>
    /\ run'.made = run.made /\ run'.owner = c /\ run'.st = "running"
    /\ \/ run.st = "idle" /\ run'.leg = 1
       \/ run.st = "paused" /\ run'.leg = run.leg + 1 /\ ~Open(c)

Subscribes(c) ==
    /\ Rest(c) /\ Keeps(c) /\ BufferStays /\ run' = run /\ subs' = subs \cup {c}
    /\ ~Open(c) /\ run.st # "idle" /\ status = "running"
    /\ client'[c].pc = "catchup" /\ client'[c].todo = Missed(client[c].known) /\ queue'[c] = <<>>

Replays(c) ==
    /\ Rest(c) /\ Keeps(c) /\ BufferStays /\ run' = run /\ subs' = subs
    /\ client'[c].pc = "replay" /\ client'[c].todo = Missed(client[c].known) /\ queue'[c] = queue[c]
    /\ \/ ~Open(c) /\ run.st # "idle" /\ status \notin {"none", "running"}
       \/ client[c].pc = "catchup" /\ client[c].todo = <<>> /\ status \notin {"none", "running"}
       \/ client[c].pc = "live" /\ queue[c] = <<>> /\ status # "running"

Joins(c) ==
    /\ Rest(c) /\ Keeps(c) /\ BufferStays /\ run' = run /\ subs' = subs
    /\ client[c].pc = "catchup" /\ client[c].todo = <<>> /\ status \in {"none", "running"}
    /\ client'[c].pc = "live" /\ client'[c].todo = <<>> /\ queue'[c] = queue[c]

Answered(c) ==
    /\ Rest(c) /\ Keeps(c) /\ BufferStays /\ run' = run /\ subs' = subs
    /\ ~Open(c) /\ run.st # "idle"
    /\ client'[c].pc = "dbended" /\ client'[c].todo = <<>> /\ queue'[c] = queue[c]

Closes(c) ==
    /\ Rest(c) /\ Keeps(c) /\ BufferStays /\ subs' = subs \ {c}
    /\ Open(c)
    /\ run'.st = run.st /\ run'.leg = run.leg /\ run'.made = run.made
    /\ run'.owner = IF run.owner = c THEN None ELSE run.owner
    /\ client'[c].todo = <<>> /\ queue'[c] = <<>>
    /\ \/ client'[c].pc = "away"
       \/ client'[c].pc = "ended" /\ client[c].pc = "replay" /\ client[c].todo = <<>>
       \/ /\ client'[c].pc = "ended" /\ client[c].pc \in {"primary", "live"}
          /\ queue[c] # <<>> /\ queue[c][1] = End

(* item reaches the client. *)
Gets(c, item) ==
    /\ client'[c].got = Append(client[c].got, item.event)
    /\ client'[c].known = IF item.mark = 0 THEN client[c].known ELSE item.mark

Gives(c) ==
    /\ Rest(c) /\ BufferStays /\ run' = run /\ subs' = subs
    /\ client[c].pc \in {"replay", "catchup"} /\ client[c].todo # <<>>
    /\ client'[c].pc = client[c].pc /\ client'[c].todo = Tail(client[c].todo) /\ queue'[c] = queue[c]
    /\ Gets(c, client[c].todo[1])

Takes(c) ==
    /\ Rest(c) /\ BufferStays /\ run' = run /\ subs' = subs
    /\ client[c].pc \in {"primary", "live"} /\ queue[c] # <<>> /\ queue[c][1] # End
    /\ client'[c].pc = client[c].pc /\ client'[c].todo = client[c].todo /\ queue'[c] = Tail(queue[c])
    /\ Gets(c, queue[c][1])
    /\ client[c].pc = "live" => queue[c][1].mark = 0 \/ queue[c][1].mark > client[c].known

Drops(c) ==
    /\ Rest(c) /\ BufferStays /\ run' = run /\ subs' = subs
    /\ client[c].pc = "live" /\ queue[c] # <<>> /\ queue[c][1] # End
    /\ queue[c][1].mark > 0 /\ queue[c][1].mark <= client[c].known
    /\ client'[c] = client[c] /\ queue'[c] = Tail(queue[c])

Still == Held' = Held /\ UNCHANGED <<run, buffer, next, status, pending, subs, queue, client>>

ClientMove(c) ==
    \/ Opens(c) \/ Subscribes(c) \/ Replays(c) \/ Joins(c) \/ Answered(c) \/ Closes(c)
    \/ Gives(c) \/ Takes(c) \/ Drops(c)

-----------------------------------------------------------------------------
(* The steps move as described, and keep the types. *)

(* The type of the rest when a client moves. *)
LEMMA ClientMoveType ==
    ASSUME TypeInv, NEW c \in Clients, Rest(c),
           client' \in [Clients -> ClientType], queue' \in [Clients -> ItemSeqs],
           UNCHANGED <<buffer, next, status, pending>>,
           subs' \subseteq Clients, resumes' \in 0..MaxResumes,
           run' \in RunType, run'.made = run.made,
           (run'.leg = run.leg /\ run'.st = run.st) \/ (run'.leg = run.leg + 1 /\ run'.st = "running")
    PROVE  TypeInv'
<1>1. run \in RunType /\ pending \in Nat
  BY Parts
<1>2. run'.leg \in Nat /\ run'.made \in Nat /\ run.leg \in Nat
  BY <1>1 DEF RunType
<1>3. TypeOK'
  <2>1. /\ buffer' \in Seq(Numbers) /\ next' \in 0..MaxEvents /\ status' \in Statuses
        /\ pending' \in 0..MaxLegs /\ Len(buffer') <= MaxBuffer /\ Len(buffer') <= next'
        /\ status' = "none" <=> buffer' = <<>>
    BY DEF TypeInv, TypeOK
  <2>. QED
    BY <2>1 DEF TypeOK, RunType, ClientType, ItemSeqs
<1>4. next' <= run'.made /\ pending' <= run'.leg
  BY <1>1, <1>2 DEF TypeInv
<1>5. /\ run'.st = "idle" => run'.leg = 0 /\ run'.made = 0
      /\ run'.st # "idle" => run'.leg >= 1
      /\ run'.st = "running" => pending' < run'.leg
      /\ run'.st = "paused" => run'.leg < MaxLegs
  BY <1>1, <1>2 DEF TypeInv
<1>. QED
  BY <1>3, <1>4, <1>5 DEF TypeInv

LEMMA BecomeIs ==
    ASSUME TypeInv, NEW c \in Clients, NEW pc \in ClientStates, NEW todo \in Seq(Items), Become(c, pc, todo)
    PROVE  /\ client' \in [Clients -> ClientType]
           /\ client'[c].pc = pc /\ client'[c].todo = todo /\ Keeps(c)
           /\ \A d \in Clients \ {c} : client'[d] = client[d]
<1>. DEFINE r == [client[c] EXCEPT !.pc = pc, !.todo = todo]
<1>1. client[c] \in ClientType /\ client \in [Clients -> ClientType]
  BY Parts
<1>2. r \in ClientType /\ r.pc = pc /\ r.todo = todo /\ r.known = client[c].known /\ r.got = client[c].got
  BY <1>1 DEF ClientType
<1>3. client' = [client EXCEPT ![c] = r]
  BY <1>1 DEF Become, ClientType
<1>. HIDE DEF r
<1>. QED
  BY <1>1, <1>2, <1>3 DEF Keeps

LEMMA OpenPrimaryIs ==
    ASSUME TypeInv, NEW c \in Clients, OpenPrimary(c)
    PROVE  /\ client' \in [Clients -> ClientType] /\ queue' \in [Clients -> ItemSeqs]
           /\ client'[c].pc = "primary" /\ client'[c].todo = <<>> /\ Keeps(c)
           /\ Rest(c) /\ queue'[c] = <<>>
<1>1. "primary" \in ClientStates /\ <<>> \in Seq(Items) /\ <<>> \in ItemSeqs
  BY DEF ClientStates, Streams, ItemSeqs
<1>2. Become(c, "primary", <<>>)
  BY DEF OpenPrimary, Become
<1>3. /\ client' \in [Clients -> ClientType]
      /\ client'[c].pc = "primary" /\ client'[c].todo = <<>> /\ Keeps(c)
      /\ \A d \in Clients \ {c} : client'[d] = client[d]
  BY <1>1, <1>2, BecomeIs
<1>4. queue' = [queue EXCEPT ![c] = <<>>] /\ queue \in [Clients -> ItemSeqs]
  BY Parts DEF OpenPrimary
<1>. QED
  BY <1>1, <1>3, <1>4 DEF Rest

LEMMA PutAllIs ==
    ASSUME TypeInv, NEW to, NEW item \in Items \cup {End}, PutAll(to, item)
    PROVE  /\ queue' \in [Clients -> ItemSeqs]
           /\ \A c \in Clients : queue'[c] = IF c \in to THEN Append(queue[c], item) ELSE queue[c]
<1>1. \A c \in Clients : queue[c] \in ItemSeqs
  BY Parts
<1>2. \A c \in Clients : Append(queue[c], item) \in ItemSeqs
  BY <1>1, Appended DEF ItemSeqs
<1>. QED
  BY <1>1, <1>2 DEF PutAll

LEMMA BufferSame == UNCHANGED <<buffer, next>> => Held' = Held
  BY DEF Held

(* get_events: what is held of index known + 1 on. *)
LEMMA MissedIs ==
    ASSUME TypeInv, NEW known \in Nat
    PROVE  /\ Missed(known) \in Seq(Items)
           /\ \A i \in DOMAIN Missed(known) :
                 /\ <<Missed(known)[i].mark, Missed(known)[i].event>> \in Held
                 /\ Missed(known)[i].mark > known
           /\ \A i, j \in DOMAIN Missed(known) : i < j => Missed(known)[i].mark < Missed(known)[j].mark
           /\ \A p \in Held : p[1] > known =>
                 \E i \in DOMAIN Missed(known) : Missed(known)[i] = [mark |-> p[1], event |-> p[2]]
<1>. DEFINE len   == Len(buffer)
            first == next - len
            from  == IF known <= first THEN 0 ELSE IF known >= next THEN len ELSE known - first
            items == [i \in 1..(len - from) |-> [mark |-> first + from + i, event |-> buffer[from + i]]]
<1>1. /\ len \in Nat /\ next \in Nat /\ len <= next /\ next <= MaxEvents /\ MaxEvents \in Nat
      /\ buffer \in Seq(Numbers) /\ DOMAIN buffer = 1..len
  BY Parts
<1>2. first \in Nat /\ first + len = next
  BY <1>1
<1>3. from \in 0..len /\ (known <= first => from = 0) /\ (known > first /\ known >= next => from = len)
      /\ (known > first /\ known < next => first + from = known)
  BY <1>1, <1>2
<1>4. Missed(known) = items
  BY DEF Missed
<1>5. Held = {<<k + first, buffer[k]>> : k \in 1..len}
  BY <1>1 DEF Held
<1>. HIDE DEF first, from, len
<1>6. ASSUME NEW i \in 1..(len - from)
      PROVE  /\ from + i \in 1..len /\ first + from + i \in 0..MaxEvents /\ first + from + i > known
             /\ buffer[from + i] \in Numbers /\ first + from + i = from + i + first
  <2>1. from + i \in 1..len /\ first + from + i = from + i + first /\ first + from + i \in 0..MaxEvents
    BY <1>1, <1>2, <1>3
  <2>2. first + from + i > known
    BY <1>1, <1>2, <1>3
  <2>3. buffer[from + i] \in Numbers
    BY <1>1, <2>1
  <2>. QED
    BY <2>1, <2>2, <2>3
<1>7. items \in Seq(Items)
  <2>1. \A i \in 1..(len - from) : [mark |-> first + from + i, event |-> buffer[from + i]] \in Items
    BY <1>6 DEF Items
  <2>2. len - from \in Nat
    BY <1>1, <1>3
  <2>. QED
    BY <2>1, <2>2
<1>8. DOMAIN items = 1..(len - from)
  OBVIOUS
<1>9. \A i \in DOMAIN items : items[i].mark = first + from + i /\ items[i].event = buffer[from + i]
  OBVIOUS
<1>. HIDE DEF items
<1>10. ASSUME NEW i \in DOMAIN items
       PROVE  <<items[i].mark, items[i].event>> \in Held /\ items[i].mark > known
  BY <1>5, <1>6, <1>8, <1>9
<1>11. \A i, j \in DOMAIN items : i < j => items[i].mark < items[j].mark
  BY <1>1, <1>2, <1>3, <1>8, <1>9
<1>12. ASSUME NEW p \in Held, p[1] > known
       PROVE  \E i \in DOMAIN items : items[i] = [mark |-> p[1], event |-> p[2]]
  <2>1. PICK k \in 1..len : p = <<k + first, buffer[k]>>
    BY <1>5
  <2>2. k + first > known
    BY <1>12, <2>1
  <2>3. k - from \in 1..(len - from) /\ first + from + (k - from) = k + first /\ from + (k - from) = k
    BY <1>1, <1>2, <1>3, <2>2
  <2>4. items[k - from] = [mark |-> k + first, event |-> buffer[k]]
    BY <2>3 DEF items
  <2>. QED
    BY <1>8, <2>1, <2>3, <2>4
<1>. QED
  BY <1>4, <1>7, <1>10, <1>11, <1>12

LEMMA AddEventIs ==
    ASSUME TypeInv, NEW e \in Numbers, AddEvent(e)
    PROVE  /\ buffer' \in Seq(Numbers) /\ Len(buffer') <= MaxBuffer /\ Len(buffer') <= next' /\ buffer' # <<>>
           /\ next' = next + 1
           /\ status' = IF status = "none" THEN "running" ELSE status
           /\ Held' \subseteq Held \cup {<<next + 1, e>>}
<1>. DEFINE len == Len(buffer)
            new == Append(buffer, e)
<1>1. /\ len \in Nat /\ next \in Nat /\ len <= next /\ buffer \in Seq(Numbers) /\ DOMAIN buffer = 1..len
      /\ MaxBuffer \in Nat \ {0} /\ len <= MaxBuffer
  BY Parts, RunEventsAssumption DEF TypeInv, TypeOK
<1>2. /\ new \in Seq(Numbers) /\ Len(new) = len + 1
      /\ \A i \in 1..len : new[i] = buffer[i]
      /\ new[len + 1] = e
  BY <1>1, Appended
<1>3. next' = next + 1 /\ buffer' = Trimmed(new)
      /\ status' = IF status = "none" THEN "running" ELSE status
  BY DEF AddEvent
<1>. HIDE DEF new, len
<1>4. ASSUME NEW n \in Nat, NEW shift \in Nat, n + shift = len + 1, n > 0,
             buffer' \in Seq(Numbers), Len(buffer') = n, n <= MaxBuffer,
             \A i \in 1..n : buffer'[i] = new[shift + i]
      PROVE  /\ Len(buffer') <= MaxBuffer /\ Len(buffer') <= next' /\ buffer' # <<>>
             /\ Held' \subseteq Held \cup {<<next + 1, e>>}
  <2>1. ASSUME NEW p \in Held'
        PROVE  p \in Held \cup {<<next + 1, e>>}
    <3>1. PICK k \in DOMAIN buffer' : p = <<k + (next' - Len(buffer')), buffer'[k]>>
      BY <2>1 DEF Held
    <3>2. k \in 1..n
      BY <1>4, <3>1
    <3>3. k + (next' - n) = shift + k + (next - len) /\ shift + k \in 1..(len + 1)
      BY <1>1, <1>3, <1>4, <3>2
    <3>4. p = <<shift + k + (next - len), new[shift + k]>>
      BY <1>4, <3>1, <3>2, <3>3
    <3>5. CASE shift + k = len + 1
      BY <1>1, <1>2, <3>4, <3>5
    <3>6. CASE shift + k \in 1..len
      <4>1. p = <<(shift + k) + (next - len), buffer[shift + k]>>
        BY <1>2, <3>4, <3>6
      <4>. QED
        BY <1>1, <3>6, <4>1 DEF Held, len
    <3>. QED
      BY <1>1, <3>3, <3>5, <3>6
  <2>. QED
    BY <1>1, <1>3, <1>4, <2>1
<1>5. CASE Len(new) > MaxBuffer
  <2>. DEFINE n == MaxBuffer
              shift == len + 1 - MaxBuffer
  <2>1. n \in Nat /\ shift \in Nat /\ n + shift = len + 1 /\ n > 0 /\ n <= MaxBuffer
    BY <1>1, <1>2, <1>5
  <2>2. buffer' = SubSeq(new, shift + 1, len + 1)
    BY <1>1, <1>2, <1>3, <1>5 DEF Trimmed
  <2>3. buffer' \in Seq(Numbers) /\ Len(buffer') = n /\ \A i \in 1..n : buffer'[i] = new[shift + i]
    <3>1. \A i \in (shift + 1)..(len + 1) : new[i] \in Numbers
      BY <1>1, <1>2, <2>1
    <3>2. shift + 1 \in Int /\ len + 1 \in Int /\ shift + 1 <= len + 1 /\ (len + 1) - (shift + 1) + 1 = n
      BY <1>1, <2>1
    <3>3. /\ SubSeq(new, shift + 1, len + 1) \in Seq(Numbers)
          /\ Len(SubSeq(new, shift + 1, len + 1)) = (len + 1) - (shift + 1) + 1
          /\ \A i \in 1..((len + 1) - (shift + 1) + 1) :
                SubSeq(new, shift + 1, len + 1)[i] = new[(shift + 1) + i - 1]
      BY <3>1, <3>2, SubSeqProperties
    <3>4. \A i \in 1..n : (shift + 1) + i - 1 = shift + i
      BY <2>1
    <3>. QED
      BY <2>2, <3>2, <3>3, <3>4
  <2>. HIDE DEF n, shift
  <2>. QED
    BY <1>3, <1>4, <2>1, <2>3
<1>6. CASE ~(Len(new) > MaxBuffer)
  <2>1. buffer' = new
    BY <1>3, <1>6 DEF Trimmed
  <2>2. \A i \in 1..(len + 1) : buffer'[i] = new[0 + i]
    BY <2>1
  <2>3. len + 1 \in Nat /\ 0 \in Nat /\ (len + 1) + 0 = len + 1 /\ len + 1 > 0 /\ len + 1 <= MaxBuffer
    BY <1>1, <1>2, <1>6
  <2>. QED
    BY <1>2, <1>3, <1>4, <2>1, <2>2, <2>3
<1>. QED
  BY <1>5, <1>6

LEMMA EmitMoves == ASSUME TypeInv, Emit PROVE TypeInv' /\ Emits
<1>. DEFINE e == run.made + 1
            item == [mark |-> next', event |-> e]
<1>1. /\ run \in RunType /\ run.made \in Nat /\ next \in Nat /\ next <= run.made
      /\ run.st = "running" /\ run.made < MaxEvents /\ MaxEvents \in Nat /\ run' = [run EXCEPT !.made = e]
      /\ UNCHANGED <<pending, subs, client, resumes>>
      /\ PutAll(Listeners, item)
  BY Parts DEF Emit, TypeInv
<1>2. e \in Numbers /\ e \in 0..MaxEvents /\ e \in Nat
  BY <1>1 DEF Numbers
<1>3. /\ run' \in RunType /\ run'.made = e
      /\ run'.st = run.st /\ run'.leg = run.leg /\ run'.owner = run.owner
  BY <1>1, <1>2 DEF RunType
<1>4. CASE e \in Unbuffered
  <2>1. UNCHANGED <<buffer, next, status>>
    BY <1>4 DEF Emit
  <2>2. item \in Items \cup {End}
    BY <1>1, <1>2, <2>1 DEF Items, TypeInv, TypeOK
  <2>3. /\ queue' \in [Clients -> ItemSeqs]
        /\ \A c \in Clients : queue'[c] = IF c \in Listeners THEN Append(queue[c], item) ELSE queue[c]
    BY <1>1, <2>2, PutAllIs
  <2>4. TypeOK'
    BY <1>1, <1>3, <2>1, <2>3 DEF TypeInv, TypeOK, RunType, ItemSeqs
  <2>5. TypeInv'
    BY <1>1, <1>2, <1>3, <2>1, <2>4 DEF TypeInv
  <2>. QED
    BY <1>1, <1>3, <1>4, <2>1, <2>3, <2>5, BufferSame DEF Emits
<1>5. CASE e \notin Unbuffered
  <2>1. AddEvent(e)
    BY <1>5 DEF Emit
  <2>2. /\ buffer' \in Seq(Numbers) /\ Len(buffer') <= MaxBuffer /\ Len(buffer') <= next' /\ buffer' # <<>>
        /\ next' = next + 1 /\ status' = IF status = "none" THEN "running" ELSE status
        /\ Held' \subseteq Held \cup {<<next + 1, e>>}
    BY <1>2, <2>1, AddEventIs
  <2>3. next' \in 0..MaxEvents /\ next' <= e
    BY <1>1, <2>2
  <2>4. item \in Items \cup {End}
    BY <1>2, <2>3 DEF Items
  <2>5. /\ queue' \in [Clients -> ItemSeqs]
        /\ \A c \in Clients : queue'[c] = IF c \in Listeners THEN Append(queue[c], item) ELSE queue[c]
    BY <1>1, <2>4, PutAllIs
  <2>6. status' \in Statuses /\ status' # "none"
    BY <2>2 DEF TypeInv, TypeOK, Statuses
  <2>7. TypeOK'
    BY <1>1, <1>3, <2>2, <2>3, <2>5, <2>6 DEF TypeInv, TypeOK, RunType, ItemSeqs
  <2>8. TypeInv'
    BY <1>1, <1>3, <2>3, <2>7 DEF TypeInv
  <2>. QED
    BY <1>1, <1>3, <1>5, <2>2, <2>5, <2>8 DEF Emits
<1>. QED
  BY <1>4, <1>5

LEMMA SignalMoves ==
    ASSUME TypeInv, Pause \/ Finish \/ Complete
    PROVE  TypeInv' /\ Signals
<1>1. /\ run \in RunType /\ pending \in Nat /\ run.leg \in Nat /\ run.leg <= MaxLegs /\ MaxLegs \in Nat
      /\ status \in Statuses /\ \A c \in Clients : queue[c] \in ItemSeqs
  BY Parts DEF TypeInv, TypeOK, RunType
<1>2. CASE Pause \/ Finish
  <2>1. PICK st \in {"paused", "over"}, reported \in {"paused", "completed"} :
            EndLeg(st, reported) /\ (st = "paused" => run.leg < MaxLegs)
    BY <1>2 DEF Pause, Finish
  <2>2. /\ run.st = "running" /\ run' = [run EXCEPT !.st = st, !.owner = None]
        /\ PutAll({run.owner} \ {None}, End) /\ pending' = pending + 1
        /\ UNCHANGED <<buffer, next, subs, client, resumes>>
        /\ status' = IF status = "none" THEN "none" ELSE reported
    BY <2>1 DEF EndLeg, SetRunCompleted
  <2>3. /\ run' \in RunType /\ run'.st = st /\ run'.made = run.made /\ run'.leg = run.leg
    BY <1>1, <2>1, <2>2 DEF RunType, RunStates
  <2>4. /\ queue' \in [Clients -> ItemSeqs]
        /\ \A c \in Clients : queue'[c] \in {queue[c], Append(queue[c], End)}
    <3>1. /\ queue' \in [Clients -> ItemSeqs]
          /\ \A c \in Clients : queue'[c] = IF c \in {run.owner} \ {None} THEN Append(queue[c], End) ELSE queue[c]
      BY <2>2, PutAllIs
    <3>. QED
      BY <3>1
  <2>5. status' \in Statuses /\ (status' = "none" <=> status = "none")
    BY <1>1, <2>1, <2>2 DEF Statuses
  <2>6. pending' \in 0..MaxLegs /\ pending' <= run.leg
    BY <1>1, <2>2 DEF TypeInv
  <2>7. TypeOK'
    BY <2>2, <2>3, <2>4, <2>5, <2>6 DEF TypeInv, TypeOK, RunType, ItemSeqs
  <2>8. TypeInv'
    BY <2>1, <2>2, <2>3, <2>6, <2>7 DEF TypeInv
  <2>. QED
    BY <2>1, <2>2, <2>3, <2>4, <2>5, <2>8, BufferSame DEF Signals
<1>3. CASE Complete
  <2>1. /\ pending > 0 /\ pending' = pending - 1 /\ PutAll(subs, End)
        /\ UNCHANGED <<run, buffer, next, status, subs, client, resumes>>
    BY <1>3 DEF Complete
  <2>2. /\ queue' \in [Clients -> ItemSeqs]
        /\ \A c \in Clients : queue'[c] \in {queue[c], Append(queue[c], End)}
    <3>1. /\ queue' \in [Clients -> ItemSeqs]
          /\ \A c \in Clients : queue'[c] = IF c \in subs THEN Append(queue[c], End) ELSE queue[c]
      BY <2>1, PutAllIs
    <3>. QED
      BY <3>1
  <2>3. pending' \in 0..MaxLegs /\ pending' <= run.leg /\ pending' < pending
    BY <1>1, <2>1 DEF TypeInv
  <2>4. TypeOK'
    BY <2>1, <2>2, <2>3 DEF TypeInv, TypeOK, ItemSeqs
  <2>5. TypeInv'
    BY <1>1, <2>1, <2>3, <2>4 DEF TypeInv
  <2>. QED
    BY <2>1, <2>2, <2>5, BufferSame DEF Signals
<1>. QED
  BY <1>2, <1>3

LEMMA CleanMoves == ASSUME TypeInv, Cleanup PROVE TypeInv' /\ Cleans
<1>1. /\ status = "completed" /\ status' = "none" /\ next' = 0 /\ buffer' = <<>>
      /\ UNCHANGED <<run, client, queue, subs, pending, resumes>>
  BY DEF Cleanup
<1>2. Held' = {}
  BY <1>1 DEF Held
<1>3. /\ MaxEvents \in Nat /\ MaxBuffer \in Nat /\ run.made \in Nat
      /\ Len(<<>>) = 0 /\ <<>> \in Seq(Numbers)
  BY Parts, RunEventsAssumption
<1>4. next' \in 0..MaxEvents /\ Len(buffer') <= MaxBuffer /\ Len(buffer') <= next' /\ buffer' \in Seq(Numbers)
  BY <1>1, <1>3
<1>5. TypeOK'
  BY <1>1, <1>4 DEF TypeInv, TypeOK, Statuses
<1>6. TypeInv'
  BY <1>1, <1>3, <1>5 DEF TypeInv
<1>. QED
  BY <1>1, <1>2, <1>6 DEF Cleans

LEMMA OpenMoves ==
    ASSUME TypeInv, NEW c \in Clients, Begin(c) \/ Continue(c)
    PROVE  TypeInv' /\ Opens(c)
<1>1. OpenPrimary(c) /\ UNCHANGED <<buffer, next, status, pending, subs, resumes>>
  BY DEF Begin, Continue
<1>2. /\ client' \in [Clients -> ClientType] /\ queue' \in [Clients -> ItemSeqs]
      /\ client'[c].pc = "primary" /\ client'[c].todo = <<>> /\ Keeps(c)
      /\ Rest(c) /\ queue'[c] = <<>>
  BY <1>1, OpenPrimaryIs
<1>3. run \in RunType /\ run.leg \in 0..MaxLegs /\ MaxLegs \in Nat \ {0}
  BY Parts, RunEventsAssumption DEF RunType
<1>4. /\ run' \in RunType /\ run'.made = run.made /\ run'.owner = c /\ run'.st = "running"
      /\ run'.leg = run.leg + 1
      /\ \/ run.st = "idle" /\ run'.leg = 1
         \/ run.st = "paused" /\ run'.leg = run.leg + 1 /\ ~Open(c)
  <2>1. CASE Begin(c)
    <3>1. run.leg = 0 /\ run.st = "idle"
      BY <2>1 DEF Begin, TypeInv
    <3>2. 1 \in 0..MaxLegs
      BY <1>3
    <3>. DEFINE n == 1
    <3>3. run' = [run EXCEPT !.st = "running", !.leg = n, !.owner = c] /\ n = run.leg + 1
      BY <2>1, <3>1 DEF Begin
    <3>. HIDE DEF n
    <3>4. /\ run' \in RunType /\ run'.made = run.made /\ run'.owner = c /\ run'.st = "running" /\ run'.leg = n
      BY <1>3, <3>2, <3>3 DEF RunType, RunStates, n
    <3>. QED
      BY <3>1, <3>3, <3>4 DEF n
  <2>2. CASE Continue(c)
    <3>. DEFINE n == run.leg + 1
    <3>1. run.leg < MaxLegs /\ run.st = "paused" /\ ~Open(c)
      BY <2>2 DEF Continue, TypeInv
    <3>2. n \in 0..MaxLegs
      BY <1>3, <3>1
    <3>3. run' = [run EXCEPT !.st = "running", !.leg = n, !.owner = c]
      BY <2>2 DEF Continue
    <3>. HIDE DEF n
    <3>4. /\ run' \in RunType /\ run'.made = run.made /\ run'.owner = c /\ run'.st = "running" /\ run'.leg = n
      BY <1>3, <3>2, <3>3 DEF RunType, RunStates
    <3>. QED
      BY <3>1, <3>4 DEF n
  <2>. QED
    BY <2>1, <2>2
<1>5. TypeInv'
  <2>1. subs' \subseteq Clients /\ resumes' \in 0..MaxResumes
    BY <1>1 DEF TypeInv, TypeOK
  <2>2. UNCHANGED <<buffer, next, status, pending>>
    BY <1>1
  <2>. QED
    BY <1>2, <1>4, <2>1, <2>2, ClientMoveType
<1>. QED
  BY <1>1, <1>2, <1>4, <1>5, BufferSame DEF Opens, BufferStays

(* Steps of a client that leave the run alone. *)
LEMMA OwnMoveType ==
    ASSUME TypeInv, NEW c \in Clients, Rest(c),
           client' \in [Clients -> ClientType], queue' \in [Clients -> ItemSeqs],
           UNCHANGED <<run, buffer, next, status, pending>>,
           subs' \subseteq Clients, resumes' \in 0..MaxResumes
    PROVE  TypeInv' /\ BufferStays
<1>1. run' \in RunType /\ run'.made = run.made /\ run'.leg = run.leg /\ run'.st = run.st
  BY Parts
<1>2. TypeInv'
  BY <1>1, ClientMoveType
<1>. QED
  BY <1>2, BufferSame DEF BufferStays

LEMMA BecomeMoves ==
    ASSUME TypeInv, NEW c \in Clients, NEW pc \in ClientStates, NEW todo \in Seq(Items), Become(c, pc, todo),
           UNCHANGED <<run, buffer, next, status, pending>>,
           queue' = queue \/ queue' = [queue EXCEPT ![c] = <<>>],
           subs' \subseteq Clients, resumes' \in 0..MaxResumes
    PROVE  /\ TypeInv' /\ BufferStays /\ Rest(c) /\ Keeps(c)
           /\ client'[c].pc = pc /\ client'[c].todo = todo
           /\ queue' = queue => queue'[c] = queue[c]
           /\ queue' # queue => queue'[c] = <<>>
<1>1. /\ client' \in [Clients -> ClientType]
      /\ client'[c].pc = pc /\ client'[c].todo = todo /\ Keeps(c)
      /\ \A d \in Clients \ {c} : client'[d] = client[d]
  BY BecomeIs
<1>2. /\ queue' \in [Clients -> ItemSeqs]
      /\ \A d \in Clients \ {c} : queue'[d] = queue[d]
      /\ queue' # queue => queue'[c] = <<>>
  <2>1. queue \in [Clients -> ItemSeqs]
    BY Parts
  <2>2. <<>> \in ItemSeqs
    BY DEF ItemSeqs
  <2>3. CASE queue' = queue
    BY <2>1, <2>3
  <2>4. CASE queue' = [queue EXCEPT ![c] = <<>>]
    BY <2>1, <2>2, <2>4
  <2>. QED
    BY <2>3, <2>4
<1>3. Rest(c)
  BY <1>1, <1>2 DEF Rest
<1>4. TypeInv' /\ BufferStays
  BY <1>1, <1>2, <1>3, OwnMoveType
<1>. QED
  BY <1>1, <1>2, <1>3, <1>4

LEMMA ResumeMoves ==
    ASSUME TypeInv, NEW c \in Clients, ResumeFromDatabase(c) \/ ResumeStopped(c) \/ ResumeActive(c)
    PROVE  TypeInv' /\ (Subscribes(c) \/ Replays(c) \/ Answered(c))
<1>. DEFINE missed == Missed(client[c].known)
<1>1. /\ run.st # "idle" /\ ~Open(c) /\ UNCHANGED <<run, buffer, next, status, pending>>
      /\ resumes' \in 0..MaxResumes
  <2>1. Resume(c)
    BY DEF ResumeFromDatabase, ResumeStopped, ResumeActive
  <2>2. resumes \in Nat /\ MaxResumes \in Nat
    BY Parts, RunEventsAssumption
  <2>. QED
    BY <2>1, <2>2 DEF Resume
<1>2. missed \in Seq(Items) /\ <<>> \in Seq(Items) /\ {"dbended", "replay", "catchup"} \subseteq ClientStates
      /\ subs \subseteq Clients
  <2>1. client[c].known \in Nat /\ <<>> \in Seq(Items)
    BY Parts
  <2>2. missed \in Seq(Items)
    BY <2>1, MissedIs
  <2>3. subs \subseteq Clients
    BY DEF TypeInv, TypeOK
  <2>. QED
    BY <2>1, <2>2, <2>3 DEF ClientStates, Streams
<1>. HIDE DEF missed
<1>3. CASE ResumeFromDatabase(c)
  <2>1. Become(c, "dbended", <<>>) /\ UNCHANGED <<subs, queue>>
    BY <1>3 DEF ResumeFromDatabase
  <2>2. /\ TypeInv' /\ BufferStays /\ Rest(c) /\ Keeps(c)
        /\ client'[c].pc = "dbended" /\ client'[c].todo = <<>> /\ queue'[c] = queue[c]
    BY <1>1, <1>2, <2>1, BecomeMoves
  <2>. QED
    BY <1>1, <2>1, <2>2 DEF Answered
<1>4. CASE ResumeStopped(c)
  <2>1. Become(c, "replay", missed) /\ UNCHANGED <<subs, queue>> /\ status \notin {"none", "running"}
    BY <1>4 DEF ResumeStopped, missed
  <2>2. /\ TypeInv' /\ BufferStays /\ Rest(c) /\ Keeps(c)
        /\ client'[c].pc = "replay" /\ client'[c].todo = missed /\ queue'[c] = queue[c]
    BY <1>1, <1>2, <2>1, BecomeMoves
  <2>. QED
    BY <1>1, <2>1, <2>2 DEF Replays, missed
<1>5. CASE ResumeActive(c)
  <2>1. Become(c, "catchup", missed) /\ subs' = subs \cup {c} /\ queue' = [queue EXCEPT ![c] = <<>>]
        /\ status = "running"
    BY <1>5 DEF ResumeActive, missed
  <2>2. subs' \subseteq Clients /\ queue \in [Clients -> ItemSeqs]
    BY <1>2, <2>1, Parts
  <2>3. /\ TypeInv' /\ BufferStays /\ Rest(c) /\ Keeps(c)
        /\ client'[c].pc = "catchup" /\ client'[c].todo = missed
    BY <1>1, <1>2, <2>1, <2>2, BecomeMoves
  <2>4. queue'[c] = <<>>
    BY <2>1, <2>2
  <2>. QED
    BY <1>1, <2>1, <2>3, <2>4 DEF Subscribes, missed
<1>. QED
  BY <1>3, <1>4, <1>5

LEMMA CloseMoves ==
    ASSUME TypeInv, NEW c \in Clients, NEW pc \in {"away", "ended"}, Close(c, pc), Open(c),
           pc = "ended" => \/ client[c].pc = "replay" /\ client[c].todo = <<>>
                           \/ client[c].pc \in {"primary", "live"} /\ queue[c] # <<>> /\ queue[c][1] = End
    PROVE  TypeInv' /\ Closes(c)
<1>. DEFINE owner == IF run.owner = c THEN None ELSE run.owner
<1>1. /\ Become(c, pc, <<>>) /\ subs' = subs \ {c} /\ queue' = [queue EXCEPT ![c] = <<>>]
      /\ run' = IF run.owner = c THEN [run EXCEPT !.owner = None] ELSE run
      /\ UNCHANGED <<buffer, next, status, pending, resumes>>
  BY DEF Close
<1>2. pc \in ClientStates /\ <<>> \in Seq(Items) /\ <<>> \in ItemSeqs
  BY DEF ClientStates, ItemSeqs
<1>3. /\ client' \in [Clients -> ClientType]
      /\ client'[c].pc = pc /\ client'[c].todo = <<>> /\ Keeps(c)
      /\ \A d \in Clients \ {c} : client'[d] = client[d]
  BY <1>1, <1>2, BecomeIs
<1>4. queue' \in [Clients -> ItemSeqs] /\ queue'[c] = <<>> /\ \A d \in Clients \ {c} : queue'[d] = queue[d]
  BY <1>1, <1>2, Parts
<1>5. /\ run' \in RunType /\ run'.owner = owner
      /\ run'.st = run.st /\ run'.leg = run.leg /\ run'.made = run.made
  BY <1>1, Parts DEF RunType
<1>6. Rest(c)
  BY <1>3, <1>4 DEF Rest
<1>7. subs' \subseteq Clients /\ resumes' \in 0..MaxResumes
  BY <1>1 DEF TypeInv, TypeOK
<1>8. TypeInv'
  BY <1>1, <1>3, <1>4, <1>5, <1>6, <1>7, ClientMoveType
<1>. QED
  BY <1>1, <1>3, <1>4, <1>5, <1>6, <1>8, BufferSame DEF Closes, BufferStays

LEMMA DeliveredIs ==
    ASSUME NEW r \in ClientType, NEW item \in Items
    PROVE  /\ Delivered(r, item) \in ClientType
           /\ Delivered(r, item).pc = r.pc /\ Delivered(r, item).todo = r.todo
           /\ Delivered(r, item).got = Append(r.got, item.event)
           /\ Delivered(r, item).known = IF item.mark = 0 THEN r.known ELSE item.mark
<1>. DEFINE got == Append(r.got, item.event)
            known == IF item.mark = 0 THEN r.known ELSE item.mark
<1>1. r.got \in Seq(Numbers) /\ r.known \in 0..MaxEvents
  BY DEF ClientType
<1>2. item.event \in Numbers /\ item.mark \in 0..MaxEvents
  BY DEF Items
<1>3. got \in Seq(Numbers) /\ known \in 0..MaxEvents
  BY <1>1, <1>2, Appended
<1>4. Delivered(r, item) = [r EXCEPT !.got = got, !.known = known]
  BY DEF Delivered
<1>. HIDE DEF got, known
<1>5. /\ [r EXCEPT !.got = got, !.known = known] \in ClientType
      /\ [r EXCEPT !.got = got, !.known = known].pc = r.pc
      /\ [r EXCEPT !.got = got, !.known = known].todo = r.todo
      /\ [r EXCEPT !.got = got, !.known = known].got = got
      /\ [r EXCEPT !.got = got, !.known = known].known = known
  BY <1>3 DEF ClientType
<1>. QED
  BY <1>4, <1>5 DEF got, known

LEMMA GiveMoves ==
    ASSUME TypeInv, NEW c \in Clients, Replay(c)
    PROVE  TypeInv' /\ Gives(c)
<1>. DEFINE r == client[c]
            item == r.todo[1]
            new == [Delivered(r, item) EXCEPT !.todo = Tail(r.todo)]
<1>1. /\ r.pc \in {"replay", "catchup"} /\ r.todo # <<>>
      /\ UNCHANGED <<run, buffer, next, status, pending, subs, queue, resumes>>
      /\ client' = [client EXCEPT ![c] = [Delivered(r, Head(r.todo)) EXCEPT !.todo = Tail(r.todo)]]
  BY DEF Replay
<1>2. r \in ClientType /\ r.todo \in Seq(Items) /\ client \in [Clients -> ClientType] /\ queue \in [Clients -> ItemSeqs]
  BY Parts
<1>3. Tail(r.todo) \in Seq(Items) /\ Head(r.todo) = item /\ item \in Items
  BY <1>1, <1>2, Behead
<1>4. /\ Delivered(r, item) \in ClientType
      /\ Delivered(r, item).pc = r.pc
      /\ Delivered(r, item).got = Append(r.got, item.event)
      /\ Delivered(r, item).known = IF item.mark = 0 THEN r.known ELSE item.mark
  BY <1>2, <1>3, DeliveredIs
<1>5. /\ new \in ClientType /\ new.pc = r.pc /\ new.todo = Tail(r.todo)
      /\ new.got = Append(r.got, item.event)
      /\ new.known = IF item.mark = 0 THEN r.known ELSE item.mark
  BY <1>3, <1>4 DEF ClientType
<1>6. client' = [client EXCEPT ![c] = new]
  BY <1>1, <1>3
<1>. HIDE DEF new, item, r
<1>7. client' \in [Clients -> ClientType] /\ client'[c] = new /\ \A d \in Clients \ {c} : client'[d] = client[d]
  BY <1>2, <1>5, <1>6
<1>8. Rest(c)
  BY <1>1, <1>7 DEF Rest
<1>9. TypeInv' /\ BufferStays
  <2>1. subs' \subseteq Clients /\ resumes' \in 0..MaxResumes /\ queue' \in [Clients -> ItemSeqs]
    BY <1>1, <1>2 DEF TypeInv, TypeOK
  <2>2. UNCHANGED <<run, buffer, next, status, pending>>
    BY <1>1
  <2>. QED
    BY <1>7, <1>8, <2>1, <2>2, OwnMoveType
<1>10. Gets(c, item)
  BY <1>5, <1>7 DEF Gets, r
<1>. QED
  BY <1>1, <1>5, <1>7, <1>8, <1>9, <1>10 DEF Gives, r, item

LEMMA TakeMoves ==
    ASSUME TypeInv, NEW c \in Clients, Take(c)
    PROVE  TypeInv' /\ (Takes(c) \/ Drops(c))
<1>. DEFINE r == client[c]
            items == queue[c]
            item == items[1]
            new == IF r.pc = "live" /\ Duplicate(c, item) THEN r ELSE Delivered(r, item)
<1>1. /\ r.pc \in {"primary", "live"} /\ items # <<>> /\ Head(items) # End
      /\ UNCHANGED <<run, buffer, next, status, pending, subs, resumes>>
      /\ queue' = [queue EXCEPT ![c] = Tail(items)]
      /\ client' = IF r.pc = "live" /\ Duplicate(c, Head(items)) THEN client
                   ELSE [client EXCEPT ![c] = Delivered(r, Head(items))]
  BY DEF Take
<1>2. r \in ClientType /\ items \in ItemSeqs /\ client \in [Clients -> ClientType] /\ queue \in [Clients -> ItemSeqs]
      /\ r.known \in Nat
  BY Parts
<1>3. Tail(items) \in ItemSeqs /\ Head(items) = item /\ item \in Items
  <2>1. Tail(items) \in ItemSeqs /\ Head(items) = item /\ item \in Items \cup {End}
    BY <1>1, <1>2, Behead DEF ItemSeqs
  <2>. QED
    BY <1>1, <2>1
<1>4. /\ Delivered(r, item) \in ClientType
      /\ Delivered(r, item).pc = r.pc /\ Delivered(r, item).todo = r.todo
      /\ Delivered(r, item).got = Append(r.got, item.event)
      /\ Delivered(r, item).known = IF item.mark = 0 THEN r.known ELSE item.mark
  BY <1>2, <1>3, DeliveredIs
<1>5. new \in ClientType
  BY <1>2, <1>4
<1>6. client' \in [Clients -> ClientType] /\ client'[c] = new /\ \A d \in Clients \ {c} : client'[d] = client[d]
  BY <1>1, <1>2, <1>3, <1>4
<1>7. queue' \in [Clients -> ItemSeqs] /\ queue'[c] = Tail(items) /\ \A d \in Clients \ {c} : queue'[d] = queue[d]
  BY <1>1, <1>2, <1>3
<1>8. Rest(c)
  BY <1>6, <1>7 DEF Rest
<1>9. TypeInv' /\ BufferStays
  <2>1. subs' \subseteq Clients /\ resumes' \in 0..MaxResumes
    BY <1>1 DEF TypeInv, TypeOK
  <2>2. UNCHANGED <<run, buffer, next, status, pending>>
    BY <1>1
  <2>. QED
    BY <1>6, <1>7, <1>8, <2>1, <2>2, OwnMoveType
<1>10. item.mark \in Nat /\ item # End
  BY <1>1, <1>3 DEF Items
<1>11. CASE r.pc = "live" /\ Duplicate(c, item)
  <2>1. client'[c] = client[c]
    BY <1>6, <1>11
  <2>2. item.mark > 0 /\ item.mark <= client[c].known
    BY <1>11 DEF Duplicate
  <2>. QED
    BY <1>1, <1>7, <1>8, <1>9, <1>10, <1>11, <2>1, <2>2 DEF Drops
<1>12. CASE ~(r.pc = "live" /\ Duplicate(c, item))
  <2>1. client'[c] = Delivered(r, item)
    BY <1>6, <1>12
  <2>2. Gets(c, item)
    BY <1>4, <2>1 DEF Gets
  <2>3. r.pc = "live" => item.mark = 0 \/ item.mark > client[c].known
    BY <1>2, <1>10, <1>12 DEF Duplicate
  <2>. QED
    BY <1>1, <1>4, <1>7, <1>8, <1>9, <1>10, <2>1, <2>2, <2>3 DEF Takes
<1>. QED
  BY <1>11, <1>12

LEMMA StreamMoves ==
    ASSUME TypeInv, NEW c \in Clients, Stream(c) \/ Disconnect(c)
    PROVE  TypeInv' /\ ClientMove(c)
<1>. DEFINE missed == Missed(client[c].known)
<1>1. missed \in Seq(Items) /\ <<>> \in Seq(Items) /\ {"live", "replay"} \subseteq ClientStates
  <2>1. client[c].known \in Nat /\ <<>> \in Seq(Items)
    BY Parts
  <2>2. missed \in Seq(Items)
    BY <2>1, MissedIs
  <2>. QED
    BY <2>1, <2>2 DEF ClientStates, Streams
<1>2. subs \subseteq Clients /\ resumes \in 0..MaxResumes /\ queue[c] \in ItemSeqs
  BY Parts DEF TypeInv, TypeOK
<1>. HIDE DEF missed
<1>3. CASE Replay(c)
  BY <1>3, GiveMoves DEF ClientMove
<1>4. CASE Take(c)
  BY <1>4, TakeMoves DEF ClientMove
<1>5. CASE ReplayEnds(c)
  <2>1. Close(c, "ended") /\ client[c].pc = "replay" /\ client[c].todo = <<>> /\ Open(c)
    BY <1>5 DEF ReplayEnds, Open, Streams
  <2>. QED
    BY <2>1, CloseMoves DEF ClientMove
<1>6. CASE TakeEnd(c)
  <2>1. Close(c, "ended") /\ client[c].pc \in {"primary", "live"} /\ queue[c] # <<>> /\ Head(queue[c]) = End /\ Open(c)
    BY <1>6 DEF TakeEnd, Open, Streams
  <2>2. queue[c][1] = End
    BY <1>2, <2>1, Behead DEF ItemSeqs
  <2>. QED
    BY <2>1, <2>2, CloseMoves DEF ClientMove
<1>7. CASE Disconnect(c)
  <2>1. Close(c, "away") /\ Open(c)
    BY <1>7 DEF Disconnect
  <2>. QED
    BY <2>1, CloseMoves DEF ClientMove
<1>8. CASE Timeout(c)
  <2>1. /\ client[c].pc = "live" /\ queue[c] = <<>> /\ status # "running" /\ Become(c, "replay", missed)
        /\ UNCHANGED <<run, buffer, next, status, pending, subs, queue, resumes>>
    BY <1>8 DEF Timeout, missed
  <2>2. /\ TypeInv' /\ BufferStays /\ Rest(c) /\ Keeps(c)
        /\ client'[c].pc = "replay" /\ client'[c].todo = missed /\ queue'[c] = queue[c]
    BY <1>1, <1>2, <2>1, BecomeMoves
  <2>. QED
    BY <2>1, <2>2 DEF Replays, ClientMove, missed
<1>9. CASE Recheck(c)
  <2>1. /\ client[c].pc = "catchup" /\ client[c].todo = <<>>
        /\ UNCHANGED <<run, buffer, next, status, pending, subs, queue, resumes>>
    BY <1>9 DEF Recheck
  <2>2. CASE status \in {"none", "running"}
    <3>1. Become(c, "live", <<>>)
      BY <1>9, <2>2 DEF Recheck
    <3>2. /\ TypeInv' /\ BufferStays /\ Rest(c) /\ Keeps(c)
          /\ client'[c].pc = "live" /\ client'[c].todo = <<>> /\ queue'[c] = queue[c]
      BY <1>1, <1>2, <2>1, <3>1, BecomeMoves, ZenonT(60)
    <3>. QED
      BY <2>1, <2>2, <3>2 DEF Joins, ClientMove
  <2>3. CASE status \notin {"none", "running"}
    <3>1. Become(c, "replay", missed)
      BY <1>9, <2>3 DEF Recheck, missed
    <3>2. /\ TypeInv' /\ BufferStays /\ Rest(c) /\ Keeps(c)
          /\ client'[c].pc = "replay" /\ client'[c].todo = missed /\ queue'[c] = queue[c]
      BY <1>1, <1>2, <2>1, <3>1, BecomeMoves
    <3>. QED
      BY <2>1, <2>3, <3>2 DEF Replays, ClientMove, missed
  <2>. QED
    BY <2>2, <2>3
<1>. QED
  BY <1>3, <1>4, <1>5, <1>6, <1>7, <1>8, <1>9 DEF Stream

LEMMA NextMoves ==
    ASSUME TypeInv, [Next]_vars
    PROVE  TypeInv' /\ (Still \/ Emits \/ Signals \/ Cleans \/ \E c \in Clients : ClientMove(c))
<1>1. CASE UNCHANGED vars
  <2>1. Still
    BY <1>1, BufferSame DEF vars, Still
  <2>. QED
    BY <1>1, <2>1 DEF vars, TypeInv, TypeOK
<1>2. CASE Produce \/ Complete
  BY <1>2, EmitMoves, SignalMoves DEF Produce
<1>3. CASE Cleanup
  BY <1>3, CleanMoves
<1>4. ASSUME NEW c \in Clients, Begin(c) \/ Continue(c)
      PROVE  TypeInv' /\ ClientMove(c)
  BY <1>4, OpenMoves DEF ClientMove
<1>5. ASSUME NEW c \in Clients, Stream(c) \/ Disconnect(c)
      PROVE  TypeInv' /\ ClientMove(c)
  BY <1>5, StreamMoves
<1>6. ASSUME NEW c \in Clients, ResumeFromDatabase(c) \/ ResumeStopped(c) \/ ResumeActive(c)
      PROVE  TypeInv' /\ ClientMove(c)
  BY <1>6, ResumeMoves DEF ClientMove
<1>. QED
  BY <1>1, <1>2, <1>3, <1>4, <1>5, <1>6 DEF Next

LEMMA TypeInvariant == Spec => []TypeInv
<1>1. Init => TypeInv
  <2>. SUFFICES ASSUME Init PROVE TypeInv
    OBVIOUS
  <2>1. /\ MaxEvents \in Nat /\ MaxLegs \in Nat /\ MaxBuffer \in Nat /\ MaxResumes \in Nat
        /\ 0 \in 0..MaxLegs /\ 0 \in 0..MaxEvents /\ 0 \in 0..MaxResumes /\ Len(<<>>) = 0
        /\ "idle" \in RunStates /\ "none" \in Statuses /\ "away" \in ClientStates
    BY RunEventsAssumption DEF RunStates, Statuses, ClientStates
  <2>2. run \in RunType
    BY <2>1 DEF Init, RunType
  <2>3. client \in [Clients -> ClientType]
    BY <2>1 DEF Init, ClientType
  <2>4. queue \in [Clients -> Seq(Items \cup {End})]
    BY DEF Init
  <2>5. Len(buffer) <= MaxBuffer /\ Len(buffer) <= next
    BY <2>1 DEF Init
  <2>6. TypeOK
    BY <2>1, <2>2, <2>3, <2>4, <2>5 DEF Init, TypeOK, RunType, ClientType
  <2>. QED
    BY <2>6 DEF Init, TypeInv
<1>2. TypeInv /\ [Next]_vars => TypeInv'
  BY NextMoves
<1>. QED
  BY <1>1, <1>2, PTL DEF Spec

(* Every state is well formed; among the rest, the buffer keeps within its     *)
(* limit and has metadata as long as it has events.                          *)
THEOREM TypeCorrect == Spec => []TypeOK
<1>1. TypeInv => TypeOK
  BY DEF TypeInv
<1>. QED
  BY <1>1, TypeInvariant, PTL

-----------------------------------------------------------------------------
(* The order of the events. *)

Sorted(got) == \A i, j \in DOMAIN got : i < j => got[i] < got[j]

(* Among sentinels. *)
Rising(items) ==
    \A i, j \in DOMAIN items : i < j /\ items[i].event > 0 /\ items[j].event > 0 => items[i].event < items[j].event

Before(got, items) ==
    \A i \in DOMAIN got, j \in DOMAIN items : items[j].event > 0 => got[i] < items[j].event

ItemsBefore(first, second) ==
    \A i \in DOMAIN first, j \in DOMAIN second : second[j].event > 0 => first[i].event < second[j].event

Upto(items, n) == \A i \in DOMAIN items : items[i].event <= n

(* Whoever knows an item's index has missed only what is younger.            *)
Marked(items, held) ==
    \A i \in DOMAIN items : \A p \in held : p[1] > items[i].mark => p[2] > items[i].event

Following == {"primary", "catchup", "live"}

ClientOrder(r, items, made, held) ==
    /\ Sorted(r.got) /\ Rising(r.todo) /\ Rising(items)
    /\ Before(r.got, r.todo)
    /\ r.pc \in Following => Before(r.got, items) /\ ItemsBefore(r.todo, items)
    /\ r.pc \notin {"replay", "catchup"} => r.todo = <<>>
    /\ \A i \in DOMAIN r.got : r.got[i] <= made
    /\ Upto(r.todo, made) /\ Upto(items, made)
    /\ Marked(r.todo, held) /\ Marked(items, held)
    /\ \A p \in held : p[1] > r.known => \A i \in DOMAIN r.got : r.got[i] < p[2]

HeldOrder(held, made, last) ==
    /\ \A p, q \in held : p[1] < q[1] => p[2] < q[2]
    /\ \A p \in held : p[1] <= last /\ p[1] >= 1 /\ p[2] <= made /\ p[2] >= 1

OrderInv ==
    /\ HeldOrder(Held, run.made, next)
    /\ \A c \in Clients : ClientOrder(client[c], queue[c], run.made, Held)

(* While a client's stream stands still: events it has not got may come, and *)
(* old ones go.                                                              *)
LEMMA OrderStands ==
    ASSUME NEW r \in ClientType, NEW items \in ItemSeqs, NEW made \in Nat, NEW later \in Nat, made <= later,
           NEW held, NEW more, more \subseteq Nat \X Nat, \A p \in more : p \in held \/ p[2] > made,
           ClientOrder(r, items, made, held)
    PROVE  ClientOrder(r, items, later, more)
<1>1. /\ \A i \in DOMAIN r.got : r.got[i] \in Nat
      /\ \A i \in DOMAIN r.todo : r.todo[i].event \in Nat
      /\ \A i \in DOMAIN items : items[i].event \in Nat
  <2>1. /\ \A i \in DOMAIN r.got : r.got[i] \in Numbers
        /\ \A i \in DOMAIN r.todo : r.todo[i] \in Items
        /\ \A i \in DOMAIN items : items[i] \in Items \cup {End}
    BY DEF ClientType, ItemSeqs
  <2>. QED
    BY <2>1, ItemFacts DEF Numbers
<1>2. Upto(r.todo, later) /\ Upto(items, later) /\ \A i \in DOMAIN r.got : r.got[i] <= later
  BY <1>1 DEF ClientOrder, Upto
<1>3. ASSUME NEW s, \A i \in DOMAIN s : s[i].event \in Nat, Upto(s, made), Marked(s, held)
      PROVE  Marked(s, more)
  BY <1>3 DEF Upto, Marked
<1>4. \A p \in more : p[1] > r.known => \A i \in DOMAIN r.got : r.got[i] < p[2]
  BY <1>1 DEF ClientOrder
<1>. QED
  BY <1>1, <1>2, <1>3, <1>4 DEF ClientOrder

(* Something is put into its queue. *)
LEMMA OrderPut ==
    ASSUME NEW r \in ClientType, NEW items \in ItemSeqs, NEW made \in Nat, NEW later \in Nat,
           NEW held, held \subseteq Nat \X Nat, ClientOrder(r, items, later, held),
           NEW item \in Items \cup {End},
           \A i \in DOMAIN r.got : r.got[i] <= made, Upto(r.todo, made), Upto(items, made),
           item = End \/ (item.event = later /\ made < later),
           \A p \in held : p[1] > item.mark => p[2] > item.event
    PROVE  ClientOrder(r, Append(items, item), later, held)
<1>. DEFINE new == Append(items, item)
            n == Len(items)
<1>1. /\ n \in Nat /\ DOMAIN items = 1..n /\ DOMAIN new = 1..(n + 1)
      /\ \A i \in 1..n : new[i] = items[i]
      /\ new[n + 1] = item
  BY Appended DEF ItemSeqs
<1>2. /\ \A i \in DOMAIN r.got : r.got[i] \in Nat
      /\ \A i \in DOMAIN r.todo : r.todo[i].event \in Nat
      /\ \A i \in 1..n : items[i].event \in Nat
      /\ item.event \in Nat /\ item.event <= later /\ (item.event > 0 => item.event = later /\ made < later)
  <2>1. /\ \A i \in DOMAIN r.got : r.got[i] \in Numbers
        /\ \A i \in DOMAIN r.todo : r.todo[i] \in Items
        /\ \A i \in DOMAIN items : items[i] \in Items \cup {End}
    BY DEF ClientType, ItemSeqs
  <2>2. item = End => ~(item.event > 0)
    BY ItemFacts
  <2>. QED
    BY <1>1, <2>1, <2>2, ItemFacts DEF Numbers
<1>. HIDE DEF new, n
<1>3. \A i \in DOMAIN new : i \in 1..n \/ (i = n + 1 /\ new[i] = item)
  BY <1>1
<1>4. Rising(new)
  <2>1. Rising(items) /\ Upto(items, made)
    BY DEF ClientOrder
  <2>2. ASSUME NEW i \in DOMAIN new, NEW j \in DOMAIN new, i < j, new[i].event > 0, new[j].event > 0
        PROVE  new[i].event < new[j].event
    <3>1. i \in 1..n
      BY <1>1, <2>2
    <3>2. new[i] = items[i] /\ items[i].event <= made
      BY <1>1, <2>1, <3>1 DEF Upto
    <3>3. CASE j \in 1..n
      BY <1>1, <2>1, <2>2, <3>1, <3>2, <3>3 DEF Rising
    <3>4. CASE j = n + 1
      BY <1>1, <1>2, <2>2, <3>1, <3>2, <3>4
    <3>. QED
      BY <1>3, <3>3, <3>4
  <2>. QED
    BY <2>2 DEF Rising
<1>5. r.pc \in Following => Before(r.got, new) /\ ItemsBefore(r.todo, new)
  <2>. SUFFICES ASSUME r.pc \in Following PROVE Before(r.got, new) /\ ItemsBefore(r.todo, new)
    OBVIOUS
  <2>1. Before(r.got, items) /\ ItemsBefore(r.todo, items)
    BY DEF ClientOrder
  <2>2. ASSUME NEW j \in DOMAIN new, new[j].event > 0
        PROVE  /\ \A i \in DOMAIN r.got : r.got[i] < new[j].event
               /\ \A i \in DOMAIN r.todo : r.todo[i].event < new[j].event
    <3>1. CASE j \in 1..n
      BY <1>1, <2>1, <2>2, <3>1 DEF Before, ItemsBefore
    <3>2. CASE j = n + 1 /\ new[j] = item
      BY <1>2, <2>2, <3>2 DEF Upto
    <3>. QED
      BY <1>3, <3>1, <3>2
  <2>. QED
    BY <2>2 DEF Before, ItemsBefore
<1>6. Upto(new, later) /\ Marked(new, held)
  <2>1. Upto(items, later) /\ Marked(items, held)
    BY DEF ClientOrder
  <2>2. item.event <= later
    BY <1>2
  <2>3. ASSUME NEW i \in DOMAIN new
        PROVE  new[i].event <= later /\ \A p \in held : p[1] > new[i].mark => p[2] > new[i].event
    BY <1>1, <1>3, <2>1, <2>2 DEF Upto, Marked
  <2>. QED
    BY <2>3 DEF Upto, Marked
<1>. QED
  BY <1>4, <1>5, <1>6 DEF ClientOrder, new

(* The stream is closed, or reopened without a list. *)
LEMMA OrderEmpty ==
    ASSUME NEW r, NEW items, NEW made, NEW held, ClientOrder(r, items, made, held),
           NEW new, NEW rest, new.got = r.got, new.known = r.known, new.todo = <<>>,
           rest = <<>> \/ (rest = items /\ (new.pc \in Following => r.pc \in Following))
    PROVE  ClientOrder(new, rest, made, held)
<1>1. DOMAIN <<>> = {}
  OBVIOUS
<1>2. /\ Rising(<<>>) /\ Upto(<<>>, made) /\ Marked(<<>>, held)
      /\ \A got : Before(got, <<>>)
      /\ \A second : ItemsBefore(<<>>, second)
  BY <1>1 DEF Rising, Upto, Marked, Before, ItemsBefore
<1>3. CASE rest = <<>>
  BY <1>2, <1>3 DEF ClientOrder
<1>4. CASE rest = items /\ (new.pc \in Following => r.pc \in Following)
  BY <1>2, <1>4 DEF ClientOrder
<1>. QED
  BY <1>3, <1>4

(* The list of what was missed. *)
LEMMA OrderMissed ==
    ASSUME TypeInv, HeldOrder(Held, run.made, next),
           NEW r \in ClientType, NEW items, ClientOrder(r, items, run.made, Held),
           NEW new, NEW rest, new.got = r.got, new.known = r.known, new.todo = Missed(r.known),
           new.pc \in {"replay", "catchup"},
           rest = <<>> \/ (rest = items /\ new.pc = "replay")
    PROVE  ClientOrder(new, rest, run.made, Held)
<1>. DEFINE todo == Missed(r.known)
<1>1. r.known \in Nat
  BY RunEventsAssumption DEF ClientType
<1>2. /\ \A i \in DOMAIN todo : <<todo[i].mark, todo[i].event>> \in Held /\ todo[i].mark > r.known
      /\ \A i, j \in DOMAIN todo : i < j => todo[i].mark < todo[j].mark
  BY <1>1, MissedIs
<1>. HIDE DEF todo
<1>3. Rising(todo)
  BY <1>2 DEF Rising, HeldOrder
<1>4. Before(r.got, todo)
  BY <1>2 DEF Before, ClientOrder
<1>5. Upto(todo, run.made)
  BY <1>2 DEF Upto, HeldOrder
<1>6. Marked(todo, Held)
  BY <1>2 DEF Marked, HeldOrder
<1>7. DOMAIN <<>> = {}
  OBVIOUS
<1>8. /\ Rising(<<>>) /\ Upto(<<>>, run.made) /\ Marked(<<>>, Held)
      /\ \A got : Before(got, <<>>)
      /\ \A first : ItemsBefore(first, <<>>)
  BY <1>7 DEF Rising, Upto, Marked, Before, ItemsBefore
<1>9. "replay" \notin Following
  BY DEF Following
<1>10. new.todo = todo
  BY DEF todo
<1>11. CASE rest = <<>>
  BY <1>3, <1>4, <1>5, <1>6, <1>8, <1>10, <1>11 DEF ClientOrder
<1>12. CASE rest = items /\ new.pc = "replay"
  BY <1>3, <1>4, <1>5, <1>6, <1>9, <1>10, <1>12 DEF ClientOrder
<1>. QED
  BY <1>11, <1>12

(* What holds of a sequence of items holds of its tail. *)
LEMMA TailOrder ==
    ASSUME NEW S, NEW s \in Seq(S), s # <<>>
    PROVE  /\ Rising(s) => Rising(Tail(s))
           /\ \A n : Upto(s, n) => Upto(Tail(s), n)
           /\ \A held : Marked(s, held) => Marked(Tail(s), held)
           /\ \A got : Before(got, s) => Before(got, Tail(s))
           /\ \A first : ItemsBefore(first, s) => ItemsBefore(first, Tail(s))
           /\ \A second : ItemsBefore(s, second) => ItemsBefore(Tail(s), second)
           /\ 1 \in DOMAIN s
           /\ Rising(s) /\ s[1].event > 0 =>
                 \A j \in DOMAIN Tail(s) : Tail(s)[j].event > 0 => s[1].event < Tail(s)[j].event
<1>. DEFINE t == Tail(s)
<1>1. /\ Len(s) \in Nat \ {0} /\ DOMAIN s = 1..Len(s) /\ DOMAIN t = 1..(Len(s) - 1)
      /\ \A i \in DOMAIN t : i + 1 \in DOMAIN s /\ t[i] = s[i + 1]
  BY Behead
<1>. HIDE DEF t
<1>2. 1 \in DOMAIN s /\ \A i, j \in DOMAIN t : (i < j => i + 1 < j + 1) /\ 1 < j + 1
  BY <1>1
<1>3. Rising(s) => Rising(t)
  BY <1>1, <1>2 DEF Rising
<1>4. \A n : Upto(s, n) => Upto(t, n)
  BY <1>1 DEF Upto
<1>5. \A held : Marked(s, held) => Marked(t, held)
  BY <1>1 DEF Marked
<1>6. \A got : Before(got, s) => Before(got, t)
  BY <1>1 DEF Before
<1>7. \A first : ItemsBefore(first, s) => ItemsBefore(first, t)
  BY <1>1 DEF ItemsBefore
<1>8. \A second : ItemsBefore(s, second) => ItemsBefore(t, second)
  BY <1>1 DEF ItemsBefore
<1>9. Rising(s) /\ s[1].event > 0 => \A j \in DOMAIN t : t[j].event > 0 => s[1].event < t[j].event
  BY <1>1, <1>2 DEF Rising
<1>. QED
  BY <1>2, <1>3, <1>4, <1>5, <1>6, <1>7, <1>8, <1>9 DEF t

(* The client's record after it got an item. *)
Read(r, item, new) ==
    /\ new.got = Append(r.got, item.event)
    /\ new.known = IF item.mark = 0 THEN r.known ELSE item.mark

ReadInOrder(r, item, new, made, held) ==
    /\ Sorted(new.got)
    /\ \A i \in DOMAIN new.got : new.got[i] <= made
    /\ \A p \in held : p[1] > new.known => \A i \in DOMAIN new.got : new.got[i] < p[2]
    /\ \A i \in DOMAIN new.got : i \in DOMAIN r.got \/ new.got[i] = item.event
    /\ \A i \in DOMAIN r.got : i \in DOMAIN new.got /\ new.got[i] = r.got[i]
    /\ \E i \in DOMAIN new.got : new.got[i] = item.event

(* Nothing the client has, and nothing before the item, is younger. *)
Timely(r, item, made, held) ==
    /\ item.event <= made
    /\ \A i \in DOMAIN r.got : r.got[i] < item.event
    /\ \A p \in held : p[1] > item.mark => p[2] > item.event

(* An item reaches the client. *)
LEMMA OrderGets ==
    ASSUME NEW r \in ClientType, NEW items, NEW made \in Nat, NEW last, NEW held, held \subseteq Nat \X Nat,
           HeldOrder(held, made, last), ClientOrder(r, items, made, held),
           NEW item \in Items, Timely(r, item, made, held), NEW new, Read(r, item, new)
    PROVE  ReadInOrder(r, item, new, made, held)
<1>. DEFINE n == Len(r.got)
            e == item.event
<1>1. r.got \in Seq(Numbers) /\ item.event \in Numbers /\ item.mark \in Nat /\ r.known \in Nat /\ e \in Nat
  BY RunEventsAssumption DEF ClientType, Items, Numbers
<1>2. /\ n \in Nat /\ DOMAIN r.got = 1..n /\ DOMAIN new.got = 1..(n + 1)
      /\ \A i \in 1..n : new.got[i] = r.got[i]
      /\ new.got[n + 1] = e
  BY <1>1, Appended DEF Read
<1>. HIDE DEF n, e
<1>3. \A i \in DOMAIN r.got : r.got[i] \in Nat /\ r.got[i] < e /\ r.got[i] <= made
  <2>1. \A i \in DOMAIN r.got : r.got[i] \in Numbers
    BY <1>1
  <2>2. \A i \in DOMAIN r.got : r.got[i] \in Nat
    BY <2>1 DEF Numbers
  <2>. QED
    BY <2>2 DEF ClientOrder, Timely, e
<1>4. \A i \in DOMAIN new.got : i \in 1..n \/ i = n + 1
  BY <1>2
<1>5. Sorted(new.got)
  <2>1. ASSUME NEW i \in DOMAIN new.got, NEW j \in DOMAIN new.got, i < j
        PROVE  new.got[i] < new.got[j]
    <3>1. i \in 1..n
      BY <1>2, <2>1
    <3>2. CASE j \in 1..n
      BY <1>2, <2>1, <3>1, <3>2 DEF ClientOrder, Sorted
    <3>3. CASE j = n + 1
      BY <1>2, <1>3, <3>1, <3>3
    <3>. QED
      BY <1>4, <3>2, <3>3
  <2>. QED
    BY <2>1 DEF Sorted
<1>6. \A i \in DOMAIN new.got : new.got[i] <= made
  BY <1>2, <1>3, <1>4 DEF Timely, e
<1>7. ASSUME NEW p \in held, p[1] > new.known, NEW i \in DOMAIN new.got
      PROVE  new.got[i] < p[2]
  <2>1. p[1] \in Nat /\ p[2] \in Nat /\ p[1] >= 1
    BY DEF HeldOrder
  <2>2. p[1] > item.mark
    BY <1>1, <1>7, <2>1 DEF Read
  <2>3. e < p[2]
    BY <1>1, <2>1, <2>2 DEF Timely, e
  <2>. QED
    <3>1. CASE i \in 1..n
      BY <1>1, <1>2, <1>3, <2>1, <2>3, <3>1
    <3>2. CASE i = n + 1
      BY <1>2, <2>3, <3>2
    <3>. QED
      BY <1>4, <3>1, <3>2
<1>8. n + 1 \in DOMAIN new.got
  BY <1>2
<1>9. \A i \in DOMAIN r.got : i \in DOMAIN new.got
  BY <1>2
<1>. QED
  BY <1>2, <1>4, <1>5, <1>6, <1>7, <1>8, <1>9 DEF ReadInOrder, e

(* A client's stream moves: the others stand as they are. *)
LEMMA OrderMove ==
    ASSUME TypeInv, OrderInv, NEW c \in Clients, Rest(c), BufferStays, run'.made = run.made,
           ClientOrder(client'[c], queue'[c], run.made, Held)
    PROVE  OrderInv'
<1>1. HeldOrder(Held', run'.made, next')
  BY DEF OrderInv, BufferStays
<1>2. ASSUME NEW d \in Clients
      PROVE  ClientOrder(client'[d], queue'[d], run'.made, Held')
  <2>1. ClientOrder(client'[d], queue'[d], run.made, Held)
    BY DEF OrderInv, Rest
  <2>2. Held' = Held
    BY DEF BufferStays
  <2>. QED
    BY <2>1, <2>2
<1>. QED
  BY <1>1, <1>2 DEF OrderInv

LEMMA OrderEmits ==
    ASSUME TypeInv, TypeInv', OrderInv, Emits
    PROVE  OrderInv'
<1>. DEFINE e == run.made + 1
            item == [mark |-> next', event |-> e]
<1>1. /\ run.made \in Nat /\ e \in Nat /\ run'.made = e /\ run.made <= e /\ run.made < e
      /\ next \in Nat /\ next' \in Nat /\ next' <= MaxEvents /\ MaxEvents \in Nat /\ next <= next'
  <2>1. next' \in Nat /\ next' <= MaxEvents
    BY RunEventsAssumption DEF TypeInv, TypeOK
  <2>. QED
    BY <2>1, Parts DEF Emits
<1>2. item \in Items
  <2>1. run'.made \in 0..MaxEvents
    BY DEF TypeInv, TypeOK
  <2>2. e \in Numbers /\ next' \in 0..MaxEvents
    BY <1>1, <2>1 DEF Numbers
  <2>. QED
    BY <2>2 DEF Items
<1>3. /\ Held' \subseteq Nat \X Nat
      /\ \A p \in Held' : p[1] >= 1 /\ p[1] <= next' /\ p[2] >= 1
  <2>1. TypeInv => Held \subseteq Nat \X Nat /\ \A p \in Held : p[1] >= 1 /\ p[1] <= next /\ p[2] \in Numbers /\ p[2] >= 1
    BY HeldType
  <2>2. Held \subseteq Nat \X Nat /\ \A p \in Held : p[1] \in Nat /\ p[1] >= 1 /\ p[1] <= next /\ p[2] >= 1
    BY <2>1
  <2>3. ASSUME NEW p \in Held'
        PROVE  p \in Nat \X Nat /\ p[1] >= 1 /\ p[1] <= next' /\ p[2] >= 1
    <3>1. CASE p \in Held
      BY <1>1, <2>2, <3>1
    <3>2. CASE next' = next + 1 /\ p = <<next + 1, e>>
      BY <1>1, <3>2
    <3>. QED
      BY <2>3, <3>1, <3>2 DEF Emits
  <2>. QED
    BY <2>3
<1>4. \A p \in Held' : p \in Held \/ (p[2] = e /\ p[1] = next + 1 /\ next' = next + 1)
  BY DEF Emits
<1>5. HeldOrder(Held, run.made, next)
  BY DEF OrderInv
<1>. HIDE DEF e, item
<1>6. HeldOrder(Held', e, next')
  <2>1. ASSUME NEW p \in Held', NEW q \in Held', p[1] < q[1]
        PROVE  p[2] < q[2]
    <3>1. p \in Nat \X Nat /\ q \in Nat \X Nat
      BY <1>3
    <3>2. CASE q \in Held
      <4>1. p \in Held
        BY <1>1, <1>4, <1>5, <2>1, <3>1, <3>2 DEF HeldOrder
      <4>. QED
        BY <1>5, <2>1, <3>2, <4>1 DEF HeldOrder
    <3>3. CASE q[2] = e /\ q[1] = next + 1
      <4>1. p \in Held
        BY <1>1, <1>4, <2>1, <3>1, <3>3
      <4>. QED
        BY <1>1, <1>5, <3>1, <3>3, <4>1 DEF HeldOrder
    <3>. QED
      BY <1>4, <3>2, <3>3
  <2>2. ASSUME NEW p \in Held'
        PROVE  p[2] <= e
    BY <1>1, <1>3, <1>4, <1>5 DEF HeldOrder
  <2>. QED
    BY <1>3, <2>1, <2>2 DEF HeldOrder
<1>7. ASSUME NEW c \in Clients
      PROVE  ClientOrder(client[c], queue'[c], e, Held')
  <2>1. client[c] \in ClientType /\ queue[c] \in ItemSeqs /\ ClientOrder(client[c], queue[c], run.made, Held)
    BY Parts DEF OrderInv
  <2>2. \A p \in Held' : p \in Held \/ p[2] > run.made
    BY <1>1, <1>4
  <2>3. ClientOrder(client[c], queue[c], e, Held')
    BY <1>1, <1>3, <2>1, <2>2, OrderStands
  <2>4. CASE c \in Listeners
    <3>1. queue'[c] = Append(queue[c], item)
      BY <2>4 DEF Emits, item, e
    <3>2. item \in Items \cup {End} /\ item.event = e /\ item.mark = next'
      BY <1>2 DEF item
    <3>3. \A p \in Held' : p[1] > item.mark => p[2] > item.event
      BY <1>1, <1>3, <3>2
    <3>4. \A i \in DOMAIN client[c].got : client[c].got[i] <= run.made
      BY <2>1 DEF ClientOrder
    <3>5. Upto(client[c].todo, run.made) /\ Upto(queue[c], run.made)
      BY <2>1 DEF ClientOrder
    <3>6. ClientOrder(client[c], Append(queue[c], item), e, Held')
      BY <1>1, <1>3, <2>1, <2>3, <3>2, <3>3, <3>4, <3>5, OrderPut
    <3>. QED
      BY <3>1, <3>6
  <2>5. CASE c \notin Listeners
    BY <2>3, <2>5 DEF Emits
  <2>. QED
    BY <2>4, <2>5
<1>8. client' = client
  BY DEF Emits
<1>. QED
  BY <1>1, <1>6, <1>7, <1>8 DEF OrderInv

LEMMA OrderSignals ==
    ASSUME TypeInv, OrderInv, Signals
    PROVE  OrderInv'
<1>1. client' = client /\ next' = next /\ Held' = Held /\ run'.made = run.made
  BY DEF Signals
<1>2. Held \subseteq Nat \X Nat /\ \A p \in Held : p[1] \in Nat /\ p[2] >= 1
  BY HeldType
<1>3. ASSUME NEW c \in Clients
      PROVE  ClientOrder(client[c], queue'[c], run.made, Held)
  <2>1. client[c] \in ClientType /\ queue[c] \in ItemSeqs /\ ClientOrder(client[c], queue[c], run.made, Held)
    BY Parts DEF OrderInv
  <2>2. run.made \in Nat
    BY Parts
  <2>3. End \in Items \cup {End} /\ End.mark = 0 /\ End.event = 0
    BY DEF End
  <2>4. \A p \in Held : p[1] > End.mark => p[2] > End.event
    <3>1. \A p \in Held : p[2] \in Nat /\ p[2] >= 1
      BY <1>2
    <3>. QED
      BY <2>3, <3>1
  <2>5. /\ \A i \in DOMAIN client[c].got : client[c].got[i] <= run.made
        /\ Upto(client[c].todo, run.made) /\ Upto(queue[c], run.made)
    BY <2>1 DEF ClientOrder
  <2>6. ClientOrder(client[c], Append(queue[c], End), run.made, Held)
    BY <1>2, <2>1, <2>2, <2>3, <2>4, <2>5, OrderPut
  <2>. QED
    BY <2>1, <2>6 DEF Signals
<1>. QED
  BY <1>1, <1>3 DEF OrderInv

LEMMA OrderCleans ==
    ASSUME TypeInv, OrderInv, Cleans
    PROVE  OrderInv'
<1>1. Held' = {} /\ run' = run /\ client' = client /\ queue' = queue
  BY DEF Cleans
<1>2. HeldOrder({}, run.made, next')
  BY DEF HeldOrder
<1>3. ASSUME NEW c \in Clients
      PROVE  ClientOrder(client[c], queue[c], run.made, {})
  BY DEF OrderInv, ClientOrder, Marked
<1>. QED
  BY <1>1, <1>2, <1>3 DEF OrderInv

(* An item is given to a client from its list. *)
LEMMA OrderGives ==
    ASSUME TypeInv, OrderInv, NEW c \in Clients, Gives(c)
    PROVE  ClientOrder(client'[c], queue'[c], run.made, Held)
<1>. DEFINE r == client[c]
            new == client'[c]
            item == r.todo[1]
            todo == Tail(r.todo)
<1>1. r \in ClientType /\ ClientOrder(r, queue[c], run.made, Held)
  BY Parts DEF OrderInv
<1>2. r.todo \in Seq(Items) /\ r.todo # <<>>
  BY <1>1 DEF ClientType, Gives
<1>3. item \in Items /\ item.event > 0 /\ item.event \in Nat /\ item.mark \in Nat
  <2>1. item \in Items
    BY <1>2, Behead
  <2>. QED
    BY <2>1, ItemFacts
<1>4. /\ Rising(todo) /\ Upto(todo, run.made) /\ Marked(todo, Held) /\ Before(r.got, todo)
      /\ \A second : ItemsBefore(r.todo, second) => ItemsBefore(todo, second)
      /\ 1 \in DOMAIN r.todo
      /\ \A j \in DOMAIN todo : todo[j].event > 0 => item.event < todo[j].event
  BY <1>1, <1>2, <1>3, TailOrder DEF ClientOrder
<1>5. /\ item.event <= run.made
      /\ \A i \in DOMAIN r.got : r.got[i] < item.event
      /\ \A p \in Held : p[1] > item.mark => p[2] > item.event
      /\ \A j \in DOMAIN queue[c] : r.pc \in Following /\ queue[c][j].event > 0 => item.event < queue[c][j].event
  BY <1>1, <1>3, <1>4 DEF ClientOrder, Upto, Before, Marked, ItemsBefore
<1>6. /\ new.got = Append(r.got, item.event)
      /\ new.known = IF item.mark = 0 THEN r.known ELSE item.mark
      /\ new.todo = todo /\ new.pc = r.pc /\ queue'[c] = queue[c]
      /\ r.pc \in {"replay", "catchup"}
  BY DEF Gives, Gets
<1>7. Held \subseteq Nat \X Nat /\ run.made \in Nat /\ HeldOrder(Held, run.made, next)
  BY HeldType, Parts DEF OrderInv
<1>. HIDE DEF r, new, item, todo
<1>8. Read(r, item, new) /\ Timely(r, item, run.made, Held)
  BY <1>5, <1>6 DEF Read, Timely
<1>9. ReadInOrder(r, item, new, run.made, Held)
  BY <1>1, <1>3, <1>7, <1>8, OrderGets
<1>10. Before(new.got, todo)
  BY <1>4, <1>9 DEF Before, ReadInOrder
<1>11. r.pc \in Following => Before(new.got, queue[c]) /\ ItemsBefore(todo, queue[c])
  <2>1. r.pc \in Following => Before(r.got, queue[c]) /\ ItemsBefore(r.todo, queue[c])
    BY <1>1 DEF ClientOrder
  <2>2. r.pc \in Following => Before(new.got, queue[c])
    BY <1>5, <1>9, <2>1 DEF Before, ReadInOrder
  <2>. QED
    BY <1>4, <2>1, <2>2
<1>12. ClientOrder(new, queue[c], run.made, Held)
  BY <1>1, <1>4, <1>6, <1>9, <1>10, <1>11 DEF ClientOrder, ReadInOrder
<1>. QED
  BY <1>6, <1>12 DEF new

(* An item is given to a client from its queue. *)
LEMMA OrderTakes ==
    ASSUME TypeInv, OrderInv, NEW c \in Clients, Takes(c)
    PROVE  ClientOrder(client'[c], queue'[c], run.made, Held)
<1>. DEFINE r == client[c]
            new == client'[c]
            item == queue[c][1]
            rest == Tail(queue[c])
<1>1. r \in ClientType /\ ClientOrder(r, queue[c], run.made, Held)
  BY Parts DEF OrderInv
<1>2. queue[c] \in ItemSeqs /\ queue[c] # <<>>
  BY Parts DEF Takes
<1>3. item \in Items /\ item.event > 0 /\ item.event \in Nat /\ item.mark \in Nat
  <2>1. item \in Items \cup {End}
    BY <1>2, Behead DEF ItemSeqs
  <2>2. item # End
    BY DEF Takes
  <2>. QED
    BY <2>1, <2>2, ItemFacts
<1>4. /\ Rising(rest) /\ Upto(rest, run.made) /\ Marked(rest, Held)
      /\ Before(r.got, queue[c]) => Before(r.got, rest)
      /\ 1 \in DOMAIN queue[c]
      /\ \A j \in DOMAIN rest : rest[j].event > 0 => item.event < rest[j].event
  BY <1>1, <1>2, <1>3, TailOrder DEF ClientOrder, ItemSeqs
<1>5. /\ new.got = Append(r.got, item.event)
      /\ new.known = IF item.mark = 0 THEN r.known ELSE item.mark
      /\ new.todo = r.todo /\ new.pc = r.pc /\ queue'[c] = rest
      /\ r.pc \in {"primary", "live"}
  BY DEF Takes, Gets
<1>6. r.pc \in Following /\ r.todo = <<>>
  BY <1>1, <1>5 DEF Following, ClientOrder
<1>7. /\ item.event <= run.made
      /\ Before(r.got, queue[c])
      /\ \A i \in DOMAIN r.got : r.got[i] < item.event
      /\ \A p \in Held : p[1] > item.mark => p[2] > item.event
  BY <1>1, <1>3, <1>4, <1>6 DEF ClientOrder, Upto, Before, Marked
<1>8. Held \subseteq Nat \X Nat /\ run.made \in Nat /\ HeldOrder(Held, run.made, next)
  BY HeldType, Parts DEF OrderInv
<1>. HIDE DEF r, new, item, rest
<1>9. Read(r, item, new) /\ Timely(r, item, run.made, Held)
  BY <1>5, <1>7 DEF Read, Timely
<1>10. ReadInOrder(r, item, new, run.made, Held)
  BY <1>1, <1>3, <1>8, <1>9, OrderGets
<1>11. Before(new.got, rest)
  BY <1>4, <1>7, <1>10 DEF Before, ReadInOrder
<1>12. DOMAIN r.todo = {}
  BY <1>6
<1>13. Before(new.got, r.todo) /\ ItemsBefore(r.todo, rest)
  BY <1>12 DEF Before, ItemsBefore
<1>14. ClientOrder(new, rest, run.made, Held)
  BY <1>1, <1>4, <1>5, <1>6, <1>10, <1>11, <1>13 DEF ClientOrder, ReadInOrder
<1>. QED
  BY <1>5, <1>14 DEF new

LEMMA OrderStep == ASSUME TypeInv, OrderInv, [Next]_vars PROVE OrderInv'
<1>1. CASE Still
  BY <1>1 DEF Still, OrderInv
<1>2. CASE Emits
  BY <1>2, NextMoves, OrderEmits
<1>3. CASE Signals
  BY <1>3, OrderSignals
<1>4. CASE Cleans
  BY <1>4, OrderCleans
<1>5. ASSUME NEW c \in Clients, ClientMove(c)
      PROVE  OrderInv'
  <2>1. Rest(c) /\ BufferStays /\ run'.made = run.made
    BY <1>5 DEF ClientMove, Opens, Subscribes, Replays, Joins, Answered, Closes, Gives, Takes, Drops
  <2>2. client[c] \in ClientType /\ queue[c] \in ItemSeqs /\ ClientOrder(client[c], queue[c], run.made, Held)
    BY Parts DEF OrderInv
  <2>3. HeldOrder(Held, run.made, next)
    BY DEF OrderInv
  <2>. SUFFICES ClientOrder(client'[c], queue'[c], run.made, Held)
    BY <2>1, OrderMove
  <2>4. CASE Opens(c) \/ Closes(c)
    <3>1. Keeps(c) /\ client'[c].todo = <<>> /\ queue'[c] = <<>>
      BY <2>4 DEF Opens, Closes
    <3>. QED
      BY <2>2, <3>1, OrderEmpty DEF Keeps
  <2>5. CASE Joins(c) \/ Answered(c)
    <3>1. /\ Keeps(c) /\ client'[c].todo = <<>> /\ queue'[c] = queue[c]
          /\ client'[c].pc \in Following => client[c].pc \in Following
      BY <2>5 DEF Joins, Answered, Following
    <3>. QED
      BY <2>2, <3>1, OrderEmpty DEF Keeps
  <2>6. CASE Subscribes(c) \/ Replays(c)
    <3>1. /\ Keeps(c) /\ client'[c].todo = Missed(client[c].known) /\ client'[c].pc \in {"replay", "catchup"}
          /\ queue'[c] = <<>> \/ (queue'[c] = queue[c] /\ client'[c].pc = "replay")
      BY <2>6 DEF Subscribes, Replays
    <3>. QED
      BY <2>2, <2>3, <3>1, OrderMissed DEF Keeps
  <2>7. CASE Gives(c)
    BY <2>7, OrderGives
  <2>8. CASE Takes(c)
    BY <2>8, OrderTakes
  <2>9. CASE Drops(c)
    <3>1. client'[c] = client[c] /\ queue'[c] = Tail(queue[c]) /\ queue[c] # <<>>
      BY <2>9 DEF Drops
    <3>2. /\ Rising(queue[c]) => Rising(Tail(queue[c]))
          /\ \A n : Upto(queue[c], n) => Upto(Tail(queue[c]), n)
          /\ \A held : Marked(queue[c], held) => Marked(Tail(queue[c]), held)
          /\ \A got : Before(got, queue[c]) => Before(got, Tail(queue[c]))
          /\ \A first : ItemsBefore(first, queue[c]) => ItemsBefore(first, Tail(queue[c]))
      BY <2>2, <3>1, TailOrder DEF ItemSeqs
    <3>. QED
      BY <2>2, <3>1, <3>2 DEF ClientOrder
  <2>. QED
    BY <1>5, <2>4, <2>5, <2>6, <2>7, <2>8, <2>9 DEF ClientMove
<1>. QED
  BY <1>1, <1>2, <1>3, <1>4, <1>5, NextMoves

LEMMA OrderInvariant == Spec => []OrderInv
<1>1. Init => OrderInv
  <2>. SUFFICES ASSUME Init PROVE OrderInv
    OBVIOUS
  <2>1. Held = {}
    BY DEF Init, Held
  <2>2. DOMAIN <<>> = {}
    OBVIOUS
  <2>3. /\ Sorted(<<>>) /\ Rising(<<>>) /\ Before(<<>>, <<>>) /\ ItemsBefore(<<>>, <<>>)
        /\ \A n : Upto(<<>>, n)
        /\ \A held : Marked(<<>>, held)
    BY <2>2 DEF Sorted, Rising, Before, ItemsBefore, Upto, Marked
  <2>4. ASSUME NEW c \in Clients
        PROVE  ClientOrder(client[c], queue[c], run.made, Held)
    <3>1. client[c] = [pc |-> "away", todo |-> <<>>, known |-> 0, got |-> <<>>] /\ queue[c] = <<>>
      BY DEF Init
    <3>. QED
      BY <2>1, <2>2, <2>3, <3>1 DEF ClientOrder
  <2>. QED
    BY <2>1, <2>4 DEF OrderInv, HeldOrder
<1>2. TypeInv /\ OrderInv /\ [Next]_vars => OrderInv'
  BY OrderStep
<1>. QED
  BY <1>1, <1>2, TypeInvariant, PTL DEF Spec

(* Over all its connections a client gets events in order and none twice,     *)
(* however the replay, the catch-up and the queues are interleaved.          *)
THEOREM EventsInOrder == Spec => []InOrderOnce
<1>1. OrderInv => InOrderOnce
  BY DEF OrderInv, ClientOrder, Sorted, InOrderOnce
<1>. QED
  BY <1>1, OrderInvariant, PTL

-----------------------------------------------------------------------------
(* Subscribers. *)

SubsInv ==
    /\ \A c \in subs : client[c].pc \in {"catchup", "live", "replay"}
    /\ \A c \in Clients : client[c].pc \in {"catchup", "live"} => c \in subs
    /\ run.st = "idle" => /\ subs = {} /\ buffer = <<>>
                          /\ \A c \in Clients : client[c].pc = "away" /\ client[c].known = 0

LEMMA SubsStep == ASSUME TypeInv, SubsInv, [Next]_vars PROVE SubsInv'
<1>1. CASE Still
  BY <1>1 DEF Still, SubsInv
<1>2. CASE Emits \/ Signals
  <2>1. client' = client /\ subs' = subs
    BY <1>2 DEF Emits, Signals
  <2>2. run'.st # "idle" \/ (run.st = "idle" /\ Signals)
    BY <1>2 DEF Emits, Signals
  <2>3. run.st = "idle" => buffer' = buffer
    BY <1>2 DEF Emits, Signals
  <2>. QED
    BY <2>1, <2>2, <2>3 DEF SubsInv, Signals
<1>3. CASE Cleans
  BY <1>3 DEF Cleans, SubsInv
<1>4. ASSUME NEW c \in Clients, ClientMove(c)
      PROVE  SubsInv'
  <2>1. Rest(c) /\ buffer' = buffer
    BY <1>4 DEF ClientMove, Opens, Subscribes, Replays, Joins, Answered, Closes, Gives, Takes, Drops, BufferStays
  <2>2. /\ \A d \in subs : client[d].pc \in {"catchup", "live", "replay"}
        /\ \A d \in Clients : client[d].pc \in {"catchup", "live"} => d \in subs
    BY DEF SubsInv
  <2>3. subs \subseteq Clients /\ subs' \subseteq Clients
    BY NextMoves DEF TypeInv, TypeOK
  (* Nobody but c moves. *)
  <2>4. ASSUME run'.st # "idle" \/ run.st # "idle",
               \A d \in Clients \ {c} : d \in subs' <=> d \in subs,
               c \in subs' => client'[c].pc \in {"catchup", "live", "replay"},
               client'[c].pc \in {"catchup", "live"} => c \in subs',
               run'.st = "idle" => run.st = "idle"
        PROVE  SubsInv'
    <3>1. ASSUME NEW d \in subs'
          PROVE  client'[d].pc \in {"catchup", "live", "replay"}
      BY <2>1, <2>2, <2>3, <2>4 DEF Rest
    <3>2. ASSUME NEW d \in Clients, client'[d].pc \in {"catchup", "live"}
          PROVE  d \in subs'
      BY <2>1, <2>2, <2>4, <3>2 DEF Rest
    <3>3. run'.st # "idle"
      BY <2>4
    <3>. QED
      BY <3>1, <3>2, <3>3 DEF SubsInv
  <2>5. run.st = "idle" => client[c].pc = "away"
    BY DEF SubsInv
  <2>6. CASE Opens(c)
    <3>1. c \notin subs
      BY <2>2, <2>5, <2>6 DEF Opens, Open, Streams
    <3>. QED
      BY <2>4, <2>6, <3>1 DEF Opens
  <2>7. CASE Subscribes(c)
    BY <2>4, <2>7 DEF Subscribes
  <2>8. CASE Replays(c)
    <3>1. run.st # "idle"
      BY <2>5, <2>8 DEF Replays
    <3>. QED
      BY <2>4, <2>8, <3>1 DEF Replays
  <2>9. CASE Joins(c)
    <3>1. run.st # "idle" /\ c \in subs
      BY <2>2, <2>5, <2>9 DEF Joins
    <3>. QED
      BY <2>4, <2>9, <3>1 DEF Joins
  <2>10. CASE Answered(c)
    <3>1. c \notin subs
      BY <2>2, <2>10 DEF Answered, Open, Streams
    <3>. QED
      BY <2>4, <2>10, <3>1 DEF Answered
  <2>11. CASE Closes(c)
    <3>1. run.st # "idle"
      BY <2>5, <2>11 DEF Closes, Open, Streams
    <3>. QED
      BY <2>4, <2>11, <3>1 DEF Closes
  <2>12. CASE Gives(c) \/ Takes(c) \/ Drops(c)
    <3>1. run' = run /\ subs' = subs /\ client'[c].pc = client[c].pc /\ client[c].pc # "away"
      BY <2>12 DEF Gives, Takes, Drops
    <3>. QED
      BY <2>2, <2>4, <2>5, <3>1
  <2>. QED
    BY <1>4, <2>6, <2>7, <2>8, <2>9, <2>10, <2>11, <2>12 DEF ClientMove
<1>. QED
  BY <1>1, <1>2, <1>3, <1>4, NextMoves

LEMMA SubsInvariant == Spec => []SubsInv
<1>1. Init => SubsInv
  BY DEF Init, SubsInv
<1>2. TypeInv /\ SubsInv /\ [Next]_vars => SubsInv'
  BY SubsStep
<1>. QED
  BY <1>1, <1>2, TypeInvariant, PTL DEF Spec

(* The queues that are published to are those of open streams.               *)
THEOREM QueuesAreOpen == Spec => []NoQueueLeaks
<1>1. SubsInv => NoQueueLeaks
  BY DEF SubsInv, NoQueueLeaks
<1>. QED
  BY <1>1, SubsInvariant, PTL

-----------------------------------------------------------------------------
(* What the streams of the first leg have still to bring. *)

Carries(items, p) == \E i \in DOMAIN items : items[i] = [mark |-> p[1], event |-> p[2]]

Got(r, e) == \E i \in DOMAIN r.got : r.got[i] = e

(* What a stream carries: its list, and its queue while it reads that.       *)
Brings(r, items, p) == Carries(r.todo, p) \/ (r.pc # "replay" /\ Carries(items, p))

(* An item's index covers what is not younger. *)
Covers(items, held) ==
    \A i \in DOMAIN items : items[i].event > 0 =>
        \A p \in held : p[1] <= items[i].mark => p[2] <= items[i].event

ClientWhole(r, items, held) ==
    /\ \A p \in held : p[1] <= r.known => Got(r, p[2])
    /\ r.pc \in Streams => \A p \in held : p[1] > r.known => Brings(r, items, p)
    /\ Covers(r.todo, held) /\ Covers(items, held)

Total == Cardinality((1..run.made) \ Unbuffered)

(* The last index is known or still to come. *)
Reaches(r, items, total) ==
    \/ r.known = total
    \/ \E i \in DOMAIN r.todo : r.todo[i].mark = total
    \/ r.pc # "replay" /\ \E i \in DOMAIN items : items[i].event > 0 /\ items[i].mark = total

NoEnd(items) == \A i \in DOMAIN items : items[i].event > 0

(* Marks never fall, and nothing follows a sentinel. *)
ClientEnd(r, items, total) ==
    /\ r.known <= total
    /\ \A i \in DOMAIN r.todo : r.todo[i].mark <= total /\ r.todo[i].mark > r.known /\ r.todo[i].event > 0
    /\ \A i, j \in DOMAIN r.todo : i < j => r.todo[i].mark < r.todo[j].mark
    /\ \A i \in DOMAIN items : items[i].mark <= total
    /\ \A i, j \in DOMAIN items : i < j /\ items[j].event > 0 =>
          items[i].event > 0 /\ items[i].mark <= items[j].mark
    /\ r.pc = "primary" => \A i \in DOMAIN items : items[i].event > 0 => items[i].mark >= r.known
    /\ r.pc \in Streams => Reaches(r, items, total)

Running(r, items, c) ==
    /\ NoEnd(items)
    /\ r.pc # "replay"
    /\ r.pc = "primary" => run.owner = c
    /\ r.pc \in {"catchup", "live"} => status = "running"

FirstLegInv ==
    run.leg <= 1 =>
        /\ run.st \in {"idle", "running"} => next = Total /\ pending = 0 /\ status \in {"none", "running"}
        /\ status # "none" => next = Total
        /\ \A c \in Clients :
              /\ ClientWhole(client[c], queue[c], Held)
              /\ ClientEnd(client[c], queue[c], Total)
              /\ run.st \in {"idle", "running"} => Running(client[c], queue[c], c)

ClientFirst(r, items, held, total) == ClientWhole(r, items, held) /\ ClientEnd(r, items, total)

-----------------------------------------------------------------------------
(* How the streams of the first leg go on. *)

LEMMA Measures ==
    ASSUME NEW r \in ClientType, NEW items \in ItemSeqs
    PROVE  /\ r.known \in Nat /\ r.got \in Seq(Numbers) /\ r.todo \in Seq(Items) /\ items \in Seq(Items \cup {End})
           /\ \A i \in DOMAIN r.todo : r.todo[i].mark \in Nat /\ r.todo[i].event \in Nat /\ r.todo[i].event > 0
           /\ \A i \in DOMAIN items : items[i].mark \in Nat /\ items[i].event \in Nat
<1>1. r.known \in Nat /\ r.got \in Seq(Numbers) /\ r.todo \in Seq(Items)
  BY RunEventsAssumption DEF ClientType
<1>2. \A i \in DOMAIN r.todo : r.todo[i] \in Items
  BY <1>1
<1>3. \A i \in DOMAIN items : items[i] \in Items \cup {End}
  BY DEF ItemSeqs
<1>4. \A item \in Items : item # End
  BY ItemFacts
<1>. QED
  BY <1>1, <1>2, <1>3, <1>4, ItemFacts DEF ItemSeqs

(* An event is put into the queue of a stream that is not being replayed. *)
LEMMA FirstPut ==
    ASSUME NEW r \in ClientType, NEW items \in ItemSeqs, NEW total \in Nat, NEW later \in Nat, total <= later,
           NEW held, NEW more, more \subseteq Nat \X Nat,
           ClientFirst(r, items, held, total), NoEnd(items), r.pc # "replay",
           NEW item \in Items, item.mark = later,
           \A p \in more : p \in held \/ (p[1] = later /\ p[1] > total /\ p[2] = item.event),
           \A p \in more : p[2] <= item.event
    PROVE  ClientFirst(r, Append(items, item), more, later) /\ NoEnd(Append(items, item))
<1>. DEFINE new == Append(items, item)
            n == Len(items)
<1>1. /\ n \in Nat /\ DOMAIN items = 1..n /\ DOMAIN new = 1..(n + 1)
      /\ \A i \in 1..n : new[i] = items[i]
      /\ new[n + 1] = item
  BY Appended DEF ItemSeqs
<1>2. /\ r.known \in Nat
      /\ \A i \in DOMAIN r.todo : r.todo[i].mark \in Nat /\ r.todo[i].event \in Nat
      /\ \A i \in 1..n : items[i].mark \in Nat /\ items[i].event \in Nat
  BY <1>1, Measures
<1>3. item.mark \in Nat /\ item.event \in Nat /\ item.event > 0
  BY ItemFacts
<1>. HIDE DEF new, n
<1>4. \A i \in DOMAIN new : i \in 1..n \/ (i = n + 1 /\ new[i] = item)
  BY <1>1
<1>5. /\ r.known <= total
      /\ \A i \in DOMAIN r.todo : r.todo[i].mark <= total /\ r.todo[i].mark > r.known /\ r.todo[i].event > 0
      /\ \A i \in 1..n : items[i].mark <= total /\ items[i].event > 0
  BY <1>1 DEF ClientFirst, ClientEnd, NoEnd
<1>6. \A p \in more : p[1] \in Nat /\ p[2] \in Nat
  OBVIOUS
<1>7. \A p \in more : p[1] <= r.known => Got(r, p[2])
  BY <1>2, <1>5, <1>6 DEF ClientFirst, ClientWhole
<1>8. r.pc \in Streams => \A p \in more : p[1] > r.known => Brings(r, new, p)
  <2>1. ASSUME r.pc \in Streams, NEW p \in more, p[1] > r.known
        PROVE  Brings(r, new, p)
    <3>1. CASE p \in held
      <4>1. Carries(r.todo, p) \/ Carries(items, p)
        BY <2>1, <3>1 DEF ClientFirst, ClientWhole, Brings
      <4>2. Carries(items, p) => Carries(new, p)
        BY <1>1 DEF Carries
      <4>. QED
        BY <4>1, <4>2 DEF Brings
    <3>2. CASE p[1] = later /\ p[2] = item.event
      <4>1. item = [mark |-> p[1], event |-> p[2]]
        BY <3>2 DEF Items
      <4>2. n + 1 \in DOMAIN new /\ new[n + 1] = item
        BY <1>1
      <4>. QED
        BY <4>1, <4>2 DEF Brings, Carries
    <3>. QED
      BY <3>1, <3>2
  <2>. QED
    BY <2>1
<1>9. Covers(r.todo, more)
  BY <1>2, <1>5, <1>6 DEF ClientFirst, ClientWhole, Covers
<1>10. Covers(new, more)
  <2>1. ASSUME NEW i \in DOMAIN new, NEW p \in more, p[1] <= new[i].mark
        PROVE  p[2] <= new[i].event
    <3>1. CASE i \in 1..n
      <4>1. new[i] = items[i] /\ items[i].mark <= total /\ items[i].event > 0
        BY <1>1, <1>5, <3>1
      <4>2. p \in held
        BY <1>2, <1>6, <2>1, <3>1, <4>1
      <4>. QED
        BY <1>1, <2>1, <3>1, <4>1, <4>2 DEF ClientFirst, ClientWhole, Covers
    <3>2. CASE new[i] = item
      BY <3>2
    <3>. QED
      BY <1>4, <3>1, <3>2
  <2>. QED
    BY <2>1 DEF Covers
<1>11. \A i \in DOMAIN new : new[i].mark <= later /\ new[i].mark \in Nat /\ new[i].event > 0
  BY <1>1, <1>2, <1>3, <1>4, <1>5
<1>12. \A i, j \in DOMAIN new : i < j /\ new[j].event > 0 => new[i].event > 0 /\ new[i].mark <= new[j].mark
  <2>1. ASSUME NEW i \in DOMAIN new, NEW j \in DOMAIN new, i < j
        PROVE  new[i].mark <= new[j].mark
    <3>1. i \in 1..n
      BY <1>1, <2>1
    <3>2. CASE j \in 1..n
      <4>1. items[j].event > 0 /\ new[i] = items[i] /\ new[j] = items[j]
        BY <1>1, <1>5, <3>1, <3>2
      <4>. QED
        BY <1>1, <2>1, <3>1, <3>2, <4>1 DEF ClientFirst, ClientEnd
    <3>3. CASE new[j] = item
      BY <1>11, <3>3
    <3>. QED
      BY <1>4, <3>2, <3>3
  <2>. QED
    BY <1>11, <2>1
<1>13. r.pc = "primary" => \A i \in DOMAIN new : new[i].mark >= r.known
  <2>1. ASSUME r.pc = "primary", NEW i \in 1..n
        PROVE  new[i].mark >= r.known
    BY <1>1, <1>5, <2>1 DEF ClientFirst, ClientEnd
  <2>. QED
    BY <1>2, <1>4, <1>5, <2>1
<1>14. Reaches(r, new, later)
  BY <1>1, <1>3 DEF Reaches
<1>15. /\ r.known <= later
       /\ \A i \in DOMAIN r.todo : r.todo[i].mark <= later
  BY <1>2, <1>5
<1>16. \A i, j \in DOMAIN r.todo : i < j => r.todo[i].mark < r.todo[j].mark
  BY DEF ClientFirst, ClientEnd
<1>17. ClientEnd(r, new, later)
  BY <1>5, <1>11, <1>12, <1>13, <1>14, <1>15, <1>16 DEF ClientEnd
<1>. QED
  BY <1>7, <1>8, <1>9, <1>10, <1>11, <1>17 DEF ClientFirst, ClientWhole, NoEnd, new

(* What is produced while a client has no stream. *)
LEMMA FirstApart ==
    ASSUME NEW r \in ClientType, NEW items \in ItemSeqs, NEW total \in Nat, NEW later \in Nat, total <= later,
           NEW held, NEW more, more \subseteq Nat \X Nat, \A p \in more : p \in held \/ p[1] > total,
           ClientFirst(r, items, held, total), r.pc \notin Streams
    PROVE  ClientFirst(r, items, more, later)
<1>1. /\ r.known \in Nat
      /\ \A i \in DOMAIN r.todo : r.todo[i].mark \in Nat
      /\ \A i \in DOMAIN items : items[i].mark \in Nat
      /\ \A p \in more : p[1] \in Nat
  BY Measures
<1>2. /\ r.known <= total
      /\ \A i \in DOMAIN r.todo : r.todo[i].mark <= total /\ r.todo[i].mark > r.known /\ r.todo[i].event > 0
      /\ \A i \in DOMAIN items : items[i].mark <= total
  BY DEF ClientFirst, ClientEnd
<1>3. \A p \in more : p[1] <= r.known => Got(r, p[2])
  BY <1>1, <1>2 DEF ClientFirst, ClientWhole
<1>4. Covers(r.todo, more) /\ Covers(items, more)
  BY <1>1, <1>2 DEF ClientFirst, ClientWhole, Covers
<1>5. ClientWhole(r, items, more)
  BY <1>3, <1>4 DEF ClientWhole
<1>6. /\ r.known <= later
      /\ \A i \in DOMAIN r.todo : r.todo[i].mark <= later
      /\ \A i \in DOMAIN items : items[i].mark <= later
  BY <1>1, <1>2
<1>7. /\ \A i, j \in DOMAIN r.todo : i < j => r.todo[i].mark < r.todo[j].mark
      /\ \A i, j \in DOMAIN items : i < j /\ items[j].event > 0 =>
            items[i].event > 0 /\ items[i].mark <= items[j].mark
      /\ r.pc = "primary" => \A i \in DOMAIN items : items[i].event > 0 => items[i].mark >= r.known
  BY DEF ClientFirst, ClientEnd
<1>8. ClientEnd(r, items, later)
  BY <1>2, <1>6, <1>7 DEF ClientEnd
<1>. QED
  BY <1>5, <1>8 DEF ClientFirst

(* A sentinel is put into the queue. *)
LEMMA FirstEnd ==
    ASSUME NEW r \in ClientType, NEW items \in ItemSeqs, NEW total \in Nat, NEW held,
           ClientFirst(r, items, held, total)
    PROVE  ClientFirst(r, Append(items, End), held, total)
<1>. DEFINE new == Append(items, End)
            n == Len(items)
<1>1. /\ n \in Nat /\ DOMAIN items = 1..n /\ DOMAIN new = 1..(n + 1)
      /\ \A i \in 1..n : new[i] = items[i]
      /\ new[n + 1] = End
  BY Appended, ItemFacts DEF ItemSeqs
<1>2. End.mark = 0 /\ ~(End.event > 0)
  BY DEF End
<1>. HIDE DEF new, n
<1>3. \A i \in DOMAIN new : i \in 1..n \/ new[i] = End
  BY <1>1
<1>4. \A i \in 1..n : i \in DOMAIN new
  BY <1>1
<1>5. \A p : Carries(items, p) => Carries(new, p)
  BY <1>1, <1>4 DEF Carries
<1>6. ClientWhole(r, new, held)
  <2>1. Covers(new, held)
    BY <1>1, <1>2, <1>3 DEF ClientFirst, ClientWhole, Covers
  <2>2. \A p : Brings(r, items, p) => Brings(r, new, p)
    BY <1>5 DEF Brings
  <2>. QED
    BY <2>1, <2>2 DEF ClientFirst, ClientWhole
<1>7. ClientEnd(r, new, total)
  <2>1. \A i \in DOMAIN new : new[i].mark <= total
    BY <1>1, <1>2, <1>3 DEF ClientFirst, ClientEnd
  <2>2. ASSUME NEW i \in DOMAIN new, NEW j \in DOMAIN new, i < j, new[j].event > 0
        PROVE  new[i].event > 0 /\ new[i].mark <= new[j].mark
    <3>1. j \in 1..n /\ i \in 1..n
      BY <1>1, <1>2, <1>3, <2>2
    <3>. QED
      BY <1>1, <2>2, <3>1 DEF ClientFirst, ClientEnd
  <2>3. r.pc = "primary" => \A i \in DOMAIN new : new[i].event > 0 => new[i].mark >= r.known
    BY <1>1, <1>2, <1>3 DEF ClientFirst, ClientEnd
  <2>4. Reaches(r, items, total) => Reaches(r, new, total)
    BY <1>1, <1>4 DEF Reaches
  <2>. QED
    BY <2>1, <2>2, <2>3, <2>4 DEF ClientFirst, ClientEnd
<1>. QED
  BY <1>6, <1>7 DEF ClientFirst, new

(* An index is held once, and the last one as long as there is a buffer. *)
LEMMA HeldOnce ==
    ASSUME TypeInv
    PROVE  /\ \A p, q \in Held : p[1] = q[1] => p = q
           /\ status = "none" => Held = {}
           /\ status # "none" => \E p \in Held : p[1] = next
<1>. DEFINE len == Len(buffer)
            first == next - len
<1>1. len \in Nat /\ next \in Nat /\ len <= next /\ buffer \in Seq(Numbers) /\ DOMAIN buffer = 1..len
  BY Parts
<1>2. first \in Nat /\ first + len = next
  BY <1>1
<1>3. Held = {<<k + first, buffer[k]>> : k \in 1..len}
  BY <1>1 DEF Held
<1>4. status = "none" <=> buffer = <<>>
  BY DEF TypeInv, TypeOK
<1>5. buffer = <<>> <=> len = 0
  BY <1>1, EmptySeq
<1>. HIDE DEF first, len
<1>6. ASSUME NEW p \in Held, NEW q \in Held, p[1] = q[1]
      PROVE  p = q
  <2>1. PICK i \in 1..len : p = <<i + first, buffer[i]>>
    BY <1>3
  <2>2. PICK j \in 1..len : q = <<j + first, buffer[j]>>
    BY <1>3
  <2>3. i + first = j + first
    BY <1>6, <2>1, <2>2
  <2>4. i = j
    BY <1>2, <2>3
  <2>. QED
    BY <2>1, <2>2, <2>4
<1>7. ASSUME status # "none"
      PROVE  \E p \in Held : p[1] = next
  <2>1. len \in 1..len /\ len + first = next
    BY <1>1, <1>2, <1>4, <1>5, <1>7
  <2>2. <<len + first, buffer[len]>> \in Held
    BY <1>3, <2>1
  <2>. QED
    BY <2>1, <2>2
<1>8. len = 0 => 1..len = {}
  BY <1>1
<1>. QED
  BY <1>3, <1>4, <1>5, <1>6, <1>7, <1>8

(* The stream gets the list of what was missed. *)
LEMMA FirstMissed ==
    ASSUME TypeInv, HeldOrder(Held, run.made, next),
           NEW r \in ClientType, NEW items \in ItemSeqs, NEW total \in Nat, status # "none" => next = total,
           r.known = total \/ status # "none", ClientFirst(r, items, Held, total),
           NEW new, NEW rest, new.got = r.got, new.known = r.known, new.todo = Missed(r.known),
           new.pc \in {"replay", "catchup"}, rest = items \/ rest = <<>>
    PROVE  ClientFirst(new, rest, Held, total)
<1>. DEFINE todo == Missed(r.known)
<1>1. r.known \in Nat /\ next \in Nat
  BY Measures, Parts
<1>2. /\ todo \in Seq(Items)
      /\ \A i \in DOMAIN todo : <<todo[i].mark, todo[i].event>> \in Held /\ todo[i].mark > r.known
      /\ \A i, j \in DOMAIN todo : i < j => todo[i].mark < todo[j].mark
      /\ \A p \in Held : p[1] > r.known => \E i \in DOMAIN todo : todo[i] = [mark |-> p[1], event |-> p[2]]
  BY <1>1, MissedIs
<1>. HIDE DEF todo
<1>3. \A i \in DOMAIN todo : todo[i].mark \in Nat /\ todo[i].event \in Nat /\ todo[i].event > 0
  <2>1. \A i \in DOMAIN todo : todo[i] \in Items
    BY <1>2
  <2>. QED
    BY <2>1, ItemFacts
<1>4. /\ Held \subseteq Nat \X Nat
      /\ \A p \in Held : p[1] \in Nat /\ p[2] \in Nat /\ p[1] <= total
      /\ \A p, q \in Held : p[1] <= q[1] => p[2] <= q[2]
  <2>1. Held \subseteq Nat \X Nat /\ \A p \in Held : p[1] \in Nat /\ p[2] \in Nat /\ p[1] <= next
    BY HeldType
  <2>2. \A p \in Held : next = total
    BY HeldOnce
  <2>3. ASSUME NEW p \in Held, NEW q \in Held, p[1] <= q[1]
        PROVE  p[2] <= q[2]
    <3>1. CASE p[1] = q[1]
      BY <2>1, <3>1, HeldOnce
    <3>2. CASE p[1] < q[1]
      BY <2>1, <3>2 DEF HeldOrder
    <3>. QED
      BY <2>1, <2>3, <3>1, <3>2
  <2>. QED
    BY <2>1, <2>2, <2>3
<1>5. Covers(todo, Held)
  <2>1. ASSUME NEW i \in DOMAIN todo, NEW p \in Held, p[1] <= todo[i].mark
        PROVE  p[2] <= todo[i].event
    <3>1. <<todo[i].mark, todo[i].event>> \in Held
      BY <1>2
    <3>. QED
      BY <1>4, <2>1, <3>1
  <2>. QED
    BY <2>1 DEF Covers
<1>6. DOMAIN <<>> = {}
  OBVIOUS
<1>7. Covers(rest, Held)
  BY <1>6 DEF ClientFirst, ClientWhole, Covers
<1>8. \A p \in Held : p[1] > r.known => Carries(todo, p)
  BY <1>2 DEF Carries
<1>9. new.todo = todo
  BY DEF todo
<1>10. ClientWhole(new, rest, Held)
  <2>1. \A p \in Held : p[1] <= new.known => Got(new, p[2])
    BY DEF ClientFirst, ClientWhole, Got
  <2>. QED
    BY <1>5, <1>7, <1>8, <1>9, <2>1 DEF ClientWhole, Brings
<1>11. \A i \in DOMAIN todo : todo[i].mark <= total
  <2>1. ASSUME NEW i \in DOMAIN todo
        PROVE  todo[i].mark <= total
    <3>1. <<todo[i].mark, todo[i].event>> \in Held
      BY <1>2
    <3>. QED
      BY <1>4, <3>1
  <2>. QED
    BY <2>1
<1>12. Reaches(new, rest, total)
  <2>1. CASE r.known = total
    BY <2>1 DEF Reaches
  <2>2. CASE r.known # total
    <3>1. status # "none" /\ next = total /\ r.known <= total
      BY <2>2 DEF ClientFirst, ClientEnd
    <3>2. PICK p \in Held : p[1] = total
      BY <3>1, HeldOnce
    <3>3. PICK i \in DOMAIN todo : todo[i] = [mark |-> p[1], event |-> p[2]]
      BY <1>1, <1>2, <2>2, <3>1, <3>2
    <3>. QED
      BY <1>9, <3>2, <3>3 DEF Reaches
  <2>. QED
    BY <2>1, <2>2
<1>13. ClientEnd(new, rest, total)
  <2>1. /\ r.known <= total
        /\ \A i \in DOMAIN rest : rest[i].mark <= total
        /\ \A i, j \in DOMAIN rest : i < j /\ rest[j].event > 0 => rest[i].event > 0 /\ rest[i].mark <= rest[j].mark
    BY <1>6 DEF ClientFirst, ClientEnd
  <2>. QED
    BY <1>2, <1>3, <1>9, <1>11, <1>12, <2>1 DEF ClientEnd
<1>. QED
  BY <1>10, <1>13 DEF ClientFirst

(* The stream has no list any more: it is closed, or read on from the queue. *)
LEMMA FirstEmpty ==
    ASSUME NEW r \in ClientType, NEW items \in ItemSeqs, NEW total \in Nat, NEW held,
           ClientFirst(r, items, held, total),
           NEW new, NEW rest, new.got = r.got, new.known = r.known, new.todo = <<>>,
           \/ rest = <<>> /\ new.pc \notin Streams
           \/ rest = items /\ new.pc \notin Streams
           \/ rest = items /\ r.todo = <<>> /\ r.pc = "catchup" /\ new.pc = "live"
    PROVE  ClientFirst(new, rest, held, total)
<1>1. DOMAIN <<>> = {} /\ "primary" \in Streams /\ "catchup" \in Streams
  BY DEF Streams
<1>2. /\ Covers(<<>>, held)
      /\ \A p \in held : p[1] <= new.known => Got(new, p[2])
      /\ Covers(rest, held)
  BY <1>1 DEF ClientFirst, ClientWhole, Covers, Got
<1>3. /\ r.known <= total
      /\ \A i \in DOMAIN rest : rest[i].mark <= total
      /\ \A i, j \in DOMAIN rest : i < j /\ rest[j].event > 0 => rest[i].event > 0 /\ rest[i].mark <= rest[j].mark
  BY <1>1 DEF ClientFirst, ClientEnd
<1>4. CASE new.pc \notin Streams
  BY <1>1, <1>2, <1>3, <1>4 DEF ClientFirst, ClientWhole, ClientEnd
<1>5. CASE rest = items /\ r.todo = <<>> /\ r.pc = "catchup" /\ new.pc = "live"
  <2>1. \A p \in held : p[1] > new.known => Brings(new, rest, p)
    BY <1>1, <1>5 DEF ClientFirst, ClientWhole, Brings, Carries
  <2>2. Reaches(new, rest, total)
    BY <1>1, <1>5 DEF ClientFirst, ClientEnd, Reaches
  <2>. QED
    BY <1>1, <1>2, <1>3, <1>5, <2>1, <2>2 DEF ClientFirst, ClientWhole, ClientEnd
<1>. QED
  BY <1>4, <1>5

(* What is carried behind the head of a sequence. *)
LEMMA CarriedBehind ==
    ASSUME NEW S, NEW s \in Seq(S), s # <<>>
    PROVE  /\ \A p : Carries(s, p) => Carries(Tail(s), p) \/ s[1] = [mark |-> p[1], event |-> p[2]]
           /\ \A i \in DOMAIN s : i # 1 => i > 1 /\ i - 1 \in DOMAIN Tail(s) /\ Tail(s)[i - 1] = s[i]
           /\ 1 \in DOMAIN s
           /\ \A held : Covers(s, held) => Covers(Tail(s), held)
<1>. DEFINE t == Tail(s)
<1>1. /\ Len(s) \in Nat \ {0} /\ DOMAIN s = 1..Len(s) /\ DOMAIN t = 1..(Len(s) - 1)
      /\ \A i \in DOMAIN t : i + 1 \in DOMAIN s /\ t[i] = s[i + 1]
  BY Behead
<1>. HIDE DEF t
<1>2. \A i \in DOMAIN s : i # 1 => i > 1 /\ i - 1 \in DOMAIN t /\ t[i - 1] = s[i]
  BY <1>1
<1>3. \A p : Carries(s, p) => Carries(t, p) \/ s[1] = [mark |-> p[1], event |-> p[2]]
  BY <1>2 DEF Carries
<1>4. \A held : Covers(s, held) => Covers(t, held)
  BY <1>1 DEF Covers
<1>. QED
  BY <1>1, <1>2, <1>3, <1>4 DEF t

(* The first of the list. *)
LEMMA FirstGives ==
    ASSUME NEW r \in ClientType, NEW items \in ItemSeqs, NEW total \in Nat, NEW made, NEW held, held \subseteq Nat \X Nat,
           \A p \in held : p[2] >= 1,
           ClientFirst(r, items, held, total), ClientOrder(r, items, made, held),
           r.pc \in {"replay", "catchup"}, r.todo # <<>>,
           NEW new, Read(r, r.todo[1], new), new.pc = r.pc, new.todo = Tail(r.todo)
    PROVE  ClientFirst(new, items, held, total)
<1>. DEFINE item == r.todo[1]
            todo == Tail(r.todo)
<1>1. /\ r.known \in Nat /\ r.got \in Seq(Numbers) /\ r.todo \in Seq(Items)
      /\ \A i \in DOMAIN r.todo : r.todo[i].mark \in Nat /\ r.todo[i].event \in Nat /\ r.todo[i].event > 0
      /\ \A i \in DOMAIN items : items[i].mark \in Nat /\ items[i].event \in Nat
  BY Measures
<1>2. /\ \A p : Carries(r.todo, p) => Carries(todo, p) \/ item = [mark |-> p[1], event |-> p[2]]
      /\ \A i \in DOMAIN r.todo : i # 1 => i > 1 /\ i - 1 \in DOMAIN todo /\ todo[i - 1] = r.todo[i]
      /\ 1 \in DOMAIN r.todo
      /\ Covers(r.todo, held) => Covers(todo, held)
  BY <1>1, CarriedBehind
<1>3. /\ DOMAIN todo = 1..(Len(r.todo) - 1) /\ Len(r.todo) \in Nat
      /\ \A i \in DOMAIN todo : i + 1 \in DOMAIN r.todo /\ todo[i] = r.todo[i + 1]
  BY <1>1, Behead
<1>4. \A i, j \in DOMAIN todo : (i < j => i + 1 < j + 1) /\ 1 < j + 1
  BY <1>3
<1>5. /\ item.mark \in Nat /\ item.event \in Nat /\ item.event > 0 /\ item.mark > r.known /\ item.mark <= total
      /\ \A i \in DOMAIN todo : todo[i].mark \in Nat /\ item.mark < todo[i].mark /\ todo[i].mark <= total /\ todo[i].event > 0
      /\ \A i, j \in DOMAIN todo : i < j => todo[i].mark < todo[j].mark
  <2>1. /\ \A i \in DOMAIN r.todo : r.todo[i].mark <= total /\ r.todo[i].mark > r.known
        /\ \A i, j \in DOMAIN r.todo : i < j => r.todo[i].mark < r.todo[j].mark
    BY DEF ClientFirst, ClientEnd
  <2>. QED
    BY <1>1, <1>2, <1>3, <1>4, <2>1
<1>6. new.got = Append(r.got, item.event) /\ new.known = item.mark
  BY <1>1, <1>5 DEF Read
<1>7. /\ \A e : Got(r, e) => Got(new, e)
      /\ Got(new, item.event)
  <2>1. item.event \in Numbers
    <3>1. item \in Items
      BY <1>1, <1>2
    <3>. QED
      BY <3>1 DEF Items
  <2>2. /\ DOMAIN new.got = 1..(Len(r.got) + 1)
        /\ \A i \in DOMAIN r.got : new.got[i] = r.got[i]
        /\ new.got[Len(r.got) + 1] = item.event
        /\ DOMAIN r.got = 1..Len(r.got) /\ Len(r.got) \in Nat
    BY <1>1, <1>6, <2>1, Appended
  <2>3. (\A i \in DOMAIN r.got : i \in DOMAIN new.got) /\ Len(r.got) + 1 \in DOMAIN new.got
    BY <2>2
  <2>. QED
    BY <2>2, <2>3 DEF Got
<1>. HIDE DEF item, todo
<1>8. ASSUME NEW p \in held, p[1] > r.known
      PROVE  \/ item = [mark |-> p[1], event |-> p[2]]
             \/ Carries(todo, p)
             \/ r.pc # "replay" /\ Carries(items, p)
  <2>1. Brings(r, items, p)
    BY <1>8 DEF ClientFirst, ClientWhole, Streams
  <2>. QED
    BY <1>2, <2>1 DEF Brings
<1>9. ASSUME NEW p \in held, p[1] <= new.known
      PROVE  Got(new, p[2])
  <2>0. p[1] \in Nat /\ p[2] \in Nat /\ p[2] >= 1
    OBVIOUS
  <2>1. CASE p[1] <= r.known
    BY <1>7, <2>1 DEF ClientFirst, ClientWhole
  <2>2. CASE p[1] > r.known
    <3>1. CASE item = [mark |-> p[1], event |-> p[2]]
      BY <1>7, <3>1
    <3>2. CASE Carries(todo, p)
      BY <1>5, <1>6, <1>9, <2>0, <3>2 DEF Carries
    <3>3. CASE r.pc # "replay" /\ Carries(items, p)
      <4>1. PICK j \in DOMAIN items : items[j] = [mark |-> p[1], event |-> p[2]]
        BY <3>3 DEF Carries
      <4>2. r.pc \in Following
        BY <3>3 DEF Following
      <4>3. item.event < p[2]
        BY <1>2, <2>0, <4>1, <4>2 DEF ClientOrder, ItemsBefore, item
      <4>4. p[2] <= item.event
        BY <1>2, <1>5, <1>6, <1>9 DEF ClientFirst, ClientWhole, Covers, item
      <4>. QED
        BY <1>5, <2>0, <4>3, <4>4
    <3>. QED
      BY <1>8, <2>2, <3>1, <3>2, <3>3
  <2>. QED
    BY <1>1, <2>0, <2>1, <2>2
<1>10. ASSUME NEW p \in held, p[1] > new.known
       PROVE  Brings(new, items, p)
  <2>1. p[1] \in Nat /\ p[1] > r.known
    BY <1>1, <1>5, <1>6, <1>10
  <2>2. item # [mark |-> p[1], event |-> p[2]]
    BY <1>5, <1>6, <1>10, <2>1
  <2>. QED
    BY <1>8, <2>1, <2>2 DEF Brings, todo
<1>11. ClientWhole(new, items, held)
  BY <1>2, <1>9, <1>10 DEF ClientFirst, ClientWhole, todo
<1>12. Reaches(new, items, total)
  <2>1. Reaches(r, items, total) /\ r.known # total
    BY <1>1, <1>5 DEF ClientFirst, ClientEnd, Streams
  <2>2. CASE \E i \in DOMAIN r.todo : r.todo[i].mark = total
    <3>1. PICK i \in DOMAIN r.todo : r.todo[i].mark = total
      BY <2>2
    <3>2. CASE i = 1
      BY <1>6, <3>1, <3>2 DEF Reaches, item
    <3>3. CASE i # 1
      BY <1>2, <3>1, <3>3 DEF Reaches, todo
    <3>. QED
      BY <3>2, <3>3
  <2>. QED
    BY <2>1, <2>2 DEF Reaches
<1>13. ClientEnd(new, items, total)
  <2>1. /\ \A i \in DOMAIN items : items[i].mark <= total
        /\ \A i, j \in DOMAIN items : i < j /\ items[j].event > 0 =>
              items[i].event > 0 /\ items[i].mark <= items[j].mark
    BY DEF ClientFirst, ClientEnd
  <2>. QED
    BY <1>5, <1>6, <1>12, <2>1 DEF ClientEnd, todo
<1>. QED
  BY <1>11, <1>13 DEF ClientFirst

(* The first of the queue: given to the client, or dropped as already known. *)
LEMMA FirstTakes ==
    ASSUME NEW r \in ClientType, NEW items \in ItemSeqs, NEW total \in Nat, NEW made, NEW held, held \subseteq Nat \X Nat,
           \A p \in held : p[1] >= 1 /\ p[2] >= 1,
           ClientFirst(r, items, held, total), ClientOrder(r, items, made, held),
           r.pc \in {"primary", "live"}, items # <<>>, items[1] # End,
           NEW new, new.pc = r.pc, new.todo = r.todo,
           \/ /\ Read(r, items[1], new)
              /\ r.pc = "live" => items[1].mark = 0 \/ items[1].mark > r.known
           \/ new = r /\ items[1].mark > 0 /\ items[1].mark <= r.known /\ r.pc = "live"
    PROVE  ClientFirst(new, Tail(items), held, total)
<1>. DEFINE item == items[1]
            rest == Tail(items)
<1>1. /\ r.known \in Nat /\ r.got \in Seq(Numbers) /\ items \in Seq(Items \cup {End})
      /\ \A i \in DOMAIN items : items[i].mark \in Nat /\ items[i].event \in Nat
  BY Measures
<1>2. /\ \A p : Carries(items, p) => Carries(rest, p) \/ item = [mark |-> p[1], event |-> p[2]]
      /\ \A i \in DOMAIN items : i # 1 => i > 1 /\ i - 1 \in DOMAIN rest /\ rest[i - 1] = items[i]
      /\ 1 \in DOMAIN items
      /\ Covers(items, held) => Covers(rest, held)
  BY <1>1, CarriedBehind
<1>3. /\ DOMAIN rest = 1..(Len(items) - 1) /\ Len(items) \in Nat
      /\ \A i \in DOMAIN rest : i + 1 \in DOMAIN items /\ rest[i] = items[i + 1]
  BY <1>1, Behead
<1>4. \A i, j \in DOMAIN rest : (i < j => i + 1 < j + 1) /\ 1 < j + 1
  BY <1>3
<1>5. item \in Items /\ item.mark \in Nat /\ item.event \in Numbers /\ item.event \in Nat /\ item.event > 0
  <2>1. item \in Items \cup {End}
    BY <1>1, <1>2
  <2>2. item \in Items
    BY <2>1
  <2>. QED
    BY <2>2, ItemFacts DEF Items
<1>6. r.todo = <<>> /\ DOMAIN r.todo = {} /\ r.pc \in Streams /\ r.pc # "replay"
  BY DEF ClientOrder, Streams
<1>7. /\ \A i \in DOMAIN rest : rest[i].mark \in Nat /\ rest[i].event \in Nat /\ rest[i].mark <= total
      /\ \A i, j \in DOMAIN rest : i < j /\ rest[j].event > 0 => rest[i].event > 0 /\ rest[i].mark <= rest[j].mark
      /\ \A j \in DOMAIN rest : rest[j].event > 0 => item.mark <= rest[j].mark /\ item.event < rest[j].event
      /\ item.mark <= total
      /\ r.known <= total
      /\ r.pc = "primary" => item.mark >= r.known /\ \A j \in DOMAIN rest : rest[j].event > 0 => rest[j].mark >= r.known
  <2>1. /\ \A i \in DOMAIN items : items[i].mark <= total
        /\ \A i, j \in DOMAIN items : i < j /\ items[j].event > 0 =>
              items[i].event > 0 /\ items[i].mark <= items[j].mark
        /\ r.pc = "primary" => \A i \in DOMAIN items : items[i].event > 0 => items[i].mark >= r.known
        /\ r.known <= total
    BY DEF ClientFirst, ClientEnd
  <2>2. \A i, j \in DOMAIN items : i < j /\ items[i].event > 0 /\ items[j].event > 0 => items[i].event < items[j].event
    BY DEF ClientOrder, Rising
  <2>. QED
    <3>1. \A i \in DOMAIN rest : rest[i].mark \in Nat /\ rest[i].event \in Nat /\ rest[i].mark <= total
      BY <1>1, <1>3, <2>1
    <3>2. \A i, j \in DOMAIN rest : i < j /\ rest[j].event > 0 => rest[i].event > 0 /\ rest[i].mark <= rest[j].mark
      BY <1>3, <1>4, <2>1
    <3>3. \A j \in DOMAIN rest : rest[j].event > 0 => item.mark <= rest[j].mark /\ item.event < rest[j].event
      BY <1>2, <1>3, <1>4, <1>5, <2>1, <2>2
    <3>4. /\ item.mark <= total
          /\ r.pc = "primary" => item.mark >= r.known /\ \A j \in DOMAIN rest : rest[j].event > 0 => rest[j].mark >= r.known
      BY <1>2, <1>3, <1>5, <2>1
    <3>. QED
      BY <2>1, <3>1, <3>2, <3>3, <3>4
<1>8. \/ new.known = r.known /\ item.mark <= r.known
      \/ new.known = item.mark /\ item.mark > 0 /\ item.mark >= r.known
  BY <1>1, <1>5, <1>7 DEF Read
<1>9. /\ \A e : Got(r, e) => Got(new, e)
      /\ new.known > r.known => Got(new, item.event)
  <2>1. CASE new = r
    BY <1>1, <2>1
  <2>2. CASE Read(r, item, new)
    <3>1. new.got = Append(r.got, item.event)
      BY <2>2 DEF Read
    <3>2. /\ DOMAIN new.got = 1..(Len(r.got) + 1)
          /\ \A i \in DOMAIN r.got : new.got[i] = r.got[i]
          /\ new.got[Len(r.got) + 1] = item.event
          /\ DOMAIN r.got = 1..Len(r.got) /\ Len(r.got) \in Nat
      BY <1>1, <1>5, <3>1, Appended
    <3>3. (\A i \in DOMAIN r.got : i \in DOMAIN new.got) /\ Len(r.got) + 1 \in DOMAIN new.got
      BY <3>2
    <3>. QED
      BY <3>2, <3>3 DEF Got
  <2>. QED
    BY <2>1, <2>2
<1>. HIDE DEF item, rest
<1>10. ASSUME NEW p \in held, p[1] > r.known
       PROVE  item = [mark |-> p[1], event |-> p[2]] \/ Carries(rest, p)
  <2>1. Brings(r, items, p)
    BY <1>6, <1>10 DEF ClientFirst, ClientWhole
  <2>2. ~Carries(r.todo, p)
    BY <1>6 DEF Carries
  <2>. QED
    BY <1>2, <2>1, <2>2 DEF Brings
<1>11. ASSUME NEW p \in held, p[1] <= new.known
       PROVE  Got(new, p[2])
  <2>0. p[1] \in Nat /\ p[2] \in Nat /\ p[2] >= 1
    OBVIOUS
  <2>1. CASE p[1] <= r.known
    BY <1>9, <2>1 DEF ClientFirst, ClientWhole
  <2>2. CASE p[1] > r.known
    <3>1. new.known = item.mark /\ new.known > r.known
      BY <1>1, <1>5, <1>8, <1>11, <2>0, <2>2
    <3>2. CASE item = [mark |-> p[1], event |-> p[2]]
      BY <1>9, <3>1, <3>2
    <3>3. CASE Carries(rest, p)
      <4>1. PICK j \in DOMAIN rest : rest[j] = [mark |-> p[1], event |-> p[2]]
        BY <3>3 DEF Carries
      <4>2. item.event < p[2]
        BY <1>7, <2>0, <4>1
      <4>3. p[2] <= item.event
        BY <1>2, <1>5, <1>11, <3>1 DEF ClientFirst, ClientWhole, Covers, item
      <4>. QED
        BY <1>5, <2>0, <4>2, <4>3
    <3>. QED
      BY <1>10, <2>2, <3>2, <3>3
  <2>. QED
    BY <1>1, <2>0, <2>1, <2>2
<1>12. ASSUME NEW p \in held, p[1] > new.known
       PROVE  Brings(new, rest, p)
  <2>1. p[1] \in Nat /\ p[1] > r.known /\ p[1] > item.mark
    BY <1>1, <1>5, <1>8, <1>12
  <2>2. item # [mark |-> p[1], event |-> p[2]]
    BY <1>5, <2>1
  <2>. QED
    BY <1>6, <1>10, <2>1, <2>2 DEF Brings
<1>13. Covers(new.todo, held) /\ Covers(rest, held)
  BY <1>2 DEF ClientFirst, ClientWhole
<1>14. ClientWhole(new, rest, held)
  BY <1>11, <1>12, <1>13 DEF ClientWhole
<1>15. Reaches(new, rest, total)
  <2>1. Reaches(r, items, total)
    BY <1>6 DEF ClientFirst, ClientEnd
  <2>2. CASE r.known = total
    BY <1>1, <1>5, <1>7, <1>8, <2>2 DEF Reaches
  <2>3. CASE \E i \in DOMAIN items : items[i].event > 0 /\ items[i].mark = total
    <3>1. PICK i \in DOMAIN items : items[i].event > 0 /\ items[i].mark = total
      BY <2>3
    <3>2. CASE i = 1
      <4>1. item.mark = total
        BY <3>1, <3>2 DEF item
      <4>2. new.known = total
        BY <1>1, <1>5, <1>7, <1>8, <4>1
      <4>. QED
        BY <4>2 DEF Reaches
    <3>3. CASE i # 1
      BY <1>2, <1>6, <3>1, <3>3 DEF Reaches
    <3>. QED
      BY <3>2, <3>3
  <2>. QED
    BY <1>6, <2>1, <2>2, <2>3 DEF Reaches
<1>16. new.known <= total
  BY <1>7, <1>8
<1>17. new.pc = "primary" => \A i \in DOMAIN rest : rest[i].event > 0 => rest[i].mark >= new.known
  BY <1>7, <1>8
<1>18. ClientEnd(new, rest, total)
  BY <1>6, <1>7, <1>15, <1>16, <1>17 DEF ClientEnd
<1>. QED
  BY <1>14, <1>18 DEF ClientFirst, rest

-----------------------------------------------------------------------------
(* The first leg. *)

LEMMA Totals ==
    ASSUME NEW n \in Nat
    PROVE  /\ Cardinality((1..n) \ Unbuffered) \in Nat
           /\ n + 1 \in Unbuffered => (1..(n + 1)) \ Unbuffered = (1..n) \ Unbuffered
           /\ n + 1 \notin Unbuffered =>
                 Cardinality((1..(n + 1)) \ Unbuffered) = Cardinality((1..n) \ Unbuffered) + 1
<1>. DEFINE before == (1..n) \ Unbuffered
            after  == (1..(n + 1)) \ Unbuffered
<1>1. IsFiniteSet(1..n)
  BY FS_Interval
<1>2. IsFiniteSet(before)
  BY <1>1, FS_Subset
<1>3. Cardinality(before) \in Nat
  BY <1>2, FS_CardinalityType
<1>4. 1..(n + 1) = (1..n) \cup {n + 1} /\ n + 1 \notin 1..n
  OBVIOUS
<1>5. n + 1 \in Unbuffered => after = before
  BY <1>4
<1>6. ASSUME n + 1 \notin Unbuffered
      PROVE  Cardinality(after) = Cardinality(before) + 1
  <2>1. after = before \cup {n + 1} /\ n + 1 \notin before
    BY <1>4, <1>6
  <2>. QED
    BY <1>2, <2>1, FS_AddElement
<1>. QED
  BY <1>3, <1>5, <1>6

(* What FirstLegInv says of a client. *)
OnFirstLeg(c) ==
    /\ ClientFirst(client[c], queue[c], Held, Total)
    /\ run.st \in {"idle", "running"} => Running(client[c], queue[c], c)

BufferOfLeg ==
    /\ run.st \in {"idle", "running"} => next = Total /\ pending = 0 /\ status \in {"none", "running"}
    /\ status # "none" => next = Total

LEMMA FirstLegIs == FirstLegInv <=> (run.leg <= 1 => BufferOfLeg /\ \A c \in Clients : OnFirstLeg(c))
  BY DEF FirstLegInv, BufferOfLeg, OnFirstLeg, ClientFirst

LEMMA FirstLegParts ==
    ASSUME TypeInv
    PROVE  /\ Total \in Nat /\ Held \subseteq Nat \X Nat
           /\ \A p \in Held : p[1] \in Nat /\ p[2] \in Nat /\ p[1] >= 1 /\ p[2] >= 1
<1>1. Total \in Nat
  BY Parts, Totals DEF Total
<1>2. Held \subseteq Nat \X Nat /\ \A p \in Held : p[1] >= 1 /\ p[2] >= 1
  BY HeldType
<1>. QED
  BY <1>1, <1>2

LEMMA FirstLegEmits ==
    ASSUME TypeInv, TypeInv', OrderInv', SubsInv, run.leg <= 1, FirstLegInv, Emits
    PROVE  BufferOfLeg' /\ \A c \in Clients : OnFirstLeg(c)'
<1>. DEFINE e == run.made + 1
            item == [mark |-> next', event |-> e]
<1>1. BufferOfLeg /\ \A c \in Clients : OnFirstLeg(c)
  BY FirstLegIs
<1>2. /\ next = Total /\ pending = 0 /\ status \in {"none", "running"}
      /\ \A c \in Clients : /\ ClientFirst(client[c], queue[c], Held, Total)
                            /\ Running(client[c], queue[c], c)
  BY <1>1 DEF BufferOfLeg, OnFirstLeg, Emits
<1>3. Total \in Nat /\ run.made \in Nat /\ e \in Nat /\ run'.made = e
  BY FirstLegParts, Parts DEF Emits
<1>4. /\ next' = Total' /\ Total <= Total' /\ Total' \in Nat
      /\ \A p \in Held' : p \in Held \/ (p[1] = Total' /\ p[1] > Total /\ p[2] = e)
  <2>1. Total = Cardinality((1..run.made) \ Unbuffered) /\ Total' = Cardinality((1..e) \ Unbuffered)
    BY <1>3 DEF Total
  <2>2. CASE e \in Unbuffered /\ next' = next /\ Held' = Held
    <3>1. (1..e) \ Unbuffered = (1..run.made) \ Unbuffered
      BY <1>3, <2>2, Totals
    <3>2. Total' = Total
      BY <2>1, <3>1
    <3>. QED
      BY <1>2, <1>3, <2>2, <3>2
  <2>3. CASE e \notin Unbuffered /\ next' = next + 1 /\ Held' \subseteq Held \cup {<<next + 1, e>>}
    <3>1. Total' = Total + 1
      BY <1>3, <2>1, <2>3, Totals
    <3>2. Total' \in Nat /\ Total' > Total /\ next' = Total' /\ next + 1 = Total'
      BY <1>2, <1>3, <2>3, <3>1
    <3>3. \A p \in Held' : p \in Held \/ p = <<Total', e>>
      BY <2>3, <3>2
    <3>. QED
      BY <1>3, <3>2, <3>3
  <2>. QED
    BY <2>2, <2>3 DEF Emits
<1>5. item \in Items
  <2>1. run'.made \in 0..MaxEvents /\ next' \in 0..MaxEvents
    BY DEF TypeInv, TypeOK
  <2>2. e \in Numbers
    BY <1>3, <2>1 DEF Numbers
  <2>. QED
    BY <2>1, <2>2 DEF Items
<1>6. Held' \subseteq Nat \X Nat
  <2>1. Held \subseteq Nat \X Nat
    BY HeldType
  <2>2. Held' \subseteq Held \cup {<<next + 1, e>>}
    BY DEF Emits
  <2>3. <<next + 1, e>> \in Nat \X Nat
    BY <1>2, <1>3
  <2>. QED
    BY <2>1, <2>2, <2>3
<1>7. \A p \in Held' : p[2] <= e
  BY <1>3 DEF OrderInv, HeldOrder
<1>8. /\ status' \in {"none", "running"} /\ pending' = 0
      /\ status = "running" => status' = "running"
  BY <1>2 DEF Emits
<1>9. client' = client /\ run'.owner = run.owner /\ run.st = "running" /\ run'.st = "running"
  BY DEF Emits
<1>10. item.mark = Total' /\ item.event = e
  BY <1>4
<1>11. ASSUME NEW c \in Clients
       PROVE  /\ ClientFirst(client[c], queue'[c], Held', Total')
              /\ NoEnd(queue'[c])
  <2>1. client[c] \in ClientType /\ queue[c] \in ItemSeqs
    BY Parts
  <2>2. NoEnd(queue[c]) /\ client[c].pc # "replay"
    BY <1>2 DEF Running
  <2>3. CASE c \in Listeners
    <3>1. queue'[c] = Append(queue[c], item)
      BY <2>3 DEF Emits
    <3>2. \A p \in Held' : p \in Held \/ (p[1] = Total' /\ p[1] > Total /\ p[2] = item.event)
      BY <1>4, <1>10
    <3>3. \A p \in Held' : p[2] <= item.event
      BY <1>7, <1>10
    <3>. HIDE DEF item, e
    <3>4. /\ ClientFirst(client[c], Append(queue[c], item), Held', Total')
          /\ NoEnd(Append(queue[c], item))
      BY <1>2, <1>3, <1>4, <1>5, <1>6, <1>10, <2>1, <2>2, <3>2, <3>3, FirstPut
    <3>. QED
      BY <3>1, <3>4
  <2>4. CASE c \notin Listeners
    <3>1. queue'[c] = queue[c]
      BY <2>4 DEF Emits
    <3>2. client[c].pc \notin Streams
      BY <1>2, <2>2, <2>4 DEF Running, SubsInv, Listeners, Streams
    <3>3. \A p \in Held' : p \in Held \/ p[1] > Total
      BY <1>4
    <3>. HIDE DEF item, e
    <3>4. ClientFirst(client[c], queue[c], Held', Total')
      BY <1>2, <1>3, <1>4, <1>6, <2>1, <3>2, <3>3, FirstApart
    <3>. QED
      BY <2>2, <3>1, <3>4
  <2>. QED
    BY <2>3, <2>4
<1>12. ASSUME NEW c \in Clients
       PROVE  OnFirstLeg(c)'
  <2>1. Running(client[c], queue[c], c)
    BY <1>2
  <2>2. /\ ClientFirst(client'[c], queue'[c], Held', Total')
        /\ NoEnd(queue'[c])
        /\ client'[c].pc # "replay"
        /\ client'[c].pc = "primary" => run'.owner = c
        /\ client'[c].pc \in {"catchup", "live"} => status' = "running"
    BY <1>8, <1>9, <1>11, <2>1 DEF Running
  <2>. QED
    BY <2>2 DEF OnFirstLeg, Running
<1>13. BufferOfLeg'
  BY <1>4, <1>8 DEF BufferOfLeg
<1>. QED
  BY <1>12, <1>13

LEMMA FirstLegSignals ==
    ASSUME TypeInv, run.leg <= 1, FirstLegInv, Signals
    PROVE  BufferOfLeg' /\ \A c \in Clients : OnFirstLeg(c)'
<1>1. BufferOfLeg /\ \A c \in Clients : OnFirstLeg(c)
  BY FirstLegIs
<1>2. client' = client /\ Held' = Held /\ Total' = Total /\ next' = next /\ (status' = "none" <=> status = "none")
  BY DEF Signals, Total
<1>3. run'.st \notin {"idle", "running"}
  <2>1. CASE run'.st \in {"paused", "over"}
    BY <2>1
  <2>2. CASE run'.st = run.st /\ pending > 0
    BY <1>1, <2>2, Parts DEF BufferOfLeg
  <2>. QED
    BY <2>1, <2>2 DEF Signals
<1>4. ASSUME NEW c \in Clients
      PROVE  ClientFirst(client[c], queue'[c], Held, Total)
  <2>1. client[c] \in ClientType /\ queue[c] \in ItemSeqs /\ ClientFirst(client[c], queue[c], Held, Total)
    BY <1>1, Parts DEF OnFirstLeg
  <2>2. ClientFirst(client[c], Append(queue[c], End), Held, Total)
    BY <2>1, FirstLegParts, FirstEnd
  <2>. QED
    BY <2>1, <2>2 DEF Signals
<1>5. ASSUME NEW c \in Clients
      PROVE  OnFirstLeg(c)'
  BY <1>2, <1>3, <1>4 DEF OnFirstLeg
<1>6. BufferOfLeg'
  BY <1>1, <1>2, <1>3 DEF BufferOfLeg
<1>. QED
  BY <1>5, <1>6

LEMMA FirstLegCleans ==
    ASSUME run.leg <= 1, FirstLegInv, Cleans
    PROVE  BufferOfLeg' /\ \A c \in Clients : OnFirstLeg(c)'
<1>1. BufferOfLeg /\ \A c \in Clients : OnFirstLeg(c)
  BY FirstLegIs
<1>2. client' = client /\ queue' = queue /\ Held' = {} /\ Total' = Total /\ run' = run /\ status' = "none"
  BY DEF Cleans, Total
<1>3. run.st \notin {"idle", "running"}
  BY <1>1 DEF Cleans, BufferOfLeg
<1>4. ASSUME NEW c \in Clients
      PROVE  OnFirstLeg(c)'
  <2>1. ClientFirst(client[c], queue[c], {}, Total)
    BY <1>1 DEF OnFirstLeg, ClientFirst, ClientWhole, Covers
  <2>. QED
    BY <1>2, <1>3, <2>1 DEF OnFirstLeg
<1>5. BufferOfLeg'
  BY <1>2, <1>3 DEF BufferOfLeg
<1>. QED
  BY <1>4, <1>5

(* The others stand as they are while one client moves. *)
LEMMA FirstLegOthers ==
    ASSUME run.leg <= 1, FirstLegInv, NEW c \in Clients, Rest(c), BufferStays,
           run'.st = run.st, run'.made = run.made,
           \A d \in Clients \ {c} : run.owner = d => run'.owner = d
    PROVE  BufferOfLeg' /\ \A d \in Clients \ {c} : OnFirstLeg(d)'
<1>1. BufferOfLeg /\ \A d \in Clients : OnFirstLeg(d)
  BY FirstLegIs
<1>2. Held' = Held /\ Total' = Total /\ next' = next /\ status' = status /\ pending' = pending
  BY DEF BufferStays, Total
<1>3. ASSUME NEW d \in Clients \ {c}
      PROVE  OnFirstLeg(d)'
  <2>1. client'[d] = client[d] /\ queue'[d] = queue[d]
    BY DEF Rest
  <2>2. ClientFirst(client'[d], queue'[d], Held', Total')
    BY <1>1, <1>2, <2>1 DEF OnFirstLeg
  <2>3. run'.st \in {"idle", "running"} => Running(client[d], queue[d], d)
    BY <1>1 DEF OnFirstLeg
  <2>4. run'.st \in {"idle", "running"} =>
           /\ NoEnd(queue'[d])
           /\ client'[d].pc # "replay"
           /\ client'[d].pc = "primary" => run'.owner = d
           /\ client'[d].pc \in {"catchup", "live"} => status' = "running"
    BY <1>2, <2>1, <2>3 DEF Running
  <2>. QED
    BY <2>2, <2>4 DEF OnFirstLeg, Running
<1>4. BufferOfLeg'
  BY <1>1, <1>2 DEF BufferOfLeg
<1>. QED
  BY <1>3, <1>4

(* The one who moves. *)
LEMMA FirstLegMove ==
    ASSUME TypeInv, OrderInv, SubsInv, run.leg <= 1, FirstLegInv, NEW c \in Clients, ClientMove(c), ~Opens(c)
    PROVE  /\ ClientFirst(client'[c], queue'[c], Held, Total)
           /\ run.st \in {"idle", "running"} =>
                 /\ NoEnd(queue'[c])
                 /\ client'[c].pc # "replay"
                 /\ client'[c].pc = "primary" => client[c].pc = "primary"
                 /\ client'[c].pc \in {"catchup", "live"} => status = "running"
<1>. DEFINE r == client[c]
            items == queue[c]
<1>1. BufferOfLeg /\ OnFirstLeg(c)
  BY FirstLegIs
<1>2. r \in ClientType /\ items \in ItemSeqs /\ ClientFirst(r, items, Held, Total) /\ ClientOrder(r, items, run.made, Held)
  BY <1>1, Parts DEF OnFirstLeg, OrderInv
<1>3. HeldOrder(Held, run.made, next)
  BY DEF OrderInv
<1>4. /\ Total \in Nat /\ Held \subseteq Nat \X Nat
      /\ \A p \in Held : p[1] >= 1 /\ p[2] >= 1
  BY FirstLegParts
<1>5. run.st \in {"idle", "running"} =>
         /\ NoEnd(items)
         /\ r.pc # "replay"
         /\ r.pc \in {"catchup", "live"} => status = "running"
         /\ status \in {"none", "running"}
  BY <1>1 DEF BufferOfLeg, OnFirstLeg, Running
<1>6. DOMAIN <<>> = {}
  OBVIOUS
<1>7. NoEnd(<<>>)
  BY <1>6 DEF NoEnd
<1>8. items # <<>> /\ NoEnd(items) => NoEnd(Tail(items))
  <2>1. items \in Seq(Items \cup {End})
    BY <1>2 DEF ItemSeqs
  <2>. QED
    BY <2>1, Behead DEF NoEnd
<1>9. "live" \in Streams
  BY DEF Streams
<1>10. CASE Subscribes(c)
  <2>1. /\ client'[c].got = r.got /\ client'[c].known = r.known /\ client'[c].todo = Missed(r.known)
        /\ client'[c].pc = "catchup" /\ queue'[c] = <<>> /\ status = "running"
    BY <1>10 DEF Subscribes, Keeps
  <2>2. status # "none" => next = Total
    BY <1>1 DEF BufferOfLeg
  <2>3. ClientFirst(client'[c], queue'[c], Held, Total)
    BY <1>2, <1>3, <1>4, <2>1, <2>2, FirstMissed
  <2>. QED
    BY <1>7, <2>1, <2>3
<1>11. CASE Replays(c)
  <2>1. /\ client'[c].got = r.got /\ client'[c].known = r.known /\ client'[c].todo = Missed(r.known)
        /\ client'[c].pc = "replay" /\ queue'[c] = items
    BY <1>11 DEF Replays, Keeps
  <2>2. status # "none" => next = Total
    BY <1>1 DEF BufferOfLeg
  <2>3. r.known = Total \/ status # "none"
    <3>1. CASE status \notin {"none", "running"}
      BY <3>1
    <3>2. CASE r.pc = "live" /\ items = <<>>
      <4>1. Reaches(r, items, Total) /\ r.todo = <<>>
        BY <1>2, <1>9, <3>2 DEF ClientFirst, ClientEnd, ClientOrder
      <4>. QED
        BY <1>6, <3>2, <4>1 DEF Reaches
    <3>. QED
      BY <1>11, <3>1, <3>2 DEF Replays
  <2>4. ClientFirst(client'[c], queue'[c], Held, Total)
    BY <1>2, <1>3, <1>4, <2>1, <2>2, <2>3, FirstMissed
  <2>5. run.st \notin {"idle", "running"}
    BY <1>5, <1>11 DEF Replays
  <2>. QED
    BY <2>4, <2>5
<1>12. CASE Joins(c) \/ Answered(c) \/ Closes(c)
  <2>1. /\ client'[c].got = r.got /\ client'[c].known = r.known /\ client'[c].todo = <<>>
        /\ \/ queue'[c] = <<>> /\ client'[c].pc \in {"away", "ended"}
           \/ queue'[c] = items /\ client'[c].pc = "dbended"
           \/ queue'[c] = items /\ r.todo = <<>> /\ r.pc = "catchup" /\ client'[c].pc = "live"
    BY <1>12 DEF Joins, Answered, Closes, Keeps
  <2>2. {"away", "ended", "dbended"} \cap Streams = {}
    BY DEF Streams
  <2>3. ClientFirst(client'[c], queue'[c], Held, Total)
    BY <1>2, <1>4, <2>1, <2>2, FirstEmpty
  <2>. QED
    BY <1>5, <1>7, <2>1, <2>3
<1>13. CASE Gives(c)
  <2>1. /\ Read(r, r.todo[1], client'[c]) /\ client'[c].pc = r.pc /\ client'[c].todo = Tail(r.todo)
        /\ r.pc \in {"replay", "catchup"} /\ r.todo # <<>> /\ queue'[c] = items
    BY <1>13 DEF Gives, Gets, Read
  <2>2. ClientFirst(client'[c], queue'[c], Held, Total)
    BY <1>2, <1>4, <2>1, FirstGives
  <2>. QED
    BY <1>5, <2>1, <2>2
<1>14. CASE Takes(c) \/ Drops(c)
  <2>1. /\ client'[c].pc = r.pc /\ client'[c].todo = r.todo
        /\ r.pc \in {"primary", "live"} /\ items # <<>> /\ items[1] # End /\ queue'[c] = Tail(items)
    BY <1>14 DEF Takes, Drops
  <2>2. \/ /\ Read(r, items[1], client'[c])
           /\ r.pc = "live" => items[1].mark = 0 \/ items[1].mark > r.known
        \/ client'[c] = r /\ items[1].mark > 0 /\ items[1].mark <= r.known /\ r.pc = "live"
    BY <1>14 DEF Takes, Drops, Gets, Read
  <2>3. ClientFirst(client'[c], queue'[c], Held, Total)
    BY <1>2, <1>4, <2>1, <2>2, FirstTakes
  <2>. QED
    BY <1>5, <1>8, <2>1, <2>3
<1>. QED
  BY <1>10, <1>11, <1>12, <1>13, <1>14 DEF ClientMove

LEMMA FirstLegOpens ==
    ASSUME TypeInv, SubsInv, FirstLegInv, NEW c \in Clients, Opens(c), run'.leg <= 1
    PROVE  BufferOfLeg' /\ \A d \in Clients : OnFirstLeg(d)'
<1>1. run.st = "idle" /\ run'.st = "running" /\ run'.owner = c
  <2>1. run.st = "paused" => run.leg >= 1 /\ run.leg \in Nat
    BY Parts DEF TypeInv
  <2>. QED
    BY <2>1 DEF Opens
<1>2. run.leg = 0 /\ run.made = 0 /\ next <= run.made /\ next \in Nat
  BY <1>1, Parts DEF TypeInv
<1>3. BufferOfLeg /\ \A d \in Clients : OnFirstLeg(d)
  BY <1>2, FirstLegIs
<1>4. Held' = Held /\ Total' = Total /\ next' = next /\ status' = status /\ pending' = pending
  BY DEF Opens, BufferStays, Total
<1>5. Total = 0
  BY <1>1, <1>2, <1>3 DEF BufferOfLeg
<1>6. /\ \A d \in Clients : client[d].pc = "away" /\ client[d].known = 0
      /\ buffer = <<>>
  BY <1>1 DEF SubsInv
<1>7. DOMAIN <<>> = {}
  OBVIOUS
<1>8. Held = {}
  BY <1>6, <1>7 DEF Held
<1>9. ASSUME NEW d \in Clients \ {c}
      PROVE  OnFirstLeg(d)'
  <2>1. client'[d] = client[d] /\ queue'[d] = queue[d] /\ client[d].pc = "away"
    BY <1>6 DEF Opens, Rest
  <2>2. ClientFirst(client'[d], queue'[d], Held', Total')
    BY <1>3, <1>4, <2>1 DEF OnFirstLeg
  <2>3. NoEnd(queue'[d])
    BY <1>1, <1>3, <2>1 DEF OnFirstLeg, Running
  <2>. QED
    BY <2>1, <2>2, <2>3 DEF OnFirstLeg, Running
<1>10. OnFirstLeg(c)'
  <2>1. /\ client'[c].pc = "primary" /\ client'[c].todo = <<>> /\ queue'[c] = <<>>
        /\ client'[c].known = 0
    BY <1>6 DEF Opens, Keeps
  <2>2. ClientWhole(client'[c], queue'[c], {})
    BY <1>7, <2>1 DEF ClientWhole, Covers
  <2>3. ClientEnd(client'[c], queue'[c], 0)
    BY <1>7, <2>1 DEF ClientEnd, Reaches
  <2>4. NoEnd(queue'[c])
    BY <1>7, <2>1 DEF NoEnd
  <2>. QED
    BY <1>1, <1>4, <1>5, <1>8, <2>1, <2>2, <2>3, <2>4 DEF OnFirstLeg, Running, ClientFirst
<1>11. BufferOfLeg'
  BY <1>1, <1>3, <1>4 DEF BufferOfLeg
<1>. QED
  BY <1>9, <1>10, <1>11

LEMMA FirstLegStep ==
    ASSUME TypeInv, OrderInv, SubsInv, FirstLegInv, [Next]_vars
    PROVE  FirstLegInv'
<1>. SUFFICES ASSUME run'.leg <= 1 PROVE BufferOfLeg' /\ \A c \in Clients : OnFirstLeg(c)'
  BY DEF FirstLegInv, BufferOfLeg, OnFirstLeg, ClientFirst
<1>1. TypeInv' /\ OrderInv'
  BY NextMoves, OrderStep
<1>2. CASE Still
  <2>1. BufferOfLeg /\ \A c \in Clients : OnFirstLeg(c)
    BY <1>2, FirstLegIs DEF Still
  <2>2. Held' = Held /\ Total' = Total /\ UNCHANGED <<run, next, status, pending, queue, client>>
    BY <1>2 DEF Still, Total
  <2>. QED
    BY <2>1, <2>2 DEF BufferOfLeg, OnFirstLeg, Running
<1>3. CASE Emits
  BY <1>1, <1>3, FirstLegEmits DEF Emits
<1>4. CASE Signals
  BY <1>4, FirstLegSignals DEF Signals
<1>5. CASE Cleans
  BY <1>5, FirstLegCleans DEF Cleans
<1>6. ASSUME NEW c \in Clients, ClientMove(c)
      PROVE  BufferOfLeg' /\ \A d \in Clients : OnFirstLeg(d)'
  <2>1. CASE Opens(c)
    BY <2>1, FirstLegOpens
  <2>2. CASE ~Opens(c)
    <3>1. /\ Rest(c) /\ BufferStays /\ run'.st = run.st /\ run'.made = run.made /\ run'.leg = run.leg
          /\ \A d \in Clients \ {c} : run.owner = d => run'.owner = d
          /\ client'[c].pc = "primary" => run'.owner = run.owner
      BY <1>6, <2>2
      DEF ClientMove, Subscribes, Replays, Joins, Answered, Closes, Gives, Takes, Drops
    <3>2. run.leg <= 1
      BY <3>1
    <3>3. BufferOfLeg' /\ \A d \in Clients \ {c} : OnFirstLeg(d)'
      BY <3>1, <3>2, FirstLegOthers
    <3>4. /\ ClientFirst(client'[c], queue'[c], Held, Total)
          /\ run.st \in {"idle", "running"} =>
                /\ NoEnd(queue'[c])
                /\ client'[c].pc # "replay"
                /\ client'[c].pc = "primary" => client[c].pc = "primary"
                /\ client'[c].pc \in {"catchup", "live"} => status = "running"
      BY <1>6, <2>2, <3>2, FirstLegMove
    <3>5. run.st \in {"idle", "running"} => (client[c].pc = "primary" => run.owner = c)
      BY <3>2, FirstLegIs DEF OnFirstLeg, Running
    <3>6. Held' = Held /\ Total' = Total /\ status' = status
      BY <3>1 DEF BufferStays, Total
    <3>7. ClientFirst(client'[c], queue'[c], Held', Total')
      BY <3>4, <3>6
    <3>8. run'.st \in {"idle", "running"} =>
             /\ NoEnd(queue'[c])
             /\ client'[c].pc # "replay"
             /\ client'[c].pc = "primary" => run'.owner = c
             /\ client'[c].pc \in {"catchup", "live"} => status' = "running"
      BY <3>1, <3>4, <3>5, <3>6
    <3>9. OnFirstLeg(c)'
      BY <3>7, <3>8 DEF OnFirstLeg, Running
    <3>. QED
      BY <3>3, <3>9
  <2>. QED
    BY <2>1, <2>2
<1>. QED
  BY <1>2, <1>3, <1>4, <1>5, <1>6, NextMoves

LEMMA FirstLegInvariant == Spec => []FirstLegInv
<1>1. Init => FirstLegInv
  <2>. SUFFICES ASSUME Init PROVE FirstLegInv
    OBVIOUS
  <2>1. DOMAIN <<>> = {} /\ 1..0 = {}
    OBVIOUS
  <2>2. Held = {}
    BY <2>1 DEF Init, Held
  <2>3. Total = 0
    <3>1. (1..0) \ Unbuffered = {}
      BY <2>1
    <3>. QED
      BY <3>1, FS_EmptySet DEF Total, Init
  <2>4. "away" \notin Streams
    BY DEF Streams
  <2>5. ASSUME NEW c \in Clients
        PROVE  OnFirstLeg(c)
    <3>1. client[c] = [pc |-> "away", todo |-> <<>>, known |-> 0, got |-> <<>>] /\ queue[c] = <<>>
      BY DEF Init
    <3>2. ClientWhole(client[c], queue[c], {}) /\ ClientEnd(client[c], queue[c], 0)
      BY <2>1, <2>4, <3>1 DEF ClientWhole, ClientEnd, Covers
    <3>3. Running(client[c], queue[c], c)
      BY <2>1, <3>1 DEF Running, NoEnd
    <3>. QED
      BY <2>2, <2>3, <3>2, <3>3 DEF OnFirstLeg, ClientFirst
  <2>6. BufferOfLeg
    BY <2>3 DEF Init, BufferOfLeg
  <2>. QED
    BY <2>5, <2>6, FirstLegIs
<1>2. TypeInv /\ OrderInv /\ SubsInv /\ FirstLegInv /\ [Next]_vars => FirstLegInv'
  BY FirstLegStep
<1>. QED
  BY <1>1, <1>2, TypeInvariant, OrderInvariant, SubsInvariant, PTL DEF Spec

(* Until the run is continued no event is lost between the buffer and the     *)
(* queues: what a client has a later event than, it has, or it was trimmed.  *)
THEOREM NothingSkipped == Spec => []SkippedIsTrimmed
<1>1. TypeInv /\ OrderInv /\ FirstLegInv => SkippedIsTrimmed
  <2>. SUFFICES ASSUME TypeInv, OrderInv, FirstLegInv, run.leg <= 1, NEW c \in Clients,
                       NEW k \in DOMAIN buffer, NEW i \in DOMAIN client[c].got, buffer[k] < client[c].got[i]
                PROVE  Got(client[c], buffer[k])
    BY DEF SkippedIsTrimmed, Got
  <2>. DEFINE p == <<k + (next - Len(buffer)), buffer[k]>>
  <2>1. p \in Held
    BY DEF Held
  <2>2. p[1] \in Nat /\ p[2] \in Nat /\ p[2] = buffer[k] /\ client[c].known \in Nat
    BY <2>1, FirstLegParts, Parts
  <2>3. client[c].got[i] \in Nat
    <3>1. client[c].got[i] \in Numbers
      BY Parts
    <3>. QED
      BY <3>1 DEF Numbers
  <2>. HIDE DEF p
  <2>4. ~(p[1] > client[c].known)
    <3>1. p[1] > client[c].known => client[c].got[i] < p[2]
      BY <2>1 DEF OrderInv, ClientOrder
    <3>. QED
      BY <2>2, <2>3, <3>1
  <2>5. p[1] <= client[c].known
    BY <2>2, <2>4
  <2>. QED
    BY <2>1, <2>2, <2>5 DEF FirstLegInv, ClientWhole
<1>. QED
  BY <1>1, TypeInvariant, OrderInvariant, FirstLegInvariant, PTL

(* A stream of the first leg that is ended was the last to be needed. *)
LEMMA EndsStep ==
    ASSUME TypeInv, OrderInv, FirstLegInv, run.leg <= 1,
           NEW c \in Clients, Open(c), Closes(c), client'[c].pc = "ended"
    PROVE  run.st # "running" /\ client[c].known = Total
<1>1. /\ ClientEnd(client[c], queue[c], Total)
      /\ run.st = "running" => Running(client[c], queue[c], c)
      /\ client[c].pc \notin {"replay", "catchup"} => client[c].todo = <<>>
  BY DEF FirstLegInv, OrderInv, ClientOrder
<1>2. Reaches(client[c], queue[c], Total)
  BY <1>1 DEF ClientEnd, Open
<1>3. DOMAIN <<>> = {}
  OBVIOUS
<1>4. CASE client[c].pc = "replay" /\ client[c].todo = <<>>
  <2>1. client[c].known = Total
    BY <1>2, <1>3, <1>4 DEF Reaches
  <2>2. run.st # "running"
    BY <1>1, <1>4 DEF Running
  <2>. QED
    BY <2>1, <2>2
<1>5. CASE client[c].pc \in {"primary", "live"} /\ queue[c] # <<>> /\ queue[c][1] = End
  <2>1. queue[c] \in Seq(Items \cup {End}) /\ Len(queue[c]) \in Nat \ {0} /\ DOMAIN queue[c] = 1..Len(queue[c])
    BY <1>5, Parts, Behead DEF ItemSeqs
  <2>2. 1 \in DOMAIN queue[c] /\ ~(queue[c][1].event > 0)
    BY <1>5, <2>1 DEF End
  <2>3. run.st # "running"
    BY <1>1, <2>2 DEF Running, NoEnd
  <2>4. ASSUME NEW i \in DOMAIN queue[c], queue[c][i].event > 0
        PROVE  FALSE
    <3>1. i # 1 /\ 1 < i
      BY <2>1, <2>2, <2>4
    <3>. QED
      BY <1>1, <2>2, <2>4, <3>1 DEF ClientEnd
  <2>5. client[c].todo = <<>>
    BY <1>1, <1>5
  <2>. QED
    BY <1>2, <1>3, <2>3, <2>4, <2>5 DEF Reaches
<1>. QED
  BY <1>4, <1>5 DEF Closes

(* Until the run is continued no stream is ended before its client has all:   *)
(* in particular not by a sentinel that overtakes an event.                  *)
THEOREM EndsWithAll == Spec => EndedWithAll
<1>1. TypeInv /\ OrderInv /\ SubsInv /\ FirstLegInv /\ [Next]_vars =>
        [\A c \in Clients : Open(c) /\ run.leg = 1 /\ client'[c].pc = "ended"
            => run.st # "running" /\ client[c].known = Cardinality((1..run.made) \ Unbuffered)]_vars
  <2>. SUFFICES ASSUME TypeInv, OrderInv, SubsInv, FirstLegInv, [Next]_vars,
                       NEW c \in Clients, Open(c), run.leg = 1, client'[c].pc = "ended"
                PROVE  run.st # "running" /\ client[c].known = Total
    BY DEF Total
  <2>1. "ended" \notin Streams /\ client[c].pc \in Streams /\ "ended" # "dbended"
    BY DEF Open, Streams
  <2>2. client'[c] # client[c]
    BY <2>1
  <2>3. Closes(c)
    <3>1. PICK d \in Clients : ClientMove(d)
      BY <2>2, NextMoves DEF Still, Emits, Signals, Cleans
    <3>2. d = c
      BY <2>2, <3>1 DEF ClientMove, Opens, Subscribes, Replays, Joins, Answered, Closes, Gives, Takes, Drops, Rest
    <3>3. ClientMove(c)
      BY <3>1, <3>2
    <3>. QED
      BY <2>1, <3>3 DEF ClientMove, Opens, Subscribes, Replays, Joins, Answered, Gives, Takes, Drops
  <2>. QED
    BY <2>3, EndsStep
<1>. QED
  BY <1>1, TypeInvariant, OrderInvariant, SubsInvariant, FirstLegInvariant, PTL DEF Spec, EndedWithAll

-----------------------------------------------------------------------------
(* The refinement of EventLog. *)

LEMMA KeptIs == \A e : e \in Kept <=> \E p \in Held : p[2] = e
<1>1. ASSUME NEW e \in Kept
      PROVE  \E p \in Held : p[2] = e
  <2>1. PICK k \in DOMAIN buffer : e = buffer[k]
    BY DEF Kept
  <2>2. <<k + (next - Len(buffer)), buffer[k]>> \in Held
    BY DEF Held
  <2>. QED
    BY <2>1, <2>2
<1>2. ASSUME NEW p \in Held
      PROVE  p[2] \in Kept
  BY DEF Kept, Held
<1>. QED
  BY <1>1, <1>2

(* What EventLog sees of a step of one client. *)
LEMMA OthersSeen ==
    ASSUME TypeInv, NEW c \in Clients, Rest(c)
    PROVE  /\ OpenStreams' = [OpenStreams EXCEPT ![c] = StreamOf(c)']
           /\ OpenStreams[c] = StreamOf(c)
           /\ StreamOf(c)' = StreamOf(c) => OpenStreams' = OpenStreams
           /\ client'[c].got = client[c].got => Given' = Given
           /\ Given' = [Given EXCEPT ![c] = client'[c].got]
           /\ Given[c] = client[c].got
<1>1. \A d \in Clients \ {c} : StreamOf(d)' = StreamOf(d) /\ client'[d].got = client[d].got
  BY DEF Rest, StreamOf, Open
<1>. QED
  BY <1>1 DEF OpenStreams, Given

(* An event reaches a client: the invariants of the next state say that it    *)
(* was its turn.                                                             *)
LEMMA GivesNext ==
    ASSUME TypeInv, OrderInv', InOrderOnce', SkippedIsTrimmed',
           NEW c \in Clients, Rest(c), BufferStays, run' = run, Open(c), client'[c].pc = client[c].pc,
           NEW item \in Items, Gets(c, item)
    PROVE  item.event \in 1..run.made /\ Log!Give(c, item.event)
<1>. DEFINE e == item.event
            n == Len(client[c].got)
<1>1. client[c].got \in Seq(Numbers) /\ e \in Numbers
  BY Parts DEF Items
<1>2. /\ n \in Nat /\ DOMAIN client[c].got = 1..n /\ DOMAIN client'[c].got = 1..(n + 1)
      /\ \A i \in 1..n : client'[c].got[i] = client[c].got[i]
      /\ client'[c].got[n + 1] = e /\ client'[c].got = Append(client[c].got, e)
  BY <1>1, Appended DEF Gets
<1>. HIDE DEF n, e
<1>3. e \in 1..run.made
  <2>1. \A i \in DOMAIN client'[c].got : client'[c].got[i] <= run.made
    BY DEF OrderInv, ClientOrder
  <2>. QED
    <3>1. e \in Nat /\ e >= 1
      BY <1>1 DEF Numbers
    <3>2. n + 1 \in DOMAIN client'[c].got
      BY <1>2
    <3>3. e <= run.made /\ run.made \in Nat
      BY <1>2, <2>1, <3>2, Parts
    <3>. QED
      BY <3>1, <3>3
<1>4. \A i \in DOMAIN client[c].got : client[c].got[i] < e
  BY <1>2 DEF InOrderOnce
<1>5. ASSUME run.leg <= 1, NEW k \in Kept, k < e
      PROVE  \E i \in DOMAIN client[c].got : client[c].got[i] = k
  <2>1. PICK j \in DOMAIN buffer : k = buffer[j]
    BY DEF Kept
  <2>2. buffer' = buffer
    BY DEF BufferStays
  <2>3. PICK i \in DOMAIN client'[c].got : client'[c].got[i] = k
    BY <1>2, <1>5, <2>1, <2>2 DEF SkippedIsTrimmed
  <2>4. k \in Nat /\ e \in Nat
    BY <1>1, <2>1, Parts DEF Numbers
  <2>5. i # n + 1
    BY <1>2, <1>5, <2>3, <2>4
  <2>. QED
    BY <1>2, <2>3, <2>5
<1>6. /\ OpenStreams[c] = "open" /\ OpenStreams' = OpenStreams
      /\ Given[c] = client[c].got /\ Given' = [Given EXCEPT ![c] = Append(@, e)]
  <2>1. StreamOf(c) = "open" /\ StreamOf(c)' = "open"
    BY DEF StreamOf, Open
  <2>2. Given' = [Given EXCEPT ![c] = client'[c].got] /\ Given[c] = client[c].got
    BY OthersSeen
  <2>3. OpenStreams' = OpenStreams /\ OpenStreams[c] = StreamOf(c)
    BY <2>1, OthersSeen
  <2>. QED
    BY <1>2, <2>1, <2>2, <2>3
<1>7. UNCHANGED <<run.made, Kept, Phase, run.leg, OpenStreams>>
  BY <1>6 DEF BufferStays, Kept, Phase
<1>8. Log!Give(c, e)
  BY <1>3, <1>4, <1>5, <1>6, <1>7 DEF Log!Give, Log!FirstLeg, Log!Has
<1>. QED
  BY <1>3, <1>8 DEF e

(* A stream of the first leg that is ended has brought all that is kept. *)
LEMMA EndsHaveAll ==
    ASSUME TypeInv, OrderInv, FirstLegInv, run.leg <= 1, NEW c \in Clients, client[c].known = Total, NEW e \in Kept
    PROVE  \E i \in DOMAIN client[c].got : client[c].got[i] = e
<1>1. PICK p \in Held : p[2] = e
  BY KeptIs
<1>2. p[1] \in Nat /\ p[1] <= next /\ Total \in Nat
  BY FirstLegParts DEF OrderInv, HeldOrder
<1>3. status # "none"
  <2>1. DOMAIN <<>> = {}
    OBVIOUS
  <2>2. buffer # <<>>
    BY <1>1, <2>1 DEF Held
  <2>. QED
    BY <2>2 DEF TypeInv, TypeOK
<1>4. next = Total
  BY <1>3 DEF FirstLegInv
<1>. QED
  BY <1>1, <1>2, <1>4 DEF FirstLegInv, ClientWhole, Got

LEMMA LogMove ==
    ASSUME TypeInv, OrderInv, SubsInv, FirstLegInv, OrderInv', InOrderOnce', SkippedIsTrimmed',
           NEW c \in Clients, ClientMove(c)
    PROVE  [Log!Next]_(Log!vars)
<1>1. Rest(c) /\ BufferStays /\ run'.made = run.made /\ Kept' = Kept
  BY DEF ClientMove, Opens, Subscribes, Replays, Joins, Answered, Closes, Gives, Takes, Drops, BufferStays, Kept
<1>2. /\ OpenStreams' = [OpenStreams EXCEPT ![c] = StreamOf(c)']
      /\ OpenStreams[c] = StreamOf(c)
      /\ StreamOf(c)' = StreamOf(c) => OpenStreams' = OpenStreams
      /\ client'[c].got = client[c].got => Given' = Given
  BY <1>1, OthersSeen
<1>3. run.st # "idle" => run.leg > 0
  BY Parts DEF TypeInv
<1>4. {"primary", "catchup", "live", "replay"} = Streams /\ {"away", "ended", "dbended"} \cap Streams = {}
  BY DEF Streams
<1>5. CASE Opens(c)
  <2>1. Phase = "waiting" /\ Phase' = "running" /\ run'.leg = run.leg + 1
    BY <1>5 DEF Opens, Phase, TypeInv
  <2>2. StreamOf(c) # "open" /\ StreamOf(c)' = "open"
    BY <1>4, <1>5 DEF Opens, StreamOf, Open, SubsInv
  <2>3. Given' = Given
    BY <1>2, <1>5 DEF Opens, Keeps
  <2>4. Log!Go(c)
    BY <1>1, <1>2, <2>1, <2>2, <2>3 DEF Log!Go
  <2>. QED
    BY <2>4 DEF Log!Next
<1>6. CASE Subscribes(c) \/ Replays(c) \/ Joins(c) \/ Answered(c)
  <2>1. Given' = Given /\ run' = run /\ Phase' = Phase
    BY <1>2, <1>6 DEF Subscribes, Replays, Joins, Answered, Keeps, Phase
  <2>2. CASE StreamOf(c)' = StreamOf(c)
    BY <1>1, <1>2, <2>1, <2>2 DEF Log!vars
  <2>3. CASE StreamOf(c)' # StreamOf(c) /\ ~Answered(c)
    <3>1. StreamOf(c)' = "open"
      BY <1>4, <1>6, <2>3 DEF Subscribes, Replays, Joins, StreamOf, Open
    <3>2. ~Open(c) /\ run.st # "idle"
      BY <1>4, <1>6, <2>3, <3>1 DEF Subscribes, Replays, Joins, StreamOf, Open
    <3>3. Log!Return(c)
      BY <1>1, <1>2, <1>3, <2>1, <2>3, <3>1, <3>2 DEF Log!Return
    <3>. QED
      BY <3>3 DEF Log!Next
  <2>4. CASE Answered(c)
    <3>1. StreamOf(c)' = "away"
      BY <1>4, <2>4 DEF Answered, StreamOf, Open
    <3>2. Log!Leave(c)
      BY <1>1, <1>2, <2>1, <3>1 DEF Log!Leave
    <3>. QED
      BY <3>2 DEF Log!Next
  <2>. QED
    BY <2>2, <2>3, <2>4
<1>7. CASE Closes(c)
  <2>1. Given' = Given /\ run'.leg = run.leg /\ Phase' = Phase /\ Open(c) /\ StreamOf(c) = "open"
    BY <1>2, <1>7 DEF Closes, Keeps, Phase, StreamOf
  <2>2. CASE client'[c].pc = "away"
    <3>1. StreamOf(c)' = "away"
      BY <1>4, <2>2 DEF StreamOf, Open
    <3>2. Log!Leave(c)
      BY <1>1, <1>2, <2>1, <3>1 DEF Log!Leave
    <3>. QED
      BY <3>2 DEF Log!Next
  <2>3. CASE client'[c].pc = "ended"
    <3>1. StreamOf(c)' = "ended"
      BY <1>4, <2>3 DEF StreamOf, Open
    <3>2. ASSUME run.leg <= 1
          PROVE  Phase # "running" /\ \A k \in Kept : \E i \in DOMAIN Given[c] : Given[c][i] = k
      <4>1. run.st # "running" /\ client[c].known = Total
        BY <1>7, <2>1, <2>3, <3>2, EndsStep
      <4>2. Given[c] = client[c].got
        BY DEF Given
      <4>3. Phase # "running"
        BY <4>1 DEF Phase
      <4>. QED
        BY <3>2, <4>1, <4>2, <4>3, EndsHaveAll
    <3>3. Log!Dismiss(c)
      BY <1>1, <1>2, <2>1, <3>1, <3>2 DEF Log!Dismiss, Log!FirstLeg, Log!Has
    <3>. QED
      BY <3>3 DEF Log!Next
  <2>. QED
    BY <1>7, <2>2, <2>3 DEF Closes
<1>8. ASSUME NEW item \in Items, Gets(c, item), run' = run, Open(c), client'[c].pc = client[c].pc
      PROVE  [Log!Next]_(Log!vars)
  <2>1. item.event \in 1..run.made /\ Log!Give(c, item.event)
    BY <1>1, <1>8, GivesNext
  <2>. QED
    BY <2>1 DEF Log!Next
<1>9. CASE Gives(c)
  <2>1. client[c].todo[1] \in Items
    BY <1>9, Parts, Behead DEF Gives
  <2>. QED
    BY <1>4, <1>8, <1>9, <2>1 DEF Gives, Open
<1>10. CASE Takes(c)
  <2>1. queue[c][1] \in Items
    <3>1. queue[c][1] \in Items \cup {End}
      BY <1>10, Parts, Behead DEF Takes, ItemSeqs
    <3>. QED
      BY <1>10, <3>1 DEF Takes
  <2>. QED
    BY <1>4, <1>8, <1>10, <2>1 DEF Takes, Open
<1>11. CASE Drops(c)
  <2>1. client'[c] = client[c] /\ run' = run
    BY <1>11 DEF Drops
  <2>2. StreamOf(c)' = StreamOf(c) /\ Phase' = Phase
    BY <2>1 DEF StreamOf, Open, Phase
  <2>. QED
    BY <1>1, <1>2, <2>1, <2>2 DEF Log!vars
<1>. QED
  BY <1>5, <1>6, <1>7, <1>9, <1>10, <1>11 DEF ClientMove

LEMMA LogStep ==
    ASSUME TypeInv, OrderInv, SubsInv, FirstLegInv, OrderInv', InOrderOnce', SkippedIsTrimmed', [Next]_vars
    PROVE  [Log!Next]_(Log!vars)
<1>1. client' = client => OpenStreams' = OpenStreams /\ Given' = Given
  BY DEF OpenStreams, Given, StreamOf, Open
<1>2. CASE Still
  BY <1>1, <1>2 DEF Still, Kept, Phase, Log!vars
<1>3. CASE Emits
  <2>1. Kept' \subseteq Kept \cup {run.made + 1}
    <3>1. \A p \in Held' : p \in Held \/ p[2] = run.made + 1
      BY <1>3 DEF Emits
    <3>2. ASSUME NEW e \in Kept'
          PROVE  e \in Kept \cup {run.made + 1}
      <4>1. PICK p \in Held' : p[2] = e
        <5>1. PICK k \in DOMAIN buffer' : e = buffer'[k]
          BY DEF Kept
        <5>2. <<k + (next' - Len(buffer')), buffer'[k]>> \in Held'
          BY DEF Held
        <5>. QED
          BY <5>1, <5>2
      <4>. QED
        BY <3>1, <4>1, KeptIs
    <3>. QED
      BY <3>2
  <2>2. Phase = "running" /\ Phase' = "running" /\ run'.made = run.made + 1 /\ run'.leg = run.leg /\ client' = client
    BY <1>3 DEF Emits, Phase
  <2>3. Log!Make
    BY <1>1, <2>1, <2>2 DEF Log!Make
  <2>. QED
    BY <2>3 DEF Log!Next
<1>4. CASE Signals
  <2>1. /\ run'.made = run.made /\ run'.leg = run.leg /\ client' = client /\ Kept' = Kept
        /\ OpenStreams' = OpenStreams /\ Given' = Given
    BY <1>1, <1>4 DEF Signals, Kept
  <2>2. CASE run.st = "running" /\ run'.st \in {"paused", "over"}
    <3>1. Phase = "running" /\ Phase' \in {"waiting", "over"}
      BY <2>2 DEF Phase
    <3>2. Log!Stop
      BY <2>1, <3>1 DEF Log!Stop
    <3>. QED
      BY <3>2 DEF Log!Next
  <2>3. CASE run'.st = run.st
    <3>1. Phase' = Phase
      BY <2>3 DEF Phase
    <3>. QED
      BY <2>1, <3>1 DEF Log!vars
  <2>. QED
    BY <1>4, <2>2, <2>3 DEF Signals
<1>5. CASE Cleans
  <2>1. run' = run /\ client' = client /\ Phase' = Phase
    BY <1>5 DEF Cleans, Phase
  <2>2. Kept' = {}
    BY <1>5 DEF Cleans, Kept
  <2>3. run.leg <= 1 => Phase # "running"
    BY <1>5 DEF Cleans, FirstLegInv, Phase
  <2>4. Log!Forget
    BY <1>1, <2>1, <2>2, <2>3 DEF Log!Forget, Log!FirstLeg
  <2>. QED
    BY <2>4 DEF Log!Next
<1>6. ASSUME NEW c \in Clients, ClientMove(c)
      PROVE  [Log!Next]_(Log!vars)
  BY <1>6, LogMove
<1>. QED
  BY <1>2, <1>3, <1>4, <1>5, <1>6, NextMoves

(* Seen through what was made, what is kept and what each client was given,   *)
(* every step of the buffer, the queues and the /resume endpoint is one that  *)
(* EventLog allows, or changes nothing.                                      *)
THEOREM LogRefinement == Spec => ImplementsLog
<1>1. Init => Log!Init
  <2>. SUFFICES ASSUME Init PROVE Log!Init
    OBVIOUS
  <2>1. DOMAIN <<>> = {} /\ "away" \notin Streams
    BY DEF Streams
  <2>2. Kept = {} /\ Phase = "waiting"
    BY <2>1 DEF Init, Kept, Phase
  <2>3. OpenStreams = [c \in Clients |-> "away"] /\ Given = [c \in Clients |-> <<>>]
    BY <2>1 DEF Init, OpenStreams, StreamOf, Open, Given
  <2>. QED
    BY <2>2, <2>3 DEF Init, Log!Init
<1>2. TypeInv /\ OrderInv /\ SubsInv /\ FirstLegInv /\ OrderInv' /\ InOrderOnce' /\ SkippedIsTrimmed' /\ [Next]_vars
        => [Log!Next]_(Log!vars)
  BY LogStep
<1>. QED
  BY <1>1, <1>2, TypeInvariant, OrderInvariant, SubsInvariant, FirstLegInvariant, EventsInOrder, NothingSkipped, PTL
  DEF Spec, ImplementsLog, Log!Spec

=============================================================================
