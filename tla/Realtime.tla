------------------------------ MODULE Realtime -------------------------------
(***************************************************************************)
(* RealtimeService and the websocket handler in front of it: registration  *)
(* and initial state, the bounded queue of each client, the write pump,    *)
(* broadcasts, targeted sends, and the four ways a client is removed.      *)
(*                                                                         *)
(* queue[c] is client.pending while the initial state is being built and   *)
(* client.send afterwards; client.done is closed in the critical section   *)
(* that deletes c from the map, so "done" is c \notin clients.  A conn is  *)
(* new for every request, so it is registered at most once.  What is left  *)
(* in the channel of a deleted client is never read, and is forgotten.     *)
(*                                                                         *)
(* The data broadcast is a version of the backend's state.  A goroutine    *)
(* changes the state of its service under the lock of that service and     *)
(* broadcasts what it has made of it after the unlock, so that the         *)
(* broadcasts of two goroutines may come in the other order: "stopping",   *)
(* which stop() announces, after "stopped" of the exit goroutine.          *)
(***************************************************************************)
EXTENDS Integers, FiniteSets, Sequences, SequencesExt

CONSTANTS Conns, QueueSize, MaxVersion

ASSUME RealtimeAssumption == QueueSize \in Nat \ {0} /\ MaxVersion \in Nat

VARIABLES version,    \* version of the backend's state
          unsaid,     \* versions whose broadcast is still to come
          announced,  \* the versions handed to Broadcast, oldest first
          clients,    \* keys of svc.clients
          handler,    \* handler[c]: where the request goroutine of c is
          initial,    \* initial[c]: the initial state that was read for c
          queue,      \* queue[c]: messages waiting for the write pump
          pump,       \* pump[c]: the write pump of c
          writing,    \* writing[c]: the message the pump has taken, if any
          open,       \* connections whose socket still works
          duties,     \* what goroutines that removed clients still have to do
          told,       \* told[c]: calls of the close handler for c
          received,   \* received[c]: versions written to c, oldest first
          joined      \* joined[c]: how many were announced when c was registered

published == <<version, unsaid, announced>>
vars == <<published, clients, handler, initial, queue, pump, writing,
          open, duties, told, received, joined>>

Event(v) == <<"event", v>>
Other == <<"other", 0>>   \* a targeted event or a control message
Messages == {Event(v) : v \in 0 .. MaxVersion} \union {Other}

Initializing(c) == handler[c] \in {"building", "built"}

Init ==
  /\ version = 0 /\ unsaid = {} /\ announced = <<>>
  /\ clients = {}
  /\ handler = [c \in Conns |-> "none"]
  /\ initial = [c \in Conns |-> 0]
  /\ queue = [c \in Conns |-> <<>>]
  /\ pump = [c \in Conns |-> "none"]
  /\ writing = [c \in Conns |-> <<>>]
  /\ open = Conns
  /\ duties = {}
  /\ told = [c \in Conns |-> 0]
  /\ received = [c \in Conns |-> <<>>]
  /\ joined = [c \in Conns |-> 0]

(***************************************************************************)
(* Removal.  Whoever deletes c from the map has to tell the close handler  *)
(* and to close the socket, in its own order.                              *)
(***************************************************************************)
TellThenShut(cs) ==
  FoldLeft(LAMBDA steps, c : steps \o <<<<"tell", c>>, <<"shut", c>>>>, <<>>, cs)

ShutThenTell(c) == <<<<"shut", c>>, <<"tell", c>>>>

Without(f, cs, e) == [c \in Conns |-> IF c \in cs THEN e ELSE f[c]]

Forget(cs) ==
  /\ initial' = Without(initial, cs, 0) /\ joined' = Without(joined, cs, 0)
  /\ queue' = Without(queue, cs, <<>>) /\ received' = Without(received, cs, <<>>)

Detach(cs, by, steps) ==
  /\ clients' = clients \ cs
  /\ duties' = duties \union {[by |-> by, steps |-> steps]}
  /\ Forget(cs)

\* Mutant: a goroutine whose list is worked off is kept.
RestKept(d) == {[d EXCEPT !.steps = Tail(d.steps)]}

Rest(d) == IF Len(d.steps) = 1 THEN {} ELSE {[d EXCEPT !.steps = Tail(d.steps)]}

\* finishSlowClients, the rest of RemoveClient, the rest of handleWriteError.
DoDuty(d) ==
  LET step == Head(d.steps)
  IN  /\ d \in duties
      /\ duties' = (duties \ {d}) \union Rest(d)
      /\ told' = IF step[1] = "tell" THEN [told EXCEPT ![step[2]] = @ + 1] ELSE told
      /\ open' = IF step[1] = "shut" THEN open \ {step[2]} ELSE open
      /\ UNCHANGED <<published, clients, handler, initial, queue, pump, writing,
                     received, joined>>

(***************************************************************************)
(* The request goroutine: HandleWS                                         *)
(***************************************************************************)
\* AddClientWithInitialState up to the first unlock: registered, then asked.
AddClient(c) ==
  /\ handler[c] = "none"
  /\ clients' = clients \union {c}
  /\ handler' = [handler EXCEPT ![c] = "building"]
  /\ joined' = [joined EXCEPT ![c] = Len(announced)]
  /\ UNCHANGED <<published, initial, queue, pump, writing, open, duties,
                 told, received>>

\* initialState: reads the services one after the other.
BuildInitialState(c) ==
  /\ handler[c] = "building"
  /\ handler' = [handler EXCEPT ![c] = "built"]
  /\ initial' = [initial EXCEPT ![c] = version]
  /\ UNCHANGED <<published, clients, queue, pump, writing, open, duties, told,
                 received, joined>>

\* initialState panics: detachClient and closeConnection, nobody is told.
BuildPanics(c) ==
  /\ handler[c] = "building"
  /\ handler' = [handler EXCEPT ![c] = "ended"]
  /\ clients' = clients \ {c}
  /\ open' = open \ {c}
  /\ Forget({c})
  /\ UNCHANGED <<published, pump, writing, duties, told>>

\* Mutant: the messages that were buffered meanwhile are not counted.
FitsWithoutPending(c) == c \in clients

\* completeClientInitialization: the channel is filled with the mutex held and
\* before the pump runs, so what does not fit would block for ever.
Fits(c) == c \in clients /\ 1 + Len(queue[c]) <= QueueSize

\* Mutant: the buffered messages go out before the initial state.
InitialQueueLast(c) == Append(queue[c], Event(initial[c]))

\* Mutant: what was buffered while the initial state was built is forgotten.
InitialQueueOnly(c) == <<Event(initial[c])>>

InitialQueue(c) == <<Event(initial[c])>> \o queue[c]

CompleteInit(c) ==
  /\ handler[c] = "built"
  /\ Fits(c)
  /\ handler' = [handler EXCEPT ![c] = "reading"]
  /\ queue' = [queue EXCEPT ![c] = InitialQueue(c)]
  /\ pump' = [pump EXCEPT ![c] = "ready"]
  /\ UNCHANGED <<published, clients, initial, writing, open, duties, told, received,
                 joined>>

\* Mutant: the client that is refused stays in the map.
RefuseInitKeeps(c) ==
  /\ handler[c] = "built"
  /\ ~ Fits(c)
  /\ handler' = [handler EXCEPT ![c] = "ended"]
  /\ open' = open \ {c}
  /\ UNCHANGED <<published, clients, initial, queue, pump, writing, duties, told,
                 received, joined>>

\* Dropped meanwhile, or too much to deliver: closed by AddClient itself.
RefuseInit(c) ==
  /\ handler[c] = "built"
  /\ ~ Fits(c)
  /\ handler' = [handler EXCEPT ![c] = "ended"]
  /\ clients' = clients \ {c}
  /\ open' = open \ {c}
  /\ Forget({c})
  /\ UNCHANGED <<published, pump, writing, duties, told>>

\* HandleCommand: membership is checked under the lock, the handler runs after it.
HandleCommand(c) ==
  /\ handler[c] = "reading"
  /\ c \in open \intersect clients
  /\ handler' = [handler EXCEPT ![c] = "command"]
  /\ UNCHANGED <<published, clients, initial, queue, pump, writing, open, duties,
                 told, received, joined>>

CommandReturns(c) ==
  /\ handler[c] = "command"
  /\ handler' = [handler EXCEPT ![c] = "reading"]
  /\ UNCHANGED <<published, clients, initial, queue, pump, writing, open, duties,
                 told, received, joined>>

\* ReadJSON fails (a closed socket, or no pong for pongWait): the deferred
\* RemoveClient, which does nothing for a client that is already gone.
ReadFails(c) ==
  /\ handler[c] = "reading"
  /\ handler' = [handler EXCEPT ![c] = "ended"]
  /\ IF c \in clients
     THEN Detach({c}, "reader", TellThenShut(<<c>>))
     ELSE UNCHANGED <<clients, duties, initial, queue, received, joined>>
  /\ UNCHANGED <<published, pump, writing, open, told>>

(***************************************************************************)
(* Sending.  A client whose queue is full is dropped, never waited for.    *)
(***************************************************************************)
Full(c) == Len(queue[c]) >= QueueSize

\* SendTo and enqueueControl.
Enqueue(c, m) ==
  /\ c \in clients
  /\ IF Full(c)
     THEN Detach({c}, "slow", TellThenShut(<<c>>))
     ELSE /\ queue' = [queue EXCEPT ![c] = Append(@, m)]
          /\ UNCHANGED <<clients, duties, initial, received, joined>>
  /\ UNCHANGED <<published, handler, pump, writing, open, told>>

SendTo(c) == Enqueue(c, Other)

\* The ping handler runs inside ReadJSON.
EnqueueControl(c) == handler[c] = "reading" /\ c \in open /\ Enqueue(c, Other)

\* A goroutine changes the state of its service, which it will broadcast: the
\* exit goroutine when it detaches the core, stop() when it marks the stop.
ChangeState ==
  /\ version < MaxVersion
  /\ version' = version + 1
  /\ unsaid' = unsaid \union {version + 1}
  /\ UNCHANGED <<announced, clients, handler, initial, queue, pump, writing, open, duties,
                 told, received, joined>>

\* One critical section: every client gets the event or is put on the list of
\* slow clients, which one goroutine works off.
Deliver(v, slow) ==
  /\ announced' = Append(announced, v)
  /\ initial' = Without(initial, slow, 0) /\ joined' = Without(joined, slow, 0)
  /\ received' = Without(received, slow, <<>>)
  /\ queue' = [c \in Conns |-> IF c \in clients \ slow THEN Append(queue[c], Event(v))
                                                       ELSE <<>>]
  /\ clients' = clients \ slow

\* Mutant: the goroutine for the slow clients is started for one of them only.
FinishFirst(slow) == {TellThenShut(<<c>>) : c \in slow}

\* The list is in the order in which the map was walked.
FinishSlow(slow) == {TellThenShut(cs) : cs \in SetToSeqs(slow)}

Broadcast(v) ==
  LET slow == {c \in clients : Full(c)}
  IN  /\ v \in unsaid
      /\ unsaid' = unsaid \ {v}
      /\ Deliver(v, slow)
      /\ IF slow = {} THEN UNCHANGED duties
         ELSE \E steps \in FinishSlow(slow) :
                duties' = duties \union {[by |-> "slow", steps |-> steps]}
      /\ UNCHANGED <<version, handler, pump, writing, open, told>>

(***************************************************************************)
(* The write pump                                                          *)
(***************************************************************************)
\* done is looked at before and after a message is taken.
PumpTake(c) ==
  /\ pump[c] = "ready" /\ c \in clients /\ queue[c] # <<>>
  /\ pump' = [pump EXCEPT ![c] = "writing"]
  /\ writing' = [writing EXCEPT ![c] = <<Head(queue[c])>>]
  /\ queue' = [queue EXCEPT ![c] = Tail(@)]
  /\ UNCHANGED <<published, clients, handler, initial, open, duties, told, received,
                 joined>>

PumpStops(c) ==
  /\ pump[c] = "ready" /\ c \notin clients
  /\ pump' = [pump EXCEPT ![c] = "ended"]
  /\ UNCHANGED <<published, clients, handler, initial, queue, writing, open, duties,
                 told, received, joined>>

Versions(ms) == SelectSeq(ms, LAMBDA m : m[1] = "event")

PumpWrites(c) ==
  /\ pump[c] = "writing" /\ c \in open
  /\ pump' = [pump EXCEPT ![c] = "ready"]
  /\ writing' = [writing EXCEPT ![c] = <<>>]
  /\ received' = IF c \in clients THEN [received EXCEPT ![c] = @ \o Versions(writing[c])]
                                  ELSE received
  /\ UNCHANGED <<published, clients, handler, initial, queue, open, duties, told,
                 joined>>

\* Mutant: handleWriteError does not look whether it removed the client.
WriteFailsRegardless(c) ==
  /\ pump[c] \in {"ready", "writing"}
  /\ pump' = [pump EXCEPT ![c] = "ended"]
  /\ writing' = [writing EXCEPT ![c] = <<>>]
  /\ Detach({c}, "pump", ShutThenTell(c))
  /\ UNCHANGED <<published, handler, open, told>>

\* A message or the periodic ping cannot be written within writeWait:
\* handleWriteError.
WriteFails(c) ==
  /\ pump[c] \in {"ready", "writing"}
  /\ pump' = [pump EXCEPT ![c] = "ended"]
  /\ writing' = [writing EXCEPT ![c] = <<>>]
  /\ IF c \in clients
     THEN Detach({c}, "pump", ShutThenTell(c))
     ELSE UNCHANGED <<clients, duties, initial, queue, received, joined>>
  /\ UNCHANGED <<published, handler, open, told>>

\* The other side goes away.
PeerLeaves(c) ==
  /\ c \in open /\ handler[c] # "none"
  /\ open' = open \ {c}
  /\ UNCHANGED <<published, clients, handler, initial, queue, pump, writing, duties,
                 told, received, joined>>

Handle(c) ==
  \/ BuildInitialState(c) \/ CompleteInit(c) \/ RefuseInit(c) \/ CommandReturns(c)
  \/ c \notin open /\ ReadFails(c)

Pump(c) ==
  \/ PumpTake(c) \/ PumpStops(c) \/ PumpWrites(c)
  \/ (pump[c] = "writing" \/ c \notin open) /\ WriteFails(c)

Duties == \E d \in duties : DoDuty(d)

Next ==
  \/ ChangeState \/ \E v \in unsaid : Broadcast(v)
  \/ \E c \in Conns :
       \/ AddClient(c) \/ BuildInitialState(c) \/ BuildPanics(c) \/ CompleteInit(c)
       \/ RefuseInit(c) \/ HandleCommand(c) \/ CommandReturns(c) \/ ReadFails(c)
       \/ SendTo(c) \/ EnqueueControl(c) \/ PeerLeaves(c)
       \/ PumpTake(c) \/ PumpStops(c) \/ PumpWrites(c) \/ WriteFails(c)
  \/ Duties

Spec == Init /\ [][Next]_vars

\* Goroutines run: initial states are built, commands return, a read on a closed
\* socket fails, the pump ends a write within writeWait and notices a closed
\* socket at the next ping, and what is left to a remover is done.  Nobody is
\* obliged to connect, to leave or to publish.
Fairness ==
  /\ \A c \in Conns : WF_vars(Handle(c)) /\ WF_vars(Pump(c))
  /\ \A c \in Conns : WF_vars(\E d \in duties : d.steps[1][2] = c /\ DoDuty(d))

LiveSpec == Spec /\ Fairness

(***************************************************************************)
(* Properties                                                              *)
(***************************************************************************)
\* Type invariant of the hub, its clients and their goroutines.
TypeOK ==
  /\ version \in 0 .. MaxVersion /\ unsaid \union ToSet(announced) = 1 .. version
  /\ clients \subseteq Conns /\ open \subseteq Conns
  /\ handler \in [Conns -> {"none", "building", "built", "reading", "command", "ended"}]
  /\ initial \in [Conns -> 0 .. MaxVersion] /\ joined \in [Conns -> 0 .. MaxVersion]
  /\ pump \in [Conns -> {"none", "ready", "writing", "ended"}]
  /\ told \in [Conns -> Nat]
  /\ \A c \in Conns :
       /\ ToSet(queue[c]) \union ToSet(writing[c]) \subseteq Messages
       /\ ToSet(received[c]) \subseteq Messages
  /\ \A d \in duties : d.by \in {"reader", "pump", "slow"} /\ d.steps # <<>>

\* The send channel never has to hold more than realtimeQueueSize messages: the
\* sends that completeClientInitialization makes with the mutex held, before the
\* write pump exists, cannot block.
QueueBounded == \A c \in Conns : Len(queue[c]) <= QueueSize

Stream(c) == received[c] \o Versions(writing[c]) \o Versions(queue[c])

\* TestRealtimeInitialEventsPrecedeBroadcasts, for every interleaving: what a
\* client is sent is its initial state and then every event broadcast since it
\* was registered, in order, none missing and none twice.
StreamInOrder ==
  \A c \in clients :
    ~ Initializing(c) =>
      /\ Stream(c) # <<>>
      /\ Tail(Stream(c)) = [i \in 1 .. Len(announced) - joined[c] |->
                              Event(announced[joined[c] + i])]

\* A client that has been sent everything there is has been sent the current
\* state, whenever its registration and its initial state fell between a change
\* and its broadcast; and shows it, if the broadcasts came in the order of the
\* changes.
NoMissedUpdate ==
  \A c \in clients :
    /\ ~ Initializing(c) /\ unsaid = {}
    /\ Stream(c) = received[c]
    => /\ Event(version) \in ToSet(received[c])
       /\ announced = [v \in 1 .. version |-> v] => Last(received[c]) = Event(version)

Owed(c) == {d \in duties : \E i \in DOMAIN d.steps : d.steps[i] = <<"tell", c>>}

\* The close handler is called at most once for a connection, although the
\* reader, the write pump and every sender may find out that it is gone.
ToldOnce == \A c \in Conns : told[c] + Cardinality(Owed(c)) <= 1

\* A connection that does not work any more is eventually forgotten.
DeadClientRemoved == \A c \in Conns : (c \in clients /\ c \notin open) ~> c \notin clients

(***************************************************************************)
(* The promise of ClientHub                                                *)
(***************************************************************************)
HubStage(c) ==
  CASE handler[c] = "none" -> "absent"
    [] c \in clients /\ Initializing(c) -> "joining"
    [] c \in clients /\ ~ Initializing(c) -> "serving"
    [] c \notin clients /\ Owed(c) # {} -> "leaving"
    [] OTHER -> "closed"

Hub == INSTANCE ClientHub WITH hub <- [c \in Conns |-> HubStage(c)]

\* RealtimeService keeps the promise of ClientHub: nobody who was served
\* disappears without the close handler being told, and it is told after the
\* connection has left the map.
KeepsHubPromise == Hub!HubSpec
=============================================================================
