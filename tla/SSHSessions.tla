----------------------------- MODULE SSHSessions -----------------------------
(***************************************************************************)
(* The SSH sessions of SSHHostService on top of the websocket hub: a       *)
(* session is created over HTTP in a limited number of slots, attached to  *)
(* one websocket connection, used for SFTP requests, and closed by its     *)
(* owner, over HTTP, by its own failure, by the attach timeout, by the end *)
(* of the connection or by the end of the service.                         *)
(*                                                                         *)
(* ClientHub gives the connections.  Each critical section of sessionMu or *)
(* of a session's mu is one step.  Session identifiers are random and      *)
(* never collide; tokens are assumed to be right.                          *)
(***************************************************************************)
EXTENDS ClientHub, Integers

CONSTANTS Sessions,     \* the CreateSession calls, named after their session
          SFTPRequests, \* HTTP goroutines that work with SFTP
          MCPCalls,     \* MCP operations, which share the slots
          Hosts,
          HostOf,       \* HostOf[x]: the host of a session or an MCP operation
          MaxSessions,  \* sshMaximumSessions
          MaxPerHost,   \* sshMaximumHostSessions
          None

ASSUME SSHAssumption ==
  /\ MaxSessions \in Nat \ {0} /\ MaxPerHost \in Nat \ {0}
  /\ HostOf \in [Sessions \union MCPCalls -> Hosts]
  /\ None \notin Conns \union Sessions

VARIABLES sessions,   \* keys of svc.sessions
          svcClosed,  \* svc.closed
          pendingSessions,
          pendingByHost,
          creator,    \* creator[s]: where CreateSession is
          client,     \* sessions whose SSH client is connected
          owner,      \* owner[s]: managed.owner
          terminated, \* sessions whose managed.terminated is set
          lapsed,     \* sessions whose attach deadline has passed
          expirer,    \* expirer[s]: where expireUnattachedSession is
          shells,     \* sessions with a shell in managed.session
          closer,     \* closer[s]: how far the close has come and who runs it
          reader,     \* reader[c]: the command that the goroutine of c runs
          teller,     \* teller[c]: sessions CloseRealtimeClientSessions has yet to close
          stop,       \* where Close is
          stopIds,    \* sessions that Close has yet to close
          sftp,       \* sessions with an SFTP client in managed.sftp
          ops,        \* ops[s]: managed.sftpOps
          request,    \* request[r]: where SFTP request r is
          mcp,        \* mcp[m]: where MCP operation m is
          cancelled   \* MCP operations whose context is cancelled

slotVars == <<pendingSessions, pendingByHost>>
sessVars == <<sessions, svcClosed, creator, client>>
attachVars == <<owner, terminated, lapsed, expirer, shells, closer>>
userVars == <<reader, teller, stop, stopIds>>
sftpVars == <<sftp, ops, request>>
mcpVars == <<mcp, cancelled>>
vars == <<hub, slotVars, sessVars, attachVars, userVars, sftpVars, mcpVars>>

Idle == [pc |-> "idle", s |-> None]
At(pc, s) == [pc |-> pc, s |-> s]
By(kind) == <<kind, None>>

Init ==
  /\ HubInit
  /\ sessions = {} /\ svcClosed = FALSE
  /\ pendingSessions = 0 /\ pendingByHost = [h \in Hosts |-> 0]
  /\ creator = [s \in Sessions |-> "none"]
  /\ client = {}
  /\ owner = [s \in Sessions |-> None]
  /\ terminated = {} /\ lapsed = {}
  /\ expirer = [s \in Sessions |-> "waiting"]
  /\ shells = {}
  /\ closer = [s \in Sessions |-> [pc |-> "none", by |-> By("nobody")]]
  /\ reader = [c \in Conns |-> Idle]
  /\ teller = [c \in Conns |-> {}]
  /\ stop = "none" /\ stopIds = {}
  /\ sftp = {}
  /\ ops = [s \in Sessions |-> 0]
  /\ request = [r \in SFTPRequests |-> Idle]
  /\ mcp = [m \in MCPCalls |-> "none"]
  /\ cancelled = {}

(***************************************************************************)
(* Slots                                                                   *)
(***************************************************************************)
OnHost(h) == Cardinality({s \in sessions : HostOf[s] = h})

\* checkSessionLimitLocked.
SlotFree(h) ==
  /\ ~ svcClosed
  /\ Cardinality(sessions) + pendingSessions < MaxSessions
  /\ OnHost(h) + pendingByHost[h] < MaxPerHost

ReserveSlot(h) ==
  /\ SlotFree(h)
  /\ pendingSessions' = pendingSessions + 1
  /\ pendingByHost' = [pendingByHost EXCEPT ![h] = @ + 1]

\* Mutant: the host's entry is deleted although another reservation uses it.
ReleaseSlotDeletes(h) ==
  /\ pendingSessions' = IF pendingSessions > 0 THEN pendingSessions - 1 ELSE 0
  /\ pendingByHost' = [pendingByHost EXCEPT ![h] = 0]

\* releaseSessionSlotLocked: neither counter goes below zero.
ReleaseSlot(h) ==
  /\ pendingSessions' = IF pendingSessions > 0 THEN pendingSessions - 1 ELSE 0
  /\ pendingByHost' = [pendingByHost EXCEPT ![h] = IF @ > 1 THEN @ - 1 ELSE 0]

(***************************************************************************)
(* CreateSession                                                           *)
(***************************************************************************)
Reserve(s) ==
  /\ creator[s] = "none"
  /\ ReserveSlot(HostOf[s])
  /\ creator' = [creator EXCEPT ![s] = "reserved"]
  /\ UNCHANGED <<hub, sessions, svcClosed, client, attachVars, userVars, sftpVars, mcpVars>>

Connect(s) ==
  /\ creator[s] = "reserved"
  /\ client' = client \union {s}
  /\ creator' = [creator EXCEPT ![s] = "connected"]
  /\ UNCHANGED <<hub, slotVars, sessions, svcClosed, attachVars, userVars, sftpVars, mcpVars>>

\* No connection, or no random identifier: the deferred release.
CreateFails(s) ==
  /\ creator[s] \in {"reserved", "connected"}
  /\ ReleaseSlot(HostOf[s])
  /\ client' = client \ {s}
  /\ creator' = [creator EXCEPT ![s] = "failed"]
  /\ UNCHANGED <<hub, sessions, svcClosed, attachVars, userVars, sftpVars, mcpVars>>

\* Mutant: the slot is given back before the session is counted.
PublishAfterRelease(s) ==
  /\ creator[s] \in {"connected", "released"}
  /\ IF creator[s] = "connected"
     THEN ReleaseSlot(HostOf[s]) /\ UNCHANGED <<sessions, client>>
     ELSE UNCHANGED <<slotVars, client>> /\ sessions' = sessions \union {s}
  /\ creator' = [creator EXCEPT ![s] = IF @ = "connected" THEN "released" ELSE "done"]
  /\ UNCHANGED <<hub, svcClosed, attachVars, userVars, sftpVars, mcpVars>>

\* Mutant: the service may have been closed meanwhile.
PublishRegardless(s) ==
  /\ creator[s] = "connected"
  /\ ReleaseSlot(HostOf[s])
  /\ sessions' = sessions \union {s}
  /\ creator' = [creator EXCEPT ![s] = "done"]
  /\ UNCHANGED <<hub, svcClosed, client, attachVars, userVars, sftpVars, mcpVars>>

\* One critical section: the slot becomes a session, unless the service closed.
Publish(s) ==
  /\ creator[s] = "connected"
  /\ ReleaseSlot(HostOf[s])
  /\ IF svcClosed
     THEN /\ client' = client \ {s}
          /\ creator' = [creator EXCEPT ![s] = "failed"]
          /\ UNCHANGED sessions
     ELSE /\ sessions' = sessions \union {s}
          /\ creator' = [creator EXCEPT ![s] = "done"]
          /\ UNCHANGED client
  /\ UNCHANGED <<hub, svcClosed, attachVars, userVars, sftpVars, mcpVars>>

(***************************************************************************)
(* closeSession.  Whoever deletes the session from the map runs the rest.  *)
(***************************************************************************)
Closing(pc, by) == [pc |-> pc, by |-> by]

Take(s, by) ==
  /\ s \in sessions
  /\ sessions' = sessions \ {s}
  /\ closer' = [closer EXCEPT ![s] = Closing("taken", by)]

TakeIfThere(s, by) ==
  IF s \in sessions THEN Take(s, by) ELSE UNCHANGED <<sessions, closer>>

Busy(by) == \E s \in Sessions : closer[s] \in {Closing("taken", by), Closing("stopped", by)}

\* closeOnce, up to the unlock: owner, shell, SFTP client and uploads go.
Terminate(s) ==
  /\ closer[s].pc = "taken"
  /\ terminated' = terminated \union {s}
  /\ owner' = [owner EXCEPT ![s] = None]
  /\ shells' = shells \ {s}
  /\ sftp' = sftp \ {s}
  /\ closer' = [closer EXCEPT ![s].pc = "stopped"]
  /\ UNCHANGED <<hub, slotVars, sessVars, lapsed, expirer, userVars, ops, request, mcpVars>>

\* The SFTP operations have ended, or sshSFTPCloseGrace is over: the SSH client
\* is closed, the owner and the audit log are told.
Finish(s) ==
  /\ closer[s].pc = "stopped"
  /\ client' = client \ {s}
  /\ closer' = [closer EXCEPT ![s].pc = "finished"]
  /\ UNCHANGED <<hub, slotVars, sessions, svcClosed, creator, owner, terminated, lapsed,
                 expirer, shells, userVars, sftpVars, mcpVars>>

\* CloseSession over HTTP.
HTTPClose(s) ==
  /\ Take(s, By("http"))
  /\ UNCHANGED <<hub, slotVars, svcClosed, creator, client, owner, terminated, lapsed, expirer,
                 shells, userVars, sftpVars, mcpVars>>

\* The goroutines of an attached session: remote exit, input backlog, failed
\* write or keepalive, idle timeout, maximum age, an owner that cannot be sent to.
SessionEnds(s) ==
  /\ s \in shells
  /\ Take(s, By("session"))
  /\ UNCHANGED <<hub, slotVars, svcClosed, creator, client, owner, terminated, lapsed, expirer,
                 shells, userVars, sftpVars, mcpVars>>

\* The attach deadline passes.
Lapse(s) ==
  /\ creator[s] = "done" /\ s \notin lapsed
  /\ lapsed' = lapsed \union {s}
  /\ UNCHANGED <<hub, slotVars, sessVars, owner, terminated, expirer, shells, closer, userVars,
                 sftpVars, mcpVars>>

\* Mutant: the condition of the expiry is the wrong way round.
ExpireCheckAttached(s) ==
  /\ s \in lapsed /\ expirer[s] = "waiting"
  /\ expirer' = [expirer EXCEPT ![s] = IF owner[s] # None THEN "closing" ELSE "ended"]
  /\ UNCHANGED <<hub, slotVars, sessVars, owner, terminated, lapsed, shells, closer, userVars,
                 sftpVars, mcpVars>>

\* expireUnattachedSession: looks at the owner under the session's lock, ...
ExpireCheck(s) ==
  /\ s \in lapsed /\ expirer[s] = "waiting"
  /\ expirer' = [expirer EXCEPT ![s] = IF owner[s] = None THEN "closing" ELSE "ended"]
  /\ UNCHANGED <<hub, slotVars, sessVars, owner, terminated, lapsed, shells, closer, userVars,
                 sftpVars, mcpVars>>

\* ... and closes after releasing it.
ExpireClose(s) ==
  /\ expirer[s] = "closing"
  /\ expirer' = [expirer EXCEPT ![s] = "ended"]
  /\ TakeIfThere(s, By("expiry"))
  /\ UNCHANGED <<hub, slotVars, svcClosed, creator, client, owner, terminated, lapsed, shells,
                 userVars, sftpVars, mcpVars>>

(***************************************************************************)
(* Commands of a websocket connection, run by its reader one at a time     *)
(***************************************************************************)
Reader(c) == <<"reader", c>>

\* RealtimeService.HandleCommand: the membership is checked here only.
HandleCommand(c) ==
  /\ hub[c] = "serving" /\ reader[c].pc = "idle"
  /\ reader' = [reader EXCEPT ![c] = At("command", None)]
  /\ UNCHANGED <<hub, slotVars, sessVars, attachVars, teller, stop, stopIds, sftpVars, mcpVars>>

\* attachSession: look the session up; without it the command is answered at once.
AttachLookup(c) ==
  /\ reader[c].pc = "command"
  /\ \E s \in Sessions :
       reader' = [reader EXCEPT ![c] = IF s \in sessions THEN At("found", s) ELSE Idle]
  /\ UNCHANGED <<hub, slotVars, sessVars, attachVars, teller, stop, stopIds, sftpVars, mcpVars>>

\* Mutant: the attach deadline is not looked at.
AttachableLate(s) == s \notin terminated /\ owner[s] = None

Attachable(s) == s \notin terminated /\ owner[s] = None /\ s \notin lapsed

AttachOwn(c) ==
  LET s == reader[c].s
  IN  /\ reader[c].pc = "found"
      /\ IF Attachable(s)
         THEN /\ owner' = [owner EXCEPT ![s] = c]
              /\ reader' = [reader EXCEPT ![c].pc = "owned"]
         ELSE /\ reader' = [reader EXCEPT ![c] = Idle]
              /\ UNCHANGED owner
      /\ UNCHANGED <<hub, slotVars, sessVars, terminated, lapsed, expirer, shells, closer,
                     teller, stop, stopIds, sftpVars, mcpVars>>

\* Mutant: the connection is taken to be there because the command came over it.
HasRealtimeClientAssumed(c) == TRUE

\* hasRealtimeClient.
HasRealtimeClient(c) == hub[c] \in {"joining", "serving"}

\* After the owner is set: the connection may have gone since HandleCommand.
AttachVerify(c) ==
  LET s == reader[c].s
  IN  /\ reader[c].pc = "owned"
      /\ IF HasRealtimeClient(c)
         THEN /\ reader' = [reader EXCEPT ![c].pc = "opening"]
              /\ UNCHANGED <<sessions, closer>>
         ELSE /\ TakeIfThere(s, Reader(c))
              /\ reader' = [reader EXCEPT ![c].pc = "closing"]
      /\ UNCHANGED <<hub, slotVars, svcClosed, creator, client, owner, terminated, lapsed,
                     expirer, shells, teller, stop, stopIds, sftpVars, mcpVars>>

\* The remote opens a shell.
AttachOpen(c) ==
  /\ reader[c].pc = "opening" /\ reader[c].s \in client
  /\ reader' = [reader EXCEPT ![c].pc = "opened"]
  /\ UNCHANGED <<hub, slotVars, sessVars, attachVars, teller, stop, stopIds, sftpVars, mcpVars>>

\* It refuses, or the attach timer has closed the SSH client: failSessionStart.
AttachFails(c) ==
  /\ reader[c].pc = "opening"
  /\ TakeIfThere(reader[c].s, Reader(c))
  /\ reader' = [reader EXCEPT ![c].pc = "closing"]
  /\ UNCHANGED <<hub, slotVars, svcClosed, creator, client, owner, terminated, lapsed, expirer,
                 shells, teller, stop, stopIds, sftpVars, mcpVars>>

\* Mutant: the session may have been closed while the shell was opened.
CommitRegardless(s) == TRUE

\* commitAttach: refused once the session is terminated; the shell is closed.
Commits(s) == s \notin terminated

CommitAttach(c) ==
  LET s == reader[c].s
  IN  /\ reader[c].pc = "opened"
      /\ shells' = IF Commits(s) THEN shells \union {s} ELSE shells
      /\ reader' = [reader EXCEPT ![c] = Idle]
      /\ UNCHANGED <<hub, slotVars, sessVars, owner, terminated, lapsed, expirer, closer,
                     teller, stop, stopIds, sftpVars, mcpVars>>

\* "ssh.session.close": only for a session that this connection owns.
CloseCommand(c) ==
  /\ reader[c].pc = "command"
  /\ \E s \in sessions : owner[s] = c /\ Take(s, Reader(c))
  /\ reader' = [reader EXCEPT ![c].pc = "closing"]
  /\ UNCHANGED <<hub, slotVars, svcClosed, creator, client, owner, terminated, lapsed, expirer,
                 shells, teller, stop, stopIds, sftpVars, mcpVars>>

\* closeSession has returned to the reader.
CommandEnds(c) ==
  /\ reader[c].pc = "closing" /\ ~ Busy(Reader(c))
  /\ reader' = [reader EXCEPT ![c] = Idle]
  /\ UNCHANGED <<hub, slotVars, sessVars, attachVars, teller, stop, stopIds, sftpVars, mcpVars>>

(***************************************************************************)
(* The end of a connection                                                 *)
(***************************************************************************)
ConnectionStep ==
  /\ \/ \E c \in Conns : Join(c) \/ Admit(c) \/ Reject(c)
     \/ \E S \in SUBSET Conns : Drop(S)
  /\ UNCHANGED <<slotVars, sessVars, attachVars, userVars, sftpVars, mcpVars>>

\* Mutant: only sessions whose shell is open are listed.
OwnedWithShell(c) == {s \in sessions : owner[s] = c /\ s \in shells}

Owned(c) == {s \in sessions : owner[s] = c}

\* CloseRealtimeClientSessions: the sessions it owns are listed under sessionMu
\* and then closed one after the other.
TellClosed(c) ==
  /\ Tell(c)
  /\ teller' = [teller EXCEPT ![c] = Owned(c)]
  /\ UNCHANGED <<slotVars, sessVars, attachVars, reader, stop, stopIds, sftpVars, mcpVars>>

TellerCloses(c) ==
  /\ ~ Busy(<<"teller", c>>)
  /\ \E s \in teller[c] :
       /\ TakeIfThere(s, <<"teller", c>>)
       /\ teller' = [teller EXCEPT ![c] = @ \ {s}]
  /\ UNCHANGED <<hub, slotVars, svcClosed, creator, client, owner, terminated, lapsed, expirer,
                 shells, reader, stop, stopIds, sftpVars, mcpVars>>

(***************************************************************************)
(* Close: the end of the service                                           *)
(***************************************************************************)
CloseService ==
  /\ stop = "none"
  /\ stop' = "closing" /\ stopIds' = sessions
  /\ svcClosed' = TRUE
  /\ cancelled' = cancelled \union {m \in MCPCalls : mcp[m] = "running"}
  /\ UNCHANGED <<hub, slotVars, sessions, creator, client, attachVars, reader, teller, sftpVars,
                 mcp>>

CloseServiceNext ==
  /\ stop = "closing" /\ ~ Busy(By("stop"))
  /\ \E s \in stopIds : TakeIfThere(s, By("stop")) /\ stopIds' = stopIds \ {s}
  /\ UNCHANGED <<hub, slotVars, svcClosed, creator, client, owner, terminated, lapsed, expirer,
                 shells, reader, teller, stop, sftpVars, mcpVars>>

CloseServiceReturns ==
  /\ stop = "closing" /\ stopIds = {} /\ ~ Busy(By("stop"))
  /\ stop' = "returned"
  /\ UNCHANGED <<hub, slotVars, sessVars, attachVars, reader, teller, stopIds, sftpVars, mcpVars>>

(***************************************************************************)
(* SFTP over a session.  An SFTP client that lost the race to be           *)
(* managed.sftp is closed by the request that opened it.                   *)
(***************************************************************************)
SFTPLookup(r) ==
  /\ request[r].pc = "idle"
  /\ \E s \in sessions : request' = [request EXCEPT ![r] = At("found", s)]
  /\ UNCHANGED <<hub, slotVars, sessVars, attachVars, userVars, sftp, ops, mcpVars>>

JoinOps(r, s) ==
  /\ ops' = [ops EXCEPT ![s] = @ + 1]
  /\ request' = [request EXCEPT ![r].pc = "running"]

SFTPBegin(r) ==
  LET s == request[r].s
  IN  /\ request[r].pc = "found"
      /\ \/ s \in terminated /\ request' = [request EXCEPT ![r] = Idle] /\ UNCHANGED ops
         \/ s \notin terminated /\ s \in sftp /\ JoinOps(r, s)
         \/ /\ s \notin terminated /\ s \notin sftp
            /\ request' = [request EXCEPT ![r].pc = "dialing"] /\ UNCHANGED ops
      /\ UNCHANGED <<hub, slotVars, sessVars, attachVars, userVars, sftp, mcpVars>>

\* monitorClient: a collection of remote data counts among the operations as
\* well, whether or not the session has an SFTP client.
MonitorBegin(r) ==
  LET s == request[r].s
  IN  /\ request[r].pc = "found" /\ s \notin terminated
      /\ JoinOps(r, s)
      /\ UNCHANGED <<hub, slotVars, sessVars, attachVars, userVars, sftp, mcpVars>>

\* sftp.NewClient, without a lock.
SFTPDial(r) ==
  /\ request[r].pc = "dialing"
  /\ \/ request[r].s \in client /\ request' = [request EXCEPT ![r].pc = "dialed"]
     \/ request' = [request EXCEPT ![r] = Idle]
  /\ UNCHANGED <<hub, slotVars, sessVars, attachVars, userVars, sftp, ops, mcpVars>>

\* Mutant: the session is not looked at again after the dial.
SFTPPublishRegardless(r) ==
  LET s == request[r].s
  IN  /\ request[r].pc = "dialed"
      /\ sftp' = sftp \union {s} /\ JoinOps(r, s)
      /\ UNCHANGED <<hub, slotVars, sessVars, attachVars, userVars, mcpVars>>

SFTPPublish(r) ==
  LET s == request[r].s
  IN  /\ request[r].pc = "dialed"
      /\ IF s \in terminated
         THEN request' = [request EXCEPT ![r] = Idle] /\ UNCHANGED <<sftp, ops>>
         ELSE sftp' = sftp \union {s} /\ JoinOps(r, s)
      /\ UNCHANGED <<hub, slotVars, sessVars, attachVars, userVars, mcpVars>>

\* Mutant: an operation may be ended by an error and again by the deferred Done.
SFTPDoneTwice(r) ==
  /\ request[r].pc = "running"
  /\ \E more \in {1, 2} : ops' = [ops EXCEPT ![request[r].s] = @ - more]
  /\ request' = [request EXCEPT ![r] = Idle]
  /\ UNCHANGED <<hub, slotVars, sessVars, attachVars, userVars, sftp, mcpVars>>

SFTPDone(r) ==
  /\ request[r].pc = "running"
  /\ ops' = [ops EXCEPT ![request[r].s] = @ - 1]
  /\ request' = [request EXCEPT ![r] = Idle]
  /\ UNCHANGED <<hub, slotVars, sessVars, attachVars, userVars, sftp, mcpVars>>

(***************************************************************************)
(* withMCPOperation: a slot for as long as the operation runs              *)
(***************************************************************************)
MCPReserve(m) ==
  /\ mcp[m] = "none"
  /\ ReserveSlot(HostOf[m])
  /\ mcp' = [mcp EXCEPT ![m] = "reserved"]
  /\ UNCHANGED <<hub, sessVars, attachVars, userVars, sftpVars, cancelled>>

\* Its cancel function is registered unless the service has closed meanwhile.
MCPRegister(m) ==
  /\ mcp[m] = "reserved"
  /\ mcp' = [mcp EXCEPT ![m] = IF svcClosed THEN "ending" ELSE "running"]
  /\ UNCHANGED <<hub, slotVars, sessVars, attachVars, userVars, sftpVars, cancelled>>

\* The operation is over: its cancel function is removed, ...
MCPReturns(m) ==
  /\ mcp[m] = "running"
  /\ mcp' = [mcp EXCEPT ![m] = "ending"]
  /\ cancelled' = cancelled \ {m}
  /\ UNCHANGED <<hub, slotVars, sessVars, attachVars, userVars, sftpVars>>

\* ... and then the slot is given back.
MCPRelease(m) ==
  /\ mcp[m] = "ending"
  /\ ReleaseSlot(HostOf[m])
  /\ mcp' = [mcp EXCEPT ![m] = "none"]
  /\ UNCHANGED <<hub, sessVars, attachVars, userVars, sftpVars, cancelled>>

Create(s) == Connect(s) \/ CreateFails(s) \/ Publish(s)
Close(s) == Terminate(s) \/ Finish(s)
Expire(s) == ExpireCheck(s) \/ ExpireClose(s)
Command(c) ==
  \/ AttachLookup(c) \/ AttachOwn(c) \/ AttachVerify(c) \/ AttachOpen(c) \/ AttachFails(c)
  \/ CommitAttach(c) \/ CloseCommand(c) \/ CommandEnds(c)
Stopping == CloseServiceNext \/ CloseServiceReturns

Next ==
  \/ \E s \in Sessions :
       \/ Reserve(s) \/ Connect(s) \/ CreateFails(s) \/ Publish(s)
       \/ Terminate(s) \/ Finish(s) \/ HTTPClose(s) \/ SessionEnds(s)
       \/ Lapse(s) \/ ExpireCheck(s) \/ ExpireClose(s)
  \/ ConnectionStep
  \/ \E c \in Conns :
       \/ HandleCommand(c) \/ AttachLookup(c) \/ AttachOwn(c) \/ AttachVerify(c)
       \/ AttachOpen(c) \/ AttachFails(c) \/ CommitAttach(c) \/ CloseCommand(c)
       \/ CommandEnds(c) \/ TellClosed(c) \/ TellerCloses(c)
  \/ CloseService \/ CloseServiceNext \/ CloseServiceReturns
  \/ \E r \in SFTPRequests :
       \/ SFTPLookup(r) \/ SFTPBegin(r) \/ MonitorBegin(r)
       \/ SFTPDial(r) \/ SFTPPublish(r) \/ SFTPDone(r)
  \/ \E m \in MCPCalls : MCPReserve(m) \/ MCPRegister(m) \/ MCPReturns(m) \/ MCPRelease(m)

Spec == Init /\ [][Next]_vars

\* Goroutines run, the remote answers or times out, deadlines pass, and the hub
\* tells the close handler (ClientHub's own fairness).  Nobody has to create,
\* attach, close or disconnect.
Fairness ==
  /\ \A s \in Sessions :
       WF_vars(Create(s)) /\ WF_vars(Close(s)) /\ WF_vars(Lapse(s)) /\ WF_vars(Expire(s))
  /\ \A c \in Conns :
       WF_vars(Command(c)) /\ WF_vars(TellClosed(c)) /\ WF_vars(TellerCloses(c))
  /\ WF_vars(Stopping)

LiveSpec == Spec /\ Fairness

(***************************************************************************)
(* Properties                                                              *)
(***************************************************************************)
Closers == {By(k) : k \in {"nobody", "http", "session", "expiry", "stop"}}
             \union ({"reader", "teller"} \X Conns)

\* Type invariant of the sessions and of the goroutines that work on them.
TypeOK ==
  /\ hub \in [Conns -> Stages]
  /\ sessions \subseteq Sessions /\ svcClosed \in BOOLEAN
  /\ pendingSessions \in Nat /\ pendingByHost \in [Hosts -> Nat]
  /\ creator \in [Sessions -> {"none", "reserved", "connected", "done", "failed"}]
  /\ client \subseteq Sessions /\ terminated \subseteq Sessions /\ lapsed \subseteq Sessions
  /\ owner \in [Sessions -> Conns \union {None}]
  /\ expirer \in [Sessions -> {"waiting", "closing", "ended"}]
  /\ shells \subseteq Sessions /\ sftp \subseteq Sessions
  /\ \A s \in Sessions :
       closer[s].pc \in {"none", "taken", "stopped", "finished"} /\ closer[s].by \in Closers
  /\ \A c \in Conns :
       /\ reader[c].pc \in {"idle", "command", "found", "owned", "opening", "opened", "closing"}
       /\ teller[c] \subseteq Sessions
  /\ stop \in {"none", "closing", "returned"} /\ stopIds \subseteq Sessions
  /\ ops \in [Sessions -> Nat]
  /\ \A r \in SFTPRequests :
       request[r].pc \in {"idle", "found", "dialing", "dialed", "running"}
  /\ mcp \in [MCPCalls -> {"none", "reserved", "running", "ending"}] /\ cancelled \subseteq MCPCalls

\* The calls that hold a slot on host h.
Holders(h) ==
  {s \in Sessions : HostOf[s] = h /\ creator[s] \in {"reserved", "connected"}}
    \union {m \in MCPCalls : HostOf[m] = h /\ mcp[m] # "none"}

\* The slot counters are exactly the CreateSession calls and MCP operations that
\* hold one, on every path out of them; none is leaked and none given back twice.
SlotsExact ==
  /\ \A h \in Hosts : pendingByHost[h] = Cardinality(Holders(h))
  /\ pendingSessions = Cardinality(UNION {Holders(h) : h \in Hosts})

\* sshMaximumSessions and sshMaximumHostSessions hold while sessions are still
\* being connected, whatever reserves, publishes and closes concurrently.
LimitsHold ==
  /\ Cardinality(sessions) + Cardinality(UNION {Holders(h) : h \in Hosts}) <= MaxSessions
  /\ \A h \in Hosts : OnHost(h) + Cardinality(Holders(h)) <= MaxPerHost

\* A session is not left attached to a connection that is gone: once the close
\* handler has been told and has closed what it listed, and the connection's own
\* command has ended, no session belongs to it.  The attach that overlaps the
\* disconnection is closed by one of the two.
NoOrphan ==
  \A c \in Conns :
    hub[c] = "closed" /\ teller[c] = {} /\ reader[c].pc = "idle"
      => \A s \in sessions : owner[s] # c

\* A shell and an SFTP client kept in a session are gone for good when the
\* session has been closed: nothing stores one after closeOnce has collected them.
NothingStoredAfterClose == \A s \in terminated : s \notin shells /\ s \notin sftp

\* sftpOps.Add never happens once the close may be waiting for the operations
\* (a WaitGroup must not be raised from zero during Wait).
NoOperationAfterClose ==
  [][\A s \in terminated : ops'[s] <= ops[s]]_vars

\* expireUnattachedSession closes only sessions nobody has attached to, although
\* it looks at the owner and closes in two critical sections.
ExpiryTakesUnattached ==
  [][\A s \in sessions : closer'[s] = Closing("taken", By("expiry")) /\ closer[s].pc = "none"
                           => owner[s] = None]_vars

\* When Close has returned, no session is in the map and none can come, and every
\* MCP operation that is still running has been cancelled.
StopLeavesNothing ==
  stop = "returned" =>
    /\ sessions = {}
    /\ \A m \in MCPCalls : mcp[m] = "running" => m \in cancelled

\* A session that nobody attaches to does not keep its slot.
UnattachedExpires ==
  \A s \in Sessions : s \in sessions ~> (s \notin sessions \/ owner[s] # None)

\* A session whose connection is gone is closed, and its SSH client with it.
OwnerGoneClosed ==
  \A s \in Sessions, c \in Conns :
    (owner[s] = c /\ hub[c] \in {"leaving", "closed"}) ~> s \notin client
=============================================================================
