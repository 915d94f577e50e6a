---------------------------- MODULE MCSSHSessions ----------------------------
(* Instances of SSHSessions for model checking.  In a behaviour only one of  *)
(* the Casts takes part, so that one run covers several combinations.        *)
EXTENDS SSHSessions, TLC

CONSTANTS c1, c2, s1, s2, r1, r2, m1, m2, m3, h1, h2, Casts

VARIABLE cast

Cast(cs, ss, rs, ms) == [conns |-> cs, sessions |-> ss, requests |-> rs, calls |-> ms]
\* The slots; a connection with two sessions; two connections that compete for a
\* session; SFTP requests against the end of their session.
AllCasts ==
  {Cast({}, {s1, s2}, {}, {m1, m2, m3}), Cast({c1}, {s1, s2}, {}, {}),
   Cast({c1, c2}, {s1}, {}, {}), Cast({c1}, {s1}, {r1, r2}, {})}
Rivals == {Cast({c1, c2}, {s1}, {}, {})}

\* Two sessions and an MCP operation compete for the two slots of h1; with two
\* more operations on h2 the three slots of the service are taken before those.
Spread == [x \in Sessions \union MCPCalls |-> IF x \in {m2, m3} THEN h2 ELSE h1]
Symmetries == Permutations({r1, r2}) \union Permutations({m2, m3})

OthersAbsent ==
  /\ \A c \in Conns \ cast.conns : hub'[c] = "absent"
  /\ \A s \in Sessions \ cast.sessions : creator'[s] = "none"
  /\ \A r \in SFTPRequests \ cast.requests : request'[r] = Idle
  /\ \A m \in MCPCalls \ cast.calls : mcp'[m] = "none"

MCInit == Init /\ cast \in Casts
MCNext == Next /\ cast' = cast /\ OthersAbsent
MCSpec == MCInit /\ [][MCNext]_<<vars, cast>>
MCLiveSpec == MCSpec /\ Fairness
=============================================================================
