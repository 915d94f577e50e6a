-------------------------- MODULE DnsmasqTakeover --------------------------
(***************************************************************************)
(* openWrtDNSMasqLifecycle: while a core runs, the dnsmasq section of the  *)
(* UCI configuration forwards to the core's DNS inbound. Activate records  *)
(* the administrator's options in a state file before it overwrites them,  *)
(* Restore puts them back. The network lifecycle file lock keeps the two   *)
(* apart, but not the administrator, who stages and commits changes of     *)
(* their own, nor the death of the process or of the router.               *)
(*                                                                         *)
(* A snapshot (noresolv and the server list) is a value; UCI commits are   *)
(* atomic, a command may fail, and a failed command may have had its       *)
(* effect. A change the administrator has staged sets every option of the  *)
(* section. It is part of what uci show prints, and so of every read of    *)
(* the manager; the manager's own writes go through a delta directory of   *)
(* their own and reach the committed options only.                         *)
(***************************************************************************)
EXTENDS Naturals

CONSTANTS
    Managed,            \* the takeover's options: forward to the core only
    Bare,               \* neither noresolv nor a server
    Mixed,              \* servers of two writers in one list
    AdminSnapshots,     \* the options administrators choose
    None, Down,
    MaxEdits, MaxCrashes

ASSUME SnapshotAssumption ==
    /\ Managed # Bare /\ Mixed \notin {Managed, Bare} \cup AdminSnapshots
    /\ {None, Down} \cap ({Managed, Bare, Mixed} \cup AdminSnapshots) = {}
ASSUME EditAssumption == MaxEdits \in Nat /\ MaxCrashes \in Nat

Snapshots == AdminSnapshots \cup {Managed, Bare, Mixed}

VARIABLES
    uci,        \* committed options of the dnsmasq section
    staged,     \* the administrator's uncommitted change, or None
    running,    \* the options dnsmasq runs with, Down if it does not
    journal,    \* the state file: None, or phase and original options
    mode,       \* what the manager is doing
    pc,         \* where in that it is
    original,   \* state.Original of the operation in progress
    managed,    \* state.Managed of the operation in progress
    result,     \* of the last operation
    user,       \* history: the options the administrator committed last
    edited,     \* history: the administrator committed during this operation
    raced,      \* history: ... between a check and the write it guards
    misread,    \* history: the manager went on with a change only staged
    edits, crashes

fileVars == <<uci, running, journal>>
opVars == <<mode, pc, original, managed>>
adminVars == <<staged, user, edited, raced, edits, crashes>>
vars == <<fileVars, opVars, result, adminVars, misread>>

Init ==
    /\ uci \in AdminSnapshots /\ user = uci /\ running = uci
    /\ staged = None /\ journal = None
    /\ mode = "idle" /\ pc = "idle" /\ original = None /\ managed = None
    /\ result = "none" /\ edited = FALSE /\ raced = FALSE /\ misread = FALSE
    /\ edits = 0 /\ crashes = 0

-----------------------------------------------------------------------------
Return(r) ==
    /\ result' = r
    /\ mode' = "idle" /\ pc' = "idle" /\ original' = None /\ managed' = None

Step(m, label) ==
    /\ mode' = m /\ pc' = label
    /\ UNCHANGED <<original, managed, result>>

\* A failed activation, and a failed cleanup of a takeover without a state
\* file, go through rollbackActivation; the others only report.
Fail ==
    IF mode \in {"activate", "bare"} THEN Step("rollback", "read") ELSE Return("error")

\* writeDNSMasqTakeoverState replaces the file atomically; when it fails the
\* replacement may have happened, the directory sync being its last step.
WriteState(state, ok) == journal' = state \/ (~ok /\ UNCHANGED journal)

\* removeDNSMasqTakeoverState, likewise.
RemoveState(ok) == journal' = None \/ (~ok /\ UNCHANGED journal)

-----------------------------------------------------------------------------
(* The entries. currentSnapshot returns the options as uci show prints     *)
(* them, or fails.                                                         *)

CurrentSnapshot == IF staged = None THEN uci ELSE staged

\* The manager goes on with what it has read.
Trust == misread' = (misread \/ CurrentSnapshot # uci)

\* uci changes is asked here and nowhere else.
ActivateBegin ==
    /\ mode = "idle"
    /\ edited' = FALSE
    /\ \/ /\ staged = None
          /\ Step("activate", "journal")
       \/ Return("error")
    /\ UNCHANGED <<fileVars, staged, user, raced, misread, edits, crashes>>

\* Mutant: the original options are recorded only once they are overwritten.
ActivateUnrecorded ==
    /\ mode = "activate" /\ pc = "journal"
    /\ original' = CurrentSnapshot /\ managed' = Managed
    /\ pc' = "recheck" /\ UNCHANGED <<mode, result>>
    /\ Trust
    /\ UNCHANGED <<fileVars, adminVars>>

\* The first read, and the state file. An edit between the two has the effect
\* of one right after them, so they are one step.
ActivateJournal ==
    /\ mode = "activate" /\ pc = "journal"
    /\ \/ /\ journal # None /\ CurrentSnapshot = Managed
          /\ original' = journal.original /\ managed' = Managed
          /\ mode' = "again" /\ pc' = "restart"
          /\ Trust /\ UNCHANGED <<journal, result>>
       \/ /\ journal # None
          /\ CurrentSnapshot = journal.original /\ CurrentSnapshot # Managed
          /\ original' = journal.original /\ managed' = Managed
          /\ pc' = "recheck"
          /\ Trust /\ UNCHANGED <<mode, journal, result>>
       \/ /\ journal = None
          /\ WriteState([phase |-> "prepared", original |-> CurrentSnapshot], TRUE)
          /\ original' = CurrentSnapshot /\ managed' = Managed
          /\ pc' = "recheck"
          /\ Trust /\ UNCHANGED <<mode, result>>
       \/ /\ journal = None
          /\ WriteState([phase |-> "prepared", original |-> CurrentSnapshot], FALSE)
          /\ Trust /\ Return("error")
       \/ Return("error") /\ UNCHANGED <<journal, misread>>
    /\ UNCHANGED <<uci, running, adminVars>>

\* Mutant: nothing is read again before the write.
RecheckNothing ==
    /\ mode = "activate" /\ pc = "recheck"
    /\ Step(mode, "apply")
    /\ UNCHANGED <<fileVars, adminVars, misread>>

\* The second read, immediately before the write.
ActivateRecheck ==
    /\ mode = "activate" /\ pc = "recheck"
    /\ \/ CurrentSnapshot = original /\ Step(mode, "apply") /\ Trust
       \/ Fail /\ UNCHANGED misread
    /\ UNCHANGED <<fileVars, adminVars>>

RestoreBegin ==
    /\ mode = "idle"
    /\ edited' = FALSE
    /\ \/ /\ journal = None /\ CurrentSnapshot # Managed
          /\ Return("nothing") /\ UNCHANGED misread
       \/ /\ journal = None /\ CurrentSnapshot = Managed
          /\ original' = Managed /\ managed' = Bare
          /\ mode' = "bare" /\ pc' = "apply"
          /\ Trust /\ UNCHANGED result
       \/ /\ journal # None /\ CurrentSnapshot \in {journal.original, Managed}
          /\ original' = journal.original /\ managed' = Managed
          /\ mode' = "restore"
          /\ pc' = IF CurrentSnapshot = journal.original THEN "restart" ELSE "apply"
          /\ Trust /\ UNCHANGED result
       \/ Return("error") /\ UNCHANGED misread
    /\ UNCHANGED <<fileVars, staged, user, raced, edits, crashes>>

\* rollbackActivation.
RollbackRead ==
    /\ mode = "rollback" /\ pc = "read"
    /\ \/ CurrentSnapshot = original /\ Step(mode, "restart") /\ Trust
       \/ /\ CurrentSnapshot # original /\ CurrentSnapshot = managed
          /\ Step(mode, "apply") /\ Trust
       \/ Return("error") /\ UNCHANGED misread
    /\ UNCHANGED <<fileVars, adminVars>>

-----------------------------------------------------------------------------
(* The steps the operations share.                                         *)

Target == IF mode \in {"activate", "bare"} THEN managed ELSE original

\* The options that were read before the write.
Expected == IF mode \in {"activate", "bare"} THEN original ELSE managed

\* What the commit leaves: applySnapshot deletes the options it has read, so a
\* server list it knows nothing of is appended to. Managed has every option.
Applied == {Target} \cup (IF Expected \in {uci, Managed} THEN {} ELSE {Mixed})

\* applySnapshot: options are set in a private delta and committed at once.
Apply ==
    /\ pc = "apply"
    /\ \/ /\ uci' \in Applied
          /\ Step(mode, IF mode = "rollback" THEN "restart" ELSE "verify")
       \/ uci' \in {uci} \cup Applied /\ Fail
    /\ UNCHANGED <<running, journal, adminVars, misread>>

Verify ==
    /\ pc = "verify"
    /\ \/ CurrentSnapshot = Target /\ Step(mode, "restart") /\ Trust
       \/ Fail /\ UNCHANGED misread
    /\ UNCHANGED <<fileVars, adminVars>>

\* Mutant: the outcome of the dnsmasq restart is not looked at.
RestartBlind ==
    /\ pc = "restart"
    /\ running' \in {uci, running, Down}
    /\ Step(mode, "finish") /\ Trust
    /\ UNCHANGED <<uci, journal, adminVars>>

\* init.d/dnsmasq restart, then running: both must succeed. Whether the init
\* script sees staged changes is not for the manager to say.
Restart ==
    /\ pc = "restart"
    /\ \/ running' \in {uci, CurrentSnapshot} /\ Step(mode, "finish") /\ Trust
       \/ running' \in {uci, CurrentSnapshot, running, Down} /\ Fail /\ UNCHANGED misread
    /\ UNCHANGED <<uci, journal, adminVars>>

\* Mutant: the state file is not removed but marked.
FinishMarks ==
    /\ pc = "finish"
    /\ WriteState([phase |-> "restored", original |-> original], TRUE)
    /\ Return("restored")
    /\ UNCHANGED <<uci, running, adminVars, misread>>

\* The state file follows: active, or gone.
Finish ==
    /\ pc = "finish"
    /\ \/ /\ mode \in {"activate", "again"}
          /\ \/ /\ WriteState([phase |-> "active", original |-> original], TRUE)
                /\ Return("active")
             \/ WriteState([phase |-> "active", original |-> original], FALSE) /\ Fail
       \/ /\ mode = "restore"
          /\ \/ RemoveState(TRUE) /\ Return("restored")
             \/ RemoveState(FALSE) /\ Return("error")
       \/ /\ mode = "rollback"
          /\ \E ok \in BOOLEAN : RemoveState(ok)
          /\ Return("error")
       \/ /\ mode = "bare"
          /\ Return("restored") /\ UNCHANGED journal
    /\ UNCHANGED <<uci, running, adminVars, misread>>

-----------------------------------------------------------------------------
(* The administrator and the host.                                         *)

AdminStage ==
    /\ staged = None /\ edits < MaxEdits
    /\ edits' = edits + 1
    /\ staged' \in AdminSnapshots \cup {Managed}
    /\ UNCHANGED <<fileVars, opVars, result, user, edited, raced, misread, crashes>>

AdminRevert ==
    /\ staged # None
    /\ staged' = None
    /\ UNCHANGED <<fileVars, opVars, result, user, edited, raced, misread, edits, crashes>>

\* A commit reloads dnsmasq. UCI has no compare-and-set: a commit between the
\* manager's check and its write is overwritten, and remembered in raced.
AdminCommit ==
    /\ staged # None
    /\ uci' = staged /\ user' = staged /\ running' = staged /\ staged' = None
    /\ edited' = TRUE /\ raced' = (raced \/ pc = "apply")
    /\ UNCHANGED <<journal, opVars, result, misread, edits, crashes>>

\* The process dies, or the router: then staged changes are lost and dnsmasq
\* starts on what is committed.
Crash ==
    /\ crashes < MaxCrashes
    /\ crashes' = crashes + 1
    /\ Return("crashed")
    /\ \/ UNCHANGED <<running, staged>>
       \/ running' = uci /\ staged' = None
    /\ UNCHANGED <<uci, journal, user, edited, raced, misread, edits>>

Manager ==
    \/ ActivateBegin \/ ActivateJournal \/ ActivateRecheck
    \/ RestoreBegin \/ RollbackRead
    \/ Apply \/ Verify \/ Restart \/ Finish

Next == Manager \/ AdminStage \/ AdminRevert \/ AdminCommit \/ Crash

Spec == Init /\ [][Next]_vars

-----------------------------------------------------------------------------
(* Properties. Two histories are excepted where a property says so: an     *)
(* edit committed between a check and the write it guards (raced), and an  *)
(* operation that went on with options that were only staged (misread).    *)

States == [phase : {"prepared", "active"}, original : Snapshots]

\* Type invariant of the takeover.
TypeOK ==
    /\ uci \in Snapshots /\ user \in Snapshots /\ running \in Snapshots \cup {Down}
    /\ staged \in Snapshots \cup {None}
    /\ journal \in States \cup {None}
    /\ mode \in {"idle", "activate", "again", "restore", "bare", "rollback"}
    /\ pc \in {"idle", "journal", "recheck", "read", "apply", "verify", "restart", "finish"}
    /\ original \in Snapshots \cup {None} /\ managed \in Snapshots \cup {None}
    /\ result \in {"none", "error", "nothing", "active", "restored", "crashed"}
    /\ edited \in BOOLEAN /\ raced \in BOOLEAN /\ misread \in BOOLEAN
    /\ edits \in 0..MaxEdits /\ crashes \in 0..MaxCrashes

\* Whenever dnsmasq is configured to forward to the core, the state file holds
\* the options the administrator committed last, so that a crash at any point
\* of Activate or Restore leaves them recoverable.
OriginalKept ==
    uci = Managed /\ user # Managed /\ ~raced /\ ~misread =>
        journal # None /\ journal.original = user

\* The state file is given up only when dnsmasq is configured with the
\* administrator's options again and runs with them.
GivenUpRestored ==
    [][journal # None /\ journal' = None /\ ~raced /\ ~misread =>
        running = uci /\ (uci = user \/ user = Managed)]_vars

\* Activate reports success only if dnsmasq runs with the takeover options and
\* the state file says so, unless the administrator stepped in meanwhile.
ActiveMeansForwarding ==
    [][result' = "active" /\ pc # "idle" /\ pc' = "idle" /\ ~edited /\ ~misread =>
        uci = Managed /\ running = Managed /\ journal'.phase = "active"]_vars

\* The manager moves the committed options only between its own and those the
\* state file records, or from its own to none when there is no state file (and
\* back, if that fails). Whatever else an administrator commits before, during
\* or after a takeover is refused, not overwritten.
EditsRespected ==
    [][uci' # uci /\ staged' = staged /\ ~raced /\ ~misread =>
        {uci, uci'} = {Managed, IF journal = None THEN Bare ELSE journal.original}]_vars
=============================================================================
