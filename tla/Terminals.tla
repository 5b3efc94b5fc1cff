--------------------------------- MODULE Terminals ---------------------------
(***************************************************************************)
(* The terminals: how the real terminal runs a command, and the sessions   *)
(* of the terminals in the browser. The two parts have no state in common. *)
(***************************************************************************)
EXTENDS Integers, Sequences, FiniteSets

-----------------------------------------------------------------------------
(***************************************************************************)
(* Commands run by the real terminal (tools/real_terminal.py): one process *)
(* per command for the plain shells, and for the PTY provider one bash     *)
(* that lives on, whose output is a stream without boundaries: execute()   *)
(* writes the command, reads until something looks like a prompt or time   *)
(* is up, then writes an echo of $? and reads that the same way.  Texts    *)
(* are left out except for what the reader looks for.                      *)
(***************************************************************************)

CONSTANTS
    AllowedShells,      \* allowed_shells
    InstalledShells,    \* the providers whose shell is there
    DefaultShell,       \* default_shell
    PtyEnabled,         \* pty_enabled
    MaxCommands         \* bound: commands executed

ASSUME PtyAssumption == PtyEnabled \in BOOLEAN /\ MaxCommands \in Nat

VARIABLES
    bash,       \* the shell process: "none", "alive" or "dead"
    input,      \* what it has not read yet
    status,     \* its $?
    tty,        \* its output that was not read yet
    phase,      \* what execute() is reading
    command,    \* the command of the current or latest execute()
    looked,     \* what it has read in this phase: a prompt, an exit code
    truth,      \* history: the real exit code of each command that ended
    results,    \* the exit code execute() returned for each command
    mixed       \* history: a read ended before the command did, or bash ended

ptyVars == <<bash, input, status, tty, phase, command, looked, truth, results, mixed>>

Commands == 1..MaxCommands
Codes == {"ok", "bad"}  \* 0, and anything else
Unknown == "unknown"    \* not ended, or nothing read
ProbeExitCode == 0              \* echo __EXIT_CODE__=$?, among the commands in input
Prompt == "prompt"
Tokens == {"echo", Prompt, "lookalike"} \cup Codes

Nothing == [prompt |-> FALSE, code |-> Unknown]

PtyTypeOK ==
    /\ bash \in {"none", "alive", "dead"}
    /\ input \in Seq(0..MaxCommands) /\ tty \in Seq(Tokens)
    /\ status \in Codes
    /\ phase \in {"idle", "output", "code"}
    /\ command \in 0..MaxCommands
    /\ looked \in [prompt : BOOLEAN, code : Codes \cup {Unknown}]
    /\ truth \in [Commands -> Codes \cup {Unknown}]
    /\ results \in [Commands -> Codes \cup {Unknown}]
    /\ mixed \in BOOLEAN

PtyInit ==
    /\ bash = "none"
    /\ input = <<>> /\ status = "ok" /\ tty = <<>>
    /\ phase = "idle" /\ command = 0 /\ looked = Nothing
    /\ truth = [c \in Commands |-> Unknown]
    /\ results = [c \in Commands |-> Unknown]
    /\ mixed = FALSE

(* get_shell_provider: each shell is looked for once. *)
GetShellProvider(shell) == shell \in InstalledShells

(* _resolve_provider: the shell asked for if it is allowed and installed, else
   the PTY if it is enabled, else the default, else bash, else an error. *)
Provider(shell) ==
    IF shell \in AllowedShells /\ GetShellProvider(shell) THEN shell
    ELSE IF PtyEnabled THEN "pty"
    ELSE IF GetShellProvider(DefaultShell) THEN DefaultShell
    ELSE IF GetShellProvider("bash") THEN "bash"
    ELSE "none"

(* ShellProvider.execute: a process of its own, which ends with a code, or is
   killed when its time is up, or cannot be started; only 0 is a success. *)
ExecuteOneShot(shell, code) ==
    /\ phase = "idle" /\ command < MaxCommands
    /\ Provider(shell) \notin {"pty", "none"}
    /\ command' = command + 1
    /\ \E end \in {"ends", "expires", "cannot start"} :
          /\ truth' = [truth EXCEPT ![command + 1] = IF end = "ends" THEN code ELSE "bad"]
          /\ results' = [results EXCEPT ![command + 1] =
                IF end = "ends" /\ code = "ok" THEN "ok" ELSE "bad"]
    /\ UNCHANGED <<bash, input, status, tty, phase, looked, mixed>>

(* _write_command; the terminal echoes at once, whatever bash is doing. *)
Write(c) ==
    /\ input' = Append(input, c)
    /\ tty' = Append(tty, "echo")
    /\ looked' = Nothing

(* execute(): _ensure_running starts a shell whose first prompt is drained. *)
PtyExecute(shell) ==
    /\ phase = "idle" /\ command < MaxCommands
    /\ Provider(shell) = "pty"
    /\ command' = command + 1
    /\ phase' = "output"
    /\ looked' = Nothing
    /\ IF bash = "alive"
       THEN Write(command + 1) /\ UNCHANGED <<bash, status>>
       ELSE /\ bash' = "alive" /\ status' = "ok"
            /\ input' = <<command + 1>> /\ tty' = <<"echo">>
    /\ UNCHANGED <<truth, results, mixed>>

-----------------------------------------------------------------------------
(* bash.                                                                   *)

(* A command prints a line that ends like a prompt. *)
PrintsLookalike ==
    /\ bash = "alive" /\ input # <<>> /\ Head(input) # ProbeExitCode
    /\ \A i \in DOMAIN tty : tty[i] # "lookalike"
    /\ tty' = Append(tty, "lookalike")
    /\ UNCHANGED <<bash, input, status, phase, command, looked, truth, results, mixed>>

(* A command ends, or the probe prints $? and sets it to its own 0. *)
CommandEnds(code) ==
    /\ bash = "alive" /\ input # <<>>
    /\ input' = Tail(input)
    /\ IF Head(input) = ProbeExitCode
       THEN /\ tty' = tty \o <<status, Prompt>>
            /\ status' = "ok" /\ code = "ok"
            /\ UNCHANGED truth
       ELSE /\ tty' = Append(tty, Prompt)
            /\ status' = code
            /\ truth' = [truth EXCEPT ![Head(input)] = code]
    /\ UNCHANGED <<bash, phase, command, looked, results, mixed>>

(* exit, or a signal: from now on reads raise OSError. *)
BashDies ==
    /\ bash = "alive"
    /\ bash' = "dead" /\ input' = <<>> /\ mixed' = TRUE
    /\ UNCHANGED <<status, tty, phase, command, looked, truth, results>>

-----------------------------------------------------------------------------
(* The reader.                                                             *)

(* Wrong: any complete line, the echo of the command too, ends the read. *)
AnyLineEnds(read) == read # <<>>

(* PROMPT_RE, anywhere in the text: a prompt counts at its end only, before the
   next echo makes a longer line of it. *)
LooksLikePrompt(read) ==
    \/ read[Len(read)] = Prompt
    \/ \E i \in DOMAIN read : read[i] = "lookalike"

FirstCode(read) ==
    IF \E i \in DOMAIN read : read[i] \in Codes
    THEN read[CHOOSE i \in DOMAIN read :
                 read[i] \in Codes /\ \A j \in 1..(i - 1) : read[j] \notin Codes]
    ELSE Unknown

(* os.read returns the first n pieces that are there. *)
ReadChunk(n) ==
    LET read == SubSeq(tty, 1, n)
    IN  /\ phase # "idle" /\ ~looked.prompt
        /\ n \in 1..Len(tty)
        /\ tty' = SubSeq(tty, n + 1, Len(tty))
        /\ looked' = [prompt |-> LooksLikePrompt(read),
                      code |-> IF looked.code = Unknown THEN FirstCode(read) ELSE looked.code]
        /\ mixed' = (mixed \/ \E i \in DOMAIN read : read[i] = "lookalike")
        /\ UNCHANGED <<bash, input, status, phase, command, truth, results>>

(* The read of the output ends: at a prompt, after the timeout, or because the
   shell is gone; what runs is not stopped, and the probe is written. *)
AskForCode ==
    /\ phase = "output"
    /\ mixed' = (mixed \/ ~looked.prompt)
    /\ phase' = "code"
    /\ IF bash = "alive" THEN Write(ProbeExitCode)
       ELSE looked' = Nothing /\ UNCHANGED <<input, tty>>
    /\ UNCHANGED <<bash, status, command, truth, results>>

(* The read of the code ends; without a code the command has succeeded. *)
PtyReturns ==
    /\ phase = "code"
    /\ mixed' = (mixed \/ ~looked.prompt)
    /\ phase' = "idle"
    /\ results' = [results EXCEPT ![command] = IF looked.code = Unknown THEN "ok" ELSE looked.code]
    /\ UNCHANGED <<bash, input, status, tty, command, looked, truth>>

(* PTYProvider.close: the shell is killed, its descriptors are closed. *)
ShellIsClosed ==
    /\ bash' = "none" /\ input' = <<>> /\ tty' = <<>>
    /\ mixed' = TRUE

(* cancel() or close() from another thread: execute() goes on reading nothing,
   or finds no descriptor and reports a failure. *)
ClosePty ==
    /\ bash # "none"
    /\ ShellIsClosed
    /\ UNCHANGED <<status, phase, command, looked, truth, results>>

ExecuteRaises ==
    /\ phase # "idle" /\ bash # "alive"
    /\ phase' = "idle"
    /\ results' = [results EXCEPT ![command] = "bad"]
    /\ UNCHANGED <<bash, input, status, tty, command, looked, truth, mixed>>

PtyNext ==
    \/ PrintsLookalike \/ BashDies
    \/ \E shell \in AllowedShells \cup {"pty"} :
          PtyExecute(shell) \/ \E code \in Codes : ExecuteOneShot(shell, code)
    \/ \E code \in Codes : CommandEnds(code)
    \/ \E n \in 1..Len(tty) : ReadChunk(n)
    \/ AskForCode \/ PtyReturns \/ ClosePty \/ ExecuteRaises

-----------------------------------------------------------------------------
(* Properties.                                                             *)

(* While every read ended at the prompt of what was written, each command is
   reported with its own exit code, however the output was cut into reads. *)
ExitCodesAreReal == ~mixed =>
    \A c \in Commands : results[c] # Unknown => results[c] = truth[c]

-----------------------------------------------------------------------------
(***************************************************************************)
(* The terminal sessions of web/websocket_terminal.py and their routes     *)
(* (api/terminal_sessions.py): sessions count against the limits of their  *)
(* user and project from creation until they are closed, and are attached  *)
(* to and detached from web sockets.  The endpoint that would start a      *)
(* shell closes its socket first, since a row of the database has no get,  *)
(* and uses no session.  Messages, window sizes and the ownership checks   *)
(* are left out.                                                           *)
(***************************************************************************)

CONSTANTS
    TermUsers, TermProjects,
    TermIds,            \* identifiers of sessions
    UserLimit,          \* MAX_SESSIONS_PER_USER
    ProjectLimit,       \* MAX_SESSIONS_PER_PROJECT
    DetachedTimeout,    \* DETACHED_TIMEOUT
    MaxIdle             \* bound: how long an idle time is counted

ASSUME TerminalAssumption ==
    /\ "none" \notin TermUsers \cup TermProjects
    /\ UserLimit \in Nat /\ ProjectLimit \in Nat
    /\ DetachedTimeout \in Nat /\ MaxIdle \in Nat

VARIABLES
    terms,      \* _sessions
    termLocks,  \* the sessions _locks has an entry for
    idleFor,    \* time since each session's last activity
    gone        \* history: sessions that were closed

termVars == <<terms, termLocks, idleFor, gone>>

NoTerm == [user |-> "none", project |-> "none", status |-> "none"]

TerminalTypeOK ==
    /\ terms \in [TermIds -> {NoTerm} \cup [user : TermUsers, project : TermProjects,
                    status : {"created", "attached", "detached"}]]
    /\ termLocks \subseteq TermIds
    /\ idleFor \in [TermIds -> 0..MaxIdle]
    /\ gone \subseteq TermIds

TerminalInit ==
    /\ terms = [t \in TermIds |-> NoTerm]
    /\ termLocks = {}
    /\ idleFor = [t \in TermIds |-> 0]
    /\ gone = {}

TermsOf(u) == {t \in TermIds : terms[t].user = u}
TermsIn(p) == {t \in TermIds : terms[t].project = p}
SetTerm(t, now) == terms' = [terms EXCEPT ![t].status = now]
Active(t) == idleFor' = [idleFor EXCEPT ![t] = 0]

(* The route counts, and create_session counts again; nothing awaits between
   the count and the insertion. *)
CreateTerm(t, u, p) ==
    /\ terms[t] = NoTerm /\ t \notin gone
    /\ Cardinality(TermsOf(u)) < UserLimit
    /\ Cardinality(TermsIn(p)) < ProjectLimit
    /\ terms' = [terms EXCEPT ![t] = [user |-> u, project |-> p, status |-> "created"]]
    /\ Active(t)
    /\ UNCHANGED <<termLocks, gone>>

(* close_session; the route that closes one calls methods that do not exist. *)
CloseTerm(t) ==
    /\ terms[t] # NoTerm
    /\ terms' = [terms EXCEPT ![t] = NoTerm]
    /\ termLocks' = termLocks \ {t}
    /\ gone' = gone \cup {t}
    /\ UNCHANGED <<idleFor>>

(* find_session closes what has been detached for too long, and only that. *)
FindExpired(t) ==
    /\ terms[t].status = "detached"
    /\ idleFor[t] > DetachedTimeout
    /\ CloseTerm(t)

(* attach_websocket: raises for a session that is unknown or has a socket, and
   leaves a lock behind for an unknown one. *)
Attach(t) ==
    /\ IF terms[t].status \in {"created", "detached"}
       THEN SetTerm(t, "attached") /\ Active(t)
       ELSE UNCHANGED <<terms, idleFor>>
    /\ termLocks' = termLocks \cup {t}
    /\ UNCHANGED <<gone>>

Detach(t) ==
    /\ termLocks' = termLocks \cup {t}
    /\ IF terms[t] # NoTerm THEN SetTerm(t, "detached") /\ Active(t)
       ELSE UNCHANGED <<terms, idleFor>>
    /\ UNCHANGED <<gone>>

UpdateActivity(t) ==
    /\ terms[t] # NoTerm /\ Active(t)
    /\ UNCHANGED <<terms, termLocks, gone>>

TermTimePasses ==
    /\ idleFor' = [t \in TermIds |-> IF idleFor[t] < MaxIdle THEN idleFor[t] + 1 ELSE MaxIdle]
    /\ UNCHANGED <<terms, termLocks, gone>>

TerminalNext ==
    \/ \E t \in TermIds :
          \/ \E u \in TermUsers, p \in TermProjects : CreateTerm(t, u, p)
          \/ CloseTerm(t) \/ FindExpired(t)
          \/ Attach(t) \/ Detach(t) \/ UpdateActivity(t)
    \/ TermTimePasses

-----------------------------------------------------------------------------
(* Properties.                                                             *)

(* The limits hold for users and projects together, and every session counted
   against them can still be attached to: closed ones are gone for good. *)
TerminalLimits ==
    /\ \A u \in TermUsers : Cardinality(TermsOf(u)) <= UserLimit
    /\ \A p \in TermProjects : Cardinality(TermsIn(p)) <= ProjectLimit
    /\ \A t \in gone : terms[t] = NoTerm

=============================================================================
