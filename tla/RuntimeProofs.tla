---------------------------- MODULE RuntimeProofs ----------------------------
(***************************************************************************)
(* What TLC checks of AgentLifecycle up to MaxHistory transitions, proved  *)
(* for every history, every caller and every crash; and the budget and the *)
(* outcome of RuntimeAgent.execute, for all limits, all usages and any     *)
(* number of retries, fallbacks and runs.                                  *)
(***************************************************************************)
EXTENDS MCRuntime, TLAPS

allVars == <<machineVars, lifecycleVars>>

-----------------------------------------------------------------------------
(* The transition table and the paths through it.                          *)

\* Every successor is a state.
LEMMA SuccessorIsState ==
  ASSUME NEW s \in AgentState, NEW t \in VALID_TRANSITIONS[s]
  PROVE  t \in AgentState
BY DEF VALID_TRANSITIONS, AgentState, LIVE_STATES, TERMINAL_STATES

\* Nothing leads back to QUEUED.
LEMMA NothingLeadsToQueued ==
  ASSUME NEW s \in AgentState, NEW t \in VALID_TRANSITIONS[s]
  PROVE  t # "queued"
BY DEF VALID_TRANSITIONS, AgentState, LIVE_STATES, TERMINAL_STATES

\* A terminal state has no successor.
LEMMA TerminalHasNoSuccessor ==
  ASSUME NEW s \in TERMINAL_STATES
  PROVE  VALID_TRANSITIONS[s] = {}
BY DEF VALID_TRANSITIONS, AgentState, LIVE_STATES, TERMINAL_STATES

\* FAILED can be reached from every live state but QUEUED.
LEMMA LiveStatesCanFail ==
  ASSUME NEW s \in AgentState, "failed" \notin VALID_TRANSITIONS[s], s # "queued"
  PROVE  s \in TERMINAL_STATES
BY DEF VALID_TRANSITIONS, AgentState, LIVE_STATES, TERMINAL_STATES

\* QUEUED leads to ANALYZING.
LEMMA QueuedCanStart == "analyzing" \in VALID_TRANSITIONS["queued"]
BY DEF VALID_TRANSITIONS, AgentState, LIVE_STATES, TERMINAL_STATES

\* Following the table extends a legal path.
LEMMA LegalExtend ==
  ASSUME NEW h \in Seq(TransitionRecord), NEW s \in AgentState,
         NEW t \in VALID_TRANSITIONS[s], LegalPath(h, s)
  PROVE  /\ Append(h, [from |-> s, to |-> t]) \in Seq(TransitionRecord)
         /\ LegalPath(Append(h, [from |-> s, to |-> t]), t)
<1> DEFINE r == [from |-> s, to |-> t]
           g == Append(h, r)
<1>1. r \in TransitionRecord /\ r.from = s /\ r.to = t
  BY SuccessorIsState DEF TransitionRecord
<1> HIDE DEF r
<1>2. /\ g \in Seq(TransitionRecord) /\ g # <<>>
      /\ Len(g) = Len(h) + 1
      /\ g[Len(g)] = r
      /\ \A i \in 1..Len(h) : g[i] = h[i]
  BY <1>1
<1> HIDE DEF g
<1>3. g[1].from = "queued"
  <2>1. CASE h = <<>>
    BY <2>1, <1>1, <1>2 DEF LegalPath
  <2>2. CASE h # <<>>
    <3>1. 1 \in 1..Len(h)
      BY <2>2
    <3> QED BY <3>1, <2>2, <1>2 DEF LegalPath
  <2> QED BY <2>1, <2>2
<1>4. \A i \in 1..Len(g) : g[i].to \in VALID_TRANSITIONS[g[i].from]
  <2> TAKE i \in 1..Len(g)
  <2>1. CASE i = Len(g)
    BY <2>1, <1>1, <1>2
  <2>2. CASE i # Len(g)
    <3>1. i \in 1..Len(h)
      BY <2>2, <1>2
    <3> QED BY <3>1, <1>2 DEF LegalPath
  <2> QED BY <2>1, <2>2
<1>5. \A i \in 1..Len(g) : i > 1 => g[i - 1].to = g[i].from
  <2> SUFFICES ASSUME NEW i \in 1..Len(g), i > 1
               PROVE  g[i - 1].to = g[i].from
    OBVIOUS
  <2>1. i - 1 \in 1..Len(h) /\ g[i - 1] = h[i - 1]
    BY <1>2
  <2>2. CASE i = Len(g)
    <3>1. h # <<>> /\ i - 1 = Len(h)
      BY <2>1, <2>2, <1>2
    <3> QED BY <3>1, <2>1, <2>2, <1>1, <1>2 DEF LegalPath
  <2>3. CASE i # Len(g)
    <3>1. i \in 1..Len(h) /\ g[i] = h[i]
      BY <2>3, <1>2
    <3> QED BY <3>1, <2>1 DEF LegalPath
  <2> QED BY <2>2, <2>3
<1>6. LegalPath(g, t)
  BY <1>1, <1>2, <1>3, <1>4, <1>5 DEF LegalPath
<1> QED BY <1>2, <1>6 DEF g, r

\* A prefix stays a prefix when the longer sequence grows.
LEMMA PrefixExtend ==
  ASSUME NEW S, NEW p \in Seq(S), NEW h \in Seq(S), NEW e \in S, IsPrefix(p, h)
  PROVE  IsPrefix(p, Append(h, e))
<1>1. Len(p) <= Len(h) /\ SubSeq(p, 1, Len(p)) = SubSeq(h, 1, Len(p))
  BY DEF IsPrefix
<1>2. Len(Append(h, e)) = Len(h) + 1
  OBVIOUS
<1>3. SubSeq(Append(h, e), 1, Len(p)) = SubSeq(h, 1, Len(p))
  BY <1>1, <1>2
<1> QED BY <1>1, <1>2, <1>3 DEF IsPrefix

LEMMA PrefixSelf ==
  ASSUME NEW S, NEW h \in Seq(S)
  PROVE  IsPrefix(h, h)
BY DEF IsPrefix

LEMMA PrefixEmpty ==
  ASSUME NEW S, NEW h \in Seq(S)
  PROVE  IsPrefix(<<>>, h)
BY DEF IsPrefix

-----------------------------------------------------------------------------
(* The machine and its file, one operation at a time.  MachineInv is        *)
(* inductive for the machine alone; everything the lifecycle does to the    *)
(* machine is a Transition, a Checkpoint, a Resume or nothing.              *)

MachineInv == MachineTypeOK /\ HistoryIsLegal /\ DiskIsBehind

\* What a file that records the machine itself keeps true.
LEMMA SavedFileKeeps ==
  ASSUME NEW h \in Seq(TransitionRecord), NEW s \in AgentState, LegalPath(h, s),
         NEW d \in {[kind |-> "saved", state |-> s, history |-> h], TornFile}
  PROVE  /\ d \in PersistedState
         /\ d.kind = "saved" => LegalPath(d.history, d.state) /\ IsPrefix(d.history, h)
<1>1. IsPrefix(h, h)
  BY PrefixSelf
<1>2. "queued" \in AgentState /\ <<>> \in Seq(TransitionRecord)
  BY DEF AgentState, LIVE_STATES
<1>3. CASE d = [kind |-> "saved", state |-> s, history |-> h]
  BY <1>1, <1>3 DEF PersistedState
<1>4. CASE d = TornFile
  BY <1>2, <1>4 DEF TornFile, PersistedState
<1> QED BY <1>3, <1>4

\* A transition the machine accepts keeps the machine and its file right.
LEMMA TransitionKeeps ==
  ASSUME MachineInv, NEW t \in AgentState, Transition(t), UNCHANGED up
  PROVE  MachineInv' /\ state' # "queued" /\ state' = t
<1> DEFINE r == [from |-> state, to |-> t]
<1>1. /\ state \in AgentState /\ history \in Seq(TransitionRecord) /\ disk \in PersistedState
      /\ LegalPath(history, state)
      /\ t \in VALID_TRANSITIONS[state]
      /\ state' = t /\ history' = Append(history, r)
      /\ disk' \in {[kind |-> "saved", state |-> t, history |-> history'], disk, TornFile}
  BY DEF MachineInv, MachineTypeOK, HistoryIsLegal, Transition, Persist, can_transition_to
<1>2. r \in TransitionRecord
  BY <1>1 DEF TransitionRecord
<1>3. history' \in Seq(TransitionRecord) /\ LegalPath(history', state')
  BY <1>1, LegalExtend
<1>4. disk' \in PersistedState /\ (disk'.kind = "saved" => LegalPath(disk'.history, disk'.state)
                                                        /\ IsPrefix(disk'.history, history'))
  <2>1. CASE disk' = disk
    <3>1. CASE disk.kind = "saved"
      <4>1. disk.history \in Seq(TransitionRecord) /\ IsPrefix(disk.history, history)
        BY <1>1, <3>1 DEF MachineInv, DiskIsBehind, PersistedState
      <4>2. IsPrefix(disk.history, history')
        BY <4>1, <1>1, <1>2, PrefixExtend
      <4> QED BY <4>2, <2>1, <3>1, <1>1 DEF MachineInv, HistoryIsLegal
    <3> QED BY <3>1, <2>1, <1>1
  <2>2. CASE disk' # disk
    BY <2>2, <1>1, <1>3, SavedFileKeeps
  <2> QED BY <2>1, <2>2
<1>5. t # "queued"
  BY <1>1, NothingLeadsToQueued
<1> QED BY <1>1, <1>3, <1>4, <1>5 DEF MachineInv, MachineTypeOK, HistoryIsLegal, DiskIsBehind

\* So do the two transitions of a checkpoint that is taken, or the one of a checkpoint that
\* finds no way back, wherever between the two writes the file stopped.
LEMMA CheckpointKeeps ==
  ASSUME MachineInv, CheckpointTaken
  PROVE  MachineInv' /\ state' # "queued"
<1> DEFINE r1 == [from |-> state, to |-> "recovering"]
           entered == Append(history, r1)
           r2 == [from |-> "recovering", to |-> state]
           closed == Append(entered, r2)
           back == state \in VALID_TRANSITIONS["recovering"] /\ Len(entered) >= 2
<1>1. /\ state \in AgentState /\ history \in Seq(TransitionRecord) /\ disk \in PersistedState
      /\ LegalPath(history, state)
      /\ "recovering" \in VALID_TRANSITIONS[state]
      /\ "recovering" \in AgentState
  BY DEF MachineInv, MachineTypeOK, HistoryIsLegal, CheckpointTaken, can_transition_to,
         AgentState, LIVE_STATES
<1>2. /\ history' = (IF back THEN closed ELSE entered)
      /\ state' = (IF back THEN state ELSE "recovering")
      /\ disk' \in {[kind |-> "saved", state |-> state', history |-> history'],
                     [kind |-> "saved", state |-> "recovering", history |-> entered],
                     disk, TornFile}
      /\ up' = up
  BY DEF CheckpointTaken
<1>3. r1 \in TransitionRecord /\ r2 \in TransitionRecord
  BY <1>1 DEF TransitionRecord
<1>4. entered \in Seq(TransitionRecord) /\ LegalPath(entered, "recovering")
  BY <1>1, LegalExtend
<1>5. back => closed \in Seq(TransitionRecord) /\ LegalPath(closed, state)
  BY <1>1, <1>4, LegalExtend
<1> HIDE DEF back, closed
<1>6. /\ state' \in AgentState
      /\ history' \in Seq(TransitionRecord)
      /\ LegalPath(history', state')
  BY <1>1, <1>2, <1>4, <1>5
<1>7. \A p \in Seq(TransitionRecord) :
         IsPrefix(p, history) \/ IsPrefix(p, entered) => IsPrefix(p, history')
  <2> SUFFICES ASSUME NEW p \in Seq(TransitionRecord),
                      IsPrefix(p, history) \/ IsPrefix(p, entered)
               PROVE  IsPrefix(p, history')
    OBVIOUS
  <2>1. IsPrefix(p, entered)
    BY <1>1, <1>3, PrefixExtend
  <2>2. IsPrefix(p, closed)
    BY <2>1, <1>3, <1>4, PrefixExtend DEF closed
  <2> QED BY <2>1, <2>2, <1>2
<1>8. IsPrefix(entered, entered)
  BY <1>4, PrefixSelf
<1>9. disk' \in PersistedState /\ (disk'.kind = "saved" => LegalPath(disk'.history, disk'.state)
                                                        /\ IsPrefix(disk'.history, history'))
  <2>1. CASE disk' = disk
    BY <2>1, <1>1, <1>7 DEF MachineInv, HistoryIsLegal, DiskIsBehind, PersistedState
  <2>2. CASE disk' = [kind |-> "saved", state |-> "recovering", history |-> entered]
    BY <2>2, <1>1, <1>4, <1>7, <1>8 DEF PersistedState
  <2>3. CASE disk' \in {[kind |-> "saved", state |-> state', history |-> history'], TornFile}
    BY <2>3, <1>6, SavedFileKeeps
  <2> QED BY <2>1, <2>2, <2>3, <1>2
<1>10. state' # "queued"
  <2>1. state # "queued"
    BY <1>1 DEF VALID_TRANSITIONS, AgentState, LIVE_STATES, TERMINAL_STATES
  <2> QED BY <2>1, <1>2
<1>11. up' \in BOOLEAN
  BY <1>2 DEF MachineInv, MachineTypeOK
<1> QED BY <1>6, <1>9, <1>10, <1>11 DEF MachineInv, MachineTypeOK, HistoryIsLegal, DiskIsBehind

\* A process that takes the run up again finds a legal machine, and one that
\* has gone no other way than the process before it.
LEMMA ResumeKeeps ==
  ASSUME MachineInv, Resume
  PROVE  MachineInv' /\ IsPrefix(history', history)
<1>1. history \in Seq(TransitionRecord) /\ disk \in PersistedState /\ disk' = disk /\ up' = TRUE
  BY DEF MachineInv, MachineTypeOK, Resume
<1>2. CASE disk.kind = "saved"
  <2>1. /\ state' = disk.state /\ history' = disk.history
        /\ disk.history \in Seq(TransitionRecord) /\ disk.state \in AgentState
    BY <1>1, <1>2 DEF Resume, Load, PersistedState
  <2>2. IsPrefix(history', history')
    BY <2>1, PrefixSelf
  <2> QED BY <1>1, <1>2, <2>1, <2>2
          DEF MachineInv, MachineTypeOK, HistoryIsLegal, DiskIsBehind
<1>3. CASE disk.kind # "saved"
  <2>1. state' = "queued" /\ history' = <<>> /\ disk'.kind # "saved"
    BY <1>1, <1>3 DEF Resume, Load
  <2>2. "queued" \in AgentState /\ <<>> \in Seq(TransitionRecord) /\ LegalPath(<<>>, "queued")
    BY DEF AgentState, LIVE_STATES, LegalPath
  <2>3. IsPrefix(<<>>, history)
    BY <1>1, PrefixEmpty
  <2> QED BY <1>1, <2>1, <2>2, <2>3
          DEF MachineInv, MachineTypeOK, HistoryIsLegal, DiskIsBehind
<1> QED BY <1>2, <1>3

\* Losing the file, or the process, disturbs nothing.
LEMMA ForgetKeeps ==
  ASSUME MachineInv, ClearPersistence
  PROVE  MachineInv'
<1>1. disk' \in {NoFile, disk} /\ UNCHANGED <<state, history, up>>
  BY DEF ClearPersistence
<1>2. NoFile \in PersistedState /\ NoFile.kind # "saved"
  BY DEF NoFile, PersistedState, AgentState, LIVE_STATES
<1> QED BY <1>1, <1>2 DEF MachineInv, MachineTypeOK, HistoryIsLegal, DiskIsBehind

LEMMA CrashKeeps ==
  ASSUME MachineInv, Crash
  PROVE  MachineInv'
BY DEF MachineInv, MachineTypeOK, HistoryIsLegal, DiskIsBehind, Crash

-----------------------------------------------------------------------------
(* The lifecycle around the machine.                                        *)

LifecycleVarsOK ==
    /\ phase \in {"new", "body"} \cup Exits
    /\ events \in [EventType -> Nat]
    /\ checkpoint \in BOOLEAN
    /\ loaded \in Nat
    /\ unrecorded \in Nat
    /\ strategies \in 0..MaxStrategies

\* The inductive invariant.  RunEndsTerminal is not inductive by itself: the
\* handler of run() needs a machine that has left QUEUED, from where there is
\* no way to FAILED, and that is what the body always has.
LifecycleInv ==
    /\ MachineInv
    /\ LifecycleVarsOK
    /\ phase = "body" => state # "queued"
    /\ RunEndsTerminal

LEMMA NoEventsType == NoEvents \in [EventType -> Nat]
BY DEF NoEvents

LEMMA InitHolds == LifecycleInit => LifecycleInv
<1> SUFFICES ASSUME LifecycleInit
             PROVE  LifecycleInv
  OBVIOUS
<1>1. "queued" \in AgentState /\ <<>> \in Seq(TransitionRecord)
  BY DEF AgentState, LIVE_STATES
<1>2. MachineInv
  BY <1>1 DEF LifecycleInit, MachineInit, MachineInv, MachineTypeOK, HistoryIsLegal,
              DiskIsBehind, LegalPath, NoFile, PersistedState
<1>3. LifecycleVarsOK
  <2>1. 0 \in 0..MaxStrategies
    BY StrategiesAssumption
  <2> QED BY <2>1, NoEventsType DEF LifecycleInit, LifecycleVarsOK
<1> QED BY <1>2, <1>3 DEF LifecycleInit, LifecycleInv, RunEndsTerminal

\* Counting events keeps the counts.
LEMMA WithEventsType ==
  ASSUME NEW c \in [EventType -> Nat], NEW T
  PROVE  WithEvents(c, T) \in [EventType -> Nat]
BY DEF WithEvents

\* The handler of run(): the run ends failed, or it escapes from a machine
\* that was terminal already.
LEMMA FailRunKeeps ==
  ASSUME LifecycleInv, NEW created, FailRun(created), UNCHANGED up, state # "queued"
  PROVE  /\ MachineInv'
         /\ events' \in [EventType -> Nat]
         /\ phase' \in {"failed", "escaped"}
         /\ state' \in TERMINAL_STATES
<1>1. CASE can_transition_to("failed")
  <2>1. /\ Transition("failed") /\ phase' = "failed"
        /\ events' = WithEvents(events, created \cup {"error_occurred"})
    BY <1>1 DEF FailRun, Emit
  <2>2. "failed" \in AgentState /\ "failed" \in TERMINAL_STATES
    BY DEF AgentState, TERMINAL_STATES
  <2>3. MachineInv' /\ state' = "failed"
    BY <2>1, <2>2, TransitionKeeps DEF LifecycleInv
  <2> QED BY <2>1, <2>2, <2>3, WithEventsType DEF LifecycleInv, LifecycleVarsOK
<1>2. CASE ~can_transition_to("failed")
  <2>1. /\ UNCHANGED <<state, history, disk, up>> /\ phase' = "escaped"
        /\ events' = WithEvents(events, created)
    BY <1>2 DEF FailRun, Emit
  <2>2. state \in TERMINAL_STATES
    BY <1>2, LiveStatesCanFail
       DEF can_transition_to, LifecycleInv, MachineInv, MachineTypeOK
  <2>3. MachineInv'
    BY <2>1 DEF LifecycleInv, MachineInv, MachineTypeOK, HistoryIsLegal, DiskIsBehind
  <2> QED BY <2>1, <2>2, <2>3, WithEventsType DEF LifecycleInv, LifecycleVarsOK
<1> QED BY <1>1, <1>2

\* Nothing but the machine's own operations touches MachineInv.
LEMMA MachineUnchanged ==
  ASSUME MachineInv, UNCHANGED machineVars
  PROVE  MachineInv'
BY DEF MachineInv, MachineTypeOK, HistoryIsLegal, DiskIsBehind, machineVars

\* Every step keeps the inductive invariant.
LEMMA StepKeeps == LifecycleInv /\ [LifecycleNext]_allVars => LifecycleInv'
<1> SUFFICES ASSUME LifecycleInv, [LifecycleNext]_allVars
             PROVE  LifecycleInv'
  OBVIOUS
<1> USE DEF Exits
<1>0. /\ MachineInv /\ LifecycleVarsOK /\ RunEndsTerminal
      /\ phase = "body" => state # "queued"
  BY DEF LifecycleInv
<1>1. CASE up /\ EnterRun
  <2>1. UNCHANGED <<checkpoint, loaded, unrecorded, strategies, up>>
    BY <1>1 DEF EnterRun
  <2>2. CASE can_transition_to("analyzing")
    <3>1. /\ Transition("analyzing") /\ phase' = "body"
          /\ events' = WithEvents(events, {"run_created", "run_started"})
      BY <1>1, <2>2 DEF EnterRun, Emit
    <3>2. "analyzing" \in AgentState
      BY DEF AgentState, LIVE_STATES
    <3>3. MachineInv' /\ state' # "queued"
      BY <1>0, <2>1, <3>1, <3>2, TransitionKeeps
    <3> QED BY <1>0, <2>1, <3>1, <3>3, WithEventsType
            DEF LifecycleInv, LifecycleVarsOK, RunEndsTerminal
  <2>3. CASE ~can_transition_to("analyzing")
    <3>1. FailRun({"run_created"})
      BY <1>1, <2>3 DEF EnterRun
    <3>2. state # "queued"
      BY <2>3, QueuedCanStart DEF can_transition_to
    <3> QED BY <1>0, <2>1, <3>1, <3>2, FailRunKeeps
            DEF LifecycleInv, LifecycleVarsOK, RunEndsTerminal
  <2> QED BY <2>2, <2>3
<1>2. CASE up /\ BodyReturns
  <2>1. phase = "body" /\ strategies' = 0 /\ UNCHANGED <<checkpoint, loaded, unrecorded, up>>
    BY <1>2 DEF BodyReturns
  <2>2. CASE can_transition_to("completed")
    <3>1. /\ Transition("completed") /\ phase' = "completed"
          /\ events' = WithEvents(events, {"run_completed"})
      BY <1>2, <2>2 DEF BodyReturns, Emit
    <3>2. "completed" \in AgentState /\ "completed" \in TERMINAL_STATES
      BY DEF AgentState, TERMINAL_STATES
    <3>3. MachineInv' /\ state' = "completed"
      BY <1>0, <2>1, <3>1, <3>2, TransitionKeeps
    <3> QED BY <1>0, <2>1, <3>1, <3>2, <3>3, WithEventsType, StrategiesAssumption
            DEF LifecycleInv, LifecycleVarsOK, RunEndsTerminal
  <2>3. CASE ~can_transition_to("completed")
    <3>1. FailRun({})
      BY <1>2, <2>3 DEF BodyReturns
    <3> QED BY <1>0, <2>1, <3>1, FailRunKeeps, StrategiesAssumption
            DEF LifecycleInv, LifecycleVarsOK, RunEndsTerminal
  <2> QED BY <2>2, <2>3
<1>3. CASE up /\ BodyRaises
  <2>1. /\ phase = "body" /\ strategies' = 0 /\ UNCHANGED <<checkpoint, loaded, unrecorded, up>>
        /\ FailRun({})
    BY <1>3 DEF BodyRaises
  <2> QED BY <1>0, <2>1, FailRunKeeps, StrategiesAssumption
          DEF LifecycleInv, LifecycleVarsOK, RunEndsTerminal
<1>4. CASE up /\ BodyCancelled
  <2>1. /\ UNCHANGED machineVars /\ UNCHANGED <<events, checkpoint, loaded, unrecorded>>
        /\ phase' = "cancelled" /\ strategies' = 0
    BY <1>4 DEF BodyCancelled, machineVars
  <2> QED BY <1>0, <2>1, MachineUnchanged, StrategiesAssumption
          DEF LifecycleInv, LifecycleVarsOK, RunEndsTerminal
<1>5. ASSUME NEW target \in AgentState, up, TransitionTo(target)
      PROVE  LifecycleInv'
  <2>1. /\ phase = "body" /\ Transition(target)
        /\ events' = WithEvents(events, {"state_changed"})
        /\ UNCHANGED <<phase, checkpoint, loaded, unrecorded, strategies, up>>
    BY <1>5 DEF TransitionTo, Emit
  <2>2. MachineInv' /\ state' # "queued"
    BY <1>0, <2>1, TransitionKeeps
  <2> QED BY <1>0, <2>1, <2>2, WithEventsType
          DEF LifecycleInv, LifecycleVarsOK, RunEndsTerminal
<1>6. CASE up /\ Checkpoint
  <2>1. CASE CheckpointTaken
    <3>1. /\ phase = "body" /\ checkpoint' = TRUE
          /\ events' = WithEvents(events, {"checkpoint_created"})
          /\ UNCHANGED <<phase, loaded, unrecorded, strategies, up>>
      BY <2>1 DEF CheckpointTaken, Emit
    <3>2. MachineInv' /\ state' # "queued"
      BY <1>0, <2>1, CheckpointKeeps
    <3> QED BY <1>0, <3>1, <3>2, WithEventsType
            DEF LifecycleInv, LifecycleVarsOK, RunEndsTerminal
  <2>2. CASE CheckpointRaises
    <3>1. /\ phase = "body" /\ Transition("recovering") /\ unrecorded' = unrecorded + 1
          /\ UNCHANGED <<events, phase, checkpoint, loaded, strategies, up>>
      BY <2>2 DEF CheckpointRaises
    <3>2. MachineInv' /\ state' # "queued"
      BY <1>0, <3>1, TransitionKeeps DEF AgentState, LIVE_STATES
    <3> QED BY <1>0, <3>1, <3>2 DEF LifecycleInv, LifecycleVarsOK, RunEndsTerminal
  <2> QED BY <1>6, <2>1, <2>2 DEF Checkpoint
<1>7. CASE up /\ StartRecovery
  <2>1. /\ UNCHANGED <<machineVars, phase, checkpoint, loaded, unrecorded>>
        /\ strategies' \in 1..MaxStrategies
        /\ events' = WithEvents(events, {"recovery_started"})
    BY <1>7 DEF StartRecovery, Emit
  <2>2. MachineInv' /\ state' = state
    BY <1>0, <2>1, MachineUnchanged DEF machineVars
  <2> QED BY <1>0, <2>1, <2>2, WithEventsType, StrategiesAssumption
          DEF LifecycleInv, LifecycleVarsOK, RunEndsTerminal
<1>8. CASE up /\ StrategyEnds
  <2>1. /\ UNCHANGED <<machineVars, phase, checkpoint, loaded, unrecorded>>
        /\ strategies > 0
        /\ strategies' = 0 \/ strategies' = strategies - 1
        /\ events' = WithEvents(events, {"recovery_started"}) \/ events' = events
    BY <1>8 DEF StrategyEnds, Emit
  <2>2. MachineInv' /\ state' = state
    BY <1>0, <2>1, MachineUnchanged DEF machineVars
  <2>3. strategies' \in 0..MaxStrategies
    BY <1>0, <2>1, StrategiesAssumption DEF LifecycleVarsOK
  <2> QED BY <1>0, <2>1, <2>2, <2>3, WithEventsType
          DEF LifecycleInv, LifecycleVarsOK, RunEndsTerminal
<1>9. CASE Forget
  <2>1. ClearPersistence /\ UNCHANGED lifecycleVars /\ state' = state
    BY <1>9 DEF Forget, ClearPersistence
  <2>2. MachineInv'
    BY <1>0, <2>1, ForgetKeeps
  <2> QED BY <1>0, <2>1, <2>2
          DEF LifecycleInv, LifecycleVarsOK, RunEndsTerminal, lifecycleVars
<1>10. CASE LifecycleCrash
  <2>1. Crash /\ UNCHANGED lifecycleVars /\ state' = state
    BY <1>10 DEF LifecycleCrash, Crash
  <2>2. MachineInv'
    BY <1>0, <2>1, CrashKeeps
  <2> QED BY <1>0, <2>1, <2>2
          DEF LifecycleInv, LifecycleVarsOK, RunEndsTerminal, lifecycleVars
<1>11. CASE LifecycleResume
  <2>1. /\ Resume /\ phase' = "new" /\ events' = NoEvents /\ checkpoint' = FALSE
        /\ loaded' = Len(history') /\ unrecorded' = 0 /\ strategies' = 0
    BY <1>11 DEF LifecycleResume
  <2>2. MachineInv'
    BY <1>0, <2>1, ResumeKeeps
  <2>3. loaded' \in Nat /\ unrecorded' \in Nat
    BY <2>1, <2>2 DEF MachineInv, MachineTypeOK
  <2>4. 0 \in 0..MaxStrategies
    BY StrategiesAssumption
  <2> QED BY <2>1, <2>2, <2>3, <2>4, NoEventsType
          DEF LifecycleInv, LifecycleVarsOK, RunEndsTerminal
<1>12. CASE UNCHANGED allVars
  <2>1. UNCHANGED machineVars /\ UNCHANGED lifecycleVars /\ state' = state
    BY <1>12 DEF allVars, machineVars
  <2> QED BY <1>0, <2>1, MachineUnchanged
          DEF LifecycleInv, LifecycleVarsOK, RunEndsTerminal, lifecycleVars
<1> QED BY <1>1, <1>2, <1>3, <1>4, <1>5, <1>6, <1>7, <1>8, <1>9, <1>10, <1>11, <1>12
        DEF LifecycleNext

THEOREM LifecycleInvariant == LifecycleSpec => []LifecycleInv
BY InitHolds, StepKeeps, PTL DEF LifecycleSpec, allVars

-----------------------------------------------------------------------------
(* What follows from the invariant.                                         *)

\* Every variable of a run keeps its type, whatever the caller does.
THEOREM TypeCorrect == LifecycleSpec => []LifecycleTypeOK
<1>1. LifecycleInv => LifecycleTypeOK
  BY DEF LifecycleInv, LifecycleVarsOK, LifecycleTypeOK, MachineInv
<1> QED BY <1>1, LifecycleInvariant, PTL

\* "Every state transition is validated and logged": the history and the
\* state file of a run are legal paths from QUEUED to the state they name.
THEOREM HistoryAlwaysLegal == LifecycleSpec => []HistoryIsLegal
<1>1. LifecycleInv => HistoryIsLegal
  BY DEF LifecycleInv, MachineInv
<1> QED BY <1>1, LifecycleInvariant, PTL

\* No history goes on after a terminal state: the next record would have to
\* start where the terminal one ended, and the table has no such entry.
THEOREM TerminalAlwaysLast == LifecycleSpec => []TerminalIsLast
<1>1. LifecycleInv => TerminalIsLast
  <2> SUFFICES ASSUME LifecycleInv,
                      NEW i \in 1..Len(history), history[i].to \in TERMINAL_STATES, i # Len(history)
               PROVE  FALSE
    BY DEF TerminalIsLast
  <2>1. history \in Seq(TransitionRecord) /\ LegalPath(history, state)
    BY DEF LifecycleInv, MachineInv, MachineTypeOK, HistoryIsLegal
  <2>2. i + 1 \in 1..Len(history)
    BY <2>1
  <2>3. history[i].to = history[i + 1].from
    <3>1. (i + 1) - 1 = i /\ i + 1 > 1
      BY <2>2
    <3> QED BY <2>1, <2>2, <3>1 DEF LegalPath
  <2>4. history[i + 1].to \in VALID_TRANSITIONS[history[i + 1].from]
    BY <2>1, <2>2 DEF LegalPath
  <2> QED BY <2>3, <2>4, TerminalHasNoSuccessor
<1> QED BY <1>1, LifecycleInvariant, PTL

\* The state file never records anything the run did not go through.
THEOREM DiskAlwaysBehind == LifecycleSpec => []DiskIsBehind
<1>1. LifecycleInv => DiskIsBehind
  BY DEF LifecycleInv, MachineInv
<1> QED BY <1>1, LifecycleInvariant, PTL

\* A run left by a return or an exception is in a terminal state.
THEOREM RunsEndTerminal == LifecycleSpec => []RunEndsTerminal
<1>1. LifecycleInv => RunEndsTerminal
  BY DEF LifecycleInv
<1> QED BY <1>1, LifecycleInvariant, PTL

\* A process that takes the run up again may have forgotten transitions, but
\* has no other ones: only Resume brings a process up, and DiskIsBehind holds.
THEOREM ResumesForgetOnly == LifecycleSpec => ResumeForgetsOnly
<1>1. LifecycleInv /\ [LifecycleNext]_allVars =>
        [~up /\ up' => IsPrefix(history', history)]_machineVars
  <2> SUFFICES ASSUME LifecycleInv, [LifecycleNext]_allVars, ~up, up'
               PROVE  IsPrefix(history', history)
    OBVIOUS
  <2>1. LifecycleResume
    BY DEF LifecycleNext, Forget, ClearPersistence, LifecycleCrash, Crash, allVars, machineVars
  <2> QED BY <2>1, ResumeKeeps DEF LifecycleInv, LifecycleResume
<1> QED BY <1>1, LifecycleInvariant, PTL DEF LifecycleSpec, ResumeForgetsOnly, allVars

-----------------------------------------------------------------------------
(* The events.                                                              *)

\* No operation but run() itself counts RUN_COMPLETED or ERROR_OCCURRED.
LEMMA OutcomeCounts ==
  ASSUME NEW c \in [EventType -> Nat], NEW T \in SUBSET EventType
  PROVE  /\ "run_completed" \in T => WithEvents(c, T)["run_completed"] > 0
         /\ "run_completed" \notin T => WithEvents(c, T)["run_completed"] = c["run_completed"]
         /\ "error_occurred" \in T => WithEvents(c, T)["error_occurred"] > 0
         /\ "error_occurred" \notin T => WithEvents(c, T)["error_occurred"] = c["error_occurred"]
BY DEF WithEvents, EventType

LEMMA FailRunOutcome ==
  ASSUME LifecycleInv, OutcomeEventsAgree, phase \in {"new", "body"},
         NEW created \in SUBSET {"run_created"}, FailRun(created)
  PROVE  OutcomeEventsAgree'
<1> DEFINE T == created \cup {"error_occurred"}
<1>1. /\ events \in [EventType -> Nat]
      /\ created \in SUBSET EventType /\ T \in SUBSET EventType
      /\ ~(events["run_completed"] > 0) /\ ~(events["error_occurred"] > 0)
  BY DEF LifecycleInv, LifecycleVarsOK, OutcomeEventsAgree, EventType
<1>2. CASE can_transition_to("failed")
  <2>1. events' = WithEvents(events, T) /\ phase' = "failed" /\ state' = "failed"
    BY <1>2 DEF FailRun, Emit, Transition
  <2>2. events'["run_completed"] = events["run_completed"] /\ events'["error_occurred"] > 0
    BY <1>1, <2>1, OutcomeCounts
  <2> QED BY <1>1, <2>1, <2>2 DEF OutcomeEventsAgree
<1>3. CASE ~can_transition_to("failed")
  <2>1. events' = WithEvents(events, created) /\ phase' = "escaped"
    BY <1>3 DEF FailRun, Emit
  <2>2. /\ events'["run_completed"] = events["run_completed"]
        /\ events'["error_occurred"] = events["error_occurred"]
    BY <1>1, <2>1, OutcomeCounts
  <2> QED BY <1>1, <2>1, <2>2 DEF OutcomeEventsAgree
<1> QED BY <1>2, <1>3

\* Every step keeps the outcome events in agreement with the way run() ended.
LEMMA OutcomeStep ==
  LifecycleInv /\ OutcomeEventsAgree /\ [LifecycleNext]_allVars => OutcomeEventsAgree'
<1> SUFFICES ASSUME LifecycleInv, OutcomeEventsAgree, [LifecycleNext]_allVars
             PROVE  OutcomeEventsAgree'
  OBVIOUS
<1>0. events \in [EventType -> Nat]
  BY DEF LifecycleInv, LifecycleVarsOK
\* A step inside the body that counts none of the two.
<1>a. ASSUME NEW T \in SUBSET EventType, "run_completed" \notin T, "error_occurred" \notin T,
             events' = WithEvents(events, T), phase \in {"new", "body"}, phase' = "body"
      PROVE  OutcomeEventsAgree'
  <2>1. /\ events'["run_completed"] = events["run_completed"]
        /\ events'["error_occurred"] = events["error_occurred"]
    BY <1>0, <1>a, OutcomeCounts
  <2> QED BY <1>a, <2>1 DEF OutcomeEventsAgree
<1>1. CASE up /\ EnterRun
  <2>1. CASE can_transition_to("analyzing")
    <3>1. /\ phase = "new" /\ phase' = "body"
          /\ events' = WithEvents(events, {"run_created", "run_started"})
      BY <1>1, <2>1 DEF EnterRun, Emit
    <3> QED BY <3>1, <1>a DEF EventType
  <2>2. CASE ~can_transition_to("analyzing")
    <3>1. phase = "new" /\ FailRun({"run_created"})
      BY <1>1, <2>2 DEF EnterRun
    <3> QED BY <3>1, FailRunOutcome
  <2> QED BY <2>1, <2>2
<1>2. CASE up /\ BodyReturns
  <2>1. CASE can_transition_to("completed")
    <3>1. /\ phase = "body" /\ phase' = "completed" /\ state' = "completed"
          /\ events' = WithEvents(events, {"run_completed"})
      BY <1>2, <2>1 DEF BodyReturns, Emit, Transition
    <3>2. /\ events'["run_completed"] > 0
          /\ events'["error_occurred"] = events["error_occurred"]
      <4>1. {"run_completed"} \in SUBSET EventType
        BY DEF EventType
      <4> QED BY <1>0, <3>1, <4>1, OutcomeCounts
    <3> QED BY <3>1, <3>2 DEF OutcomeEventsAgree
  <2>2. CASE ~can_transition_to("completed")
    <3>1. phase = "body" /\ FailRun({})
      BY <1>2, <2>2 DEF BodyReturns
    <3> QED BY <3>1, FailRunOutcome
  <2> QED BY <2>1, <2>2
<1>3. CASE up /\ BodyRaises
  BY <1>3, FailRunOutcome DEF BodyRaises
<1>4. CASE up /\ BodyCancelled
  BY <1>4 DEF BodyCancelled, OutcomeEventsAgree
<1>5. ASSUME NEW target \in AgentState, up, TransitionTo(target)
      PROVE  OutcomeEventsAgree'
  BY <1>5, <1>a DEF TransitionTo, Emit, EventType
<1>6. CASE up /\ Checkpoint
  <2>1. CASE CheckpointTaken
    BY <2>1, <1>a DEF CheckpointTaken, Emit, EventType
  <2>2. CASE CheckpointRaises
    BY <2>2 DEF CheckpointRaises, OutcomeEventsAgree
  <2> QED BY <1>6, <2>1, <2>2 DEF Checkpoint
<1>7. CASE up /\ StartRecovery
  BY <1>7, <1>a DEF StartRecovery, Emit, EventType
<1>8. CASE up /\ StrategyEnds
  <2>1. CASE UNCHANGED events
    BY <1>8, <2>1 DEF StrategyEnds, OutcomeEventsAgree, machineVars
  <2>2. CASE ~UNCHANGED events
    BY <1>8, <2>2, <1>a DEF StrategyEnds, Emit, EventType
  <2> QED BY <2>1, <2>2
<1>9. CASE Forget \/ LifecycleCrash \/ UNCHANGED allVars
  BY <1>9 DEF Forget, ClearPersistence, LifecycleCrash, Crash, allVars, machineVars,
              lifecycleVars, OutcomeEventsAgree
<1>10. CASE LifecycleResume
  <2>1. phase' = "new" /\ events'["run_completed"] = 0 /\ events'["error_occurred"] = 0
    BY <1>10 DEF LifecycleResume, NoEvents, EventType
  <2> QED BY <2>1 DEF OutcomeEventsAgree
<1> QED BY <1>1, <1>2, <1>3, <1>4, <1>5, <1>6, <1>7, <1>8, <1>9, <1>10 DEF LifecycleNext

\* RUN_COMPLETED and ERROR_OCCURRED tell the truth about every run.
THEOREM OutcomesAgree == LifecycleSpec => []OutcomeEventsAgree
<1>1. LifecycleInit => OutcomeEventsAgree
  BY DEF LifecycleInit, OutcomeEventsAgree, NoEvents, EventType
<1> QED BY <1>1, OutcomeStep, LifecycleInvariant, PTL DEF LifecycleSpec, allVars

\* A run left by a return or an exception is terminal and announced as what
\* it was, for any body: the two parts of RunEndsHonestly (core/lifecycle.py).
THEOREM RunsAreHonest == LifecycleSpec => []RunEndsHonestly
<1>1. RunEndsTerminal /\ OutcomeEventsAgree => RunEndsHonestly
  BY DEF RunEndsHonestly
<1> QED BY <1>1, RunsEndTerminal, OutcomesAgree, PTL

-----------------------------------------------------------------------------
(* The event trace and the history.                                         *)

\* The events that stand for one transition each.
PlainCount(c) ==
    c["run_started"] + c["run_completed"] + c["error_occurred"] + c["state_changed"]

\* Emitting a set of types adds two for each of them.
LEMMA PlainCounts ==
  ASSUME NEW c \in [EventType -> Nat]
  PROVE  /\ PlainCount(c) \in Nat /\ c["checkpoint_created"] \in Nat
         /\ \A e \in {"run_started", "run_completed", "error_occurred", "state_changed"} :
               \A T \in {{e}, {"run_created", e}} :
                  /\ PlainCount(WithEvents(c, T)) = PlainCount(c) + 2
                  /\ WithEvents(c, T)["checkpoint_created"] = c["checkpoint_created"]
         /\ \A T \in {{}, {"run_created"}, {"recovery_started"}} :
               /\ PlainCount(WithEvents(c, T)) = PlainCount(c)
               /\ WithEvents(c, T)["checkpoint_created"] = c["checkpoint_created"]
         /\ PlainCount(WithEvents(c, {"checkpoint_created"})) = PlainCount(c)
         /\ WithEvents(c, {"checkpoint_created"})["checkpoint_created"]
              = c["checkpoint_created"] + 2
<1>1. \A e \in EventType : c[e] \in Nat
  OBVIOUS
<1>2. {"run_created", "run_started", "run_completed", "error_occurred", "state_changed",
       "checkpoint_created", "recovery_started"} = EventType
  BY DEF EventType
<1>3. \A T, e : e \in EventType =>
        WithEvents(c, T)[e] = IF e \in T THEN c[e] + 2 ELSE c[e]
  BY DEF WithEvents
<1>4. PlainCount(c) \in Nat /\ c["checkpoint_created"] \in Nat
  BY <1>1, <1>2 DEF PlainCount
<1>5. ASSUME NEW e \in {"run_started", "run_completed", "error_occurred", "state_changed"},
             NEW T \in {{e}, {"run_created", e}}
      PROVE  /\ PlainCount(WithEvents(c, T)) = PlainCount(c) + 2
             /\ WithEvents(c, T)["checkpoint_created"] = c["checkpoint_created"]
  BY <1>1, <1>2, <1>3, <1>5 DEF PlainCount
<1>6. ASSUME NEW T \in {{}, {"run_created"}, {"recovery_started"}}
      PROVE  /\ PlainCount(WithEvents(c, T)) = PlainCount(c)
             /\ WithEvents(c, T)["checkpoint_created"] = c["checkpoint_created"]
  BY <1>1, <1>2, <1>3, <1>6 DEF PlainCount
<1>7. /\ PlainCount(WithEvents(c, {"checkpoint_created"})) = PlainCount(c)
      /\ WithEvents(c, {"checkpoint_created"})["checkpoint_created"]
           = c["checkpoint_created"] + 2
  BY <1>1, <1>2, <1>3 DEF PlainCount
<1> QED BY <1>4, <1>5, <1>6, <1>7

\* The invariant in terms of PlainCount.
LEMMA TraceIs ==
  TraceAccountsForHistory <=>
    /\ PlainCount(events) + events["checkpoint_created"] <= 2 * (Len(history) - loaded - unrecorded)
    /\ 2 * (Len(history) - loaded - unrecorded) <= PlainCount(events) + 2 * events["checkpoint_created"]
BY DEF TraceAccountsForHistory, PlainCount

LEMMA TransitionLengthens ==
  ASSUME LifecycleInv, NEW t, Transition(t)
  PROVE  Len(history) \in Nat /\ Len(history') = Len(history) + 1
BY DEF LifecycleInv, MachineInv, MachineTypeOK, Transition

\* One transition with its event.
LEMMA TraceTransition ==
  ASSUME LifecycleInv, TraceAccountsForHistory, NEW t, Transition(t), UNCHANGED <<loaded, unrecorded>>,
         NEW e \in {"run_started", "run_completed", "error_occurred", "state_changed"},
         NEW T \in {{e}, {"run_created", e}}, events' = WithEvents(events, T)
  PROVE  TraceAccountsForHistory'
<1>1. events \in [EventType -> Nat] /\ loaded \in Nat /\ unrecorded \in Nat
  BY DEF LifecycleInv, LifecycleVarsOK
<1>2. /\ PlainCount(events') = PlainCount(events) + 2
      /\ events'["checkpoint_created"] = events["checkpoint_created"]
      /\ PlainCount(events) \in Nat /\ events["checkpoint_created"] \in Nat
  BY <1>1, PlainCounts
<1>3. Len(history) \in Nat /\ Len(history') = Len(history) + 1
  BY TransitionLengthens
<1>4. /\ PlainCount(events) + events["checkpoint_created"] <= 2 * (Len(history) - loaded - unrecorded)
      /\ 2 * (Len(history) - loaded - unrecorded) <= PlainCount(events) + 2 * events["checkpoint_created"]
  BY TraceIs
<1>5. /\ PlainCount(events') + events'["checkpoint_created"] <= 2 * (Len(history') - loaded' - unrecorded')
      /\ 2 * (Len(history') - loaded' - unrecorded') <= PlainCount(events') + 2 * events'["checkpoint_created"]
  BY <1>1, <1>2, <1>3, <1>4
<1> QED BY <1>5 DEF TraceAccountsForHistory, PlainCount

\* A step that makes no transition and counts no event of one.
LEMMA TraceStutter ==
  ASSUME LifecycleInv, TraceAccountsForHistory, UNCHANGED <<history, loaded, unrecorded>>,
         NEW T \in {{}, {"run_created"}, {"recovery_started"}},
         events' = WithEvents(events, T) \/ events' = events
  PROVE  TraceAccountsForHistory'
<1>1. events \in [EventType -> Nat]
  BY DEF LifecycleInv, LifecycleVarsOK
<1>2. /\ PlainCount(events') = PlainCount(events)
      /\ events'["checkpoint_created"] = events["checkpoint_created"]
  BY <1>1, PlainCounts
<1>3. /\ PlainCount(events) + events["checkpoint_created"] <= 2 * (Len(history) - loaded - unrecorded)
      /\ 2 * (Len(history) - loaded - unrecorded) <= PlainCount(events) + 2 * events["checkpoint_created"]
  BY TraceIs
<1>4. /\ PlainCount(events') + events'["checkpoint_created"] <= 2 * (Len(history') - loaded' - unrecorded')
      /\ 2 * (Len(history') - loaded' - unrecorded') <= PlainCount(events') + 2 * events'["checkpoint_created"]
  BY <1>2, <1>3
<1> QED BY <1>4 DEF TraceAccountsForHistory, PlainCount

LEMMA FailRunTraced ==
  ASSUME LifecycleInv, TraceAccountsForHistory, UNCHANGED <<loaded, unrecorded>>,
         NEW created \in {{}, {"run_created"}}, FailRun(created)
  PROVE  TraceAccountsForHistory'
<1>1. CASE can_transition_to("failed")
  <2>1. Transition("failed") /\ events' = WithEvents(events, created \cup {"error_occurred"})
    BY <1>1 DEF FailRun, Emit
  <2>2. created \cup {"error_occurred"} \in {{"error_occurred"}, {"run_created", "error_occurred"}}
    OBVIOUS
  <2> QED BY <2>1, <2>2, TraceTransition
<1>2. CASE ~can_transition_to("failed")
  BY <1>2, TraceStutter DEF FailRun, Emit
<1> QED BY <1>1, <1>2

\* A checkpoint makes two transitions under one event, or one when it finds
\* no way back.
LEMMA CheckpointTraced ==
  ASSUME LifecycleInv, TraceAccountsForHistory, CheckpointTaken
  PROVE  TraceAccountsForHistory'
<1>1. /\ events \in [EventType -> Nat] /\ loaded \in Nat /\ unrecorded \in Nat
      /\ history \in Seq(TransitionRecord) /\ state \in AgentState
      /\ "recovering" \in AgentState
      /\ loaded' = loaded /\ unrecorded' = unrecorded
      /\ events' = WithEvents(events, {"checkpoint_created"})
  BY DEF LifecycleInv, LifecycleVarsOK, MachineInv, MachineTypeOK, CheckpointTaken, Emit,
         AgentState, LIVE_STATES
<1>2. /\ PlainCount(events') = PlainCount(events)
      /\ events'["checkpoint_created"] = events["checkpoint_created"] + 2
      /\ PlainCount(events) \in Nat /\ events["checkpoint_created"] \in Nat
  BY <1>1, PlainCounts
<1>3. Len(history) \in Nat /\ Len(history') \in {Len(history) + 1, Len(history) + 2}
  <2>1. \/ history' = Append(history, [from |-> state, to |-> "recovering"])
        \/ history' = Append(Append(history, [from |-> state, to |-> "recovering"]),
                             [from |-> "recovering", to |-> state])
    BY DEF CheckpointTaken
  <2>2. /\ [from |-> state, to |-> "recovering"] \in TransitionRecord
        /\ [from |-> "recovering", to |-> state] \in TransitionRecord
    BY <1>1 DEF TransitionRecord
  <2> QED BY <1>1, <2>1, <2>2
<1>4. /\ PlainCount(events) + events["checkpoint_created"] <= 2 * (Len(history) - loaded - unrecorded)
      /\ 2 * (Len(history) - loaded - unrecorded) <= PlainCount(events) + 2 * events["checkpoint_created"]
  BY TraceIs
<1>5. /\ PlainCount(events') + events'["checkpoint_created"] <= 2 * (Len(history') - loaded' - unrecorded')
      /\ 2 * (Len(history') - loaded' - unrecorded') <= PlainCount(events') + 2 * events'["checkpoint_created"]
  <2>1. PICK n \in Nat, m \in Nat, was \in Nat, lost \in Nat :
            /\ n = Len(history) /\ m = Len(history') /\ was = loaded /\ lost = unrecorded
            /\ m = n + 1 \/ m = n + 2
    BY <1>1, <1>3
  <2>2. PICK plain \in Nat, points \in Nat :
            plain = PlainCount(events) /\ points = events["checkpoint_created"]
    BY <1>2
  <2>3. plain + points <= 2 * (n - was - lost) /\ 2 * (n - was - lost) <= plain + 2 * points
    BY <1>4, <2>1, <2>2
  <2>4. plain + (points + 2) <= 2 * (m - was - lost) /\ 2 * (m - was - lost) <= plain + 2 * (points + 2)
    BY <2>1, <2>3
  <2> QED
    BY <1>1, <1>2, <2>1, <2>2, <2>4
<1> QED BY <1>5 DEF TraceAccountsForHistory, PlainCount

\* One that raises makes its one transition without an event, and is counted.
LEMMA RaisedTraced ==
  ASSUME LifecycleInv, TraceAccountsForHistory, CheckpointRaises
  PROVE  TraceAccountsForHistory'
<1>1. /\ Transition("recovering") /\ unrecorded' = unrecorded + 1
      /\ events' = events /\ loaded' = loaded
  BY DEF CheckpointRaises
<1>2. Len(history) \in Nat /\ Len(history') = Len(history) + 1
  BY <1>1, TransitionLengthens
<1>3. loaded \in Nat /\ unrecorded \in Nat
  BY DEF LifecycleInv, LifecycleVarsOK
<1>4. Len(history') - loaded' - unrecorded' = Len(history) - loaded - unrecorded
  BY <1>1, <1>2, <1>3
<1> QED BY <1>1, <1>4, Zenon DEF TraceAccountsForHistory

\* Every step keeps the trace in step with the history.
LEMMA TraceStep ==
  LifecycleInv /\ TraceAccountsForHistory /\ [LifecycleNext]_allVars
    => TraceAccountsForHistory'
<1> SUFFICES ASSUME LifecycleInv, TraceAccountsForHistory, [LifecycleNext]_allVars
             PROVE  TraceAccountsForHistory'
  OBVIOUS
<1>1. CASE up /\ EnterRun
  <2>1. CASE can_transition_to("analyzing")
    BY <1>1, <2>1, TraceTransition DEF EnterRun, Emit
  <2>2. CASE ~can_transition_to("analyzing")
    BY <1>1, <2>2, FailRunTraced DEF EnterRun
  <2> QED BY <2>1, <2>2
<1>2. CASE up /\ BodyReturns
  <2>1. CASE can_transition_to("completed")
    BY <1>2, <2>1, TraceTransition DEF BodyReturns, Emit
  <2>2. CASE ~can_transition_to("completed")
    BY <1>2, <2>2, FailRunTraced DEF BodyReturns
  <2> QED BY <2>1, <2>2
<1>3. CASE up /\ BodyRaises
  BY <1>3, FailRunTraced DEF BodyRaises
<1>4. CASE up /\ BodyCancelled
  BY <1>4, TraceStutter DEF BodyCancelled
<1>5. ASSUME NEW target \in AgentState, up, TransitionTo(target)
      PROVE  TraceAccountsForHistory'
  BY <1>5, TraceTransition DEF TransitionTo, Emit
<1>6. CASE up /\ Checkpoint
  BY <1>6, CheckpointTraced, RaisedTraced DEF Checkpoint
<1>7. CASE up /\ StartRecovery
  BY <1>7, TraceStutter DEF StartRecovery, Emit, machineVars
<1>8. CASE up /\ StrategyEnds
  BY <1>8, TraceStutter DEF StrategyEnds, Emit, machineVars
<1>9. CASE Forget \/ LifecycleCrash \/ UNCHANGED allVars
  BY <1>9, TraceStutter DEF Forget, ClearPersistence, LifecycleCrash, Crash, allVars,
     machineVars, lifecycleVars
<1>10. CASE LifecycleResume
  <2>1. Len(history') \in Nat /\ loaded' = Len(history') /\ unrecorded' = 0 /\ events' = NoEvents
    BY <1>10, ResumeKeeps
       DEF LifecycleResume, LifecycleInv, MachineInv, MachineTypeOK
  <2>2. \A e \in EventType : events'[e] = 0
    BY <2>1 DEF NoEvents
  <2> QED BY <2>1, <2>2 DEF TraceAccountsForHistory, EventType
<1> QED BY <1>1, <1>2, <1>3, <1>4, <1>5, <1>6, <1>7, <1>8, <1>9, <1>10 DEF LifecycleNext

\* Every transition since the machine was loaded is in the event trace, and
\* the trace announces no transition that was not made.
THEOREM TraceAlwaysAccounts == LifecycleSpec => []TraceAccountsForHistory
<1>1. LifecycleInit => TraceAccountsForHistory
  <2> SUFFICES ASSUME LifecycleInit
               PROVE  TraceAccountsForHistory
    OBVIOUS
  <2>1. Len(history) = 0 /\ loaded = 0 /\ unrecorded = 0
    BY DEF LifecycleInit, MachineInit
  <2>2. \A e \in EventType : events[e] = 0
    BY DEF LifecycleInit, NoEvents
  <2> QED BY <2>1, <2>2 DEF TraceAccountsForHistory, EventType
<1> QED BY <1>1, TraceStep, LifecycleInvariant, PTL DEF LifecycleSpec, allVars

-----------------------------------------------------------------------------
(* RuntimeAgent.execute.  The machine of a run of the agent only goes from  *)
(* queued to analyzing and from there to completed or failed; Control says  *)
(* where, Counted what is used by then.                                     *)

Live == Awaits \cup {"looping"}

AgentTypeOK ==
    /\ pc \in {"idle", "entering", "returned", "cancelled"} \cup Live
    /\ level \in Levels
    /\ memory \in BOOLEAN
    /\ max_turns \in TurnLimits
    /\ tracker \in Tracker
    /\ turn \in Nat
    /\ calls \in 0..MaxCalls
    /\ output \in Outputs
    /\ learned \subseteq {"success", "failure"}
    /\ saved \in BOOLEAN

(* Where the lifecycle is, and what is known by then, at each place of execute. *)
Control ==
    /\ pc \in {"idle", "entering"} => phase = "new" /\ state = "queued"
    /\ pc \in Live => phase = "body" /\ state = "analyzing"
    /\ pc \in Live \cup {"entering"} => result = "none" /\ learned = {} /\ saved = FALSE
    /\ pc \in {"entering", "thinking", "recalling", "looping", "asking", "tools"} => output = "none"
    /\ pc \in {"verifying", "saving"} => output # "none"
    /\ pc = "saving" => memory = TRUE /\ level # "none"

Unused == turn = 0 /\ tracker.turns = 0 /\ tracker.model_calls = 0
          /\ tracker.tool_calls = 0 /\ tracker.tokens = 0

(* What the check at the top of a turn leaves for the turn that follows. *)
Counted ==
    /\ pc \in {"idle", "entering", "thinking", "recalling"} => Unused
    /\ pc \in {"looping", "asking"} => turn = tracker.turns /\ turn < max_turns
    /\ pc = "asking" => /\ tracker.tokens < MaxTokens
                        /\ tracker.model_calls < MaxModelCalls
                        /\ tracker.tool_calls < MaxToolCalls
    /\ pc = "tools" => /\ tracker.turns = turn + 1
                       /\ calls > 0
                       /\ tracker.tool_calls + calls < MaxToolCalls + MaxCalls
    /\ output = "unfinished" => turn = max_turns

AgentInv == AgentTypeOK /\ Control /\ Counted /\ OverrunIsOneTurn /\ ExitAgrees

-----------------------------------------------------------------------------
(* The tracker and the machine.                                            *)

LEMMA LimitsAreNatural ==
    /\ TurnLimits \subseteq Nat \ {0} /\ MaxCalls \in Nat \ {0}
    /\ MaxTokens \in Nat \ {0} /\ MaxTime \in Nat \ {0}
    /\ MaxToolCalls \in Nat \ {0} /\ MaxModelCalls \in Nat \ {0}
    /\ Usage \subseteq Nat /\ MaxDelay \in Nat
BY RuntimeAssumption, BudgetAssumption

LEMMA NewTrackerType == NewTracker \in Tracker
BY LimitsAreNatural DEF NewTracker, Tracker

(* Time passes: the counts stay. *)
LEMMA ElapseKeeps ==
    ASSUME NEW t \in Tracker, NEW d \in 0..MaxDelay
    PROVE  /\ Elapse(t, d) \in Tracker
           /\ Elapse(t, d).tokens = t.tokens /\ Elapse(t, d).turns = t.turns
           /\ Elapse(t, d).tool_calls = t.tool_calls /\ Elapse(t, d).model_calls = t.model_calls
<1>1. t.elapsed \in 0..MaxTime /\ d \in Nat /\ MaxTime \in Nat
  BY LimitsAreNatural DEF Tracker
<1>2. (IF t.elapsed + d > MaxTime THEN MaxTime ELSE t.elapsed + d) \in 0..MaxTime
  BY <1>1
<1> QED
  BY <1>2 DEF Elapse, Tracker

LEMMA ModelCallKeeps ==
    ASSUME NEW t \in Tracker, NEW u \in Usage
    PROVE  /\ record_model_call(t, u) \in Tracker
           /\ record_model_call(t, u).tokens = t.tokens + u
           /\ record_model_call(t, u).model_calls = t.model_calls + 1
           /\ record_model_call(t, u).turns = t.turns
           /\ record_model_call(t, u).tool_calls = t.tool_calls
<1>1. u \in Nat /\ t.tokens + u \in Nat /\ t.model_calls + 1 \in Nat
  BY LimitsAreNatural DEF Tracker
<1> QED
  BY <1>1 DEF record_model_call, Tracker

LEMMA ToolCallKeeps ==
    ASSUME NEW t \in Tracker
    PROVE  /\ record_tool_call(t) \in Tracker
           /\ record_tool_call(t).tool_calls = t.tool_calls + 1
           /\ record_tool_call(t).tokens = t.tokens
           /\ record_tool_call(t).model_calls = t.model_calls
           /\ record_tool_call(t).turns = t.turns
BY DEF record_tool_call, Tracker

LEMMA TurnKeeps ==
    ASSUME NEW t \in Tracker
    PROVE  /\ record_turn(t) \in Tracker
           /\ record_turn(t).turns = t.turns + 1
           /\ record_turn(t).tokens = t.tokens
           /\ record_turn(t).model_calls = t.model_calls
           /\ record_turn(t).tool_calls = t.tool_calls
BY DEF record_turn, Tracker

LEMMA AnalyzingCanEnd ==
    "failed" \in VALID_TRANSITIONS["analyzing"] /\ "completed" \in VALID_TRANSITIONS["analyzing"]
BY DEF VALID_TRANSITIONS, AgentState, LIVE_STATES, TERMINAL_STATES

(* An exception in the body always fails the run, and a return completes it. *)
LEMMA RunFailsHere ==
    ASSUME state = "analyzing", FailRun({})
    PROVE  state' = "failed" /\ phase' = "failed"
BY AnalyzingCanEnd DEF FailRun, can_transition_to, Transition

LEMMA RunReturnsHere ==
    ASSUME state = "analyzing", BodyReturns
    PROVE  state' = "completed" /\ phase' = "completed"
BY AnalyzingCanEnd DEF BodyReturns, can_transition_to, Transition

-----------------------------------------------------------------------------
(* The steps.                                                              *)

(* A run that fails from a place in the body: its exit is right, whatever was
   counted before. *)
LEMMA FailureAgrees ==
    ASSUME AgentInv, pc \in Live, NEW why \in {"budget", "error", "warning"}, RunFails(why),
           UNCHANGED <<level, memory, max_turns, turn, output, saved>>,
           calls' \in 0..MaxCalls, tracker' \in Tracker, OverrunIsOneTurn'
    PROVE  AgentInv'
<1>1. state' = "failed" /\ phase' = "failed" /\ pc' = "returned" /\ result' = why
  BY RunFailsHere DEF AgentInv, Control, RunFails
<1>2. learned' = {"failure"}
  BY DEF AgentInv, Control, RunFails
<1>3. AgentTypeOK'
  BY <1>1, <1>2 DEF AgentInv, AgentTypeOK
<1>4. Control' /\ Counted'
  BY <1>1 DEF AgentInv, Control, Counted, Live, Awaits
<1>5. ExitAgrees'
  BY <1>1, <1>2 DEF AgentInv, ExitAgrees, Counted
<1> QED
  BY <1>3, <1>4, <1>5 DEF AgentInv

LEMMA AgentStarts == Init => AgentInv
<1> SUFFICES ASSUME Init PROVE AgentInv
  OBVIOUS
<1>1. AgentTypeOK
  <2>1. 0 \in Nat /\ 0 \in 0..MaxCalls
    BY LimitsAreNatural
  <2> QED
    BY <2>1, NewTrackerType DEF Init, AgentTypeOK, Outputs
<1>2. Control /\ Counted
  BY DEF Init, LifecycleInit, MachineInit, Control, Counted, Unused, NewTracker, Live, Awaits
<1>3. max_turns \in Nat \ {0}
  BY LimitsAreNatural DEF Init
<1>4. OverrunIsOneTurn
  BY <1>3, LimitsAreNatural DEF Init, OverrunIsOneTurn, NewTracker
<1>5. ExitAgrees
  BY DEF Init, ExitAgrees
<1> QED
  BY <1>1, <1>2, <1>4, <1>5 DEF AgentInv

LEMMA ExecuteKeeps == AgentInv /\ Execute => AgentInv'
<1> SUFFICES ASSUME AgentInv, Execute PROVE AgentInv'
  OBVIOUS
<1>1. max_turns' \in TurnLimits /\ max_turns' \in Nat \ {0}
  BY LimitsAreNatural DEF Execute, AgentInv, AgentTypeOK
<1>2. AgentTypeOK'
  <2>1. 0 \in Nat /\ 0 \in 0..MaxCalls
    BY LimitsAreNatural
  <2> QED
    BY <1>1, <2>1, NewTrackerType DEF Execute, AgentInv, AgentTypeOK, Outputs
<1>3. Control' /\ Counted'
  BY DEF Execute, Control, Counted, Unused, NewTracker, Live, Awaits
<1>4. OverrunIsOneTurn'
  BY <1>1, LimitsAreNatural DEF Execute, OverrunIsOneTurn, NewTracker
<1>5. ExitAgrees'
  BY DEF Execute, ExitAgrees
<1> QED
  BY <1>2, <1>3, <1>4, <1>5 DEF AgentInv

LEMMA EnterKeeps == AgentInv /\ Enter => AgentInv'
<1> SUFFICES ASSUME AgentInv, Enter PROVE AgentInv'
  OBVIOUS
<1>1. state' = "analyzing" /\ phase' = "body" /\ pc' = "thinking" /\ pc = "entering"
  BY QueuedCanStart DEF Enter, EnterRun, can_transition_to, Transition, AgentInv, Control
<1>2. UNCHANGED <<level, memory, max_turns, tracker, turn, calls, output, result, learned, saved>>
  BY DEF Enter
<1>3. AgentTypeOK'
  BY <1>1, <1>2 DEF AgentInv, AgentTypeOK, Live, Awaits
<1>4. Control' /\ Counted'
  BY <1>1, <1>2 DEF AgentInv, Control, Counted, Unused, Live, Awaits
<1>5. OverrunIsOneTurn' /\ ExitAgrees'
  BY <1>1, <1>2 DEF AgentInv, OverrunIsOneTurn, ExitAgrees
<1> QED
  BY <1>3, <1>4, <1>5 DEF AgentInv

(* Time passes in a place of the body: what was counted stays. *)
LEMMA TimeKeeps ==
    ASSUME AgentInv, NEW d \in 0..MaxDelay, tracker' = Elapse(tracker, d)
    PROVE  /\ tracker' \in Tracker
           /\ tracker'.tokens = tracker.tokens /\ tracker'.turns = tracker.turns
           /\ tracker'.tool_calls = tracker.tool_calls
           /\ tracker'.model_calls = tracker.model_calls
           /\ max_turns' = max_turns => OverrunIsOneTurn'
<1>1. tracker \in Tracker
  BY DEF AgentInv, AgentTypeOK
<1>2. /\ tracker' \in Tracker
      /\ tracker'.tokens = tracker.tokens /\ tracker'.turns = tracker.turns
      /\ tracker'.tool_calls = tracker.tool_calls
      /\ tracker'.model_calls = tracker.model_calls
  BY <1>1, ElapseKeeps
<1> QED
  BY <1>2 DEF AgentInv, OverrunIsOneTurn

LEMMA PrepareKeeps == AgentInv /\ Prepare => AgentInv'
<1> SUFFICES ASSUME AgentInv, Prepare PROVE AgentInv'
  OBVIOUS
<1>1. /\ tracker' \in Tracker
      /\ tracker'.tokens = tracker.tokens /\ tracker'.turns = tracker.turns
      /\ tracker'.tool_calls = tracker.tool_calls
      /\ tracker'.model_calls = tracker.model_calls
      /\ OverrunIsOneTurn'
  BY TimeKeeps DEF Prepare
<1>2. /\ pc \in {"thinking", "recalling"} /\ pc \in Live
      /\ UNCHANGED <<level, memory, max_turns, turn, calls, output, saved>>
      /\ calls' \in 0..MaxCalls
  BY DEF Prepare, AgentInv, AgentTypeOK, Live, Awaits
<1>3. CASE RunFails("error")
  BY <1>1, <1>2, <1>3, FailureAgrees
<1>4. CASE /\ pc' \in {"recalling", "looping"}
           /\ UNCHANGED <<state, phase, result, learned>>
  <2>1. AgentTypeOK'
    BY <1>1, <1>2, <1>4 DEF AgentInv, AgentTypeOK, Live, Awaits
  <2>2. max_turns \in Nat \ {0}
    BY LimitsAreNatural DEF AgentInv, AgentTypeOK
  <2>3. Control'
    BY <1>2, <1>4 DEF AgentInv, Control, Live, Awaits
  <2>4. Counted'
    BY <1>1, <1>2, <1>4, <2>2 DEF AgentInv, Control, Counted, Unused
  <2>5. ExitAgrees'
    BY <1>1, <1>2, <1>4, <2>2 DEF AgentInv, Control, Counted, Unused, ExitAgrees
  <2> QED
    BY <1>1, <2>1, <2>3, <2>4, <2>5 DEF AgentInv
<1> QED
  BY <1>3, <1>4 DEF Prepare, StillRunning, machineVars, lifecycleVars

LEMMA LoopTopKeeps == AgentInv /\ LoopTop => AgentInv'
<1> SUFFICES ASSUME AgentInv, LoopTop PROVE AgentInv'
  OBVIOUS
<1>1. /\ pc = "looping" /\ pc \in Live
      /\ UNCHANGED <<level, memory, max_turns, tracker, turn, calls, output, saved>>
  BY DEF LoopTop, Live
<1>2. calls' \in 0..MaxCalls /\ tracker' \in Tracker /\ OverrunIsOneTurn'
  BY <1>1 DEF AgentInv, AgentTypeOK, OverrunIsOneTurn
<1>3. CASE RunFails("budget")
  BY <1>1, <1>2, <1>3, FailureAgrees
<1>4. CASE /\ ~is_exhausted(tracker, max_turns) /\ pc' = "asking"
           /\ UNCHANGED <<state, phase, result, learned>>
  <2>1. AgentTypeOK'
    BY <1>1, <1>2, <1>4 DEF AgentInv, AgentTypeOK, Live, Awaits
  <2>2. /\ tracker.tokens < MaxTokens /\ tracker.model_calls < MaxModelCalls
        /\ tracker.tool_calls < MaxToolCalls
    BY <1>4, LimitsAreNatural DEF is_exhausted, AgentInv, AgentTypeOK, Tracker
  <2>3. Control' /\ ExitAgrees'
    BY <1>1, <1>4 DEF AgentInv, Control, Live, Awaits, ExitAgrees
  <2>4. Counted'
    BY <1>1, <1>4, <2>2 DEF AgentInv, Control, Counted
  <2> QED
    BY <1>2, <2>1, <2>3, <2>4 DEF AgentInv
<1> QED
  BY <1>3, <1>4 DEF LoopTop, StillRunning, machineVars, lifecycleVars

LEMMA AskFailsKeeps == AgentInv /\ AskFails => AgentInv'
<1> SUFFICES ASSUME AgentInv, AskFails PROVE AgentInv'
  OBVIOUS
<1>1. /\ tracker' \in Tracker
      /\ tracker'.tokens = tracker.tokens /\ tracker'.turns = tracker.turns
      /\ tracker'.tool_calls = tracker.tool_calls
      /\ tracker'.model_calls = tracker.model_calls
      /\ OverrunIsOneTurn'
  BY TimeKeeps DEF AskFails
<1>2. /\ pc = "asking" /\ pc \in Live
      /\ UNCHANGED <<level, memory, max_turns, turn, calls, output, saved>>
      /\ calls' \in 0..MaxCalls
  BY DEF AskFails, AgentInv, AgentTypeOK, Live, Awaits
<1>3. CASE RunFails("error")
  BY <1>1, <1>2, <1>3, FailureAgrees
<1>4. CASE pc' = pc /\ UNCHANGED <<state, phase, result, learned>>
  <2>1. AgentTypeOK' /\ Control' /\ ExitAgrees'
    BY <1>1, <1>2, <1>4 DEF AgentInv, AgentTypeOK, Control, ExitAgrees
  <2>2. Counted'
    BY <1>1, <1>2, <1>4 DEF AgentInv, Control, Counted
  <2> QED
    BY <1>1, <2>1, <2>2 DEF AgentInv
<1> QED
  BY <1>3, <1>4 DEF AskFails, StillRunning, machineVars, lifecycleVars

(* The one model call and the one turn that follow a check. *)
LEMMA AnswerCounts ==
    ASSUME AgentInv, pc = "asking", NEW d \in 0..MaxDelay, NEW u \in Usage,
           UNCHANGED max_turns,
           \/ tracker' = record_model_call(Elapse(tracker, d), u)
           \/ tracker' = record_turn(record_model_call(Elapse(tracker, d), u))
    PROVE  /\ tracker' \in Tracker
           /\ tracker'.tool_calls = tracker.tool_calls
           /\ tracker' = record_turn(record_model_call(Elapse(tracker, d), u)) =>
                  tracker'.turns = tracker.turns + 1
           /\ OverrunIsOneTurn'
<1> DEFINE t == Elapse(tracker, d)
           called == record_model_call(t, u)
<1>1. tracker \in Tracker
  BY DEF AgentInv, AgentTypeOK
<1>2. /\ t \in Tracker /\ t.tokens = tracker.tokens /\ t.turns = tracker.turns
      /\ t.tool_calls = tracker.tool_calls /\ t.model_calls = tracker.model_calls
  BY <1>1, ElapseKeeps
<1> HIDE DEF t
<1>3. /\ called \in Tracker /\ called.tokens = tracker.tokens + u /\ called.turns = tracker.turns
      /\ called.tool_calls = tracker.tool_calls /\ called.model_calls = tracker.model_calls + 1
  BY <1>2, ModelCallKeeps
<1> HIDE DEF called
<1>4. /\ record_turn(called) \in Tracker /\ record_turn(called).tokens = tracker.tokens + u
      /\ record_turn(called).turns = tracker.turns + 1
      /\ record_turn(called).tool_calls = tracker.tool_calls
      /\ record_turn(called).model_calls = tracker.model_calls + 1
  BY <1>3, TurnKeeps
<1>5. tracker' = called \/ tracker' = record_turn(called)
  BY DEF called, t
<1>6. /\ tracker' \in Tracker /\ tracker'.tokens = tracker.tokens + u
      /\ tracker'.turns \in {tracker.turns, tracker.turns + 1}
      /\ tracker'.tool_calls = tracker.tool_calls
      /\ tracker'.model_calls = tracker.model_calls + 1
  BY <1>3, <1>4, <1>5
<1>7. /\ tracker.turns < max_turns /\ tracker.tokens < MaxTokens
      /\ tracker.model_calls < MaxModelCalls /\ tracker.tool_calls < MaxToolCalls
  BY DEF AgentInv, Counted
<1>8. /\ tracker.turns \in Nat /\ tracker.tokens \in Nat /\ tracker.model_calls \in Nat
      /\ tracker.tool_calls \in Nat /\ max_turns \in Nat /\ u \in Nat
  BY <1>1, LimitsAreNatural DEF AgentInv, AgentTypeOK, Tracker
<1>9. OverrunIsOneTurn'
  BY <1>6, <1>7, <1>8, LimitsAreNatural DEF OverrunIsOneTurn
<1> QED
  BY <1>4, <1>6, <1>9 DEF called, t

LEMMA AskAnswersKeeps == AgentInv /\ AskAnswers => AgentInv'
<1> SUFFICES ASSUME AgentInv, AskAnswers PROVE AgentInv'
  OBVIOUS
<1>1. /\ pc = "asking" /\ pc \in Live
      /\ UNCHANGED <<level, memory, max_turns, turn, saved>>
  BY DEF AskAnswers, Live, Awaits
<1> PICK d \in 0..MaxDelay, u \in Usage :
      LET called == record_model_call(Elapse(tracker, d), u)
      IN  \/ /\ tracker' = called
             /\ RunFails("warning")
             /\ UNCHANGED <<output, calls>>
          \/ /\ tracker' = record_turn(called)
             /\ \/ /\ RunFails("error")
                   /\ UNCHANGED <<output, calls>>
                \/ /\ output' \in {"text", "empty"}
                   /\ pc' = "verifying"
                   /\ StillRunning /\ UNCHANGED calls
                \/ /\ calls' \in 1..MaxCalls
                   /\ pc' = "tools"
                   /\ StillRunning /\ UNCHANGED output
  BY DEF AskAnswers
<1>2. tracker' \in Tracker /\ OverrunIsOneTurn' /\ tracker'.tool_calls = tracker.tool_calls
  BY <1>1, AnswerCounts
<1>3. CASE RunFails("warning") \/ RunFails("error")
  <2>1. UNCHANGED <<output, calls>>
    BY <1>1, <1>3 DEF RunFails
  <2>2. calls' \in 0..MaxCalls
    BY <2>1 DEF AgentInv, AgentTypeOK
  <2> QED
    BY <1>1, <1>2, <1>3, <2>1, <2>2, FailureAgrees
<1>4. CASE /\ tracker' = record_turn(record_model_call(Elapse(tracker, d), u))
           /\ output' \in {"text", "empty"} /\ pc' = "verifying"
           /\ StillRunning /\ UNCHANGED calls
  <2>1. AgentTypeOK'
    BY <1>1, <1>2, <1>4 DEF AgentInv, AgentTypeOK, Live, Awaits, Outputs, StillRunning
  <2>2. Control' /\ Counted' /\ ExitAgrees'
    BY <1>1, <1>4 DEF AgentInv, Control, Counted, ExitAgrees, Live, Awaits, StillRunning,
                      machineVars, lifecycleVars
  <2> QED
    BY <1>2, <2>1, <2>2 DEF AgentInv
<1>5. CASE /\ tracker' = record_turn(record_model_call(Elapse(tracker, d), u))
           /\ calls' \in 1..MaxCalls /\ pc' = "tools"
           /\ StillRunning /\ UNCHANGED output
  <2>1. calls' \in 0..MaxCalls /\ calls' > 0 /\ calls' \in Nat
    BY <1>5, LimitsAreNatural
  <2>2. AgentTypeOK'
    BY <1>1, <1>2, <1>5, <2>1 DEF AgentInv, AgentTypeOK, Live, Awaits, StillRunning
  <2>3. Control' /\ ExitAgrees'
    BY <1>1, <1>5 DEF AgentInv, Control, ExitAgrees, Counted, Live, Awaits, StillRunning,
                      machineVars, lifecycleVars
  <2>4. tracker'.turns = turn' + 1
    BY <1>1, <1>5, AnswerCounts DEF AgentInv, Counted
  <2>5. tracker'.tool_calls + calls' < MaxToolCalls + MaxCalls
    <3>1. tracker.tool_calls < MaxToolCalls /\ tracker.tool_calls \in Nat
      BY <1>1 DEF AgentInv, Counted, AgentTypeOK, Tracker
    <3>2. calls' \in Nat /\ ~(calls' > MaxCalls)
      BY <1>5, LimitsAreNatural
    <3> QED
      BY <1>2, <3>1, <3>2, LimitsAreNatural
  <2>6. Counted'
    BY <1>1, <1>5, <2>1, <2>4, <2>5 DEF AgentInv, Counted, Control
  <2> QED
    BY <1>2, <2>2, <2>3, <2>6 DEF AgentInv
<1> QED
  BY <1>3, <1>4, <1>5

LEMMA ToolReturnsKeeps == AgentInv /\ ToolReturns => AgentInv'
<1> SUFFICES ASSUME AgentInv, ToolReturns PROVE AgentInv'
  OBVIOUS
<1>1. /\ pc = "tools" /\ calls' = calls - 1
      /\ UNCHANGED <<level, memory, max_turns, saved, state, phase, result, learned>>
  BY DEF ToolReturns, StillRunning, machineVars, lifecycleVars
<1> PICK d \in 0..MaxDelay : tracker' = record_tool_call(Elapse(tracker, d))
  BY DEF ToolReturns
<1>2. /\ tracker \in Tracker /\ max_turns \in Nat \ {0} /\ calls \in Nat
      /\ turn \in Nat /\ ~(calls > MaxCalls)
  BY LimitsAreNatural DEF AgentInv, AgentTypeOK
<1>3. /\ tracker' \in Tracker /\ tracker'.turns = tracker.turns
      /\ tracker'.tokens = tracker.tokens /\ tracker'.model_calls = tracker.model_calls
      /\ tracker'.tool_calls = tracker.tool_calls + 1
  BY <1>2, ElapseKeeps, ToolCallKeeps
<1>4. /\ tracker.turns = turn + 1 /\ calls > 0
      /\ tracker.tool_calls + calls < MaxToolCalls + MaxCalls
      /\ tracker.tool_calls \in Nat
  BY <1>1, <1>2 DEF AgentInv, Counted, Tracker
<1>5. /\ tracker'.tool_calls + calls' < MaxToolCalls + MaxCalls
      /\ tracker'.tool_calls < MaxToolCalls + MaxCalls
      /\ calls' \in 0..MaxCalls /\ calls' \in Nat
  BY <1>1, <1>2, <1>3, <1>4, LimitsAreNatural
<1>6. OverrunIsOneTurn'
  BY <1>1, <1>3, <1>5 DEF AgentInv, OverrunIsOneTurn
<1>7. output = "none"
  BY <1>1 DEF AgentInv, Control
<1>8. CASE calls > 1
  <2>1. UNCHANGED <<pc, turn, output>> /\ calls' > 0
    BY <1>1, <1>2, <1>8 DEF ToolReturns
  <2>2. AgentTypeOK'
    BY <1>1, <1>3, <1>5, <2>1 DEF AgentInv, AgentTypeOK
  <2>3. Control' /\ Counted' /\ ExitAgrees'
    BY <1>1, <1>3, <1>4, <1>5, <2>1 DEF AgentInv, Control, Counted, ExitAgrees
  <2> QED
    BY <1>6, <2>2, <2>3 DEF AgentInv
<1>9. CASE ~(calls > 1)
  <2>1. TurnEnds /\ turn' = turn + 1 /\ turn' \in Nat
    BY <1>2, <1>9 DEF ToolReturns, TurnEnds
  <2>2. ~(tracker.turns > max_turns) /\ tracker.turns \in Nat
    BY <1>2 DEF AgentInv, OverrunIsOneTurn, Tracker
  <2>3. CASE turn' >= max_turns
    <3>1. pc' = "verifying" /\ output' = "unfinished" /\ turn' = max_turns
      BY <1>2, <1>4, <2>1, <2>2, <2>3 DEF TurnEnds
    <3>2. AgentTypeOK'
      BY <1>1, <1>3, <1>5, <2>1, <3>1 DEF AgentInv, AgentTypeOK, Live, Awaits, Outputs
    <3>3. Control' /\ Counted' /\ ExitAgrees'
      BY <1>1, <3>1 DEF AgentInv, Control, Counted, ExitAgrees, Live, Awaits
    <3> QED
      BY <1>6, <3>2, <3>3 DEF AgentInv
  <2>4. CASE ~(turn' >= max_turns)
    <3>1. pc' = "looping" /\ output' = "none" /\ turn' < max_turns /\ turn' = tracker'.turns
      BY <1>2, <1>3, <1>4, <1>7, <2>1, <2>4 DEF TurnEnds
    <3>2. AgentTypeOK'
      BY <1>1, <1>3, <1>5, <2>1, <3>1 DEF AgentInv, AgentTypeOK, Live, Awaits, Outputs
    <3>3. Control' /\ Counted' /\ ExitAgrees'
      BY <1>1, <3>1 DEF AgentInv, Control, Counted, ExitAgrees, Live, Awaits
    <3> QED
      BY <1>6, <3>2, <3>3 DEF AgentInv
  <2> QED
    BY <2>3, <2>4
<1> QED
  BY <1>8, <1>9

(* The end of a run that was verified: learned as a success, and failed once
   more if the closing get_status raises. *)
LEMMA FinishAgrees ==
    ASSUME AgentInv, pc \in {"verifying", "saving"}, Finish,
           UNCHANGED <<level, memory, max_turns, turn, calls, output>>,
           tracker' \in Tracker, OverrunIsOneTurn', level # "none",
           saved' \in BOOLEAN, saved' = memory
    PROVE  AgentInv'
<1>1. state = "analyzing" /\ learned = {} /\ output # "none" /\ calls' \in 0..MaxCalls
  BY DEF AgentInv, AgentTypeOK, Control, Live, Awaits
<1>2. \/ /\ state' = "failed" /\ phase' = "failed" /\ pc' = "returned" /\ result' = "warning"
         /\ learned' = {"success", "failure"}
      \/ /\ state' = "completed" /\ phase' = "completed" /\ pc' = "returned" /\ result' = "done"
         /\ learned' = {"success"}
  BY <1>1, RunFailsHere, RunReturnsHere DEF Finish, RunReturns
<1>3. pc' = "returned" /\ learned' \subseteq {"success", "failure"}
  BY <1>2
<1>4. AgentTypeOK'
  BY <1>1, <1>3 DEF AgentInv, AgentTypeOK
<1>5. Control' /\ Counted'
  BY <1>3 DEF AgentInv, Control, Counted, Live, Awaits
<1>6. ExitAgrees'
  BY <1>1, <1>2 DEF AgentInv, ExitAgrees, Counted
<1> QED
  BY <1>4, <1>5, <1>6 DEF AgentInv

LEMMA VerifyKeeps == AgentInv /\ Verify => AgentInv'
<1> SUFFICES ASSUME AgentInv, Verify PROVE AgentInv'
  OBVIOUS
<1> DEFINE ok == passed(verify(level, IF output = "text" THEN {HasOutput} ELSE {}))
<1>1. tracker' \in Tracker /\ OverrunIsOneTurn'
  BY TimeKeeps DEF Verify
<1>2. /\ pc = "verifying" /\ calls' \in 0..MaxCalls
      /\ state = "analyzing" /\ learned = {} /\ saved = FALSE /\ output # "none"
      /\ UNCHANGED <<level, memory, max_turns, turn, calls, output, saved>>
  BY DEF Verify, AgentInv, AgentTypeOK, Control, Live, Awaits
<1>3. CASE ~ok
  <2>1. BodyReturns /\ pc' = "returned" /\ result' = "verification_failed" /\ learned' = {}
    BY <1>2, <1>3 DEF Verify, NotVerified, RunReturns
  <2>2. state' = "completed" /\ phase' = "completed"
    BY <1>2, <2>1, RunReturnsHere
  <2>3. AgentTypeOK'
    BY <1>1, <1>2, <2>1 DEF AgentInv, AgentTypeOK
  <2>4. Control' /\ Counted'
    BY <1>2, <2>1 DEF AgentInv, Control, Counted, Live, Awaits
  <2>5. ExitAgrees'
    BY <1>2, <2>1, <2>2 DEF AgentInv, ExitAgrees, Counted
  <2> QED
    BY <1>1, <2>3, <2>4, <2>5 DEF AgentInv
<1>4. ok => level # "none"
  BY DEF passed, verify
<1>5. CASE ok /\ memory
  <2>1. pc' = "saving" /\ UNCHANGED <<state, phase, result, learned>>
    BY <1>5 DEF Verify, StillRunning, machineVars, lifecycleVars
  <2>2. AgentTypeOK'
    BY <1>1, <1>2, <2>1 DEF AgentInv, AgentTypeOK, Live, Awaits
  <2>3. Control' /\ Counted' /\ ExitAgrees'
    BY <1>2, <1>4, <1>5, <2>1 DEF AgentInv, Control, Counted, ExitAgrees, Live, Awaits
  <2> QED
    BY <1>1, <2>2, <2>3 DEF AgentInv
<1>6. CASE ok /\ ~memory
  <2>1. Finish /\ memory = FALSE
    BY <1>6 DEF Verify, AgentInv, AgentTypeOK
  <2> QED
    BY <1>1, <1>2, <1>4, <1>6, <2>1, FinishAgrees
<1> QED
  BY <1>3, <1>5, <1>6

LEMMA SaveKeeps == AgentInv /\ Save => AgentInv'
<1> SUFFICES ASSUME AgentInv, Save PROVE AgentInv'
  OBVIOUS
<1>1. tracker' \in Tracker /\ OverrunIsOneTurn'
  BY TimeKeeps DEF Save
<1>2. /\ pc = "saving" /\ pc \in Live /\ calls' \in 0..MaxCalls
      /\ memory = TRUE /\ level # "none"
      /\ UNCHANGED <<level, memory, max_turns, turn, calls, output>>
  BY DEF Save, AgentInv, AgentTypeOK, Control, Live, Awaits
<1>3. CASE RunFails("error") /\ UNCHANGED saved
  BY <1>1, <1>2, <1>3, FailureAgrees
<1>4. CASE saved' = TRUE /\ Finish
  BY <1>1, <1>2, <1>4, FinishAgrees
<1> QED
  BY <1>3, <1>4 DEF Save

LEMMA CancelKeeps == AgentInv /\ Cancel => AgentInv'
<1> SUFFICES ASSUME AgentInv, Cancel PROVE AgentInv'
  OBVIOUS
<1>1. /\ pc' = "cancelled"
      /\ UNCHANGED <<level, memory, max_turns, tracker, turn, calls, output, learned, saved>>
  BY DEF Cancel
<1>2. AgentTypeOK'
  BY <1>1 DEF AgentInv, AgentTypeOK
<1>3. Control' /\ Counted' /\ OverrunIsOneTurn' /\ ExitAgrees'
  BY <1>1 DEF AgentInv, Control, Counted, OverrunIsOneTurn, ExitAgrees, Live, Awaits
<1> QED
  BY <1>2, <1>3 DEF AgentInv

LEMMA AgentStutters == AgentInv /\ UNCHANGED vars => AgentInv'
BY DEF AgentInv, AgentTypeOK, Control, Counted, Unused, OverrunIsOneTurn, ExitAgrees,
       vars, agentVars, machineVars, lifecycleVars

THEOREM AgentInvariant == Spec => []AgentInv
<1>1. Init => AgentInv
  BY AgentStarts
<1>2. AgentInv /\ [Next]_vars => AgentInv'
  BY ExecuteKeeps, EnterKeeps, PrepareKeeps, LoopTopKeeps, AskFailsKeeps, AskAnswersKeeps,
     ToolReturnsKeeps, VerifyKeeps, SaveKeeps, CancelKeeps, AgentStutters DEF Next, Step
<1> QED
  BY <1>1, <1>2, PTL DEF Spec

-----------------------------------------------------------------------------
(* A budget is overrun by no more than the one turn that follows a check,
   whatever the limits, the usage and the retries (check_budget at the top of
   _execute_loop, core/runtime.py). *)
THEOREM OverrunIsAlwaysOneTurn == Spec => []OverrunIsOneTurn
BY AgentInvariant, PTL DEF AgentInv

-----------------------------------------------------------------------------
(* The lifecycle under the agent.  execute is one of the bodies run() may   *)
(* have: but for a new run, and the second RUN_STARTED it emits, its steps  *)
(* are steps of the lifecycle.                                              *)

(* What the agent never does with its lifecycle. *)
Plain == up = TRUE /\ strategies = 0

(* The second RUN_STARTED of a run. *)
StartsAgain ==
    /\ events' = WithEvents(events, {"run_started"})
    /\ UNCHANGED <<machineVars, phase, checkpoint, loaded, unrecorded, strategies>>

LEMMA FailingIsALifecycleStep ==
    ASSUME Plain, phase = "body", FailRun({}), UNCHANGED <<checkpoint, loaded, unrecorded, strategies, up>>
    PROVE  LifecycleNext /\ Plain'
<1>1. BodyRaises
  BY DEF Plain, BodyRaises
<1> QED
  BY <1>1 DEF Plain, LifecycleNext

LEMMA ReturningIsALifecycleStep ==
    ASSUME Plain, BodyReturns
    PROVE  LifecycleNext /\ Plain'
BY DEF Plain, LifecycleNext, BodyReturns

LEMMA StayingIsALifecycleStutter ==
    ASSUME Plain, UNCHANGED <<machineVars, lifecycleVars>>
    PROVE  [LifecycleNext]_allVars /\ Plain'
BY DEF Plain, allVars, machineVars, lifecycleVars

LEMMA AgentStepsAreLifecycleSteps ==
    ASSUME Control, Plain, Step \/ Cancel
    PROVE  Plain' /\ ([LifecycleNext]_allVars \/ StartsAgain)
<1> DEFINE Goal == Plain' /\ ([LifecycleNext]_allVars \/ StartsAgain)
<1>a. ASSUME phase = "body", NEW why, RunFails(why) PROVE Goal
  BY <1>a, FailingIsALifecycleStep DEF RunFails
<1>b. ASSUME StillRunning PROVE Goal
  BY <1>b, StayingIsALifecycleStutter DEF StillRunning
<1>c. ASSUME BodyReturns PROVE Goal
  BY <1>c, ReturningIsALifecycleStep
<1>d. ASSUME phase = "body", Finish PROVE Goal
  <2>1. CASE FailRun({}) /\ UNCHANGED <<checkpoint, loaded, unrecorded, strategies, up>>
    BY <1>d, <2>1, FailingIsALifecycleStep
  <2>2. CASE BodyReturns
    BY <2>2, <1>c
  <2> QED
    BY <1>d, <2>1, <2>2 DEF Finish, RunReturns
<1>0. pc \in Live => phase = "body"
  BY DEF Control
<1> SUFFICES Goal
  OBVIOUS
<1> HIDE DEF Goal
<1>1. CASE Enter
  <2>1. EnterRun
    BY <1>1 DEF Enter
  <2> QED
    BY <2>1 DEF Plain, Goal, LifecycleNext, EnterRun
<1>2. CASE Prepare
  <2>1. phase = "body"
    BY <1>0, <1>2 DEF Prepare, Live, Awaits
  <2>2. CASE RunFails("error")
    BY <2>1, <2>2, <1>a
  <2>3. CASE StillRunning
    BY <2>3, <1>b
  <2>4. CASE /\ Emit({"run_started"})
             /\ UNCHANGED <<machineVars, phase, checkpoint, loaded, unrecorded, strategies>>
    BY <2>4 DEF Emit, StartsAgain, Goal, Plain, machineVars
  <2> QED
    BY <1>2, <2>2, <2>3, <2>4 DEF Prepare
<1>3. CASE LoopTop
  <2>1. phase = "body"
    BY <1>0, <1>3 DEF LoopTop, Live
  <2> QED
    BY <1>3, <2>1, <1>a, <1>b DEF LoopTop
<1>4. CASE AskFails
  <2>1. phase = "body"
    BY <1>0, <1>4 DEF AskFails, Live, Awaits
  <2> QED
    BY <1>4, <2>1, <1>a, <1>b DEF AskFails
<1>5. CASE AskAnswers
  <2>1. phase = "body"
    BY <1>0, <1>5 DEF AskAnswers, Live, Awaits
  <2>2. StillRunning \/ \E why \in {"warning", "error"} : RunFails(why)
    BY <1>5 DEF AskAnswers
  <2> QED
    BY <2>1, <2>2, <1>a, <1>b
<1>6. CASE ToolReturns
  BY <1>6, <1>b DEF ToolReturns
<1>7. CASE Verify
  <2>1. phase = "body"
    BY <1>0, <1>7 DEF Verify, Live, Awaits
  <2>2. BodyReturns \/ StillRunning \/ Finish
    BY <1>7 DEF Verify, NotVerified, RunReturns
  <2> QED
    BY <2>1, <2>2, <1>b, <1>c, <1>d
<1>8. CASE Save
  <2>1. phase = "body"
    BY <1>0, <1>8 DEF Save, Live, Awaits
  <2>2. RunFails("error") \/ Finish
    BY <1>8 DEF Save
  <2> QED
    BY <2>1, <2>2, <1>a, <1>d
<1>9. CASE Cancel
  <2>1. BodyCancelled
    BY <1>9 DEF Cancel
  <2> QED
    BY <2>1 DEF Plain, Goal, LifecycleNext, BodyCancelled
<1> QED
  BY <1>1, <1>2, <1>3, <1>4, <1>5, <1>6, <1>7, <1>8, <1>9 DEF Step, Goal

LEMMA StartsAgainKeeps ==
    ASSUME LifecycleInv, OutcomeEventsAgree, StartsAgain
    PROVE  LifecycleInv' /\ OutcomeEventsAgree'
<1>1. /\ events \in [EventType -> Nat] /\ MachineInv
      /\ UNCHANGED machineVars /\ UNCHANGED <<phase, checkpoint, loaded, unrecorded, strategies, state>>
      /\ events' = WithEvents(events, {"run_started"})
  BY DEF LifecycleInv, LifecycleVarsOK, StartsAgain, machineVars
<1>2. MachineInv'
  BY <1>1, MachineUnchanged
<1>3. events' \in [EventType -> Nat]
  BY <1>1, WithEventsType
<1>4. LifecycleInv'
  BY <1>1, <1>2, <1>3 DEF LifecycleInv, LifecycleVarsOK, RunEndsTerminal
<1>5. {"run_started"} \in SUBSET EventType
  BY DEF EventType
<1>6. /\ events'["run_completed"] = events["run_completed"]
      /\ events'["error_occurred"] = events["error_occurred"]
  BY <1>1, <1>5, OutcomeCounts
<1> QED
  BY <1>1, <1>4, <1>6 DEF OutcomeEventsAgree

(* A new run is a new lifecycle. *)
LEMMA ExecuteStartsALifecycle ==
    ASSUME Plain, Execute
    PROVE  LifecycleInv' /\ OutcomeEventsAgree' /\ Plain'
<1>1. /\ state' = "queued" /\ history' = <<>> /\ disk' = NoFile /\ up' = TRUE
      /\ phase' = "new" /\ events' = NoEvents
      /\ checkpoint' = FALSE /\ loaded' = 0 /\ unrecorded' = 0 /\ strategies' = 0
  BY DEF Execute, Plain
<1>2. "queued" \in AgentState /\ <<>> \in Seq(TransitionRecord)
  BY DEF AgentState, LIVE_STATES
<1>3. MachineInv'
  BY <1>1, <1>2 DEF MachineInv, MachineTypeOK, HistoryIsLegal, DiskIsBehind, LegalPath,
                    NoFile, PersistedState
<1>4. LifecycleVarsOK'
  <2>1. 0 \in 0..MaxStrategies
    BY StrategiesAssumption
  <2> QED
    BY <1>1, <2>1, NoEventsType DEF LifecycleVarsOK
<1>5. LifecycleInv'
  BY <1>1, <1>3, <1>4 DEF LifecycleInv, RunEndsTerminal
<1>6. events'["run_completed"] = 0 /\ events'["error_occurred"] = 0
  BY <1>1 DEF NoEvents, EventType
<1> QED
  BY <1>1, <1>5, <1>6 DEF OutcomeEventsAgree, Plain

LEMMA LifecycleOfTheAgentKeeps ==
    ASSUME LifecycleInv, OutcomeEventsAgree, Control, Plain, Next
    PROVE  LifecycleInv' /\ OutcomeEventsAgree' /\ Plain'
<1>1. CASE Execute
  BY <1>1, ExecuteStartsALifecycle
<1>2. CASE Step \/ Cancel
  <2>1. Plain' /\ ([LifecycleNext]_allVars \/ StartsAgain)
    BY <1>2, AgentStepsAreLifecycleSteps
  <2> QED
    BY <2>1, StepKeeps, OutcomeStep, StartsAgainKeeps
<1> QED
  BY <1>1, <1>2 DEF Next

-----------------------------------------------------------------------------
(* The variables AgentInv says nothing of. *)

Registers ==
    /\ attempt \in 0..(MaxAttempts + Fallbacks)
    /\ retrying \in BOOLEAN
    /\ result \in Results
    /\ mirror \in {"queued", "analyzing"}
    /\ runs \in 0..MaxRuns

LEMMA RegistersStart == Init => Registers
<1> SUFFICES ASSUME Init PROVE Registers
  OBVIOUS
<1>1. 0 \in 0..(MaxAttempts + Fallbacks) /\ 0 \in 0..MaxRuns
  BY RuntimeAssumption
<1> QED
  BY <1>1 DEF Init, Registers, Results

LEMMA RegistersKept ==
    ASSUME Registers, Control, Next
    PROVE  Registers'
<1>1. /\ MaxAttempts \in Nat \ {0} /\ Fallbacks \in Nat /\ MaxRuns \in Nat
      /\ 0 \in 0..(MaxAttempts + Fallbacks) /\ 1 \in 0..(MaxAttempts + Fallbacks)
  BY RuntimeAssumption
<1>2. pc \in Live => state = "analyzing"
  BY DEF Control
<1>3. attempt' \in 0..(MaxAttempts + Fallbacks)
  <2>1. CASE AskFails /\ attempt' = attempt + 1 /\ AttemptsLeft
    BY <2>1, <1>1 DEF AttemptsLeft, Registers
  <2>2. CASE attempt' = 1 \/ attempt' = 0 \/ attempt' = attempt
    BY <2>2, <1>1 DEF Registers
  <2> QED
    BY <2>1, <2>2 DEF Next, Execute, Step, Enter, Prepare, LoopTop, AskFails, AskAnswers,
                      ToolReturns, Verify, Save, Cancel
<1>4. retrying' \in BOOLEAN
  BY DEF Registers, Next, Execute, Step, Enter, Prepare, LoopTop, AskFails, AskAnswers,
         ToolReturns, Verify, Save, Cancel
<1>5. result' \in Results
  <2>1. \/ result' = result
        \/ result' \in {"none", "error", "budget", "warning", "done", "verification_failed"}
    BY DEF Next, Execute, Step, Enter, Prepare, LoopTop, AskFails, AskAnswers,
           ToolReturns, Verify, Save, Cancel, RunFails, RunReturns, StillRunning, Finish, NotVerified
  <2> QED
    BY <2>1 DEF Registers, Results
<1>6. mirror' \in {"queued", "analyzing"}
  <2>1. CASE Enter
    <3>1. state = "queued"
      BY <2>1 DEF Enter, Control
    <3>2. state' = "analyzing"
      BY <2>1, <3>1, QueuedCanStart DEF Enter, EnterRun, Transition, can_transition_to
    <3> QED
      BY <2>1, <3>2 DEF Enter
  <2>2. CASE mirror' = mirror
    BY <2>2 DEF Registers
  <2>3. CASE pc \in Live /\ mirror' = state
    BY <2>3, <1>2
  <2> QED
    BY <2>1, <2>2, <2>3 DEF Next, Execute, Step, Prepare, LoopTop, AskFails, AskAnswers,
                            ToolReturns, Verify, Save, Cancel, Live, Awaits
<1>7. runs' \in 0..MaxRuns
  <2>1. CASE Execute
    BY <2>1, <1>1 DEF Execute, Registers
  <2>2. CASE runs' = runs
    BY <2>2 DEF Registers
  <2> QED
    BY <2>1, <2>2 DEF Next, Step, Enter, Prepare, LoopTop, AskFails, AskAnswers,
                      ToolReturns, Verify, Save, Cancel
<1> QED
  BY <1>3, <1>4, <1>5, <1>6, <1>7 DEF Registers

-----------------------------------------------------------------------------
(* Both parts of MCRuntime together. *)

(* The agent of a run whose body is somebody else's. *)
Aside == pc = "idle" /\ output = "none"

PartsInv ==
    /\ part \in {"lifecycle", "runtime"}
    /\ LifecycleInv /\ OutcomeEventsAgree
    /\ AgentTypeOK /\ Registers /\ OverrunIsOneTurn /\ ExitAgrees
    /\ part = "lifecycle" => Aside /\ TraceAccountsForHistory
    /\ part = "runtime" => Control /\ Counted /\ Plain

LEMMA PartsStart == MCInit => PartsInv
<1> SUFFICES ASSUME MCInit PROVE PartsInv
  OBVIOUS
<1>1. Init /\ LifecycleInit /\ part \in {"lifecycle", "runtime"}
  BY DEF MCInit, Init
<1>2. AgentInv /\ Registers /\ LifecycleInv
  BY <1>1, AgentStarts, RegistersStart, InitHolds
<1>3. \A e \in EventType : events[e] = 0
  BY <1>1 DEF LifecycleInit, NoEvents
<1>4. Len(history) = 0 /\ loaded = 0 /\ unrecorded = 0 /\ phase = "new" /\ up = TRUE /\ strategies = 0
  BY <1>1 DEF LifecycleInit, MachineInit
<1>5. OutcomeEventsAgree /\ TraceAccountsForHistory
  BY <1>3, <1>4 DEF OutcomeEventsAgree, TraceAccountsForHistory, EventType
<1>6. Aside /\ Plain
  BY <1>1, <1>4 DEF Init, Aside, Plain
<1> QED
  BY <1>1, <1>2, <1>5, <1>6 DEF PartsInv, AgentInv

LEMMA PartsStep == PartsInv /\ [MCNext]_<<part, vars>> => PartsInv'
<1> SUFFICES ASSUME PartsInv, [MCNext]_<<part, vars>> PROVE PartsInv'
  OBVIOUS
<1>1. CASE part = "runtime" /\ part' = part /\ [Next]_vars
  <2>1. AgentInv
    BY <1>1 DEF PartsInv, AgentInv
  <2>2. AgentInv'
    BY <1>1, <2>1, ExecuteKeeps, EnterKeeps, PrepareKeeps, LoopTopKeeps, AskFailsKeeps,
       AskAnswersKeeps, ToolReturnsKeeps, VerifyKeeps, SaveKeeps, CancelKeeps, AgentStutters
       DEF Next, Step
  <2>3. LifecycleInv' /\ OutcomeEventsAgree' /\ Plain' /\ Registers'
    <3>1. CASE Next
      BY <1>1, <3>1, LifecycleOfTheAgentKeeps, RegistersKept DEF PartsInv
    <3>2. CASE UNCHANGED vars
      <4>1. UNCHANGED allVars /\ UNCHANGED agentVars /\ UNCHANGED <<up, strategies>>
        BY <3>2 DEF vars, allVars, machineVars, lifecycleVars
      <4>2. LifecycleInv' /\ OutcomeEventsAgree'
        BY <4>1, StepKeeps, OutcomeStep DEF PartsInv
      <4>3. Plain' /\ Registers'
        BY <1>1, <4>1 DEF PartsInv, Plain, Registers, agentVars
      <4> QED
        BY <4>2, <4>3
    <3> QED
      BY <1>1, <3>1, <3>2
  <2> QED
    BY <1>1, <2>2, <2>3 DEF PartsInv, AgentInv
<1>2. CASE part = "lifecycle" /\ part' = part /\ [LifecycleNext]_allVars /\ UNCHANGED agentVars
  <2>1. LifecycleInv' /\ OutcomeEventsAgree' /\ TraceAccountsForHistory'
    BY <1>2, StepKeeps, OutcomeStep, TraceStep DEF PartsInv
  <2>2. AgentTypeOK' /\ Registers' /\ OverrunIsOneTurn' /\ Aside'
    BY <1>2 DEF PartsInv, AgentTypeOK, Registers, OverrunIsOneTurn, Aside, agentVars
  <2>3. ExitAgrees'
    BY <2>2 DEF Aside, ExitAgrees
  <2> QED
    BY <1>2, <2>1, <2>2, <2>3 DEF PartsInv
<1>3. \/ part = "runtime" /\ part' = part /\ [Next]_vars
      \/ part = "lifecycle" /\ part' = part /\ [LifecycleNext]_allVars /\ UNCHANGED agentVars
  <2>1. CASE MCNext
    BY <2>1 DEF MCNext
  <2>2. CASE part' = part /\ UNCHANGED vars
    BY <2>2 DEF PartsInv, vars, allVars
  <2> QED
    BY <2>1, <2>2
<1> QED
  BY <1>1, <1>2, <1>3

LEMMA PartsInvariant == MCSpec => []PartsInv
BY PartsStart, PartsStep, PTL DEF MCSpec

(* Every variable of a run, its agent and its lifecycle keeps its type: among
   them the provider calls of a turn, bounded by the attempts and the fallbacks
   of complete_with_retry (core/llm_provider.py). *)
THEOREM TypesHold == MCSpec => []TypeOK
<1>1. PartsInv => TypeOK
  BY DEF PartsInv, LifecycleInv, LifecycleVarsOK, MachineInv, AgentTypeOK, Registers,
         TypeOK, LifecycleTypeOK, Live
<1> QED
  BY <1>1, PartsInvariant, PTL

(* What execute returns, how its lifecycle was left and what was learned agree
   on every way out of a run; the state returned with an error is a stale copy
   (core/runtime.py execute). *)
THEOREM OutcomeAlwaysAgrees == MCSpec => []OutcomeAgrees
<1>1. PartsInv => OutcomeAgrees
  <2> SUFFICES ASSUME PartsInv PROVE OutcomeAgrees
    OBVIOUS
  <2>1. ExitAgrees /\ mirror \in {"queued", "analyzing"} /\ OutcomeEventsAgree
    BY DEF PartsInv, Registers
  <2> QED
    BY <2>1 DEF OutcomeAgrees, ExitAgrees, OutcomeEventsAgree
<1> QED
  BY <1>1, PartsInvariant, PTL

(* The event trace of a run accounts for its history whatever its body does
   (core/lifecycle.py, core/events.py). *)
THEOREM TraceAccountsAlways == MCSpec => []TraceAccounts
<1>1. PartsInv => TraceAccounts
  BY DEF PartsInv, TraceAccounts
<1> QED
  BY <1>1, PartsInvariant, PTL

(* A run of the agent ends as honestly as any: execute is a body of run() like
   another, so its history is legal, its file is behind, and its outcome event
   tells how it ended (core/runtime.py execute over core/lifecycle.py run). *)
THEOREM AgentsRunHonestly == MCSpec => [](HistoryIsLegal /\ DiskIsBehind /\ RunEndsHonestly)
<1>1. PartsInv => HistoryIsLegal /\ DiskIsBehind /\ RunEndsHonestly
  BY DEF PartsInv, LifecycleInv, MachineInv, RunEndsHonestly
<1> QED
  BY <1>1, PartsInvariant, PTL
=============================================================================
