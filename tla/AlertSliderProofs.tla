------------------------ MODULE AlertSliderProofs -------------------------
(***************************************************************************)
(* Safety of the alert slider: of KeyHandler for any positions and         *)
(* preferences, and any number of movements and of other people's changes; *)
(* of AlertSliderPlugin for any number of updates and of configurations, in*)
(* whatever order the looper handles its messages.                         *)
(***************************************************************************)
EXTENDS KeyHandler, AlertSliderPlugin, SequenceTheorems, WellFoundedInduction,
        TLAPS

-----------------------------------------------------------------------------
(* KeyHandler *)

USE KeyHandlerAssumption

\* Key events are those of movements; the boot read happens once.
Counted ==
    /\ moves \in Nat /\ keyEvents \in Nat /\ keyEvents <= moves /\ moves <= MaxMoves
    /\ zens \in Nat
    /\ bootPending => WithBoot
    /\ bootPending = WithBoot => reading["main"] = None

LastSteps == {"media", "setFlag", "unmute", "announce"}

\* The steps of the running task at which the ringer, or zen, is in force.
AfterRinger ==
    step \in IF Task.mode \in ZenModes THEN {"zen", "waitZen"} \cup LastSteps ELSE LastSteps
AfterWait ==
    step \in IF Task.mode \in ZenModes THEN LastSteps ELSE {"ringer"} \cup LastSteps

\* What was requested is what is waited for, and nobody else interferes.
ZenFollowsTarget == zens = 0 =>
    \/ zenRequest = "none" /\ zen = zenTarget
    \/ zenRequest # "none" /\ zenRequest = zenTarget

TaskInForce == tasks # <<>> =>
    /\ AfterRinger => ringer = RingerOf(Task.mode)
    /\ step = "waitZen" \/ AfterWait => zenTarget = ZenOf(Task.mode)
    /\ AfterWait /\ zens = 0 => zen = zenTarget

\* The last position read is where the slider is, unless a key event is to come.
LastReadIsSlider ==
    keyEvents = 0 /\ moves > 0 /\ bootPending = WithBoot =>
      IF reading["input"] # None THEN reading["input"].position = slider
      ELSE IF tasks # <<>> THEN tasks[Len(tasks)].mode = ModeOf[slider]
      ELSE zens = 0 => zenTarget = ZenOf(ModeOf[slider]) /\ zen = zenTarget
                       /\ ringer = RingerOf(ModeOf[slider])

\* Between muting and noting it the music is as if the flag were set; and what
\* the handler muted stays muted until somebody unmutes it.
FlagInv ==
    /\ AllMutes(muteBroadcasts) /\ (wasMuted \/ step = "setFlag") => muted \/ overtaken
    /\ handlerMuted /\ step # "setFlag" => wasMuted \/ outdated
    /\ handlerMuted => muted

Inv ==
    /\ TypeOK /\ Counted
    /\ ZenFollowsTarget /\ TaskInForce /\ LastReadIsSlider
    /\ FlagInv

-----------------------------------------------------------------------------
\* The type invariant in two parts: what is true or false, and the rest.
Flags ==
    /\ bootPending \in BOOLEAN /\ muteMedia \in BOOLEAN
    /\ muted \in BOOLEAN /\ wasMuted \in BOOLEAN
    /\ handlerMuted \in BOOLEAN /\ overtaken \in BOOLEAN /\ outdated \in BOOLEAN

Values ==
    /\ slider \in Positions /\ keyEvents \in 0 .. MaxMoves
    /\ reading \in [Threads -> Reads]
    /\ tasks \in Seq(Tasks) /\ step \in Steps
    /\ step = "idle" <=> tasks = <<>>
    /\ zen \in Zens /\ zenRequest \in Zens \cup {"none"} /\ zenTarget \in Zens
    /\ ringer \in RingerModes
    /\ muteBroadcasts \in Seq(BOOLEAN)
    /\ announced \in [position : Positions, mode : Modes] \cup {None}

LEMMA TypeParts == TypeOK <=> Flags /\ Values
  BY Zenon DEF TypeOK, Flags, Values

\* What it means that a group of variables is left alone.
LEMMA GroupsUnchanged ==
  /\ UNCHANGED inputVars => UNCHANGED <<slider, keyEvents, bootPending, muteMedia, moves>>
  /\ UNCHANGED zenVars => UNCHANGED <<zen, zenRequest, zenTarget, zens>>
  /\ UNCHANGED muteVars => UNCHANGED <<muted, wasMuted, muteBroadcasts, userActs, raceVars>>
  /\ UNCHANGED raceVars => UNCHANGED <<handlerMuted, overtaken, outdated>>
  /\ UNCHANGED vars =>
       UNCHANGED <<inputVars, reading, tasks, step, zenVars, ringer, muteVars, announced>>
  BY DEF inputVars, zenVars, muteVars, raceVars, vars

\* A reading is of a slider's position, or is none; the two differ.
LEMMA ReadingTypes ==
  /\ None \in Reads
  /\ \A p \in Positions, b \in BOOLEAN :
       /\ [position |-> p, firstRun |-> b] \in Reads
       /\ [position |-> p, firstRun |-> b] # None
  /\ \A r \in Reads : r # None => r.position \in Positions /\ r.firstRun \in BOOLEAN
<1>1. None \in Reads
  BY DEF Reads
<1>2. ASSUME NEW p \in Positions, NEW b \in BOOLEAN
      PROVE  /\ [position |-> p, firstRun |-> b] \in Reads
             /\ [position |-> p, firstRun |-> b] # None
  <2>1. DOMAIN [position |-> p, firstRun |-> b] # DOMAIN None
    BY DEF None
  <2> QED BY <2>1 DEF Reads
<1>3. ASSUME NEW r \in Reads, r # None
      PROVE  r.position \in Positions /\ r.firstRun \in BOOLEAN
  BY <1>3 DEF Reads
<1> QED BY <1>1, <1>2, <1>3

\* The task a thread submits.
NewTask(t) == [position |-> reading[t].position, mode |-> ModeOf[reading[t].position],
               muteMedia |-> muteMedia, firstRun |-> reading[t].firstRun]

LEMMA NewTaskType ==
  ASSUME Flags, Values, NEW t \in Threads, reading[t] # None
  PROVE  NewTask(t) \in Tasks
<1>1. reading[t].position \in Positions /\ reading[t].firstRun \in BOOLEAN
  BY ReadingTypes DEF Values
<1>2. ModeOf[reading[t].position] \in Modes
  BY <1>1
<1>3. muteMedia \in BOOLEAN
  BY DEF Flags
<1> QED BY <1>1, <1>2, <1>3 DEF NewTask, Tasks

LEMMA ModeTypes ==
  \A m : ZenOf(m) \in Zens /\ RingerOf(m) \in RingerModes /\ ZenOf(m) # "none"
<1> TAKE m
<1>1. ZenOf(m) \in Zens
  BY DEF ZenOf, Zens
<1>2. RingerOf(m) \in RingerModes
  BY DEF RingerOf, RingerModes
<1>3. "none" \notin Zens
  BY DEF Zens, ZenModes
<1> QED BY <1>1, <1>2, <1>3

\* Where a step leads.
LEMMA StepsLead ==
  \A m : /\ NextStep(m)["zen"] = "waitZen"
         /\ m \in ZenModes => /\ NextStep(m)["waitZen"] = "media"
                              /\ NextStep(m)["ringer"] = "zen"
         /\ m \notin ZenModes => /\ NextStep(m)["waitZen"] = "ringer"
                                 /\ NextStep(m)["ringer"] = "media"
<1> TAKE m
<1>1. CASE m \in ZenModes
  <2> DEFINE order == [ringer |-> "zen", zen |-> "waitZen", waitZen |-> "media"]
  <2>1. NextStep(m) = order
    BY <1>1, Zenon DEF NextStep
  <2>2. /\ order["ringer"] = "zen" /\ order["zen"] = "waitZen"
        /\ order["waitZen"] = "media"
    OBVIOUS
  <2> QED BY <1>1, <2>1, <2>2, Zenon
<1>2. CASE m \notin ZenModes
  <2> DEFINE order == [zen |-> "waitZen", waitZen |-> "ringer", ringer |-> "media"]
  <2>1. NextStep(m) = order
    BY <1>2, Zenon DEF NextStep
  <2>2. /\ order["zen"] = "waitZen" /\ order["waitZen"] = "ringer"
        /\ order["ringer"] = "media"
    OBVIOUS
  <2> QED BY <1>2, <2>1, <2>2, Zenon
<1> QED BY <1>1, <1>2, Zenon

\* Where a task starts.
LEMMA StartTypes ==
  /\ Start(<<>>) = "idle"
  /\ \A q : q # <<>> => Start(q) \in {"ringer", "zen"} /\ Start(q) # "idle"
  BY DEF Start, FirstStep

\* The queue after a task was added, or taken.
LEMMA TaskAdded ==
  ASSUME NEW q \in Seq(Tasks), NEW t \in Tasks
  PROVE  /\ Append(q, t) \in Seq(Tasks) /\ Append(q, t) # <<>>
         /\ Head(Append(q, t)) = IF q = <<>> THEN t ELSE Head(q)
         /\ Append(q, t)[Len(Append(q, t))] = t
<1>1. /\ Append(q, t) \in Seq(Tasks) /\ Len(Append(q, t)) = Len(q) + 1
      /\ Len(q) \in Nat /\ Append(q, t)[Len(q) + 1] = t
  OBVIOUS
<1>2. Append(q, t) # <<>>
  <2>1. Len(<<>>) = 0
    BY EmptySeq
  <2> QED BY <1>1, <2>1
<1> QED BY <1>1, <1>2, HeadTailAppend

LEMMA TaskTaken ==
  ASSUME NEW q \in Seq(Tasks), q # <<>>
  PROVE  /\ Head(q) \in Tasks /\ Tail(q) \in Seq(Tasks)
         /\ Tail(q) = <<>> => q[Len(q)] = Head(q)
         /\ Tail(q) # <<>> => Tail(q)[Len(Tail(q))] = q[Len(q)]
<1>1. Len(q) \in Nat \ {0} /\ Head(q) = q[1]
  BY EmptySeq
<1>2. /\ Head(q) \in Tasks /\ Tail(q) \in Seq(Tasks)
      /\ Len(Tail(q)) = Len(q) - 1
      /\ \A k \in 1 .. Len(Tail(q)) : Tail(q)[k] = q[k + 1]
  BY HeadTailProperties
<1>3. Tail(q) = <<>> => Len(q) = 1
  <2>1. Len(<<>>) = 0
    BY EmptySeq
  <2>2. Tail(q) = <<>> => Len(Tail(q)) = 0
    BY <2>1, Zenon
  <2> QED BY <1>1, <1>2, <2>2
<1>4. Tail(q) # <<>> => Len(Tail(q)) \in Nat \ {0}
  BY <1>2, EmptySeq
<1>5. Tail(q) # <<>> => Tail(q)[Len(Tail(q))] = q[Len(q)]
  <2> SUFFICES ASSUME Tail(q) # <<>> PROVE Tail(q)[Len(Tail(q))] = q[Len(q)]
    OBVIOUS
  <2>1. Len(Tail(q)) \in 1 .. Len(Tail(q)) /\ Len(Tail(q)) + 1 = Len(q)
    BY <1>1, <1>2, <1>4
  <2> QED BY <1>2, <2>1
<1> QED BY <1>1, <1>2, <1>3, <1>5

LEMMA InitInv == Init => Inv
<1> SUFFICES ASSUME Init PROVE Inv
  OBVIOUS
<1>1. Flags
  BY Zenon DEF Init, Flags
<1>2. Values
  BY ReadingTypes, EmptySeq DEF Init, Values, Steps, Zens, RingerModes
<1>3. Counted
  BY DEF Init, Counted, Threads
<1>4. ZenFollowsTarget /\ TaskInForce /\ LastReadIsSlider
  BY DEF Init, ZenFollowsTarget, TaskInForce, LastReadIsSlider
<1>5. FlagInv
  BY Zenon DEF Init, FlagInv
<1> QED BY <1>1, <1>2, <1>3, <1>4, <1>5, TypeParts DEF Inv

-----------------------------------------------------------------------------
LEMMA FlagsKept == ASSUME Flags, Values, [Next]_vars PROVE Flags'
<1> USE DEF Flags
<1>1. CASE \E p \in Positions : MoveSlider(p)
  BY <1>1, GroupsUnchanged DEF MoveSlider
<1>2. CASE ReadOnKeyEvent
  BY <1>2, GroupsUnchanged DEF ReadOnKeyEvent
<1>3. CASE ReadOnBoot
  BY <1>3, GroupsUnchanged DEF ReadOnBoot
<1>4. CASE \E t \in Threads : Submit(t)
  BY <1>4, GroupsUnchanged DEF Submit
<1>5. CASE RequestZen \/ WaitZen \/ SetRinger \/ Announce
  BY <1>5, GroupsUnchanged DEF RequestZen, WaitZen, SetRinger, Announce
<1>6. CASE AdjustMedia \/ SetWasMuted \/ Unmute
  <2>1. /\ muted' \in BOOLEAN /\ wasMuted' \in BOOLEAN
        /\ handlerMuted' \in BOOLEAN /\ overtaken' \in BOOLEAN /\ outdated' \in BOOLEAN
    <3>1. CASE AdjustMedia
      BY <3>1, Zenon DEF AdjustMedia, AdjustMute
    <3>2. CASE SetWasMuted
      BY <3>2, GroupsUnchanged DEF SetWasMuted
    <3>3. CASE Unmute
      BY <3>3, Zenon DEF Unmute, AdjustMute
    <3> QED BY <1>6, <3>1, <3>2, <3>3
  <2> QED BY <1>6, <2>1, GroupsUnchanged DEF AdjustMedia, SetWasMuted, Unmute
<1>7. CASE ReceiveMuteChanged
  <2>1. wasMuted' \in BOOLEAN /\ overtaken' \in BOOLEAN /\ outdated' \in BOOLEAN
    BY <1>7, Zenon DEF ReceiveMuteChanged, AfterBroadcast
  <2> QED BY <1>7, <2>1, GroupsUnchanged DEF ReceiveMuteChanged
<1>8. CASE CommitZen \/ \E z \in Zens : OthersSetZen(z)
  BY <1>8, GroupsUnchanged DEF CommitZen, OthersSetZen
<1>9. CASE UserTogglesMute
  <2>1. muted' \in BOOLEAN /\ handlerMuted' \in BOOLEAN
    BY <1>9, Zenon DEF UserTogglesMute, AdjustMute
  <2> QED BY <1>9, <2>1, GroupsUnchanged DEF UserTogglesMute
<1>10. CASE UserTogglesMuteMedia
  <2>1. muteMedia' \in BOOLEAN
    BY <1>10, Zenon DEF UserTogglesMuteMedia
  <2> QED BY <1>10, <2>1, GroupsUnchanged DEF UserTogglesMuteMedia
<1>11. CASE UNCHANGED vars
  BY <1>11, GroupsUnchanged
<1> QED BY <1>1, <1>2, <1>3, <1>4, <1>5, <1>6, <1>7, <1>8, <1>9, <1>10, <1>11, Zenon
       DEF Next, Executor

\* What the executor's steps have in common.
LEMMA AdvanceSteps ==
  ASSUME Advance
  PROVE  /\ step = "zen" => step' = "waitZen"
         /\ step = "waitZen" => step' = IF Task.mode \in ZenModes THEN "media" ELSE "ringer"
         /\ step = "ringer" => step' = IF Task.mode \in ZenModes THEN "zen" ELSE "media"
<1> DEFINE m == Task.mode
           f == NextStep(m)
<1>1. step' = f[step]
  BY Zenon DEF Advance
<1>2. /\ step = "zen" => step' = f["zen"]
      /\ step = "waitZen" => step' = f["waitZen"]
      /\ step = "ringer" => step' = f["ringer"]
  <2> HIDE DEF f
  <2> QED BY <1>1, Zenon
<1>3. CASE m \in ZenModes
  BY <1>2, <1>3, StepsLead, Zenon
<1>4. CASE m \notin ZenModes
  BY <1>2, <1>4, StepsLead, Zenon
<1> QED BY <1>3, <1>4

LEMMA AdvanceValues ==
  ASSUME Values, step \in {"zen", "waitZen", "ringer"}, Advance
  PROVE  step' \in Steps /\ step' # "idle" /\ tasks # <<>>
BY AdvanceSteps DEF Values, Steps

LEMMA ValuesKept == ASSUME Flags, Values, Counted, [Next]_vars PROVE Values'
<1> USE DEF Values
<1>1. ASSUME NEW p \in Positions, MoveSlider(p) PROVE Values'
  <2>1. keyEvents' \in 0 .. MaxMoves
    BY <1>1 DEF MoveSlider, Counted
  <2> QED BY <1>1, <2>1, GroupsUnchanged DEF MoveSlider
<1>2. CASE ReadOnKeyEvent
  <2>1. reading' \in [Threads -> Reads]
    <3>1. [position |-> slider, firstRun |-> FALSE] \in Reads
      BY ReadingTypes
    <3> QED BY <1>2, <3>1 DEF ReadOnKeyEvent
  <2>2. keyEvents' \in 0 .. MaxMoves
    BY <1>2 DEF ReadOnKeyEvent
  <2> QED BY <1>2, <2>1, <2>2, GroupsUnchanged DEF ReadOnKeyEvent
<1>3. CASE ReadOnBoot
  <2>1. reading' \in [Threads -> Reads]
    <3>1. [position |-> slider, firstRun |-> TRUE] \in Reads
      BY ReadingTypes
    <3> QED BY <1>3, <3>1 DEF ReadOnBoot
  <2> QED BY <1>3, <2>1, GroupsUnchanged DEF ReadOnBoot
<1>4. ASSUME NEW t \in Threads, Submit(t) PROVE Values'
  <2>1. /\ reading[t] # None /\ tasks' = Append(tasks, NewTask(t))
        /\ step' = IF step = "idle" THEN Start(tasks') ELSE step
        /\ reading' = [reading EXCEPT ![t] = None]
        /\ UNCHANGED <<inputVars, zenVars, ringer, muteVars, announced>>
    BY <1>4 DEF Submit, NewTask
  <2>2. tasks' \in Seq(Tasks) /\ tasks' # <<>>
    BY <2>1, NewTaskType, TaskAdded
  <2>3. step' \in Steps /\ step' # "idle"
    BY <2>1, <2>2, StartTypes DEF Steps
  <2>4. reading' \in [Threads -> Reads]
    BY <2>1, ReadingTypes
  <2> QED BY <2>1, <2>2, <2>3, <2>4, GroupsUnchanged
<1>5. CASE RequestZen
  <2>1. step' \in Steps /\ step' # "idle" /\ tasks # <<>>
    BY <1>5, AdvanceValues DEF RequestZen
  <2>2. zenRequest' \in Zens \cup {"none"} /\ zenTarget' \in Zens
    BY <1>5, ModeTypes DEF RequestZen
  <2> QED BY <1>5, <2>1, <2>2, GroupsUnchanged DEF RequestZen
<1>6. CASE WaitZen
  <2>1. step' \in Steps /\ step' # "idle" /\ tasks # <<>>
    BY <1>6, AdvanceValues DEF WaitZen
  <2> QED BY <1>6, <2>1, GroupsUnchanged DEF WaitZen
<1>7. CASE SetRinger
  <2>1. step' \in Steps /\ step' # "idle" /\ tasks # <<>>
    BY <1>7, AdvanceValues DEF SetRinger
  <2>2. ringer' \in RingerModes
    BY <1>7, ModeTypes DEF SetRinger
  <2> QED BY <1>7, <2>1, <2>2, GroupsUnchanged DEF SetRinger
<1>8. CASE AdjustMedia \/ SetWasMuted \/ Unmute
  <2>1. step' \in Steps /\ step' # "idle" /\ tasks # <<>>
    BY <1>8 DEF AdjustMedia, SetWasMuted, Unmute, Steps
  <2>2. \/ muteBroadcasts' = muteBroadcasts
        \/ \E m \in BOOLEAN : muteBroadcasts' = Append(muteBroadcasts, m)
    <3>1. CASE AdjustMedia
      BY <3>1, Zenon DEF AdjustMedia, AdjustMute
    <3>2. CASE SetWasMuted
      BY <3>2 DEF SetWasMuted
    <3>3. CASE Unmute
      BY <3>3, Zenon DEF Unmute, AdjustMute
    <3> QED BY <1>8, <3>1, <3>2, <3>3
  <2>3. muteBroadcasts' \in Seq(BOOLEAN)
    BY <2>2
  <2> QED BY <1>8, <2>1, <2>3, GroupsUnchanged DEF AdjustMedia, SetWasMuted, Unmute
<1>9. CASE Announce
  <2>1. tasks # <<>> /\ tasks' = Tail(tasks) /\ step' = Start(tasks')
    BY <1>9 DEF Announce
  <2>2. tasks' \in Seq(Tasks) /\ Task \in Tasks
    BY <2>1, TaskTaken DEF Task
  <2>3. step' \in Steps /\ (step' = "idle" <=> tasks' = <<>>)
    BY <2>1, StartTypes DEF Steps
  <2>4. announced' \in [position : Positions, mode : Modes] \cup {None}
    BY <1>9, <2>2 DEF Announce, Tasks
  <2> QED BY <1>9, <2>2, <2>3, <2>4, GroupsUnchanged DEF Announce
<1>10. CASE ReceiveMuteChanged
  <2>1. muteBroadcasts' \in Seq(BOOLEAN)
    BY <1>10, HeadTailProperties DEF ReceiveMuteChanged
  <2> QED BY <1>10, <2>1, GroupsUnchanged DEF ReceiveMuteChanged
<1>11. CASE CommitZen
  BY <1>11, GroupsUnchanged DEF CommitZen
<1>12. ASSUME NEW z \in Zens, OthersSetZen(z) PROVE Values'
  BY <1>12, GroupsUnchanged DEF OthersSetZen
<1>13. CASE UserTogglesMute
  <2>1. \/ muteBroadcasts' = muteBroadcasts
        \/ muteBroadcasts' = Append(muteBroadcasts, ~muted)
    BY <1>13, Zenon DEF UserTogglesMute, AdjustMute
  <2>2. \A q \in Seq(BOOLEAN), b \in BOOLEAN : Append(q, b) \in Seq(BOOLEAN)
    OBVIOUS
  <2>3. muteBroadcasts' \in Seq(BOOLEAN)
    BY <2>1, <2>2, Zenon
  <2> QED BY <1>13, <2>3, GroupsUnchanged DEF UserTogglesMute
<1>14. CASE UserTogglesMuteMedia
  BY <1>14, GroupsUnchanged DEF UserTogglesMuteMedia
<1>15. CASE UNCHANGED vars
  BY <1>15, GroupsUnchanged
<1> QED BY <1>1, <1>2, <1>3, <1>4, <1>5, <1>6, <1>7, <1>8, <1>9, <1>10, <1>11, <1>12, <1>13,
           <1>14, <1>15, Zenon DEF Next, Executor

LEMMA CountedKept == ASSUME Flags, Values, Counted, [Next]_vars PROVE Counted'
<1>1. ASSUME NEW p \in Positions, MoveSlider(p) PROVE Counted'
  <2>1. UNCHANGED <<zens, bootPending, reading>>
    BY <1>1, GroupsUnchanged DEF MoveSlider
  <2>2. moves' \in Nat /\ keyEvents' \in Nat /\ keyEvents' <= moves' /\ moves' <= MaxMoves
    BY <1>1 DEF MoveSlider, Counted
  <2> QED BY <2>1, <2>2, Zenon DEF Counted
<1>2. CASE ReadOnKeyEvent
  <2>1. reading'["main"] = reading["main"]
    BY <1>2 DEF ReadOnKeyEvent, Values, Threads
  <2>2. UNCHANGED <<moves, zens, bootPending>>
    BY <1>2, GroupsUnchanged DEF ReadOnKeyEvent
  <2>3. keyEvents' \in Nat /\ keyEvents' <= moves
    BY <1>2 DEF ReadOnKeyEvent, Counted
  <2> QED BY <2>1, <2>2, <2>3, Zenon DEF Counted
<1>3. CASE ReadOnBoot
  <2>1. ~bootPending' /\ ~(bootPending' = WithBoot)
    BY <1>3, Zenon DEF ReadOnBoot, Counted
  <2>2. UNCHANGED <<moves, keyEvents, zens>>
    BY <1>3, GroupsUnchanged DEF ReadOnBoot
  <2> QED BY <2>1, <2>2, Zenon DEF Counted
<1>4. ASSUME NEW t \in Threads, Submit(t) PROVE Counted'
  <2>1. reading["main"] = None => reading'["main"] = None
    BY <1>4 DEF Submit, Values, Threads
  <2>2. UNCHANGED <<moves, keyEvents, zens, bootPending>>
    BY <1>4, GroupsUnchanged DEF Submit
  <2> QED BY <2>1, <2>2, Zenon DEF Counted
<1>5. CASE Executor \/ ReceiveMuteChanged \/ CommitZen \/ UserTogglesMute
           \/ UserTogglesMuteMedia \/ UNCHANGED vars
  <2>1. UNCHANGED <<moves, keyEvents, zens, bootPending, reading>>
    BY <1>5, GroupsUnchanged
       DEF Executor, RequestZen, WaitZen, SetRinger, AdjustMedia, SetWasMuted, Unmute, Announce,
           ReceiveMuteChanged, CommitZen, UserTogglesMute, UserTogglesMuteMedia
  <2> QED BY <2>1, Zenon DEF Counted
<1>6. ASSUME NEW z \in Zens, OthersSetZen(z) PROVE Counted'
  <2>1. UNCHANGED <<moves, keyEvents, bootPending, reading>> /\ zens' = zens + 1
    BY <1>6, GroupsUnchanged DEF OthersSetZen
  <2>2. zens' \in Nat
    BY <2>1 DEF Counted
  <2> QED BY <2>1, <2>2, Zenon DEF Counted
<1> QED BY <1>1, <1>2, <1>3, <1>4, <1>5, <1>6, Zenon DEF Next

-----------------------------------------------------------------------------
\* The request, once made, is for what the task waits for.
LEMMA ZenFollowsKept ==
  ASSUME Values, Counted, ZenFollowsTarget, [Next]_vars
  PROVE  ZenFollowsTarget'
<1>1. CASE RequestZen
  <2>1. zenRequest' = zenTarget' /\ zenRequest' # "none"
    BY <1>1, ModeTypes DEF RequestZen
  <2> QED BY <2>1, Zenon DEF ZenFollowsTarget
<1>2. CASE CommitZen
  <2>1. zenRequest # "none" /\ zenRequest' = "none" /\ zen' = zenRequest
    BY <1>2 DEF CommitZen
  <2>2. UNCHANGED <<zens, zenTarget>>
    BY <1>2 DEF CommitZen
  <2> QED BY <2>1, <2>2, Zenon DEF ZenFollowsTarget
<1>3. ASSUME NEW z \in Zens, OthersSetZen(z) PROVE ZenFollowsTarget'
  BY <1>3 DEF OthersSetZen, ZenFollowsTarget, Counted
<1>4. ASSUME UNCHANGED zenVars PROVE ZenFollowsTarget'
  <2>1. UNCHANGED <<zen, zenRequest, zenTarget, zens>>
    BY <1>4, GroupsUnchanged
  <2> QED BY <2>1, Zenon DEF ZenFollowsTarget
<1>5. ASSUME NEW p \in Positions, MoveSlider(p) PROVE UNCHANGED zenVars
  BY <1>5 DEF MoveSlider
<1>6. ASSUME NEW t \in Threads, Submit(t) PROVE UNCHANGED zenVars
  BY <1>6 DEF Submit
<1>7. CASE ReadOnKeyEvent \/ ReadOnBoot \/ WaitZen \/ SetRinger \/ AdjustMedia \/ SetWasMuted
           \/ Unmute \/ Announce
           \/ ReceiveMuteChanged \/ UserTogglesMute \/ UserTogglesMuteMedia \/ UNCHANGED vars
  <2>1. UNCHANGED zenVars
    BY <1>7, GroupsUnchanged
       DEF ReadOnKeyEvent, ReadOnBoot, WaitZen, SetRinger, AdjustMedia, SetWasMuted, Unmute, Announce,
           ReceiveMuteChanged, UserTogglesMute, UserTogglesMuteMedia
  <2> QED BY <1>4, <2>1
<1> QED BY <1>1, <1>2, <1>3, <1>4, <1>5, <1>6, <1>7, Zenon DEF Next, Executor

LEMMA MutesInQueue ==
  ASSUME NEW q \in Seq(BOOLEAN)
  PROVE  /\ \A b \in BOOLEAN : AllMutes(Append(q, b)) <=> AllMutes(q) /\ b
         /\ q # <<>> /\ Head(q) /\ AllMutes(Tail(q)) => AllMutes(q)
<1>1. ASSUME NEW b \in BOOLEAN PROVE AllMutes(Append(q, b)) <=> AllMutes(q) /\ b
  <2>1. Len(Append(q, b)) = Len(q) + 1 /\ Append(q, b)[Len(q) + 1] = b
    OBVIOUS
  <2>2. \A k \in 1 .. Len(q) : Append(q, b)[k] = q[k]
    OBVIOUS
  <2>3. 1 .. (Len(q) + 1) = (1 .. Len(q)) \cup {Len(q) + 1}
    OBVIOUS
  <2> QED BY <2>1, <2>2, <2>3, Zenon DEF AllMutes
<1>2. ASSUME q # <<>>, Head(q), AllMutes(Tail(q)) PROVE AllMutes(q)
  <2>1. Len(Tail(q)) = Len(q) - 1 /\ \A k \in 1 .. Len(Tail(q)) : Tail(q)[k] = q[k + 1]
    BY <1>2, HeadTailProperties
  <2>. Head(q) = q[1] /\ Len(q) \in Nat
    OBVIOUS
  <2>2. ASSUME NEW k \in 1 .. Len(q) PROVE q[k]
    <3>1. CASE k = 1
      BY <1>2, <2>1, <3>1, Zenon
    <3>2. CASE k # 1
      <4>1. k - 1 \in 1 .. Len(Tail(q)) /\ (k - 1) + 1 = k
        BY <2>1, <3>2
      <4>2. Tail(q)[k - 1] = q[k]
        BY <2>1, <4>1
      <4> QED BY <1>2, <4>1, <4>2, Zenon DEF AllMutes
    <3> QED BY <3>1, <3>2
  <2> QED BY <2>2, Zenon DEF AllMutes
<1> QED BY <1>1, <1>2

\* A change of the stream, and what is told of it.
LEMMA StreamTold ==
  ASSUME Values, NEW m \in BOOLEAN, NEW byHandler, AdjustMute(m, byHandler)
  PROVE  /\ AllMutes(muteBroadcasts') => m \/ (~muted /\ AllMutes(muteBroadcasts))
         /\ AllMutes(muteBroadcasts') => AllMutes(muteBroadcasts)
         /\ muted' = m /\ handlerMuted' = (m /\ byHandler)
<1>1. CASE muted = m
  BY <1>1, Zenon DEF AdjustMute
<1>2. CASE muted # m
  <2>1. muteBroadcasts' = Append(muteBroadcasts, m)
    BY <1>2, Zenon DEF AdjustMute
  <2>2. AllMutes(Append(muteBroadcasts, m)) <=> AllMutes(muteBroadcasts) /\ m
    BY MutesInQueue DEF Values
  <2> QED BY <2>1, <2>2, Zenon DEF AdjustMute
<1> QED BY <1>1, <1>2

\* Only the executor's own steps lead to setFlag and away from it.
LEMMA FlagStepKept ==
  ASSUME Values, [Next]_vars, ~AdjustMedia, ~SetWasMuted
  PROVE  step' = "setFlag" <=> step = "setFlag"
<1>1. \A p \in Positions : MoveSlider(p) => step' = step
  BY DEF MoveSlider
<1>2. ASSUME NEW t \in Threads, Submit(t) PROVE step' = "setFlag" <=> step = "setFlag"
  BY <1>2 DEF Submit, Start, FirstStep
<1>3. \A z \in Zens : OthersSetZen(z) => step' = step
  BY DEF OthersSetZen
<1>4. CASE RequestZen \/ WaitZen \/ SetRinger
  BY <1>4, AdvanceSteps DEF RequestZen, WaitZen, SetRinger
<1>5. CASE Unmute \/ Announce
  BY <1>5 DEF Unmute, Announce, Start, FirstStep
<1>6. CASE ReadOnKeyEvent \/ ReadOnBoot \/ ReceiveMuteChanged \/ CommitZen \/ UserTogglesMute
           \/ UserTogglesMuteMedia \/ UNCHANGED vars
  BY <1>6 DEF ReadOnKeyEvent, ReadOnBoot, ReceiveMuteChanged, CommitZen, UserTogglesMute,
              UserTogglesMuteMedia, vars
<1> QED BY <1>1, <1>2, <1>3, <1>4, <1>5, <1>6, Zenon DEF Next, Executor

\* Whoever changes the stream tells; an unmute under way excuses the flag.
LEMMA FlagKept ==
  ASSUME Flags, Values, FlagInv, [Next]_vars
  PROVE  FlagInv'
<1>1. CASE AdjustMedia
  <2>1. CASE Task.muteMedia /\ Task.mode = "silent"
    <3>1. /\ AdjustMute(TRUE, TRUE) /\ step' = "setFlag"
      BY <1>1, <2>1, Zenon DEF AdjustMedia
    <3>2. muted'
      BY <3>1, Zenon DEF AdjustMute
    <3> QED BY <3>1, <3>2, Zenon DEF FlagInv
  <2>2. CASE ~(Task.muteMedia /\ Task.mode = "silent")
    <3>1. /\ step = "media" /\ step' \in {"unmute", "announce"}
          /\ UNCHANGED <<muted, muteBroadcasts, handlerMuted, wasMuted, overtaken, outdated>>
      BY <1>1, <2>2 DEF AdjustMedia
    <3>2. step # "setFlag" /\ step' # "setFlag"
      BY <3>1
    <3>3. /\ muted' = muted /\ muteBroadcasts' = muteBroadcasts /\ wasMuted' = wasMuted
          /\ handlerMuted' = handlerMuted /\ overtaken' = overtaken /\ outdated' = outdated
      BY <3>1
    <3> QED BY <3>2, <3>3, Zenon DEF FlagInv
  <2> QED BY <2>1, <2>2
<1>2. CASE SetWasMuted
  <2>1. /\ step = "setFlag" /\ step' # "setFlag" /\ wasMuted'
    BY <1>2 DEF SetWasMuted
  <2>2. /\ muted' = muted /\ muteBroadcasts' = muteBroadcasts
        /\ handlerMuted' = handlerMuted /\ overtaken' = overtaken
    BY <1>2, GroupsUnchanged DEF SetWasMuted
  <2> QED BY <2>1, <2>2, Zenon DEF FlagInv
<1>3. CASE Unmute \/ UserTogglesMute
  <2>1. step' = "setFlag" <=> step = "setFlag"
    BY <1>3, FlagStepKept DEF Unmute, UserTogglesMute, AdjustMedia, SetWasMuted
  <2>2. PICK m \in BOOLEAN, byHandler \in BOOLEAN : AdjustMute(m, byHandler) /\ (byHandler => ~m)
    <3>1. CASE Unmute
      BY <3>1, Zenon DEF Unmute
    <3>2. CASE UserTogglesMute
      BY <3>2, Zenon DEF UserTogglesMute
    <3> QED BY <1>3, <3>1, <3>2
  <2>3. /\ wasMuted' = wasMuted /\ overtaken' = overtaken
    BY <1>3 DEF Unmute, UserTogglesMute
  <2>4. /\ AllMutes(muteBroadcasts') => m \/ (~muted /\ AllMutes(muteBroadcasts))
        /\ muted' = m /\ handlerMuted' = (m /\ byHandler)
    BY <2>2, StreamTold
  <2>5. ~handlerMuted'
    BY <2>2, <2>4, Zenon
  <2> QED BY <2>1, <2>3, <2>4, <2>5, Zenon DEF FlagInv
<1>4. CASE ReceiveMuteChanged
  <2>1. /\ muteBroadcasts # <<>> /\ wasMuted' = (wasMuted /\ Head(muteBroadcasts))
        /\ muteBroadcasts' = Tail(muteBroadcasts)
        /\ \/ Head(muteBroadcasts) /\ overtaken' = overtaken /\ outdated' = outdated
           \/ /\ ~Head(muteBroadcasts)
              /\ overtaken' = (step = "setFlag" /\ ~muted)
              /\ outdated' = (outdated \/ (step # "setFlag" /\ handlerMuted))
    BY <1>4, Zenon DEF ReceiveMuteChanged, AfterBroadcast
  <2>2. step' = step /\ muted' = muted /\ handlerMuted' = handlerMuted
    BY <1>4 DEF ReceiveMuteChanged
  <2>3. muteBroadcasts # <<>> /\ Head(muteBroadcasts) /\ AllMutes(Tail(muteBroadcasts))
          => AllMutes(muteBroadcasts)
    BY MutesInQueue DEF Values
  <2>4. CASE Head(muteBroadcasts)
    <3>1. AllMutes(muteBroadcasts') => AllMutes(muteBroadcasts)
      BY <2>1, <2>3, <2>4, Zenon
    <3>2. /\ wasMuted' <=> wasMuted
          /\ overtaken' = overtaken /\ outdated' = outdated
      BY <2>1, <2>4, Zenon
    <3> QED BY <2>2, <3>1, <3>2, Zenon DEF FlagInv
  <2>5. CASE ~Head(muteBroadcasts)
    <3>1. /\ ~wasMuted' /\ overtaken' = (step = "setFlag" /\ ~muted)
          /\ outdated' = (outdated \/ (step # "setFlag" /\ handlerMuted))
      BY <2>1, <2>5, Zenon
    <3> QED BY <2>2, <3>1, Zenon DEF FlagInv
  <2> QED BY <2>4, <2>5
<1>5. CASE /\ UNCHANGED <<muted, wasMuted, muteBroadcasts, raceVars>>
           /\ ~AdjustMedia /\ ~SetWasMuted
  <2>1. step' = "setFlag" <=> step = "setFlag"
    BY <1>5, FlagStepKept
  <2>2. /\ muted' = muted /\ muteBroadcasts' = muteBroadcasts /\ wasMuted' = wasMuted
        /\ handlerMuted' = handlerMuted /\ overtaken' = overtaken /\ outdated' = outdated
    BY <1>5, GroupsUnchanged
  <2> QED BY <2>1, <2>2, Zenon DEF FlagInv
<1>6. ASSUME NEW p \in Positions, MoveSlider(p) PROVE UNCHANGED <<muted, wasMuted, muteBroadcasts, raceVars>>
  BY <1>6, GroupsUnchanged DEF MoveSlider
<1>7. ASSUME NEW t \in Threads, Submit(t) PROVE UNCHANGED <<muted, wasMuted, muteBroadcasts, raceVars>>
  BY <1>7, GroupsUnchanged DEF Submit
<1>8. ASSUME NEW z \in Zens, OthersSetZen(z) PROVE UNCHANGED <<muted, wasMuted, muteBroadcasts, raceVars>>
  BY <1>8, GroupsUnchanged DEF OthersSetZen
<1>9. CASE ReadOnKeyEvent \/ ReadOnBoot \/ RequestZen \/ WaitZen \/ SetRinger \/ Announce
           \/ CommitZen \/ UserTogglesMuteMedia \/ UNCHANGED vars
  <2>1. UNCHANGED <<muted, wasMuted, muteBroadcasts, raceVars>>
    BY <1>9, GroupsUnchanged
       DEF ReadOnKeyEvent, ReadOnBoot, RequestZen, WaitZen, SetRinger, Announce,
           CommitZen, UserTogglesMuteMedia
  <2> QED BY <1>1, <1>2, <1>5, <2>1
<1> QED BY <1>1, <1>2, <1>3, <1>4, <1>5, <1>6, <1>7, <1>8, <1>9, Zenon DEF Next, Executor

\* A task that is about to start claims nothing.
LEMMA StartClaimsNothing ==
  ASSUME tasks' # <<>> => step' = FirstStep(Task.mode)'
  PROVE  TaskInForce'
<1> SUFFICES ASSUME tasks' # <<>> PROVE TaskInForce'
  BY DEF TaskInForce
<1>1. CASE (Task.mode \in ZenModes)'
  BY <1>1 DEF FirstStep, TaskInForce, AfterRinger, AfterWait, LastSteps
<1>2. CASE (Task.mode \notin ZenModes)'
  BY <1>2 DEF FirstStep, TaskInForce, AfterRinger, AfterWait, LastSteps
<1> QED BY <1>1, <1>2

\* What a task has done stays done until it is over.
LEMMA TaskInForceKept ==
  ASSUME Flags, Values, Counted, ZenFollowsTarget, TaskInForce, [Next]_vars
  PROVE  TaskInForce'
<1>1. ASSUME UNCHANGED <<tasks, step, ringer, zenTarget, zen, zens>> PROVE TaskInForce'
  BY <1>1 DEF TaskInForce, AfterRinger, AfterWait, LastSteps, Task
<1>2. ASSUME NEW p \in Positions, MoveSlider(p)
      PROVE  UNCHANGED <<tasks, step, ringer, zenTarget, zen, zens>>
  BY <1>2, GroupsUnchanged DEF MoveSlider
<1>3. CASE ReadOnKeyEvent \/ ReadOnBoot \/ ReceiveMuteChanged \/ UserTogglesMute
           \/ UserTogglesMuteMedia \/ UNCHANGED vars
  <2>1. UNCHANGED <<tasks, step, ringer, zenTarget, zen, zens>>
    BY <1>3, GroupsUnchanged
       DEF ReadOnKeyEvent, ReadOnBoot, ReceiveMuteChanged, UserTogglesMute, UserTogglesMuteMedia
  <2> QED BY <1>1, <2>1
<1>4. ASSUME NEW t \in Threads, Submit(t) PROVE TaskInForce'
  <2>1. /\ reading[t] # None /\ tasks' = Append(tasks, NewTask(t))
        /\ step' = IF step = "idle" THEN Start(tasks') ELSE step
        /\ UNCHANGED <<ringer, zenTarget, zen, zens>>
    BY <1>4, GroupsUnchanged DEF Submit, NewTask
  <2>2. /\ tasks' # <<>>
        /\ Head(tasks') = IF tasks = <<>> THEN NewTask(t) ELSE Head(tasks)
    BY <2>1, NewTaskType, TaskAdded DEF Values
  <2>3. CASE tasks = <<>>
    <3>1. step' = Start(tasks')
      BY <2>1, <2>3 DEF Values
    <3> QED BY <2>2, <3>1, StartClaimsNothing DEF Start, Task
  <2>4. CASE tasks # <<>>
    <3>1. step' = step /\ Task' = Task
      BY <2>1, <2>2, <2>4 DEF Values, Task
    <3> QED BY <2>1, <2>4, <3>1 DEF TaskInForce, AfterRinger, AfterWait, LastSteps
  <2> QED BY <2>3, <2>4
<1>5. CASE RequestZen
  <2>1. /\ step = "zen" /\ step' = "waitZen" /\ zenTarget' = ZenOf(Task.mode)
        /\ tasks # <<>> /\ Task' = Task /\ ringer' = ringer
    BY <1>5, AdvanceSteps, AdvanceValues DEF RequestZen, Task
  <2> QED BY <2>1 DEF TaskInForce, AfterRinger, AfterWait, LastSteps
<1>6. CASE WaitZen
  <2>1. /\ step = "waitZen" /\ zen = zenTarget
        /\ step' = IF Task.mode \in ZenModes THEN "media" ELSE "ringer"
        /\ tasks # <<>> /\ Task' = Task /\ UNCHANGED <<ringer, zenTarget, zen, zens>>
    BY <1>6, AdvanceSteps, AdvanceValues, GroupsUnchanged DEF WaitZen, Task
  <2> QED BY <2>1 DEF TaskInForce, AfterRinger, AfterWait, LastSteps
<1>7. CASE SetRinger
  <2>1. /\ step = "ringer" /\ ringer' = RingerOf(Task.mode)
        /\ step' = IF Task.mode \in ZenModes THEN "zen" ELSE "media"
        /\ tasks # <<>> /\ Task' = Task /\ UNCHANGED <<zenTarget, zen, zens>>
    BY <1>7, AdvanceSteps, AdvanceValues, GroupsUnchanged DEF SetRinger, Task
  <2> QED BY <2>1 DEF TaskInForce, AfterRinger, AfterWait, LastSteps
<1>8. CASE AdjustMedia \/ SetWasMuted \/ Unmute
  <2>1. /\ step \in LastSteps /\ step' \in LastSteps
        /\ tasks # <<>> /\ Task' = Task /\ UNCHANGED <<ringer, zenTarget, zen, zens>>
    BY <1>8, GroupsUnchanged
       DEF AdjustMedia, SetWasMuted, Unmute, Task, Values, LastSteps
  <2> QED BY <2>1 DEF TaskInForce, AfterRinger, AfterWait, LastSteps
<1>9. CASE Announce
  <2>1. step' = Start(tasks')
    BY <1>9 DEF Announce
  <2> QED BY <2>1, StartClaimsNothing DEF Start, Task
<1>10. CASE CommitZen
  <2>1. /\ zenRequest # "none" /\ zen' = zenRequest
        /\ UNCHANGED <<tasks, step, ringer, zenTarget, zens>>
    BY <1>10 DEF CommitZen
  <2>2. Task' = Task
    BY <2>1 DEF Task
  <2>3. zens = 0 => zen' = zenTarget
    BY <2>1 DEF ZenFollowsTarget
  <2> QED BY <2>1, <2>2, <2>3 DEF TaskInForce, AfterRinger, AfterWait, LastSteps
<1>11. ASSUME NEW z \in Zens, OthersSetZen(z) PROVE TaskInForce'
  <2>1. /\ zens' = zens + 1 /\ UNCHANGED <<tasks, step, ringer, zenTarget>>
    BY <1>11 DEF OthersSetZen
  <2>2. Task' = Task /\ zens' # 0
    BY <2>1 DEF Task, Counted
  <2> QED BY <2>1, <2>2 DEF TaskInForce, AfterRinger, AfterWait, LastSteps
<1> QED BY <1>1, <1>2, <1>3, <1>4, <1>5, <1>6, <1>7, <1>8, <1>9, <1>10, <1>11, Zenon
       DEF Next, Executor

-----------------------------------------------------------------------------
\* The last position read, on its way from the slider to the ringer and zen.
LEMMA LastReadKept ==
  ASSUME Flags, Values, Counted, ZenFollowsTarget, TaskInForce, LastReadIsSlider, [Next]_vars
  PROVE  LastReadIsSlider'
<1>1. ASSUME NEW p \in Positions, MoveSlider(p) PROVE LastReadIsSlider'
  <2>1. keyEvents' # 0
    BY <1>1 DEF MoveSlider, Values
  <2> QED BY <2>1 DEF LastReadIsSlider
<1>2. CASE ReadOnKeyEvent
  <2>1. reading'["input"] = [position |-> slider, firstRun |-> FALSE] /\ slider' = slider
    BY <1>2 DEF ReadOnKeyEvent, Values, Threads
  <2>2. [position |-> slider, firstRun |-> FALSE] # None
    BY ReadingTypes DEF Values
  <2> QED BY <2>1, <2>2 DEF LastReadIsSlider
<1>3. CASE ReadOnBoot
  <2>1. ~(bootPending' = WithBoot)
    BY <1>3, Zenon DEF ReadOnBoot, Counted
  <2> QED BY <2>1, Zenon DEF LastReadIsSlider
<1>4. ASSUME NEW t \in Threads, Submit(t) PROVE LastReadIsSlider'
  <2>1. /\ reading[t] # None /\ tasks' = Append(tasks, NewTask(t))
        /\ reading' = [reading EXCEPT ![t] = None]
        /\ UNCHANGED <<slider, keyEvents, bootPending, moves>>
    BY <1>4, GroupsUnchanged DEF Submit, NewTask
  <2>2. CASE t = "main"
    <3>1. ~(bootPending' = WithBoot)
      <4>1. ~(bootPending = WithBoot)
        BY <2>1, <2>2, Zenon DEF Counted
      <4> QED BY <2>1, <4>1
    <3> QED BY <3>1, Zenon DEF LastReadIsSlider
  <2>3. CASE t = "input"
    <3>1. reading'["input"] = None
      BY <2>1, <2>3 DEF Values, Threads
    <3>2. tasks' # <<>> /\ tasks'[Len(tasks')] = NewTask("input")
      BY <2>1, <2>3, NewTaskType, TaskAdded DEF Values
    <3>3. NewTask("input").mode = ModeOf[reading["input"].position]
      BY DEF NewTask
    <3>4. keyEvents = 0 /\ moves > 0 /\ bootPending = WithBoot
            => reading["input"].position = slider
      BY <2>1, <2>3, Zenon DEF LastReadIsSlider
    <3>5. UNCHANGED slider /\ UNCHANGED keyEvents /\ UNCHANGED bootPending /\ UNCHANGED moves
      BY <2>1
    <3> QED BY <3>1, <3>2, <3>3, <3>4, <3>5, Zenon DEF LastReadIsSlider
  <2> QED BY <2>2, <2>3 DEF Threads
<1>5. CASE RequestZen \/ WaitZen \/ SetRinger \/ AdjustMedia \/ SetWasMuted \/ Unmute
  <2>1. UNCHANGED <<slider, keyEvents, bootPending, moves, reading, tasks>>
    BY <1>5, GroupsUnchanged DEF RequestZen, WaitZen, SetRinger, AdjustMedia,
         SetWasMuted, Unmute
  <2>2. tasks # <<>>
    BY <1>5 DEF RequestZen, WaitZen, SetRinger, AdjustMedia, SetWasMuted, Unmute, Values
  <2> QED BY <2>1, <2>2, Zenon DEF LastReadIsSlider
<1>6. CASE Announce
  <2>1. /\ step = "announce" /\ tasks # <<>> /\ tasks' = Tail(tasks)
        /\ UNCHANGED <<slider, keyEvents, bootPending, moves, reading, ringer, zen, zenTarget, zens>>
    BY <1>6, GroupsUnchanged DEF Announce, Values
  <2>2. /\ Tail(tasks) = <<>> => tasks[Len(tasks)] = Task
        /\ Tail(tasks) # <<>> => Tail(tasks)[Len(Tail(tasks))] = tasks[Len(tasks)]
    BY <2>1, TaskTaken DEF Values, Task
  <2>3. zens = 0 => /\ zenTarget = ZenOf(Task.mode) /\ zen = zenTarget
                    /\ ringer = RingerOf(Task.mode)
    BY <2>1 DEF TaskInForce, AfterRinger, AfterWait, LastSteps
  <2>4. CASE Tail(tasks) # <<>>
    BY <2>1, <2>2, <2>4, Zenon DEF LastReadIsSlider
  <2>5. CASE Tail(tasks) = <<>>
    <3>1. zens' = zens
      BY <2>1
    <3> QED BY <2>1, <2>2, <2>3, <2>5, <3>1, Zenon DEF LastReadIsSlider
  <2> QED BY <2>4, <2>5
<1>7. CASE CommitZen
  <2>1. /\ zenRequest # "none" /\ zen' = zenRequest
        /\ UNCHANGED <<slider, keyEvents, bootPending, moves, reading, tasks, ringer,
                       zenTarget, zens>>
    BY <1>7, GroupsUnchanged DEF CommitZen
  <2>2. zens = 0 => zen' = zenTarget
    BY <2>1 DEF ZenFollowsTarget
  <2> QED BY <2>1, <2>2, Zenon DEF LastReadIsSlider
<1>8. ASSUME NEW z \in Zens, OthersSetZen(z) PROVE LastReadIsSlider'
  <2>1. UNCHANGED <<slider, keyEvents, bootPending, moves, reading, tasks>>
    BY <1>8, GroupsUnchanged DEF OthersSetZen
  <2>2. zens' # 0
    BY <1>8 DEF OthersSetZen, Counted
  <2> QED BY <2>1, <2>2, Zenon DEF LastReadIsSlider
<1>9. CASE ReceiveMuteChanged \/ UserTogglesMute \/ UserTogglesMuteMedia \/ UNCHANGED vars
  <2>1. UNCHANGED <<slider, keyEvents, bootPending, moves, reading, tasks, ringer, zen,
                    zenTarget, zens>>
    BY <1>9, GroupsUnchanged DEF ReceiveMuteChanged, UserTogglesMute, UserTogglesMuteMedia
  <2> QED BY <2>1, Zenon DEF LastReadIsSlider
<1> QED BY <1>1, <1>2, <1>3, <1>4, <1>5, <1>6, <1>7, <1>8, <1>9, Zenon DEF Next, Executor

LEMMA NextInv == Inv /\ [Next]_vars => Inv'
<1> SUFFICES ASSUME Inv, [Next]_vars PROVE Inv'
  OBVIOUS
<1>1. /\ Flags /\ Values /\ Counted
      /\ ZenFollowsTarget /\ TaskInForce /\ LastReadIsSlider /\ FlagInv
  BY TypeParts, Zenon DEF Inv
<1>2. Flags' /\ Values'
  BY <1>1, FlagsKept, ValuesKept
<1>3. TypeOK'
  BY <1>2, Zenon DEF TypeOK, Flags, Values
<1>4. Counted'
  BY <1>1, CountedKept
<1>5. ZenFollowsTarget' /\ TaskInForce'
  BY <1>1, ZenFollowsKept, TaskInForceKept
<1>6. LastReadIsSlider'
  BY <1>1, LastReadKept
<1>7. FlagInv'
  BY <1>1, FlagKept
<1> QED BY <1>3, <1>4, <1>5, <1>6, <1>7, Zenon DEF Inv

-----------------------------------------------------------------------------
\* When all work is done the final position is in force, however fast the
\* slider moved.
THEOREM LastPositionWins == Spec => [](TypeOK /\ SettlesOnPosition)
<1>1. Inv => TypeOK /\ SettlesOnPosition
  <2> SUFFICES ASSUME Inv PROVE TypeOK /\ SettlesOnPosition
    OBVIOUS
  <2>1. ASSUME Idle, moves > 0, bootPending = WithBoot, zens = 0
        PROVE  /\ zen = ZenOf(ModeOf[slider])
               /\ ringer = RingerOf(ModeOf[slider])
    <3>1. keyEvents = 0 /\ tasks = <<>> /\ reading["input"] = None
      BY <2>1 DEF Idle, Threads
    <3> QED BY <2>1, <3>1, Zenon DEF Inv, LastReadIsSlider
  <2> QED BY <2>1, Zenon DEF Inv, SettlesOnPosition
<1> QED BY <1>1, InitInv, NextInv, PTL DEF Spec

\* Once every unmute was told of, wasMuted stands over muted music only, and
\* over all that the handler muted, but for the two races that overtaken and
\* outdated name.
THEOREM MuteFlagIsAccurate == Spec => []WasMutedAccurate
<1>1. Inv => WasMutedAccurate
  BY Zenon DEF Inv, FlagInv, WasMutedAccurate
<1> QED BY <1>1, InitInv, NextInv, PTL DEF Spec

(* The dialog is told of a mode only when ringer and zen are in force.      *)
THEOREM ToldOnlyWhenInForce == Spec => AnnouncedInForce
<1>1. ASSUME Inv, [Next]_vars, announced' # announced, zens = 0
      PROVE  zen = ZenOf(announced'.mode) /\ ringer = RingerOf(announced'.mode)
  <2>1. Announce
    <3>1. UNCHANGED vars => announced' = announced
      BY GroupsUnchanged
    <3>2. \A p \in Positions : MoveSlider(p) => announced' = announced
      BY DEF MoveSlider
    <3>3. \A t \in Threads : Submit(t) => announced' = announced
      BY DEF Submit
    <3>4. \A z \in Zens : OthersSetZen(z) => announced' = announced
      BY DEF OthersSetZen
    <3>5. ReadOnKeyEvent \/ ReadOnBoot \/ RequestZen \/ WaitZen \/ SetRinger \/ AdjustMedia
          \/ SetWasMuted \/ Unmute
          \/ ReceiveMuteChanged \/ CommitZen \/ UserTogglesMute \/ UserTogglesMuteMedia
          => announced' = announced
      BY DEF ReadOnKeyEvent, ReadOnBoot, RequestZen, WaitZen, SetRinger, AdjustMedia, SetWasMuted, Unmute,
             ReceiveMuteChanged, CommitZen, UserTogglesMute, UserTogglesMuteMedia
    <3> QED BY <1>1, <3>1, <3>2, <3>3, <3>4, <3>5, Zenon DEF Next, Executor
  <2>2. step = "announce" /\ announced'.mode = Task.mode
    BY <1>1, <2>1 DEF Announce
  <2>3. tasks # <<>>
    BY <1>1, <2>2 DEF Inv, TypeOK
  <2> QED BY <1>1, <2>2, <2>3 DEF Inv, TaskInForce, AfterRinger, AfterWait, LastSteps
<1>2. Inv /\ [Next]_vars =>
        [announced' # announced /\ zens = 0 => /\ zen = ZenOf(announced'.mode)
                                               /\ ringer = RingerOf(announced'.mode)]_vars
  BY <1>1
<1> QED BY <1>2, InitInv, NextInv, PTL DEF Spec, AnnouncedInForce

-----------------------------------------------------------------------------
(* AlertSliderPlugin *)

LEMMA LeastNat ==
  ASSUME NEW T, T \subseteq Nat, T # {}
  PROVE  \E n \in T : \A m \in T : n <= m
<1>1. IsWellFoundedOn(OpToRel(<, Nat), Nat)
  BY NatLessThanWellFounded
<1>2. PICK n \in T : \A m \in T : ~ (<<m, n>> \in OpToRel(<, Nat))
  BY <1>1, WFMin
<1>3. \A m \in T : ~(m < n)
  BY <1>2 DEF OpToRel
<1> QED BY <1>3

-----------------------------------------------------------------------------
\* removeMessages.  The queue without some messages is built one message after
\* the other; kept says what is left of the first n.
Step(q, whats, left, n) == IF q[n].what \in whats THEN left ELSE Append(left, q[n])

IsKept(q, whats, top, kept) ==
    kept = [n \in 0 .. top |-> IF n = 0 THEN <<>> ELSE Step(q, whats, kept[n - 1], n)]

LEMMA KeptExists ==
  ASSUME NEW q, NEW whats, NEW top \in Nat
  PROVE  \E kept : IsKept(q, whats, top, kept)
<1> DEFINE T == {n \in Nat : ~ \E kept : IsKept(q, whats, n, kept)}
<1> SUFFICES ASSUME T # {} PROVE FALSE
  OBVIOUS
<1>1. PICK n \in T : \A m \in T : n <= m
  BY LeastNat
<1>2. CASE n = 0
  <2>1. IsKept(q, whats, 0, [m \in 0 .. 0 |-> <<>>])
    BY DEF IsKept
  <2> QED BY <1>1, <1>2, <2>1
<1>3. CASE n # 0
  <2>1. n - 1 \in Nat /\ n - 1 \notin T /\ n \in Nat
    BY <1>1, <1>3
  <2>2. PICK kept : IsKept(q, whats, n - 1, kept)
    BY <2>1
  <2> DEFINE more == [m \in 0 .. n |-> IF m = n THEN Step(q, whats, kept[n - 1], n) ELSE kept[m]]
  <2>3. \A m \in 0 .. n - 1 : more[m] = kept[m]
    BY <2>1
  <2>4. \A m \in 0 .. n : more[m] = IF m = 0 THEN <<>> ELSE Step(q, whats, more[m - 1], m)
    <3> TAKE m \in 0 .. n
    <3>1. CASE m = n
      BY <1>3, <2>1, <2>3, <3>1
    <3>2. CASE m # n
      <4>1. m \in 0 .. n - 1 /\ (m # 0 => m - 1 \in 0 .. n - 1)
        BY <2>1, <3>2
      <4>2. kept[m] = IF m = 0 THEN <<>> ELSE Step(q, whats, kept[m - 1], m)
        BY <2>2, <4>1 DEF IsKept
      <4> QED BY <2>3, <4>1, <4>2
    <3> QED BY <3>1, <3>2
  <2>5. IsKept(q, whats, n, more)
    BY <2>4 DEF IsKept
  <2> QED BY <1>1, <2>5
<1> QED BY <1>2, <1>3

LEMMA WithoutIsKept ==
  ASSUME NEW q, NEW whats, Len(q) \in Nat
  PROVE  \E kept : IsKept(q, whats, Len(q), kept) /\ Without(q, whats) = kept[Len(q)]
<1> DEFINE Kept == CHOOSE kept : IsKept(q, whats, Len(q), kept)
<1>1. IsKept(q, whats, Len(q), Kept)
  BY KeptExists
<1>2. Without(q, whats) = Kept[Len(q)]
  BY Zenon DEF Without, IsKept, Step
<1> QED BY <1>1, <1>2

Members(q) == {q[k] : k \in 1 .. Len(q)}

LEMMA MembersAppend ==
  ASSUME NEW q \in Seq(Message), NEW m \in Message
  PROVE  Append(q, m) \in Seq(Message) /\ Members(Append(q, m)) = Members(q) \cup {m}
<1>1. /\ Len(q) \in Nat /\ Len(Append(q, m)) = Len(q) + 1
      /\ \A k \in 1 .. Len(q) : Append(q, m)[k] = q[k]
      /\ Append(q, m)[Len(q) + 1] = m
      /\ Append(q, m) \in Seq(Message)
  BY AppendProperties, LenProperties
<1>2. \A k \in 1 .. Len(q) + 1 : k \in 1 .. Len(q) \/ k = Len(q) + 1
  BY <1>1
<1>3. Len(q) + 1 \in 1 .. Len(q) + 1 /\ 1 .. Len(q) \subseteq 1 .. Len(q) + 1
  BY <1>1
<1> QED BY <1>1, <1>2, <1>3 DEF Members

LEMMA WithoutMembers ==
  ASSUME NEW q \in Seq(Message), NEW whats
  PROVE  /\ Without(q, whats) \in Seq(Message)
         /\ Members(Without(q, whats)) = {m \in Members(q) : m.what \notin whats}
<1>1. Len(q) \in Nat
  BY LenProperties
<1>2. PICK kept : IsKept(q, whats, Len(q), kept) /\ Without(q, whats) = kept[Len(q)]
  BY <1>1, WithoutIsKept
<1> DEFINE First(n) == {q[k] : k \in 1 .. n}
           Right(n) == /\ kept[n] \in Seq(Message)
                       /\ Members(kept[n]) = {m \in First(n) : m.what \notin whats}
           T == {n \in 0 .. Len(q) : ~Right(n)}
<1>3. T = {}
  <2> SUFFICES ASSUME T # {} PROVE FALSE
    OBVIOUS
  <2>0. T \subseteq Nat
    BY <1>1
  <2>1. PICK n \in T : \A m \in T : n <= m
    BY <2>0, LeastNat
  <2>2. CASE n = 0
    <3>1. kept[0] = <<>>
      BY <1>1, <1>2 DEF IsKept
    <3>2. Members(<<>>) = {} /\ First(0) = {}
      BY DEF Members
    <3> QED BY <2>1, <2>2, <3>1, <3>2, EmptySeq
  <2>3. CASE n # 0
    <3>1. n \in 1 .. Len(q) /\ n - 1 \in 0 .. Len(q) /\ n - 1 \notin T
      <4>1. n \in 0 .. Len(q)
        OBVIOUS
      <4>2. n - 1 \notin T
        <5> HIDE DEF T
        <5> QED BY <1>1, <2>1, <4>1
      <4> QED BY <1>1, <2>3, <4>1, <4>2
    <3>2. Right(n - 1)
      BY <3>1
    <3>3. kept[n] = Step(q, whats, kept[n - 1], n)
      BY <1>1, <1>2, <2>3, <3>1 DEF IsKept
    <3>4. First(n) = First(n - 1) \cup {q[n]}
      <4>1. \A k : k \in 1 .. n <=> k \in 1 .. n - 1 \/ k = n
        BY <1>1, <3>1
      <4> QED BY <4>1
    <3>5. q[n] \in Message
      BY <3>1, ElementOfSeq
    <3> HIDE DEF First
    <3>6. CASE q[n].what \in whats
      BY <2>1, <3>2, <3>3, <3>4, <3>6 DEF Step
    <3>7. CASE q[n].what \notin whats
      <4>1. kept[n] \in Seq(Message) /\ Members(kept[n]) = Members(kept[n - 1]) \cup {q[n]}
        BY <3>2, <3>3, <3>5, <3>7, MembersAppend DEF Step
      <4> QED BY <2>1, <3>2, <3>4, <3>7, <4>1
    <3> QED BY <3>6, <3>7
  <2> QED BY <2>2, <2>3
<1>4. Len(q) \in 0 .. Len(q) /\ First(Len(q)) = Members(q)
  BY <1>1 DEF Members
<1> HIDE DEF First
<1>5. Right(Len(q))
  BY <1>3, <1>4
<1> QED BY <1>2, <1>4, <1>5

LEMMA MembersTail ==
  ASSUME NEW q \in Seq(Message), q # <<>>
  PROVE  /\ Head(q) \in Message /\ Tail(q) \in Seq(Message)
         /\ Members(q) = Members(Tail(q)) \cup {Head(q)}
<1>1. /\ Len(q) \in Nat \ {0} /\ Head(q) = q[1]
      /\ Tail(q) \in Seq(Message) /\ Len(Tail(q)) = Len(q) - 1
      /\ \A k \in 1 .. Len(Tail(q)) : Tail(q)[k] = q[k + 1]
  BY EmptySeq, HeadTailProperties
<1>2. \A k \in 1 .. Len(q) : k = 1 \/ (k - 1 \in 1 .. Len(Tail(q)) /\ q[k] = Tail(q)[k - 1])
  BY <1>1
<1>3. 1 \in 1 .. Len(q) /\ \A k \in 1 .. Len(Tail(q)) : k + 1 \in 1 .. Len(q)
  BY <1>1
<1>4. Members(q) \subseteq Members(Tail(q)) \cup {Head(q)}
  <2> SUFFICES ASSUME NEW k \in 1 .. Len(q)
               PROVE  q[k] \in Members(Tail(q)) \cup {Head(q)}
    BY DEF Members
  <2>1. CASE k = 1
    BY <1>1, <2>1
  <2>2. CASE k # 1
    BY <1>2, <2>2 DEF Members
  <2> QED BY <2>1, <2>2
<1>5. Members(Tail(q)) \cup {Head(q)} \subseteq Members(q)
  BY <1>1, <1>3 DEF Members
<1> QED BY <1>1, <1>3, <1>4, <1>5, ElementOfSeq

LEMMA MembersPosted ==
  ASSUME NEW q \in Seq(Message), NEW m \in Message, NEW n \in Message
  PROVE  /\ q \o <<m>> \in Seq(Message) /\ Members(q \o <<m>>) = Members(q) \cup {m}
         /\ q \o <<m, n>> \in Seq(Message) /\ Members(q \o <<m, n>>) = Members(q) \cup {m, n}
<1>1. q \o <<m>> = Append(q, m) /\ q \o <<m, n>> = Append(Append(q, m), n)
  <2>1. /\ <<m, n>> = <<m>> \o <<n>>
        /\ <<m>> \in Seq(Message) /\ <<n>> \in Seq(Message)
    <3>1. <<m>> \in Seq(Message) /\ <<n>> \in Seq(Message) /\ <<m, n>> \in Seq(Message)
      OBVIOUS
    <3>2. Len(<<m>> \o <<n>>) = 2 /\ (<<m>> \o <<n>>)[1] = m /\ (<<m>> \o <<n>>)[2] = n
      BY <3>1, ConcatProperties
    <3>3. <<m>> \o <<n>> \in Seq(Message)
      BY <3>1, ConcatProperties
    <3>4. Len(<<m, n>>) = 2 /\ <<m, n>>[1] = m /\ <<m, n>>[2] = n
      OBVIOUS
    <3>5. \A i \in 1 .. 2 : i = 1 \/ i = 2
      OBVIOUS
    <3> QED BY <3>1, <3>2, <3>3, <3>4, <3>5, SeqEqual
  <2>2. Append(q, m) \in Seq(Message) /\ Append(q, m) = q \o <<m>>
    BY AppendIsConcat, AppendProperties
  <2>3. Append(Append(q, m), n) = (q \o <<m>>) \o <<n>>
    BY <2>2, AppendIsConcat
  <2> QED BY <2>1, <2>2, <2>3, ConcatAssociative
<1> DEFINE r == Append(q, m)
<1>2. r \in Seq(Message) /\ Members(r) = Members(q) \cup {m}
  BY MembersAppend
<1> HIDE DEF r
<1>3. Append(r, n) \in Seq(Message) /\ Members(Append(r, n)) = Members(q) \cup {m, n}
  BY <1>2, MembersAppend
<1> QED BY <1>1, <1>2, <1>3 DEF r

LEMMA PendingMembers ==
  ASSUME NEW u, NEW what
  PROVE  Pending(u, what) <=> \E m \in Members(u.queue) : m.what = what
BY DEF Pending, Members

LEMMA MessageTypes ==
  /\ \A m \in Message : m.what \in Kinds /\ m.info \in Infos \cup {NoInfo}
  /\ \A what \in Kinds : Msg(what) \in Message /\ Msg(what).what = what
  /\ \A what \in Kinds, i \in Infos \cup {NoInfo} :
        /\ InfoMsg(what, i) \in Message
        /\ InfoMsg(what, i).what = what /\ InfoMsg(what, i).info = i
BY DEF Message, Msg, InfoMsg

-----------------------------------------------------------------------------
\* What the primitives of the handler do to its fields.
LEMMA RemoveFields ==
  ASSUME NEW u \in Handlers, NEW whats
  PROVE  LET v == RemoveMessages(u, whats) IN
         /\ v \in Handlers
         /\ Members(v.queue) = {m \in Members(u.queue) : m.what \notin whats}
         /\ v.timer = (u.timer /\ "DISMISS" \notin whats)
         /\ v.shown = u.shown /\ v.showing = u.showing /\ v.orphaned = u.orphaned
<1>1. u.queue \in Seq(Message)
  BY DEF Handlers
<1>2. Without(u.queue, whats) \in Seq(Message)
  BY <1>1, WithoutMembers
<1>3. RemoveMessages(u, whats) \in Handlers
  BY <1>2 DEF Handlers, RemoveMessages
<1>4. RemoveMessages(u, whats).queue = Without(u.queue, whats)
  BY DEF Handlers, RemoveMessages
<1>5. LET v == RemoveMessages(u, whats) IN
      /\ v.timer = (u.timer /\ "DISMISS" \notin whats)
      /\ v.shown = u.shown /\ v.showing = u.showing /\ v.orphaned = u.orphaned
  BY DEF Handlers, RemoveMessages
<1> QED BY <1>1, <1>3, <1>4, <1>5, WithoutMembers

LEMMA ResetFields ==
  ASSUME NEW u \in Handlers
  PROVE  LET v == ResetTimeout(u) IN
         /\ v \in Handlers
         /\ Members(v.queue) = {m \in Members(u.queue) : m.what # "DISMISS"}
         /\ v.timer = TRUE
         /\ v.shown = u.shown /\ v.showing = u.showing /\ v.orphaned = u.orphaned
<1> DEFINE w == RemoveMessages(u, {"DISMISS"})
<1>1. /\ w \in Handlers
      /\ Members(w.queue) = {m \in Members(u.queue) : m.what # "DISMISS"}
      /\ w.shown = u.shown /\ w.showing = u.showing /\ w.orphaned = u.orphaned
  BY RemoveFields
<1> HIDE DEF w
<1>2. LET v == [w EXCEPT !.timer = TRUE] IN
      /\ v \in Handlers /\ v.queue = w.queue /\ v.timer = TRUE
      /\ v.shown = w.shown /\ v.showing = w.showing /\ v.orphaned = w.orphaned
  BY <1>1 DEF Handlers
<1> QED BY <1>1, <1>2 DEF ResetTimeout, w

LEMMA SetShowingFields ==
  ASSUME NEW u \in Handlers, NEW value \in BOOLEAN, u.showing # value
  PROVE  LET v == SetShowing(u, value) IN
         /\ v \in Handlers
         /\ Members(v.queue) = {m \in Members(u.queue) : m.what \notin {"SHOW", "DISMISS"}}
         /\ v.timer = value
         /\ v.shown = value /\ v.showing = value /\ v.orphaned = u.orphaned
<1> DEFINE cleared == RemoveMessages(u, {"SHOW", "DISMISS"})
           w == IF value THEN ResetTimeout(cleared) ELSE cleared
<1>1. /\ cleared \in Handlers
      /\ Members(cleared.queue) = {m \in Members(u.queue) : m.what \notin {"SHOW", "DISMISS"}}
      /\ cleared.timer = FALSE /\ cleared.orphaned = u.orphaned
  BY RemoveFields
<1> HIDE DEF cleared
<1>2. /\ w \in Handlers /\ w.timer = value /\ w.orphaned = u.orphaned
      /\ Members(w.queue) = {m \in Members(u.queue) : m.what \notin {"SHOW", "DISMISS"}}
  BY <1>1, ResetFields
<1>3. SetShowing(u, value) = [w EXCEPT !.shown = value, !.showing = value]
  BY DEF SetShowing, cleared
<1> HIDE DEF w
<1>4. LET v == [w EXCEPT !.shown = value, !.showing = value] IN
      /\ v \in Handlers /\ v.queue = w.queue /\ v.timer = w.timer
      /\ v.shown = value /\ v.showing = value /\ v.orphaned = w.orphaned
  BY <1>2 DEF Handlers
<1> QED BY <1>2, <1>3, <1>4

LEMMA PostFields ==
  ASSUME NEW u \in Handlers, NEW ms, u.queue \o ms \in Seq(Message)
  PROVE  LET v == Post(u, ms) IN
         /\ v \in Handlers /\ v.queue = u.queue \o ms /\ v.timer = u.timer
         /\ v.shown = u.shown /\ v.showing = u.showing /\ v.orphaned = u.orphaned
BY DEF Handlers, Post

LEMMA RestFields ==
  ASSUME ui \in Handlers, ui.queue # <<>>
  PROVE  /\ Rest \in Handlers /\ Rest.queue = Tail(ui.queue) /\ Rest.timer = ui.timer
         /\ Rest.shown = ui.shown /\ Rest.showing = ui.showing /\ Rest.orphaned = ui.orphaned
         /\ Head(ui.queue) \in Message
         /\ Members(ui.queue) = Members(Rest.queue) \cup {Head(ui.queue)}
<1>1. ui.queue \in Seq(Message)
  BY DEF Handlers
<1>2. Tail(ui.queue) \in Seq(Message)
  BY <1>1, MembersTail
<1>3. /\ Rest \in Handlers /\ Rest.queue = Tail(ui.queue) /\ Rest.timer = ui.timer
      /\ Rest.shown = ui.shown /\ Rest.showing = ui.showing /\ Rest.orphaned = ui.orphaned
  BY <1>2 DEF Handlers, Rest
<1> QED BY <1>1, <1>3, MembersTail

-----------------------------------------------------------------------------
Has(u, what) == \E m \in Members(u.queue) : m.what = what

\* A window is up exactly while the handler takes it to be, and then a dismissal
\* is on its way.
WindowInv ==
    /\ NoOrphanWindow
    /\ ui.showing => ui.timer \/ Has(ui, "DISMISS")

\* Only a dialog that is up is animated, never with a dismissal in the queue,
\* and always to the last update; otherwise it has got there.
DialogInv ==
    /\ dialog.mode = lastInfo
    /\ IF dialog.anim = NoInfo THEN dialog.position = lastInfo ELSE dialog.anim = lastInfo
    /\ dialog.anim # NoInfo => ui.shown /\ ~Has(ui, "DISMISS")
    /\ \A m \in Members(ui.queue) : m.what \in {"CHANGED", "UPDATE"} => m.info \in Infos

Typed == ui \in Handlers /\ dialog \in Dialogs /\ lastInfo \in Infos \cup {NoInfo}

PluginInv == Typed /\ WindowInv /\ DialogInv

LEMMA PluginInitInv == PluginInit => PluginInv
<1> SUFFICES ASSUME PluginInit PROVE PluginInv
  OBVIOUS
<1>1. ui.queue = <<>> /\ ui.showing = FALSE /\ ui.shown = FALSE /\ ui.orphaned = FALSE
  BY DEF PluginInit
<1>2. Typed
  BY EmptySeq DEF PluginInit, Typed, Handlers, Dialogs, FreshDialog
<1>3. Members(ui.queue) = {}
  BY <1>1 DEF Members
<1>4. dialog.mode = NoInfo /\ dialog.anim = NoInfo /\ dialog.position = NoInfo /\ lastInfo = NoInfo
  BY DEF PluginInit, FreshDialog
<1>5. WindowInv
  BY <1>1 DEF WindowInv, NoOrphanWindow
<1>6. DialogInv
  BY <1>3, <1>4 DEF DialogInv
<1> QED BY <1>2, <1>5, <1>6 DEF PluginInv

\* A step that only adds, or takes away, what is not a dismissal.
LEMMA OthersQueued ==
  ASSUME PluginInv, UNCHANGED <<dialog, lastInfo>>, ui' \in Handlers,
         ui'.shown = ui.shown, ui'.showing = ui.showing, ui'.orphaned = ui.orphaned,
         ui'.timer = ui.timer, Has(ui', "DISMISS") <=> Has(ui, "DISMISS"),
         \A m \in Members(ui'.queue) : m \in Members(ui.queue) \/ m.what \notin {"CHANGED", "UPDATE"}
                                         \/ m.info \in Infos
  PROVE  PluginInv'
<1>1. Typed'
  BY DEF PluginInv, Typed
<1>2. WindowInv'
  BY DEF PluginInv, WindowInv, NoOrphanWindow
<1>3. DialogInv'
  BY DEF PluginInv, DialogInv
<1> QED BY <1>1, <1>2, <1>3 DEF PluginInv

LEMMA BroadcastInv ==
  ASSUME PluginInv, NEW m \in Message, m.what # "DISMISS",
         m.what \in {"CHANGED", "UPDATE"} => m.info \in Infos,
         ui' = Post(ui, <<m>>), UNCHANGED <<dialog, lastInfo>>
  PROVE  PluginInv'
<1>1. ui \in Handlers /\ ui.queue \in Seq(Message)
  BY DEF PluginInv, Typed, Handlers
<1>2. ui.queue \o <<m>> \in Seq(Message) /\ Members(ui.queue \o <<m>>) = Members(ui.queue) \cup {m}
  BY <1>1, MembersPosted
<1>3. /\ ui' \in Handlers /\ Members(ui'.queue) = Members(ui.queue) \cup {m}
      /\ ui'.timer = ui.timer /\ ui'.shown = ui.shown /\ ui'.showing = ui.showing
      /\ ui'.orphaned = ui.orphaned
  BY <1>1, <1>2, PostFields
<1> QED BY <1>3, OthersQueued DEF Has

\* A receiver takes its broadcast and posts messages for the handler.
LEMMA ReceiverInv ==
  ASSUME PluginInv, ui.queue # <<>>, Head(ui.queue).what # "DISMISS",
         UNCHANGED <<dialog, lastInfo>>,
         NEW m \in Message, NEW n \in Message, m.what # "DISMISS", n.what # "DISMISS",
         m.what \in {"CHANGED", "UPDATE"} => m.info \in Infos,
         n.what \notin {"CHANGED", "UPDATE"},
         ui' = Post(Rest, <<m, n>>) \/ ui' = Post(Rest, <<m>>)
  PROVE  /\ PluginInv'
         /\ Members(ui.queue) \subseteq Members(ui'.queue) \cup {Head(ui.queue)}
<1>1. ui \in Handlers
  BY DEF PluginInv, Typed
<1>2. /\ Rest \in Handlers /\ Rest.timer = ui.timer
      /\ Rest.shown = ui.shown /\ Rest.showing = ui.showing /\ Rest.orphaned = ui.orphaned
      /\ Members(ui.queue) = Members(Rest.queue) \cup {Head(ui.queue)}
  BY <1>1, RestFields
<1>3. Rest.queue \in Seq(Message)
  BY <1>2 DEF Handlers
<1>4. /\ ui' \in Handlers
      /\ Members(ui'.queue) = Members(Rest.queue) \cup {m, n} \/ Members(ui'.queue) = Members(Rest.queue) \cup {m}
      /\ ui'.timer = ui.timer /\ ui'.shown = ui.shown /\ ui'.showing = ui.showing
      /\ ui'.orphaned = ui.orphaned
  <2>1. /\ Rest.queue \o <<m>> \in Seq(Message)
        /\ Members(Rest.queue \o <<m>>) = Members(Rest.queue) \cup {m}
        /\ Rest.queue \o <<m, n>> \in Seq(Message)
        /\ Members(Rest.queue \o <<m, n>>) = Members(Rest.queue) \cup {m, n}
    BY <1>3, MembersPosted
  <2>2. CASE ui' = Post(Rest, <<m, n>>)
    BY <1>2, <2>1, <2>2, PostFields
  <2>3. CASE ui' = Post(Rest, <<m>>)
    BY <1>2, <2>1, <2>3, PostFields
  <2> QED BY <2>2, <2>3
<1>5. Has(ui', "DISMISS") <=> Has(ui, "DISMISS")
  BY <1>2, <1>4 DEF Has
<1>6. \A k \in Members(ui'.queue) : k \in Members(ui.queue) \/ k.what \notin {"CHANGED", "UPDATE"}
                                       \/ k.info \in Infos
  BY <1>2, <1>4
<1>7. PluginInv'
  BY <1>4, <1>5, <1>6, OthersQueued
<1> QED BY <1>2, <1>4, <1>7

LEMMA UpdateInv == ASSUME PluginInv, HandleUpdate PROVE PluginInv' /\ (Has(ui, "SHOW") => Has(ui', "SHOW"))
<1>1. ui \in Handlers /\ ui.queue # <<>> /\ Head(ui.queue).what = "UPDATE"
  BY DEF PluginInv, Typed, HandleUpdate, Handling
<1>2. /\ Rest \in Handlers
      /\ Rest.shown = ui.shown /\ Rest.showing = ui.showing /\ Rest.orphaned = ui.orphaned
      /\ Members(ui.queue) = Members(Rest.queue) \cup {Head(ui.queue)}
  BY <1>1, RestFields
<1>3. /\ ui' \in Handlers
      /\ Members(ui'.queue) = {m \in Members(Rest.queue) : m.what # "DISMISS"}
      /\ ui'.timer = TRUE /\ ui'.shown = ui.shown /\ ui'.showing = ui.showing
      /\ ui'.orphaned = ui.orphaned
  BY <1>2, ResetFields DEF HandleUpdate
<1>4. lastInfo' \in Infos /\ lastInfo' # NoInfo
  BY <1>1, <1>2, PluginAssumption DEF HandleUpdate, PluginInv, DialogInv
<1>5. /\ dialog' \in Dialogs /\ dialog'.mode = lastInfo'
      /\ IF ui.shown THEN dialog'.anim = lastInfo'
                     ELSE dialog'.anim = dialog.anim /\ dialog'.position = lastInfo'
  BY <1>4 DEF HandleUpdate, SetState, PluginInv, Typed, Dialogs
<1>6. WindowInv'
  BY <1>3 DEF PluginInv, WindowInv, NoOrphanWindow
<1>7. DialogInv'
  BY <1>2, <1>3, <1>4, <1>5 DEF PluginInv, DialogInv, Has
<1> QED BY <1>1, <1>2, <1>3, <1>4, <1>5, <1>6, <1>7 DEF PluginInv, Typed, Has

LEMMA ShowInv == ASSUME PluginInv, HandleShow PROVE PluginInv' /\ ui'.showing
<1>1. ui \in Handlers /\ ui.queue # <<>> /\ Head(ui.queue).what = "SHOW"
      /\ ui' = SetShowing(Rest, TRUE) /\ UNCHANGED <<dialog, lastInfo>>
  BY DEF PluginInv, Typed, HandleShow, Handling
<1>2. /\ Rest \in Handlers /\ Rest.timer = ui.timer
      /\ Rest.shown = ui.shown /\ Rest.showing = ui.showing /\ Rest.orphaned = ui.orphaned
      /\ Members(ui.queue) = Members(Rest.queue) \cup {Head(ui.queue)}
  BY <1>1, RestFields
<1>3. CASE ui.showing = TRUE
  <2>1. ui' = Rest
    BY <1>1, <1>2, <1>3 DEF SetShowing
  <2> QED BY <1>1, <1>2, <1>3, <2>1, OthersQueued DEF Has
<1>4. CASE ui.showing # TRUE
  <2>1. /\ ui' \in Handlers
        /\ Members(ui'.queue) = {m \in Members(Rest.queue) : m.what \notin {"SHOW", "DISMISS"}}
        /\ ui'.timer = TRUE /\ ui'.shown = TRUE /\ ui'.showing = TRUE
        /\ ui'.orphaned = ui.orphaned
    BY <1>1, <1>2, <1>4, SetShowingFields
  <2>2. WindowInv'
    BY <2>1 DEF PluginInv, WindowInv, NoOrphanWindow
  <2>3. DialogInv'
    BY <1>1, <1>2, <2>1 DEF PluginInv, DialogInv, Has
  <2> QED BY <1>1, <2>1, <2>2, <2>3 DEF PluginInv, Typed
<1> QED BY <1>3, <1>4

LEMMA DismissInv == ASSUME PluginInv, HandleDismiss PROVE PluginInv'
<1>1. ui \in Handlers /\ ui.queue # <<>> /\ Head(ui.queue).what = "DISMISS"
      /\ ui' = SetShowing(Rest, FALSE) /\ UNCHANGED <<dialog, lastInfo>>
  BY DEF PluginInv, Typed, HandleDismiss, Handling
<1>2. /\ Rest \in Handlers /\ Rest.timer = ui.timer
      /\ Rest.shown = ui.shown /\ Rest.showing = ui.showing /\ Rest.orphaned = ui.orphaned
      /\ Members(ui.queue) = Members(Rest.queue) \cup {Head(ui.queue)}
  BY <1>1, RestFields
<1>3. dialog.anim = NoInfo
  BY <1>1, <1>2 DEF PluginInv, DialogInv, Has
<1>4. /\ ui' \in Handlers /\ ui'.showing = FALSE /\ ui'.shown = ui'.showing
      /\ ui'.orphaned = ui.orphaned /\ Members(ui'.queue) \subseteq Members(Rest.queue)
  <2>1. CASE ui.showing = FALSE
    BY <1>1, <1>2, <2>1 DEF SetShowing, PluginInv, WindowInv, NoOrphanWindow
  <2>2. CASE ui.showing # FALSE
    BY <1>1, <1>2, <2>2, SetShowingFields
  <2> QED BY <2>1, <2>2
<1>5. WindowInv'
  BY <1>4 DEF PluginInv, WindowInv, NoOrphanWindow
<1>6. DialogInv'
  BY <1>1, <1>2, <1>3, <1>4 DEF PluginInv, DialogInv
<1> QED BY <1>1, <1>4, <1>5, <1>6 DEF PluginInv, Typed

LEMMA ReplaceFields ==
  ASSUME NEW u \in Handlers, u.shown = FALSE
  PROVE  LET v == Replace(u) IN
         /\ v \in Handlers /\ v.queue = u.queue /\ v.timer = u.timer
         /\ v.shown = FALSE /\ v.showing = u.showing /\ v.orphaned = u.orphaned
BY DEF Handlers, Replace

\* The old dialog is dismissed before it is replaced, and the new one shown only
\* if the old one was; then it has the last state from the start.
LEMMA RehostedFields ==
  ASSUME NEW u \in Handlers, u.shown = u.showing
  PROVE  LET v == Rehosted(u) IN
         /\ v \in Handlers
         /\ v.shown = v.showing /\ v.showing = u.showing /\ v.orphaned = u.orphaned
         /\ IF u.showing = TRUE THEN v.timer = TRUE ELSE v = Replace(u) /\ v.queue = u.queue
         /\ Members(v.queue) \subseteq Members(u.queue)
<1>1. CASE u.showing = TRUE
  <2> DEFINE down == SetShowing(u, FALSE)
             new == Replace(down)
  <2>1. /\ down \in Handlers /\ Members(down.queue) \subseteq Members(u.queue)
        /\ down.shown = FALSE /\ down.showing = FALSE /\ down.orphaned = u.orphaned
    BY <1>1, SetShowingFields
  <2> HIDE DEF down
  <2>2. /\ new \in Handlers /\ new.queue = down.queue
        /\ new.showing = FALSE /\ new.orphaned = u.orphaned
    BY <2>1, ReplaceFields
  <2> HIDE DEF new
  <2>3. LET v == SetShowing(new, TRUE) IN
        /\ v \in Handlers /\ v.shown = TRUE /\ v.showing = TRUE /\ v.orphaned = u.orphaned
        /\ v.timer = TRUE /\ Members(v.queue) \subseteq Members(new.queue)
    BY <2>2, SetShowingFields
  <2>4. Rehosted(u) = SetShowing(new, TRUE)
    BY <1>1 DEF Rehosted, new, down
  <2> QED BY <1>1, <2>1, <2>2, <2>3, <2>4
<1>2. CASE u.showing # TRUE
  <2>1. u.showing = FALSE
    BY <1>2 DEF Handlers
  <2>2. SetShowing(u, FALSE) = u
    BY <2>1 DEF SetShowing
  <2>3. Rehosted(u) = Replace(u)
    BY <2>1, <2>2 DEF Rehosted
  <2> QED BY <2>1, <2>3, ReplaceFields
<1> QED BY <1>1, <1>2

LEMMA RecreateInv ==
  ASSUME PluginInv, HandleRecreate
  PROVE  PluginInv' /\ (Has(ui, "SHOW") => Has(ui', "SHOW") \/ ui'.showing)
<1>1. ui \in Handlers /\ ui.queue # <<>> /\ Head(ui.queue).what = "RECREATE" /\ UNCHANGED lastInfo
  BY DEF PluginInv, Typed, HandleRecreate, Handling
<1>2. /\ Rest \in Handlers /\ Rest.timer = ui.timer
      /\ Rest.shown = ui.shown /\ Rest.showing = ui.showing /\ Rest.orphaned = ui.orphaned
      /\ Members(ui.queue) = Members(Rest.queue) \cup {Head(ui.queue)}
  BY <1>1, RestFields
<1>3. CASE ui' = Rest /\ UNCHANGED dialog
  BY <1>1, <1>2, <1>3, OthersQueued DEF Has
<1>4. CASE ui' = Rehosted(Rest) /\ dialog' = Recreated
  <2>1. Rest.shown = Rest.showing
    BY <1>2 DEF PluginInv, WindowInv, NoOrphanWindow
  <2>2. /\ ui' \in Handlers /\ ui'.shown = ui'.showing
        /\ ui'.showing = ui.showing /\ ui'.orphaned = ui.orphaned
        /\ Members(ui'.queue) \subseteq Members(Rest.queue)
        /\ IF ui.showing = TRUE THEN ui'.timer = TRUE ELSE ui'.queue = Rest.queue
    BY <1>2, <1>4, <2>1, RehostedFields
  <2>3. /\ dialog' \in Dialogs /\ dialog'.mode = lastInfo
        /\ dialog'.anim = NoInfo /\ dialog'.position = lastInfo
    BY <1>4 DEF Recreated, FreshDialog, SetState, Dialogs, PluginInv, Typed
  <2>4. ui.showing \in BOOLEAN
    BY <1>1 DEF Handlers
  <2>5. WindowInv'
    BY <2>2, <2>4 DEF PluginInv, WindowInv, NoOrphanWindow
  <2>6. DialogInv'
    BY <1>1, <1>2, <2>2, <2>3 DEF PluginInv, DialogInv
  <2>7. Has(ui, "SHOW") => Has(ui', "SHOW") \/ ui'.showing
    BY <1>1, <1>2, <2>2, <2>4 DEF Has
  <2> QED BY <1>1, <2>2, <2>3, <2>5, <2>6, <2>7 DEF PluginInv, Typed
<1> QED BY <1>3, <1>4 DEF HandleRecreate

LEMMA TimeoutInv ==
  ASSUME PluginInv, TimeoutDue
  PROVE  PluginInv' /\ (Has(ui, "SHOW") => Has(ui', "SHOW"))
<1> DEFINE off == [ui EXCEPT !.timer = FALSE]
<1>1. ui \in Handlers /\ dialog.anim = NoInfo /\ UNCHANGED <<dialog, lastInfo>>
      /\ ui' = Post(off, <<Msg("DISMISS")>>)
  BY DEF PluginInv, Typed, TimeoutDue
<1>2. /\ off \in Handlers /\ off.queue = ui.queue /\ off.shown = ui.shown
      /\ off.showing = ui.showing /\ off.orphaned = ui.orphaned
  BY <1>1 DEF Handlers
<1> HIDE DEF off
<1>3. Msg("DISMISS") \in Message /\ Msg("DISMISS").what = "DISMISS" /\ off.queue \in Seq(Message)
  BY <1>2, MessageTypes DEF Kinds, Handlers
<1>4. /\ off.queue \o <<Msg("DISMISS")>> \in Seq(Message)
      /\ Members(off.queue \o <<Msg("DISMISS")>>) = Members(ui.queue) \cup {Msg("DISMISS")}
  BY <1>2, <1>3, MembersPosted
<1>5. /\ ui' \in Handlers /\ Members(ui'.queue) = Members(ui.queue) \cup {Msg("DISMISS")}
      /\ ui'.shown = ui.shown /\ ui'.showing = ui.showing /\ ui'.orphaned = ui.orphaned
  BY <1>1, <1>2, <1>4, PostFields
<1>6. WindowInv'
  BY <1>3, <1>5 DEF PluginInv, WindowInv, NoOrphanWindow, Has
<1>7. DialogInv'
  BY <1>1, <1>3, <1>5 DEF PluginInv, DialogInv
<1> QED BY <1>1, <1>5, <1>6, <1>7 DEF PluginInv, Typed, Has

LEMMA AnimationInv == ASSUME PluginInv, AnimationEnd PROVE PluginInv'
<1>1. /\ dialog.anim # NoInfo /\ dialog \in Dialogs
      /\ dialog' = [dialog EXCEPT !.position = dialog.anim, !.anim = NoInfo]
      /\ UNCHANGED <<ui, lastInfo>>
  BY DEF PluginInv, Typed, AnimationEnd
<1>2. /\ dialog' \in Dialogs /\ dialog'.mode = dialog.mode
      /\ dialog'.position = dialog.anim /\ dialog'.anim = NoInfo
  BY <1>1 DEF Dialogs
<1> QED BY <1>1, <1>2 DEF PluginInv, Typed, WindowInv, NoOrphanWindow, DialogInv, Has

\* Receiving and broadcasting change nothing but the queue.
LEMMA ReceiveInv ==
  ASSUME PluginInv, ReceiveChanged \/ ReceiveConfiguration
  PROVE  PluginInv' /\ (Has(ui, "SHOW") => Has(ui', "SHOW"))
<1>1. ui \in Handlers /\ ui.queue # <<>> /\ UNCHANGED <<dialog, lastInfo>>
  BY DEF PluginInv, Typed, ReceiveChanged, ReceiveConfiguration, Handling
<1>2. Head(ui.queue) \in Message /\ Head(ui.queue) \in Members(ui.queue)
  BY <1>1, RestFields
<1>3. \A what \in Kinds : Msg(what) \in Message /\ Msg(what).what = what
  BY MessageTypes
<1>4. CASE ReceiveChanged
  <2> DEFINE i == Head(ui.queue).info
  <2>1. Head(ui.queue).what = "CHANGED" /\ i \in Infos
    BY <1>2, <1>4 DEF ReceiveChanged, Handling, PluginInv, DialogInv
  <2>2. InfoMsg("UPDATE", i) \in Message /\ InfoMsg("UPDATE", i).what = "UPDATE"
        /\ InfoMsg("UPDATE", i).info = i
    BY <2>1, MessageTypes DEF Kinds
  <2>3. ui' = Post(Rest, <<InfoMsg("UPDATE", i), Msg("SHOW")>>)
    BY <1>4 DEF ReceiveChanged
  <2>4. Msg("SHOW") \in Message /\ Msg("SHOW").what = "SHOW"
    BY <1>3 DEF Kinds
  <2> HIDE DEF i
  <2>5. PluginInv' /\ Members(ui.queue) \subseteq Members(ui'.queue) \cup {Head(ui.queue)}
    BY <1>1, <2>1, <2>2, <2>3, <2>4, ReceiverInv
  <2> QED BY <2>1, <2>5 DEF Has
<1>5. CASE ReceiveConfiguration
  <2>1. Head(ui.queue).what = "CONFIGURATION" /\ ui' = Post(Rest, <<Msg("RECREATE")>>)
    BY <1>5 DEF ReceiveConfiguration, Handling
  <2>2. Msg("RECREATE") \in Message /\ Msg("RECREATE").what = "RECREATE"
    BY <1>3 DEF Kinds
  <2>3. PluginInv' /\ Members(ui.queue) \subseteq Members(ui'.queue) \cup {Head(ui.queue)}
    BY <1>1, <2>1, <2>2, ReceiverInv
  <2> QED BY <2>1, <2>3 DEF Has
<1> QED BY <1>4, <1>5

LEMMA BroadcastsInv ==
  ASSUME PluginInv,
         (\E i \in Infos : SliderChanged(i)) \/ (\E c \in Configs : ConfigurationChanged(c))
  PROVE  PluginInv' /\ (Has(ui, "SHOW") => Has(ui', "SHOW"))
<1>1. PICK m \in Message : /\ m.what \in {"CHANGED", "CONFIGURATION"}
                           /\ m.what = "CHANGED" => m.info \in Infos
                           /\ ui' = Post(ui, <<m>>)
  <2>1. \A i \in Infos : /\ InfoMsg("CHANGED", i) \in Message
                          /\ InfoMsg("CHANGED", i).what = "CHANGED"
                          /\ InfoMsg("CHANGED", i).info = i
    BY MessageTypes DEF Kinds
  <2>2. Msg("CONFIGURATION") \in Message /\ Msg("CONFIGURATION").what = "CONFIGURATION"
    BY MessageTypes DEF Kinds
  <2> QED BY <2>1, <2>2 DEF SliderChanged, ConfigurationChanged
<1>2. UNCHANGED <<dialog, lastInfo>>
  BY DEF SliderChanged, ConfigurationChanged
<1>3. PluginInv'
  BY <1>1, <1>2, BroadcastInv
<1>4. ui \in Handlers /\ ui.queue \in Seq(Message)
  BY DEF PluginInv, Typed, Handlers
<1>5. ui.queue \o <<m>> \in Seq(Message) /\ Members(ui.queue \o <<m>>) = Members(ui.queue) \cup {m}
  BY <1>4, MembersPosted
<1>6. Members(ui'.queue) = Members(ui.queue) \cup {m}
  BY <1>1, <1>4, <1>5, PostFields
<1> QED BY <1>3, <1>6 DEF Has

\* One step of the plugin: the invariant holds on, and a request to show the
\* dialog is lost only as ShowLostOnlyToDismissal says.
LEMMA PluginNextInv ==
  ASSUME PluginInv, [PluginNext]_pluginVars
  PROVE  /\ PluginInv'
         /\ Has(ui, "SHOW") /\ ~Has(ui', "SHOW") => ui'.showing \/ Handling("DISMISS")
<1>1. CASE UNCHANGED pluginVars
  BY <1>1 DEF pluginVars, PluginInv, Typed, WindowInv, NoOrphanWindow, DialogInv, Has
<1>2. CASE (\E i \in Infos : SliderChanged(i)) \/ (\E c \in Configs : ConfigurationChanged(c))
  BY <1>2, BroadcastsInv
<1>3. CASE ReceiveChanged \/ ReceiveConfiguration
  BY <1>3, ReceiveInv
<1>4. CASE HandleUpdate
  BY <1>4, UpdateInv
<1>5. CASE HandleShow
  BY <1>5, ShowInv
<1>6. CASE HandleDismiss
  BY <1>6, DismissInv DEF HandleDismiss
<1>7. CASE HandleRecreate
  BY <1>7, RecreateInv
<1>8. CASE TimeoutDue
  BY <1>8, TimeoutInv
<1>9. CASE AnimationEnd
  BY <1>9, AnimationInv DEF AnimationEnd
<1> QED BY <1>1, <1>2, <1>3, <1>4, <1>5, <1>6, <1>7, <1>8, <1>9 DEF PluginNext, Looper

-----------------------------------------------------------------------------
LEMMA PluginSafe == PluginSpec => []PluginInv
BY PluginInitInv, PluginNextInv, PTL DEF PluginSpec

\* The handler's messages and the dialog keep their types, the queue is a queue.
THEOREM PluginTypeCorrect == PluginSpec => []PluginTypeOK
<1> DEFINE Bounded == /\ currConfig \in Configs /\ config \in Configs
                      /\ changes \in 0 .. MaxChanges /\ configs \in 0 .. MaxConfigs
<1>1. PluginInit => Bounded
  BY PluginAssumption DEF PluginInit
<1>2. Bounded /\ [PluginNext]_pluginVars => Bounded'
  <2> SUFFICES ASSUME Bounded, [PluginNext]_pluginVars PROVE Bounded'
    OBVIOUS
  <2>1. CASE UNCHANGED pluginVars
    BY <2>1 DEF pluginVars
  <2>2. ASSUME NEW i \in Infos, SliderChanged(i) PROVE Bounded'
    BY <2>2, PluginAssumption DEF SliderChanged
  <2>3. ASSUME NEW c \in Configs, ConfigurationChanged(c) PROVE Bounded'
    BY <2>3, PluginAssumption DEF ConfigurationChanged
  <2>4. CASE Looper \/ TimeoutDue \/ AnimationEnd
    BY <2>4 DEF Looper, ReceiveChanged, ReceiveConfiguration, HandleUpdate, HandleShow,
                HandleDismiss, HandleRecreate, TimeoutDue, AnimationEnd
  <2> QED BY <2>1, <2>2, <2>3, <2>4 DEF PluginNext
<1>3. PluginInv /\ Bounded => PluginTypeOK
  BY DEF PluginInv, Typed, PluginTypeOK
<1> HIDE DEF Bounded
<1> QED BY <1>1, <1>2, <1>3, PluginSafe, PTL DEF PluginSpec

\* AlertSliderPlugin replaces its dialog on a configuration change; none is left
\* on screen where nothing could dismiss it, and whatever crosses, a dialog that
\* is up shows the last update it was sent.
THEOREM DialogUpToDate == PluginSpec => []DialogKeepsUp
<1>1. PluginInv => NoOrphanWindow
  BY DEF PluginInv, WindowInv
<1>2. PluginInv => ShowsLastUpdate
  BY DEF PluginInv, DialogInv, ShowsLastUpdate
<1>3. PluginInv => DialogKeepsUp
  BY <1>1, <1>2 DEF DialogKeepsUp
<1> QED BY <1>3, PluginSafe, PTL

\* A dialog that is up has its dismissal in the looper's queue or due to get
\* there, through updates, repeated shows and recreations.
THEOREM DismissalComes == PluginSpec => []WillBeDismissed
<1>1. PluginInv => WillBeDismissed
  BY PendingMembers DEF PluginInv, WindowInv, WillBeDismissed, Has
<1> QED BY <1>1, PluginSafe, PTL

\* A request to show the dialog is not lost, except to a dismissal that was due
\* before it.
THEOREM ShowNotLost == PluginSpec => ShowLostOnlyToDismissal
<1>1. PluginInv /\ [PluginNext]_pluginVars =>
        [Pending(ui, "SHOW") /\ ~Pending(ui', "SHOW") => ui'.showing \/ Handling("DISMISS")]_pluginVars
  BY PluginNextInv, PendingMembers DEF Has
<1> QED BY <1>1, PluginSafe, PTL DEF PluginSpec, ShowLostOnlyToDismissal
=============================================================================
