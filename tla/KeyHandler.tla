----------------------------- MODULE KeyHandler -----------------------------
(***************************************************************************)
(* The alert slider's key handler in system_server (packages/KeyHandler,   *)
(* KeyHandler.kt).  A key event says only that the slider moved; its       *)
(* position is read from /proc when the event is handled.  The work is     *)
(* done by a single-threaded executor, which waits for each zen mode       *)
(* change to be committed.  At boot the main thread does the same once,    *)
(* and it also receives the broadcasts about the music stream's mute.      *)
(***************************************************************************)
EXTENDS Naturals, Sequences

CONSTANTS Positions,    \* positions of the slider
          ModeOf,       \* preferences: the mode configured for each position
          WithBoot,     \* whether BOOT_COMPLETED may arrive
          ExternalZen,  \* bound: zen mode changes made by others
          MaxMoves,     \* bound: movements of the slider
          MaxUser       \* bound: times the user mutes, unmutes or changes the preference

RingerModes == {"silent", "vibrate", "normal"}
ZenModes == {"priority", "total", "alarms"}
Modes == RingerModes \cup ZenModes

ASSUME KeyHandlerAssumption ==
    /\ ModeOf \in [Positions -> Modes]
    /\ WithBoot \in BOOLEAN
    /\ ExternalZen \in Nat /\ MaxMoves \in Nat /\ MaxUser \in Nat

Threads == {"input", "main"}

VARIABLES
    slider,         \* where the slider is
    keyEvents,      \* movements whose key event was not handled yet
    bootPending,    \* BOOT_COMPLETED is still to come
    muteMedia,      \* preference: mute media with silent
    reading,        \* what each thread has read and not submitted yet
    tasks,          \* executor queue; the head is the running task
    step,           \* what the running task does next
    zen, zenRequest, zenTarget,
    ringer,
    muted, wasMuted,
    muteBroadcasts, \* STREAM_MUTE_CHANGED broadcasts under way: the new states
    handlerMuted,   \* history: media is muted, and the handler was the last to do it
    overtaken,      \* history: the mute was undone, and told of, before wasMuted was set
    outdated,       \* history: the handler muted again before an unmute was told of
    announced,      \* last position and mode sent to the dialog
    moves, zens, userActs

inputVars == <<slider, keyEvents, bootPending, muteMedia, moves>>
zenVars   == <<zen, zenRequest, zenTarget, zens>>
raceVars  == <<handlerMuted, overtaken, outdated>>
muteVars  == <<muted, wasMuted, muteBroadcasts, userActs, raceVars>>
vars == <<inputVars, reading, tasks, step, zenVars, ringer, muteVars, announced>>

None == [position |-> "none"]
Reads == {None} \cup [position : Positions, firstRun : BOOLEAN]
Tasks == [position : Positions, mode : Modes, muteMedia : BOOLEAN, firstRun : BOOLEAN]
Steps == {"idle", "zen", "waitZen", "ringer", "media", "setFlag", "unmute", "announce"}
Zens == {"off"} \cup ZenModes

TypeOK ==
    /\ slider \in Positions /\ keyEvents \in 0..MaxMoves
    /\ bootPending \in BOOLEAN /\ muteMedia \in BOOLEAN
    /\ reading \in [Threads -> Reads]
    /\ tasks \in Seq(Tasks) /\ step \in Steps
    /\ step = "idle" <=> tasks = <<>>
    /\ zen \in Zens /\ zenRequest \in Zens \cup {"none"} /\ zenTarget \in Zens
    /\ ringer \in RingerModes
    /\ muted \in BOOLEAN /\ wasMuted \in BOOLEAN /\ muteBroadcasts \in Seq(BOOLEAN)
    /\ handlerMuted \in BOOLEAN /\ overtaken \in BOOLEAN /\ outdated \in BOOLEAN
    /\ announced \in [position : Positions, mode : Modes] \cup {None}

Init ==
    /\ slider \in Positions /\ keyEvents = 0
    /\ bootPending = WithBoot /\ muteMedia \in BOOLEAN
    /\ reading = [t \in Threads |-> None]
    /\ tasks = <<>> /\ step = "idle"
    /\ zen = "off" /\ zenRequest = "none" /\ zenTarget = "off"
    /\ ringer = "normal"
    /\ muted = FALSE /\ wasMuted = FALSE /\ muteBroadcasts = <<>>
    /\ handlerMuted = FALSE /\ overtaken = FALSE /\ outdated = FALSE
    /\ announced = None
    /\ moves = 0 /\ zens = 0 /\ userActs = 0

-----------------------------------------------------------------------------
(* Slider and preferences *)

MoveSlider(p) ==
    /\ moves < MaxMoves /\ p # slider
    /\ slider' = p /\ keyEvents' = keyEvents + 1 /\ moves' = moves + 1
    /\ UNCHANGED <<bootPending, muteMedia, reading, tasks, step, zenVars, ringer,
                   muteVars, announced>>

(* populateKeyState reads the position ... *)
ReadOnKeyEvent ==
    /\ keyEvents > 0 /\ reading["input"] = None
    /\ keyEvents' = keyEvents - 1
    /\ reading' = [reading EXCEPT !["input"] = [position |-> slider, firstRun |-> FALSE]]
    /\ UNCHANGED <<slider, bootPending, muteMedia, moves, tasks, step, zenVars, ringer,
                   muteVars, announced>>

ReadOnBoot ==
    /\ bootPending
    /\ bootPending' = FALSE
    /\ reading' = [reading EXCEPT !["main"] = [position |-> slider, firstRun |-> TRUE]]
    /\ UNCHANGED <<slider, keyEvents, muteMedia, moves, tasks, step, zenVars, ringer,
                   muteVars, announced>>

FirstStep(mode) == IF mode \in ZenModes THEN "ringer" ELSE "zen"
Start(queue) == IF queue = <<>> THEN "idle" ELSE FirstStep(Head(queue).mode)

(* Seeded fault: the task is dropped while another one is running. *)
SubmitUnlessBusy(t) ==
    LET r == reading[t]
        task == [position |-> r.position, mode |-> ModeOf[r.position],
                 muteMedia |-> muteMedia, firstRun |-> r.firstRun]
    IN  /\ r # None
        /\ tasks' = IF tasks = <<>> THEN <<task>> ELSE tasks
        /\ step' = IF step = "idle" THEN Start(tasks') ELSE step
        /\ reading' = [reading EXCEPT ![t] = None]
        /\ UNCHANGED <<inputVars, zenVars, ringer, muteVars, announced>>

(* ... and handleMode reads the preferences and submits the task. *)
Submit(t) ==
    LET r == reading[t]
        task == [position |-> r.position, mode |-> ModeOf[r.position],
                 muteMedia |-> muteMedia, firstRun |-> r.firstRun]
    IN  /\ r # None
        /\ tasks' = Append(tasks, task)
        /\ step' = IF step = "idle" THEN Start(tasks') ELSE step
        /\ reading' = [reading EXCEPT ![t] = None]
        /\ UNCHANGED <<inputVars, zenVars, ringer, muteVars, announced>>

-----------------------------------------------------------------------------
(* The executor's task *)

Task == Head(tasks)
ZenOf(mode) == IF mode \in ZenModes THEN mode ELSE "off"
RingerOf(mode) == IF mode \in RingerModes THEN mode ELSE "normal"

(* What follows each step: ringer modes set zen first, zen modes last. *)
NextStep(mode) ==
    IF mode \in ZenModes
    THEN [ringer |-> "zen", zen |-> "waitZen", waitZen |-> "media"]
    ELSE [zen |-> "waitZen", waitZen |-> "ringer", ringer |-> "media"]

Advance == step' = NextStep(Task.mode)[step]

(* Seeded fault: the loop compares with the mode, without ZEN_OFFSET. *)
RequestZenNoOffset ==
    /\ step = "zen"
    /\ zenRequest' = ZenOf(Task.mode) /\ zenTarget' = Task.mode
    /\ Advance
    /\ UNCHANGED <<inputVars, reading, tasks, zen, zens, ringer, muteVars, announced>>

RequestZen ==
    /\ step = "zen"
    /\ zenRequest' = ZenOf(Task.mode) /\ zenTarget' = ZenOf(Task.mode)
    /\ Advance
    /\ UNCHANGED <<inputVars, reading, tasks, zen, zens, ringer, muteVars, announced>>

(* Seeded fault: the commit is not waited for. *)
SkipWaitZen ==
    /\ step = "waitZen"
    /\ Advance
    /\ UNCHANGED <<inputVars, reading, tasks, zenVars, ringer, muteVars, announced>>

(* Leaves the polling loop when the current zen mode is the requested one. *)
WaitZen ==
    /\ step = "waitZen" /\ zen = zenTarget
    /\ Advance
    /\ UNCHANGED <<inputVars, reading, tasks, zenVars, ringer, muteVars, announced>>

SetRinger ==
    /\ step = "ringer"
    /\ ringer' = RingerOf(Task.mode)
    /\ Advance
    /\ UNCHANGED <<inputVars, reading, tasks, zenVars, muteVars, announced>>

(* adjustVolume: the stream changes state and tells everyone if it did. *)
AdjustMute(m, byHandler) ==
    /\ muted' = m
    /\ muteBroadcasts' = IF muted = m THEN muteBroadcasts ELSE Append(muteBroadcasts, m)
    /\ handlerMuted' = (m /\ byHandler)

(* The handler mutes, and then notes that it did; or it looks at its note,  *)
(* and then unmutes.                                                        *)
AdjustMedia ==
    /\ step = "media"
    /\ \/ /\ Task.muteMedia /\ Task.mode = "silent"
          /\ AdjustMute(TRUE, TRUE) /\ outdated' = FALSE
          /\ step' = "setFlag"
       \/ /\ ~(Task.muteMedia /\ Task.mode = "silent")
          /\ step' = IF Task.muteMedia /\ wasMuted THEN "unmute" ELSE "announce"
          /\ UNCHANGED <<muted, muteBroadcasts, handlerMuted, outdated>>
    /\ UNCHANGED <<inputVars, reading, tasks, zenVars, ringer, wasMuted, userActs, overtaken,
                   announced>>

SetWasMuted ==
    /\ step = "setFlag" /\ step' = "announce"
    /\ wasMuted' = TRUE
    /\ UNCHANGED <<inputVars, reading, tasks, zenVars, ringer, muted, muteBroadcasts, userActs,
                   raceVars, announced>>

Unmute ==
    /\ step = "unmute" /\ step' = "announce"
    /\ AdjustMute(FALSE, TRUE)
    /\ UNCHANGED <<inputVars, reading, tasks, zenVars, ringer, wasMuted, userActs, overtaken,
                   outdated, announced>>

Announce ==
    /\ step = "announce"
    /\ announced' = IF Task.firstRun THEN announced
                    ELSE [position |-> Task.position, mode |-> Task.mode]
    /\ tasks' = Tail(tasks) /\ step' = Start(tasks')
    /\ UNCHANGED <<inputVars, reading, zenVars, ringer, muteVars>>

Executor ==
    RequestZen \/ WaitZen \/ SetRinger \/ AdjustMedia \/ SetWasMuted \/ Unmute \/ Announce

-----------------------------------------------------------------------------
(* The main thread: STREAM_MUTE_CHANGED of the music stream *)

(* Seeded fault: an unmute does not reset wasMuted. *)
AfterUnmuteIgnored(state) == wasMuted
AfterBroadcast(state) == wasMuted /\ state

ReceiveMuteChanged ==
    /\ muteBroadcasts # <<>>
    /\ muteBroadcasts' = Tail(muteBroadcasts)
    /\ wasMuted' = AfterBroadcast(Head(muteBroadcasts))
    /\ \/ Head(muteBroadcasts) /\ UNCHANGED <<overtaken, outdated>>
       \/ /\ ~Head(muteBroadcasts)
          /\ overtaken' = (step = "setFlag" /\ ~muted)
          /\ outdated' = (outdated \/ (step # "setFlag" /\ handlerMuted))
    /\ UNCHANGED <<inputVars, reading, tasks, step, zenVars, ringer, muted, userActs,
                   handlerMuted, announced>>

-----------------------------------------------------------------------------
(* The rest of the system: notification service, user, settings *)

CommitZen ==
    /\ zenRequest # "none"
    /\ zen' = zenRequest /\ zenRequest' = "none"
    /\ UNCHANGED <<inputVars, reading, tasks, step, zenTarget, zens, ringer, muteVars, announced>>

OthersSetZen(z) ==
    /\ zens < ExternalZen /\ z # zen
    /\ zen' = z /\ zens' = zens + 1
    /\ UNCHANGED <<inputVars, reading, tasks, step, zenRequest, zenTarget, ringer, muteVars,
                   announced>>

UserTogglesMute ==
    /\ userActs < MaxUser
    /\ AdjustMute(~muted, FALSE)
    /\ userActs' = userActs + 1
    /\ UNCHANGED <<inputVars, reading, tasks, step, zenVars, ringer, wasMuted, overtaken,
                   outdated, announced>>

UserTogglesMuteMedia ==
    /\ userActs < MaxUser
    /\ muteMedia' = ~muteMedia
    /\ userActs' = userActs + 1
    /\ UNCHANGED <<slider, keyEvents, bootPending, moves, reading, tasks, step, zenVars, ringer,
                   muted, wasMuted, muteBroadcasts, raceVars, announced>>

-----------------------------------------------------------------------------
Next ==
    \/ \E p \in Positions : MoveSlider(p)
    \/ ReadOnKeyEvent \/ ReadOnBoot \/ \E t \in Threads : Submit(t)
    \/ Executor \/ ReceiveMuteChanged
    \/ CommitZen \/ \E z \in Zens : OthersSetZen(z)
    \/ UserTogglesMute \/ UserTogglesMuteMedia

Spec == Init /\ [][Next]_vars

(* The threads that handle events and tasks run, and the notification       *)
(* service commits what it is asked to; people act at will.                 *)
FairSpec ==
    /\ Spec
    /\ WF_vars(ReadOnKeyEvent) /\ \A t \in Threads : WF_vars(Submit(t))
    /\ WF_vars(Executor) /\ WF_vars(CommitZen) /\ WF_vars(ReceiveMuteChanged)

-----------------------------------------------------------------------------
(* Properties *)

AllMutes(broadcasts) == \A k \in 1..Len(broadcasts) : broadcasts[k]

(* wasMuted, set by the executor after it muted and reset by the main thread *)
(* when it is told that anyone unmuted, is right in both directions once no  *)
(* unmute is left to be told of and the executor has noted what it did.      *)
(* What it stands over is muted, unless an unmute, and the broadcast about   *)
(* it, came between muting and noting.  And what the handler muted it knows  *)
(* to unmute, unless the broadcast of an older unmute came after it.         *)
WasMutedAccurate ==
    AllMutes(muteBroadcasts) /\ step # "setFlag" =>
        /\ wasMuted => muted \/ overtaken
        /\ handlerMuted => wasMuted \/ outdated

Idle == keyEvents = 0 /\ tasks = <<>> /\ \A t \in Threads : reading[t] = None

(* However fast the slider moves while earlier tasks wait for zen commits,  *)
(* when all work is done ringer and zen are those of the final position.    *)
(* Unless the boot read, which may submit a position it read long ago, came *)
(* in between, or somebody else changed zen.                                *)
SettlesOnPosition ==
    Idle /\ moves > 0 /\ bootPending = WithBoot /\ zens = 0 =>
        /\ zen = ZenOf(ModeOf[slider])
        /\ ringer = RingerOf(ModeOf[slider])

(* The dialog is told about a mode only when ringer and zen are in force,   *)
(* if nobody else changes zen.                                              *)
AnnouncedInForce ==
    [][announced' # announced /\ zens = 0 =>
                                 /\ zen = ZenOf(announced'.mode)
                                 /\ ringer = RingerOf(announced'.mode)]_vars

(* Every movement is eventually handled, however the executor is occupied,  *)
(* if nobody else changes zen.                                              *)
WorkIsDone == ~Idle ~> Idle \/ zens > 0
=============================================================================
