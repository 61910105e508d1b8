------------------------- MODULE AlertSliderPlugin -------------------------
(***************************************************************************)
(* The SystemUI plugin that shows the alert slider's dialog                *)
(* (packages/KeyHandler: AlertSliderPlugin.kt and AlertSliderDialog.kt).   *)
(* Broadcasts and the handler's messages share the queue of the main       *)
(* looper, which also receives the delayed dismissal once it is due.       *)
(* What the dialog displays is abstracted to the change it stands for.     *)
(***************************************************************************)
EXTENDS Naturals, Sequences

CONSTANTS Infos,       \* (position, mode) pairs carried by CHANGED_ACTION
          NoInfo,      \* lastInfo before the first update
          Configs,     \* density / layout / rotation / theme combinations
          MaxChanges,  \* bound: slider changes broadcast
          MaxConfigs   \* bound: configuration broadcasts

ASSUME PluginAssumption ==
    /\ NoInfo \notin Infos
    /\ Configs # {}
    /\ MaxChanges \in Nat /\ MaxConfigs \in Nat

VARIABLES
    ui,          \* the handler: looper queue, delayed dismissal, showing, window on screen
    dialog,      \* what the current dialog displays, and its running animation
    lastInfo, currConfig,
    config,      \* the system's configuration
    changes, configs

pluginVars == <<ui, dialog, lastInfo, currConfig, config, changes, configs>>

Kinds == {"CHANGED", "CONFIGURATION", "SHOW", "DISMISS", "UPDATE", "RECREATE"}
Message == [what : Kinds, info : Infos \cup {NoInfo}]

Msg(what) == [what |-> what, info |-> NoInfo]
InfoMsg(what, i) == [what |-> what, info |-> i]

Handlers == [queue : Seq(Message), timer : BOOLEAN, showing : BOOLEAN,
             shown : BOOLEAN, orphaned : BOOLEAN]
Dialogs == [mode : Infos \cup {NoInfo}, position : Infos \cup {NoInfo},
            anim : Infos \cup {NoInfo}]

PluginTypeOK ==
    /\ ui \in Handlers
    /\ dialog \in Dialogs
    /\ lastInfo \in Infos \cup {NoInfo}
    /\ currConfig \in Configs /\ config \in Configs
    /\ changes \in 0..MaxChanges /\ configs \in 0..MaxConfigs

FreshDialog == [mode |-> NoInfo, position |-> NoInfo, anim |-> NoInfo]

PluginInit ==
    /\ ui = [queue |-> <<>>, timer |-> FALSE, showing |-> FALSE,
             shown |-> FALSE, orphaned |-> FALSE]
    /\ dialog = FreshDialog
    /\ lastInfo = NoInfo
    /\ config \in Configs /\ currConfig = config
    /\ changes = 0 /\ configs = 0

-----------------------------------------------------------------------------
(* Handler and looper primitives *)

Without(q, whats) ==
    LET kept[n \in 0 .. Len(q)] ==
            IF n = 0 THEN <<>>
            ELSE IF q[n].what \in whats THEN kept[n - 1] ELSE Append(kept[n - 1], q[n])
    IN  kept[Len(q)]

RemoveMessages(u, whats) ==
    [u EXCEPT !.queue = Without(@, whats),
              !.timer = @ /\ "DISMISS" \notin whats]

(* Seeded fault: a second dismissal is posted before the first is removed. *)
ResetTimeoutThenRemove(u) == RemoveMessages([u EXCEPT !.timer = TRUE], {"DISMISS"})

ResetTimeout(u) == [RemoveMessages(u, {"DISMISS"}) EXCEPT !.timer = TRUE]

(* Seeded fault: messages are removed even if the value does not change. *)
SetShowingAlways(u, value) ==
    LET cleared == RemoveMessages(u, {"SHOW", "DISMISS"})
    IN  [(IF value THEN ResetTimeout(cleared) ELSE cleared)
            EXCEPT !.shown = value, !.showing = value]

(* The setter of showing: nothing happens unless the value changes. *)
SetShowing(u, value) ==
    LET cleared == RemoveMessages(u, {"SHOW", "DISMISS"})
    IN  IF u.showing = value THEN u
        ELSE [(IF value THEN ResetTimeout(cleared) ELSE cleared)
                 EXCEPT !.shown = value, !.showing = value]

(* AlertSliderDialog.setState: at once if hidden, else by animating; the   *)
(* animation in progress is cancelled, which ends it where it was going.   *)
SetState(d, shown, i) ==
    IF shown THEN [mode |-> i, anim |-> i,
                   position |-> IF d.anim = NoInfo THEN d.position ELSE d.anim]
             ELSE [d EXCEPT !.mode = i, !.position = i]

Handling(what) == ui.queue # <<>> /\ Head(ui.queue).what = what
Rest == [ui EXCEPT !.queue = Tail(@)]
Post(u, ms) == [u EXCEPT !.queue = @ \o ms]

-----------------------------------------------------------------------------
(* Broadcasts, and the receiver that turns them into messages *)

SliderChanged(i) ==
    /\ changes < MaxChanges
    /\ changes' = changes + 1
    /\ ui' = Post(ui, <<InfoMsg("CHANGED", i)>>)
    /\ UNCHANGED <<dialog, lastInfo, currConfig, config, configs>>

ConfigurationChanged(new) ==
    /\ configs < MaxConfigs
    /\ configs' = configs + 1
    /\ config' = new
    /\ ui' = Post(ui, <<Msg("CONFIGURATION")>>)
    /\ UNCHANGED <<dialog, lastInfo, currConfig, changes>>

ReceiveChanged ==
    /\ Handling("CHANGED")
    /\ ui' = Post(Rest, <<InfoMsg("UPDATE", Head(ui.queue).info), Msg("SHOW")>>)
    /\ UNCHANGED <<dialog, lastInfo, currConfig, config, changes, configs>>

ReceiveConfiguration ==
    /\ Handling("CONFIGURATION")
    /\ ui' = Post(Rest, <<Msg("RECREATE")>>)
    /\ UNCHANGED <<dialog, lastInfo, currConfig, config, changes, configs>>

-----------------------------------------------------------------------------
(* The handler *)

HandleUpdate ==
    /\ Handling("UPDATE")
    /\ lastInfo' = Head(ui.queue).info
    /\ ui' = ResetTimeout(Rest)
    /\ dialog' = SetState(dialog, ui.shown, lastInfo')
    /\ UNCHANGED <<currConfig, config, changes, configs>>

HandleShow ==
    /\ Handling("SHOW")
    /\ ui' = SetShowing(Rest, TRUE)
    /\ UNCHANGED <<dialog, lastInfo, currConfig, config, changes, configs>>

HandleDismiss ==
    /\ Handling("DISMISS")
    /\ ui' = SetShowing(Rest, FALSE)
    /\ UNCHANGED <<dialog, lastInfo, currConfig, config, changes, configs>>

(* Replacing the dialog: a window that is still up would be orphaned. *)
Replace(u) == [u EXCEPT !.orphaned = @ \/ u.shown, !.shown = FALSE]

(* Seeded fault: the new dialog does not get the last state. *)
RecreatedBlank == FreshDialog

Recreated == IF lastInfo = NoInfo THEN FreshDialog ELSE SetState(FreshDialog, FALSE, lastInfo)

(* Seeded fault: the old dialog is not dismissed first. *)
RehostedUndismissed(u) == Replace(u)

Rehosted(u) ==
    LET replaced == Replace(SetShowing(u, FALSE))
    IN  IF u.showing THEN SetShowing(replaced, TRUE) ELSE replaced

HandleRecreate ==
    /\ Handling("RECREATE")
    /\ IF config # currConfig
       THEN ui' = Rehosted(Rest) /\ dialog' = Recreated /\ currConfig' = config
       ELSE ui' = Rest /\ UNCHANGED <<dialog, currConfig>>
    /\ UNCHANGED <<lastInfo, config, changes, configs>>

(* The dismissal becomes due 3 s after it was posted and queues up behind   *)
(* what is already there.  An animation takes 100 ms and is never started   *)
(* without restarting the 3 s, so it is over by then.                       *)
TimeoutDue ==
    /\ ui.timer /\ dialog.anim = NoInfo
    /\ ui' = Post([ui EXCEPT !.timer = FALSE], <<Msg("DISMISS")>>)
    /\ UNCHANGED <<dialog, lastInfo, currConfig, config, changes, configs>>

AnimationEnd ==
    /\ dialog.anim # NoInfo
    /\ dialog' = [dialog EXCEPT !.position = dialog.anim, !.anim = NoInfo]
    /\ UNCHANGED <<ui, lastInfo, currConfig, config, changes, configs>>

-----------------------------------------------------------------------------
Looper == \/ ReceiveChanged \/ ReceiveConfiguration
          \/ HandleUpdate \/ HandleShow \/ HandleDismiss \/ HandleRecreate

PluginNext ==
    \/ \E i \in Infos : SliderChanged(i)
    \/ \E c \in Configs : ConfigurationChanged(c)
    \/ Looper \/ TimeoutDue \/ AnimationEnd

PluginSpec == PluginInit /\ [][PluginNext]_pluginVars

(* The main thread runs, delays expire and animations end; broadcasts come  *)
(* at will.                                                                 *)
FairPluginSpec == PluginSpec /\ WF_pluginVars(Looper) /\ WF_pluginVars(TimeoutDue) /\ WF_pluginVars(AnimationEnd)

-----------------------------------------------------------------------------
(* Properties *)

Pending(u, what) == \E k \in 1..Len(u.queue) : u.queue[k].what = what

(* A dialog on screen always has a dismissal coming, through any mix of     *)
(* updates, repeated shows and recreations.                                 *)
WillBeDismissed == ui.showing => ui.timer \/ Pending(ui, "DISMISS")

(* showing says exactly whether the current dialog is on screen, and no     *)
(* replaced dialog is left on screen, where nothing could dismiss it.       *)
NoOrphanWindow == ui.shown = ui.showing /\ ~ui.orphaned

(* A dialog on screen shows the last update, or is animating towards it,    *)
(* also when the update and a configuration change cross.                   *)
ShowsLastUpdate ==
    ui.shown => /\ dialog.mode = lastInfo
                /\ lastInfo \in {dialog.position, dialog.anim}

(* The dialog keeps up with updates and configuration changes, which each   *)
(* may replace what the other has just set: there is one, and it is right.  *)
DialogKeepsUp == NoOrphanWindow /\ ShowsLastUpdate

(* A queued request to show the dialog is dropped only when the dialog is   *)
(* up anyway, or when a dismissal that fell due before it is handled first. *)
ShowLostOnlyToDismissal ==
    [][Pending(ui, "SHOW") /\ ~Pending(ui', "SHOW") => ui'.showing \/ Handling("DISMISS")]_pluginVars

(* The dialog does not stay: every showing ends.                            *)
EventuallyDismissed == ui.showing ~> ~ui.showing
=============================================================================
