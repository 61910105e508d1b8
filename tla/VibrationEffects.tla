-------------------------- MODULE VibrationEffects --------------------------
(***************************************************************************)
(* Predefined effects of the QTI vibrator service in builds with effect    *)
(* streams: aidl/vibrator/qti/effect loads waveforms named by a            *)
(* configuration file once, when its library is loaded, and looks effects  *)
(* up there and then among its built-in ones; Vibrator::perform hands the  *)
(* waveform to the driver and works out how long it plays.  What play()    *)
(* does with the driver's effect slots is module Vibrator's.               *)
(***************************************************************************)
EXTENDS CompletionThreads, Sequences

CONSTANTS Configs,      \* contents the configuration file may have
          Bad,          \* an attribute that is missing or has another type, or the
                        \* length of a file that cannot be read
          DriverChoice, \* length, in us, that the driver gives a stream without a rate
          MaxEffects    \* bound: calls of perform()

Entries == [effect_id : Nat \cup {Bad}, play_rate_hz : Nat \cup {Bad}, length : Nat \cup {Bad}]

\* A file that is missing or no JSON object has no members; a member without an
\* array as its def_style has no entries.
ASSUME EffectsAssumption ==
    /\ Configs \subseteq Seq(Seq(Entries))
    /\ Bad \notin Nat
    /\ DriverChoice \in Nat /\ MaxEffects \in Nat

VARIABLES
    config,      \* the file
    members,     \* its members that have not been searched yet
    unread,      \* entries of the def_style that was found and are not loaded yet
    effect_map,  \* streams of the loader, at most one for each effect
    performed,   \* calls of perform()
    answer       \* history: what the last one returned

effectVars == <<threads, config, members, unread, effect_map, performed, answer>>

-----------------------------------------------------------------------------
\* The first def_style with entries, searched in the order of the members.
parseEffectJson ==
    /\ members # <<>>
    /\ IF Head(members) = <<>>
         THEN members' = Tail(members) /\ UNCHANGED unread
         ELSE members' = <<>> /\ unread' = Head(members)
    /\ UNCHANGED <<threads, config, effect_map, performed, answer>>

Usable(entry) == Bad \notin {entry.effect_id, entry.play_rate_hz, entry.length}

\* effect_map_.emplace.  Seeded fault: a later entry replaces an earlier one.
EmplaceOver(streams, entry) == {s \in streams : s.effect_id # entry.effect_id} \cup {entry}
Emplace(streams, entry) ==
    IF \E s \in streams : s.effect_id = entry.effect_id THEN streams ELSE streams \cup {entry}

EffectsInit ==
    /\ ThreadsInit
    /\ config \in Configs
    /\ members = config /\ unread = <<>>
    /\ effect_map = {} /\ performed = 0 /\ answer = "none"

\* An entry that cannot be used is passed over.
loadEffects ==
    /\ members = <<>> /\ unread # <<>>
    /\ unread' = Tail(unread)
    /\ effect_map' = IF Usable(Head(unread)) THEN Emplace(effect_map, Head(unread))
                                             ELSE effect_map
    /\ UNCHANGED <<threads, config, members, performed, answer>>

Loaded == members = <<>> /\ unread = <<>>

\* ARRAY_SIZE of effect_1 .. effect_4
ArraySize == <<250, 384, 920, 395>>

\* effects[]: the waveform of each built-in effect.
Waveform == [CLICK |-> 2, DOUBLE_CLICK |-> 1, TICK |-> 2, THUD |-> 3, POP |-> 4, HEAVY_CLICK |-> 3]
Number == [CLICK |-> 0, DOUBLE_CLICK |-> 1, TICK |-> 2, THUD |-> 3, POP |-> 4, HEAVY_CLICK |-> 5]
BuiltIn == {[effect_id |-> Number[e], play_rate_hz |-> 24000, length |-> ArraySize[Waveform[e]]]
             : e \in DOMAIN Waveform}

Of(effect, streams) == {s \in streams : s.effect_id = effect}

\* The stream of an effect, if there is one: as a set.
get_effect_stream(effect) ==
    IF Of(effect, effect_map) # {} THEN Of(effect, effect_map) ELSE Of(effect, BuiltIn)

-----------------------------------------------------------------------------
SupportedEffects == {Number[e] : e \in DOMAIN Number}
\* perform() refuses what lies outside CLICK .. HEAVY_CLICK.
Performable == Number["CLICK"] .. Number["HEAVY_CLICK"]

\* What play() reports: data[1] and data[2] stay 0 when the driver gets a stream.
\* Seeded fault: the length is rounded down.
PlayLengthFloor(s) == IF s.play_rate_hz = 0 THEN 0
                      ELSE ((s.length * 1000) % UintMod) \div s.play_rate_hz
PlayLength(s) == IF s.play_rate_hz = 0 THEN 0
                 ELSE ((s.length * 1000) % UintMod) \div s.play_rate_hz + 1

\* The driver: how long the samples last, in microseconds.
SamplesLast(s) ==
    IF s.play_rate_hz = 0 THEN DriverChoice
    ELSE LET ms == (s.length * 1000) \div s.play_rate_hz
             rest == (s.length * 1000) % s.play_rate_hz
         IN  ms * 1000 + (rest * 1000) \div s.play_rate_hz

PerformReturns(result) ==
    /\ Loaded /\ performed < MaxEffects
    /\ performed' = performed + 1
    /\ answer' = result
    /\ UNCHANGED <<now, completed, config, members, unread, effect_map>>

EffectRefused(effect) ==
    /\ effect \notin Performable
    /\ PerformReturns("unsupported")
    /\ UNCHANGED motor /\ NobodyCalledBack

\* play() reports an error: the vibration before it may be stopped already.
EffectFails(effect) ==
    /\ effect \in Performable
    /\ PerformReturns("service specific")
    /\ UNCHANGED motor \/ Silenced
    /\ NobodyCalledBack

\* play() returns 0, also when it could not start what it had uploaded.
EffectPlays(effect) == \E s \in get_effect_stream(effect) :
    /\ effect \in Performable
    /\ PerformReturns("ok")
    /\ Starts(performed', SamplesLast(s)) \/ Silenced
    /\ \/ NobodyCalledBack
       \/ CallsBackAfter(performed', PlayLength(s),
                         s.play_rate_hz # 0 /\ s.length * 1000 < UintMod)

EffectsNext ==
    \/ parseEffectJson \/ loadEffects
    \/ \E effect \in SupportedEffects \cup {6} :
          EffectRefused(effect) \/ EffectFails(effect) \/ EffectPlays(effect)
    \/ ThreadStep /\ UNCHANGED <<config, members, unread, effect_map, performed, answer>>

EffectsSpec == EffectsInit /\ [][EffectsNext]_effectVars

-----------------------------------------------------------------------------
EffectsTypeOK ==
    /\ ThreadsTypeOK
    /\ config \in Configs /\ members \in Seq(Seq(Entries)) /\ unread \in Seq(Entries)
    /\ effect_map \subseteq {entry \in Entries : Usable(entry)}
    /\ performed \in Nat /\ answer \in {"none", "ok", "service specific", "unsupported"}

\* What an effect's stream may come from: the whole entries for it, in the first
\* member of the file that has any entries.
Candidate(effect, k, i) ==
    /\ \A j \in 1 .. k - 1 : config[j] = <<>>
    /\ Usable(config[k][i]) /\ config[k][i].effect_id = effect

FromFile(s, effect) == \E k \in DOMAIN config : \E i \in DOMAIN config[k] :
    /\ Candidate(effect, k, i) /\ s = config[k][i]
    /\ \A j \in 1 .. i - 1 : ~Candidate(effect, k, j)

NotInFile(effect) == \A k \in DOMAIN config : \A i \in DOMAIN config[k] : ~Candidate(effect, k, i)

\* Whatever the file holds, entries that are broken, repeated or of effects the
\* service does not know, each effect the service reports as supported is
\* accepted by perform() and has one stream once the library is loaded: that
\* of the file's first whole entry for it, or else the built-in one.
EveryEffectHasItsStream ==
    Loaded => \A effect \in SupportedEffects :
        /\ effect \in Performable
        /\ \E s \in get_effect_stream(effect) :
              /\ get_effect_stream(effect) = {s}
              /\ FromFile(s, effect) \/ (NotInFile(effect) /\ s \in BuiltIn)
=============================================================================
