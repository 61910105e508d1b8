--------------------------- MODULE NrModeSwitcher ---------------------------
(***************************************************************************)
(* The one-shot program that sets the 5G mode of every SIM at start-up     *)
(* (nrmodeswitcher).  For each radio the main thread calls setNrMode until *)
(* a call is delivered and the result seen is 0.  The result is written by *)
(* a binder thread when the radio answers, at any time after the request,  *)
(* through a reference to a local of the main thread's loop; it is set to  *)
(* 0 before the first call and never again.  The main thread blocks until  *)
(* the radio's service is there, and until each call of it returns; a      *)
(* radio may make it wait for ever.                                        *)
(***************************************************************************)
EXTENDS Integers

CONSTANTS kMaxSimSlot,  \* number of SIM slots
          MaxRetries    \* calls per slot before it is given up

ASSUME ConstantsAssumption ==
    kMaxSimSlot \in Nat \ {0} /\ MaxRetries \in Nat \ {0}

NSA_PRE == 0
SA_PRE == 3
NR_MODE_MAX == 4
EXIT_SUCCESS == 0
EXIT_FAILURE == 1

\* Values of ro.vendor.radio.auto_nr_mode: the modes, and one beyond each end.
PropertyValues == NSA_PRE - 1 .. NR_MODE_MAX

Slots == 0 .. kMaxSimSlot - 1
Answers == {"setCallbackExt", "accepted", "refused"}

VARIABLES
    mode,        \* what will be asked for
    pc, i, retry, rc, result,  \* the main thread
    silent,      \* the radio it blocks on is not there, or does not return
    isOk,        \* status of the last call
    registered,  \* slots whose radio has the callback
    answers,     \* per slot: answers under way
    gaveUp,      \* history: slots left without success
    lastOk,      \* history: slots whose last call was delivered and accepted
    faulty,      \* history: slots where a call failed or was refused
    crossed,     \* history: slots where an earlier slot's refusal arrived
    unheard      \* history: a result was judged without all the answers

main == <<pc, i, retry, rc, result, isOk>>
history == <<gaveUp, lastOk, faulty, crossed, unheard>>
vars == <<mode, main, silent, registered, answers, history>>

TypeOK ==
    /\ mode \in NSA_PRE .. SA_PRE
    /\ pc \in {"slot", "wait", "callback", "call", "check", "done"}
    /\ i \in 0 .. kMaxSimSlot /\ silent \in BOOLEAN
    /\ retry \in 0 .. MaxRetries /\ rc \in {EXIT_SUCCESS, EXIT_FAILURE}
    /\ result \in {0, 1} /\ isOk \in BOOLEAN
    /\ registered \in SUBSET Slots
    /\ answers \in [Slots -> [Answers -> 0 .. MaxRetries]]
    /\ gaveUp \in SUBSET Slots /\ lastOk \in SUBSET Slots
    /\ faulty \in SUBSET Slots /\ crossed \in SUBSET Slots
    /\ unheard \in BOOLEAN

GetDefaultAutoNrMode(property) ==
    IF property < NSA_PRE \/ property >= NR_MODE_MAX THEN SA_PRE ELSE property

Init ==
    /\ \E property \in PropertyValues : mode = GetDefaultAutoNrMode(property)
    /\ pc = "slot" /\ i = 0 /\ retry = 0 /\ rc = EXIT_SUCCESS /\ result = 0 /\ isOk = FALSE
    /\ silent = FALSE
    /\ registered = {}
    /\ answers = [s \in Slots |-> [a \in Answers |-> 0]]
    /\ gaveUp = {} /\ lastOk = {} /\ faulty = {} /\ crossed = {} /\ unheard = FALSE

-----------------------------------------------------------------------------
NextSlot ==
    /\ i' = i + 1
    /\ pc' = IF i' < kMaxSimSlot THEN "slot" ELSE "done"

Skip ==
    /\ NextSlot
    /\ lastOk' = lastOk \cup {i}
    /\ UNCHANGED <<mode, retry, rc, result, isOk, silent, registered, answers, gaveUp, faulty,
                   crossed, unheard>>

\* The radio is not declared in the manifest.
SkipSlot == pc = "slot" /\ Skip

\* A radio that is declared is waited for, without a limit, ...
WaitForService ==
    /\ pc = "slot" /\ pc' = "wait"
    /\ silent' \in BOOLEAN
    /\ UNCHANGED <<mode, i, retry, rc, result, isOk, registered, answers, gaveUp, lastOk,
                   faulty, crossed, unheard>>

\* ... and is skipped if there is none in the end.
GetService ==
    /\ pc = "wait" /\ ~silent
    /\ \/ Skip
       \/ /\ pc' = "callback"
          /\ UNCHANGED <<mode, i, retry, rc, result, isOk, silent, registered, answers, gaveUp,
                         lastOk, faulty, crossed, unheard>>

\* Seeded fault: the result of the slot before is kept.
FirstResultKept == result
FirstResult == 0

\* A new result, and a callback that writes to it; that setCallback may fail is
\* not looked at.
SetCallback ==
    /\ pc = "callback" /\ ~silent /\ pc' = "call"
    /\ result' = FirstResult /\ retry' = MaxRetries
    /\ \/ /\ registered' = registered \cup {i}
          /\ answers' = [answers EXCEPT ![i]["setCallbackExt"] = 1]
          /\ UNCHANGED unheard
       \/ unheard' = TRUE /\ UNCHANGED <<registered, answers>>
    /\ UNCHANGED <<mode, i, rc, isOk, silent, gaveUp, lastOk, faulty, crossed>>

\* The call is delivered, or not, or only its reply is lost; a radio that got
\* the request answers its callback, and the answer may overtake the reply.
SetNrMode ==
    /\ pc = "call" /\ ~silent /\ pc' = "check"
    /\ \E ok, got, accepts \in BOOLEAN :
          /\ ok => got
          /\ accepts => got
          /\ isOk' = ok
          /\ answers' = IF got /\ i \in registered
                          THEN [answers EXCEPT ![i][IF accepts THEN "accepted" ELSE "refused"] = @ + 1]
                          ELSE answers
          /\ lastOk' = IF ok /\ accepts THEN lastOk \cup {i} ELSE lastOk \ {i}
          /\ faulty' = IF ok /\ accepts THEN faulty ELSE faulty \cup {i}
    /\ UNCHANGED <<mode, i, retry, rc, result, silent, registered, gaveUp, crossed, unheard>>

Missing(s) == answers[s]["accepted"] + answers[s]["refused"] > 0

Succeeded == isOk /\ result = 0

\* Seeded fault: the retries are not counted.
Uncounted(n) == n
Counted(n) == n - 1

\* if (!status.isOk() || result != 0): sleep and try again, unless it was the
\* last retry.
Check ==
    /\ pc = "check"
    /\ unheard' = (unheard \/ \E s \in Slots : Missing(s))
    /\ \/ /\ Succeeded
          /\ NextSlot /\ UNCHANGED <<retry, rc, gaveUp>>
       \/ /\ ~Succeeded /\ retry > 1
          /\ retry' = Counted(retry) /\ pc' = "call" /\ UNCHANGED <<i, rc, gaveUp>>
       \/ /\ ~Succeeded /\ retry = 1
          /\ retry' = 0 /\ rc' = EXIT_FAILURE /\ gaveUp' = gaveUp \cup {i} /\ NextSlot
    /\ UNCHANGED <<mode, result, isOk, silent, registered, answers, lastOk, faulty, crossed>>

-----------------------------------------------------------------------------
Take(s, a) ==
    /\ pc # "done" /\ answers[s][a] > 0
    /\ answers' = [answers EXCEPT ![s][a] = @ - 1]
    /\ UNCHANGED <<mode, pc, i, retry, rc, isOk, silent, registered, gaveUp, lastOk, faulty,
                   unheard>>

\* The reference of an earlier slot's callback is to a local that is gone: the
\* write may hit the result of the slot that the loop is at.
SetNrModeResponse(s) == \E a \in {"accepted", "refused"} :
    /\ Take(s, a)
    /\ crossed' = IF s # i /\ a = "refused" THEN crossed \cup {i} ELSE crossed
    /\ \/ result' = IF a = "accepted" THEN 0 ELSE 1
       \/ s # i /\ UNCHANGED result

\* All the other responses only return ok.
OtherResponse(s) == Take(s, "setCallbackExt") /\ UNCHANGED <<result, crossed>>

\* External: the radio hangs in a call, or goes on, or registers at last.
RadioStalls ==
    /\ pc \in {"callback", "call"} /\ ~silent /\ silent' = TRUE
    /\ UNCHANGED <<mode, main, registered, answers, history>>

RadioResumes ==
    /\ silent /\ silent' = FALSE
    /\ UNCHANGED <<mode, main, registered, answers, history>>

Main == SkipSlot \/ WaitForService \/ GetService \/ SetCallback \/ SetNrMode \/ Check

Next ==
    \/ Main \/ RadioStalls \/ RadioResumes
    \/ \E s \in Slots : SetNrModeResponse(s) \/ OtherResponse(s)

\* The main thread runs: when what it blocks on has come it goes on, even if
\* the radio hangs again.  A radio need not register, return or answer.
Spec == Init /\ [][Next]_vars /\ SF_vars(Main)

-----------------------------------------------------------------------------
\* If every answer had come when the result was judged, the exit status tells
\* whether each radio there is accepted the last request made of it.
ExitStatusExact ==
    pc = "done" /\ ~unheard => (rc = EXIT_SUCCESS <=> lastOk = Slots)

\* A slot is given up only if one of its own calls failed or was refused, or
\* because the late refusal of an earlier slot was written to its result.
GivenUpForCause == gaveUp \subseteq faulty \cup crossed

\* What the program concludes is right, for each slot and in all.
VerdictIsSound == ExitStatusExact /\ GivenUpForCause

\* Whatever the radios answer, or do not, the program ends, unless from some
\* time on it waits for a radio that never comes or never returns from a call.
Terminates == <>(pc = "done") \/ <>[]silent
=============================================================================
