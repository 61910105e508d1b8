------------------------ MODULE NrModeSwitcherProofs ------------------------
(***************************************************************************)
(* Safety of NrModeSwitcher for any number of SIM slots and of retries,    *)
(* whatever the radios answer, and whenever.                               *)
(***************************************************************************)
EXTENDS NrModeSwitcher, TLAPS

USE ConstantsAssumption DEF EXIT_SUCCESS, EXIT_FAILURE

Outstanding(s) == answers[s]["accepted"] + answers[s]["refused"]

\* Before a slot's callback is set.
Early == pc \in {"slot", "wait", "callback"}

\* Answers that a radio owes are answers to calls that were made.
AnswersBounded ==
    /\ pc # "done" => i < kMaxSimSlot
    /\ pc \in {"call", "check"} => retry > 0
    /\ pc = "call" => Outstanding(i) <= MaxRetries - retry
    /\ pc = "check" => Outstanding(i) <= MaxRetries - retry + 1
    /\ \A s \in Slots : Outstanding(s) <= MaxRetries
    /\ \A s \in Slots : s > i \/ (s = i /\ Early) => Outstanding(s) = 0

\* A refusal that is under way, or was written to the result, has a cause.
RefusalsHaveCause ==
    /\ \A s \in Slots : answers[s]["refused"] > 0 => s \in faulty
    /\ pc \in {"call", "check"} /\ result # 0 => i \in faulty \cup crossed
    /\ pc = "check" /\ ~isOk => i \in faulty

\* Slots the loop has left.
Left(s) == s < i

\* With every answer heard in time, the result is that of the last call.
Heard ==
    /\ \A s \in Slots : Missing(s) => s = i /\ pc = "check"
    /\ pc \in {"call", "check"} => i \in registered
    /\ pc = "check" =>
         /\ Outstanding(i) <= 1
         /\ ~isOk => i \notin lastOk
         /\ isOk /\ answers[i]["accepted"] > 0 => i \in lastOk
         /\ isOk /\ answers[i]["refused"] > 0 => i \notin lastOk
         /\ isOk /\ Outstanding(i) = 0 => (result = 0 <=> i \in lastOk)
    /\ \A s \in Slots : Left(s) => (s \in lastOk <=> s \notin gaveUp)

Failures ==
    /\ rc = EXIT_SUCCESS <=> gaveUp = {}
    /\ pc = "done" => i = kMaxSimSlot
    /\ \A s \in gaveUp : Left(s)

Inv ==
    /\ TypeOK
    /\ AnswersBounded
    /\ RefusalsHaveCause
    /\ GivenUpForCause
    /\ Failures
    /\ unheard \/ Heard

-----------------------------------------------------------------------------
LEMMA DefaultModeType ==
  \A property \in Int : GetDefaultAutoNrMode(property) \in NSA_PRE .. SA_PRE
  BY DEF GetDefaultAutoNrMode, NSA_PRE, SA_PRE, NR_MODE_MAX

LEMMA InitInv == Init => Inv
<1> SUFFICES ASSUME Init PROVE Inv
  OBVIOUS
<1>1. mode \in NSA_PRE .. SA_PRE
  <2>1. PropertyValues \subseteq Int
    BY DEF PropertyValues, NSA_PRE, NR_MODE_MAX
  <2> QED BY <2>1, DefaultModeType DEF Init
<1>2. TypeOK
  <2>1. answers \in [Slots -> [Answers -> 0 .. MaxRetries]]
    BY DEF Init
  <2>2. isOk \in BOOLEAN /\ unheard \in BOOLEAN /\ silent \in BOOLEAN
    BY Zenon DEF Init
  <2>3. /\ pc \in {"slot", "wait", "callback", "call", "check", "done"}
        /\ i \in 0 .. kMaxSimSlot /\ retry \in 0 .. MaxRetries
        /\ rc \in {EXIT_SUCCESS, EXIT_FAILURE}
        /\ result \in {0, 1} /\ registered \in SUBSET Slots
        /\ gaveUp \in SUBSET Slots /\ lastOk \in SUBSET Slots
        /\ faulty \in SUBSET Slots /\ crossed \in SUBSET Slots
    BY DEF Init
  <2> QED BY <1>1, <2>1, <2>2, <2>3, Zenon DEF TypeOK
<1>3. \A s \in Slots : Outstanding(s) = 0 /\ answers[s]["refused"] = 0
  BY DEF Init, Outstanding, Answers
<1>4. AnswersBounded
  BY <1>3 DEF Init, AnswersBounded, Early
<1>5. RefusalsHaveCause /\ GivenUpForCause /\ Failures
  BY <1>3 DEF Init, RefusalsHaveCause, GivenUpForCause, Failures
<1>6. Heard
  BY <1>3 DEF Init, Heard, Missing, Outstanding, Left, Slots
<1> QED BY <1>2, <1>4, <1>5, <1>6 DEF Inv

\* The types of what an action reads.
LEMMA AnswerTypes ==
  ASSUME TypeOK
  PROVE  /\ \A s \in Slots : /\ answers[s] \in [Answers -> 0 .. MaxRetries]
                             /\ answers[s]["accepted"] \in Nat
                             /\ answers[s]["refused"] \in Nat
                             /\ Outstanding(s) \in Nat
         /\ i \in Nat /\ retry \in Nat
         /\ i < kMaxSimSlot => i \in Slots
<1>1. answers \in [Slots -> [Answers -> 0 .. MaxRetries]]
  BY DEF TypeOK
<1>2. ASSUME NEW s \in Slots
      PROVE  /\ answers[s] \in [Answers -> 0 .. MaxRetries]
             /\ answers[s]["accepted"] \in Nat /\ answers[s]["refused"] \in Nat
  BY <1>1 DEF Answers
<1> QED BY <1>2 DEF TypeOK, Outstanding, Slots

LEMMA SkipKeepsInv ==
  ASSUME Inv, Skip, Early, pc \in {"slot", "wait"} PROVE Inv'
<1> USE AnswerTypes DEF Inv, Skip, NextSlot
<1>1. i \in Slots /\ i' = i + 1
  BY DEF AnswersBounded
<1>2. TypeOK'
  <2>1. isOk' \in BOOLEAN /\ unheard' \in BOOLEAN /\ silent' \in BOOLEAN
    BY Zenon DEF TypeOK
  <2>2. /\ pc' \in {"slot", "wait", "callback", "call", "check", "done"}
        /\ i' \in 0 .. kMaxSimSlot /\ lastOk' \in SUBSET Slots
    BY <1>1 DEF TypeOK, Slots
  <2> QED BY <2>1, <2>2, Zenon DEF TypeOK
<1>3. AnswersBounded'
  BY <1>1 DEF AnswersBounded, Early, Outstanding, TypeOK, Slots
<1>4. RefusalsHaveCause' /\ GivenUpForCause'
  BY DEF RefusalsHaveCause, GivenUpForCause
<1>5. Failures'
  BY <1>1 DEF Failures, Left, TypeOK, Slots
<1>6. (unheard \/ Heard)'
  BY <1>1 DEF Heard, Missing, Failures, Left, TypeOK, Slots
<1> QED BY <1>2, <1>3, <1>4, <1>5, <1>6

\* Waiting changes nothing that the verdict depends on.
LEMMA WaitingKeepsInv ==
  ASSUME Inv, silent' \in BOOLEAN,
         pc' = pc \/ (Early /\ pc' \in {"wait", "callback"}),
         UNCHANGED <<mode, i, retry, rc, result, isOk, registered, answers, history>>
  PROVE  Inv'
<1> USE DEF Inv, history
<1>1. TypeOK'
  <2>1. isOk' \in BOOLEAN /\ unheard' \in BOOLEAN
    BY Zenon DEF TypeOK
  <2>2. pc' \in {"slot", "wait", "callback", "call", "check", "done"}
    BY DEF TypeOK
  <2> QED BY <2>1, <2>2, Zenon DEF TypeOK
<1>2. AnswersBounded'
  BY DEF AnswersBounded, Early, Outstanding
<1>3. RefusalsHaveCause' /\ GivenUpForCause' /\ Failures'
  BY DEF RefusalsHaveCause, GivenUpForCause, Failures, Left, Early
<1>4. (unheard \/ Heard)'
  BY DEF Heard, Missing, Outstanding, Left, Early
<1> QED BY <1>1, <1>2, <1>3, <1>4

LEMMA GettingServiceKeepsInv ==
  ASSUME Inv, SkipSlot \/ WaitForService \/ GetService \/ RadioStalls \/ RadioResumes
  PROVE  Inv'
<1>1. CASE Skip /\ (SkipSlot \/ GetService)
  BY <1>1, SkipKeepsInv DEF SkipSlot, GetService, Early
<1>2. CASE WaitForService \/ (GetService /\ ~Skip)
  BY <1>2, WaitingKeepsInv DEF WaitForService, GetService, history, Early, Inv, TypeOK
<1>3. CASE RadioStalls \/ RadioResumes
  BY <1>3, WaitingKeepsInv DEF RadioStalls, RadioResumes, main
<1> QED BY <1>1, <1>2, <1>3 DEF SkipSlot

LEMMA SetCallbackKeepsInv == ASSUME Inv, SetCallback PROVE Inv'
<1> USE AnswerTypes DEF Inv, SetCallback
<1>1. i \in Slots
  BY DEF AnswersBounded
<1>2. \A s \in Slots : /\ answers'[s]["accepted"] = answers[s]["accepted"]
                       /\ answers'[s]["refused"] = answers[s]["refused"]
  BY <1>1 DEF TypeOK, Answers
<1>3. TypeOK'
  <2>1. answers' \in [Slots -> [Answers -> 0 .. MaxRetries]]
    BY <1>1 DEF TypeOK, Answers
  <2>2. isOk' \in BOOLEAN /\ unheard' \in BOOLEAN /\ silent' \in BOOLEAN
    BY Zenon DEF TypeOK
  <2>3. /\ pc' \in {"slot", "wait", "callback", "call", "check", "done"}
        /\ retry' \in 0 .. MaxRetries
        /\ result' \in {0, 1}
    BY DEF FirstResult
  <2>4. registered' = registered \/ registered' = registered \cup {i}
    BY Zenon
  <2>5. registered' \in SUBSET Slots
    BY <1>1, <2>4 DEF TypeOK
  <2> QED BY <2>1, <2>2, <2>3, <2>5, Zenon DEF TypeOK
<1>4. AnswersBounded'
  BY <1>1, <1>2 DEF AnswersBounded, Early, Outstanding, TypeOK
<1>5. RefusalsHaveCause' /\ GivenUpForCause'
  BY <1>2 DEF RefusalsHaveCause, GivenUpForCause, FirstResult
<1>6. Failures'
  BY DEF Failures, Left
<1>7. (unheard \/ Heard)'
  BY <1>1, <1>2 DEF Heard, Missing, Failures, Left, TypeOK
<1> QED BY <1>3, <1>4, <1>5, <1>6, <1>7

LEMMA SetNrModeKeepsInv == ASSUME Inv, SetNrMode PROVE Inv'
<1> USE AnswerTypes DEF Inv
<1>1. i \in Slots /\ pc = "call" /\ pc' = "check" /\ retry > 0
  BY DEF AnswersBounded, SetNrMode
<1>2. PICK ok \in BOOLEAN, got \in BOOLEAN, accepts \in BOOLEAN :
        /\ ok => got
        /\ accepts => got
        /\ isOk' = ok
        /\ answers' = IF got /\ i \in registered
                        THEN [answers EXCEPT ![i][IF accepts THEN "accepted" ELSE "refused"] = @ + 1]
                        ELSE answers
        /\ lastOk' = IF ok /\ accepts THEN lastOk \cup {i} ELSE lastOk \ {i}
        /\ faulty' = IF ok /\ accepts THEN faulty ELSE faulty \cup {i}
  BY DEF SetNrMode
<1>3. UNCHANGED <<mode, i, retry, rc, result, silent, registered, gaveUp, crossed, unheard>>
  BY DEF SetNrMode
<1>4. \A s \in Slots \ {i} : answers'[s] = answers[s]
  BY <1>1, <1>2 DEF TypeOK
<1>5. /\ answers'[i]["accepted"] =
           answers[i]["accepted"] + IF got /\ i \in registered /\ accepts THEN 1 ELSE 0
      /\ answers'[i]["refused"] =
           answers[i]["refused"] + IF got /\ i \in registered /\ ~accepts THEN 1 ELSE 0
  BY <1>1, <1>2 DEF TypeOK, Answers
<1>6. TypeOK'
  <2>1. answers[i]["accepted"] < MaxRetries /\ answers[i]["refused"] < MaxRetries
    BY <1>1 DEF AnswersBounded, Early, Outstanding, TypeOK
  <2>2. answers' \in [Slots -> [Answers -> 0 .. MaxRetries]]
    BY <1>1, <1>2, <2>1 DEF TypeOK, Answers
  <2>3. lastOk' \subseteq Slots /\ faulty' \subseteq Slots
    BY <1>1, <1>2 DEF TypeOK
  <2>4. isOk' \in BOOLEAN
    BY <1>2
  <2> QED BY <1>1, <1>3, <2>2, <2>3, <2>4 DEF TypeOK
<1>7. AnswersBounded'
  BY <1>1, <1>3, <1>4, <1>5 DEF AnswersBounded, Early, Outstanding, TypeOK
<1>8. RefusalsHaveCause'
  BY <1>1, <1>2, <1>3, <1>4, <1>5 DEF RefusalsHaveCause
<1>9. GivenUpForCause' /\ Failures'
  BY <1>1, <1>2, <1>3 DEF GivenUpForCause, Failures, Left
<1>10. (unheard \/ Heard)'
  <2> SUFFICES ASSUME Heard, ~unheard PROVE Heard'
    BY <1>3
  <2>1. answers[i]["accepted"] = 0 /\ answers[i]["refused"] = 0 /\ i \in registered
    <3>1. ~Missing(i) /\ i \in registered
      BY <1>1, Zenon DEF Heard
    <3>2. answers[i]["accepted"] \in Nat /\ answers[i]["refused"] \in Nat
      BY <1>1, Zenon
    <3> HIDE DEF Inv
    <3> QED BY <3>1, <3>2 DEF Missing
  <2>2. \A s \in Slots : Missing(s)' => s = i
    BY <1>1, <1>4 DEF Heard, Missing
  <2>3. /\ Outstanding(i)' <= 1
        /\ ~ok => i \notin lastOk'
        /\ ok /\ answers'[i]["accepted"] > 0 => i \in lastOk'
        /\ ok /\ answers'[i]["refused"] > 0 => i \notin lastOk'
        /\ ok => ~(Outstanding(i)' = 0)
    BY <1>1, <1>2, <1>3, <1>5, <2>1 DEF Outstanding
  <2>4. \A s \in Slots : Left(s) => s # i /\ (s \in lastOk' <=> s \in lastOk)
    BY <1>2 DEF Left
  <2>5. \A s \in Slots : Left(s)' => (s \in lastOk' <=> s \notin gaveUp')
    BY <1>3, <2>4 DEF Heard, Left
  <2>6. isOk' = ok /\ pc' = "check" /\ i' = i /\ i' \in registered' /\ result' = result
    BY <1>1, <1>2, <1>3, <2>1, Zenon
  <2>7. /\ Outstanding(i)' <= 1
        /\ ~isOk' => i' \notin lastOk'
        /\ isOk' /\ answers'[i']["accepted"] > 0 => i' \in lastOk'
        /\ isOk' /\ answers'[i']["refused"] > 0 => i' \notin lastOk'
        /\ isOk' => ~(Outstanding(i)' = 0)
    BY <2>3, <2>6, Zenon
  <2> QED BY <2>2, <2>5, <2>6, <2>7, Zenon DEF Heard
<1> QED BY <1>6, <1>7, <1>8, <1>9, <1>10

LEMMA CheckKeepsInv == ASSUME Inv, Check PROVE Inv'
<1> USE AnswerTypes DEF Inv
<1>1. i \in Slots /\ pc = "check" /\ retry > 0
  BY DEF AnswersBounded, Check
<1>2. UNCHANGED <<mode, result, isOk, silent, registered, answers, lastOk, faulty, crossed>>
  BY DEF Check
<1>3. /\ unheard' = (unheard \/ \E s \in Slots : Missing(s))
      /\ unheard' \in BOOLEAN
  BY Zenon DEF Check
<1>4. CASE ~Succeeded /\ retry > 1
  <2>1. /\ i' = i /\ rc' = rc /\ gaveUp' = gaveUp
        /\ retry' = retry - 1 /\ pc' = "call"
    BY <1>4 DEF Check, Counted
  <2>2. TypeOK'
    <3>1. pc' \in {"slot", "wait", "callback", "call", "check", "done"} /\ retry' \in 0 .. MaxRetries
      BY <1>4, <2>1 DEF TypeOK
    <3> QED BY <1>2, <1>3, <2>1, <3>1, Zenon DEF TypeOK
  <2>3. AnswersBounded'
    BY <1>1, <1>2, <1>4, <2>1 DEF AnswersBounded, Early, Outstanding, TypeOK
  <2>4. RefusalsHaveCause' /\ GivenUpForCause' /\ Failures'
    BY <1>1, <1>2, <2>1 DEF RefusalsHaveCause, GivenUpForCause, Failures, Left
  <2>5. unheard' \/ Heard'
    <3> SUFFICES ASSUME ~unheard' PROVE Heard'
      OBVIOUS
    <3>1. Heard /\ \A s \in Slots : ~Missing(s)
      BY <1>3
    <3>2. \A s \in Slots : ~Missing(s)'
      BY <1>2, <3>1 DEF Missing
    <3> QED BY <1>1, <1>2, <2>1, <3>1, <3>2 DEF Heard, Left
  <2> QED BY <2>2, <2>3, <2>4, <2>5
<1>5. CASE Succeeded \/ (~Succeeded /\ retry = 1)
  <2>1. i' = i + 1 /\ pc' = IF i' < kMaxSimSlot THEN "slot" ELSE "done"
    BY <1>5 DEF Check, NextSlot
  <2>2. \/ /\ Succeeded
           /\ retry' = retry /\ rc' = rc /\ gaveUp' = gaveUp
        \/ /\ ~Succeeded
           /\ retry' = 0 /\ rc' = EXIT_FAILURE /\ gaveUp' = gaveUp \cup {i}
    BY <1>5 DEF Check
  <2>3. /\ i' \in 0 .. kMaxSimSlot /\ pc' \in {"slot", "done"}
        /\ i' < kMaxSimSlot <=> pc' = "slot"
    BY <1>1, <2>1 DEF Slots
  <2>4. TypeOK'
    <3>1. gaveUp' = gaveUp \/ gaveUp' = gaveUp \cup {i}
      BY <2>2, Zenon
    <3>2. retry' = retry \/ retry' = 0
      BY <2>2, Zenon
    <3>3. rc' = rc \/ rc' = EXIT_FAILURE
      BY <2>2, Zenon
    <3>4. retry' \in 0 .. MaxRetries
      BY <3>2 DEF TypeOK
    <3>6. rc' \in {EXIT_SUCCESS, EXIT_FAILURE}
      BY <3>3 DEF TypeOK
    <3>7. gaveUp' \in SUBSET Slots
      BY <1>1, <3>1 DEF TypeOK
    <3>5. i' \in 0 .. kMaxSimSlot /\ pc' \in {"slot", "wait", "callback", "call", "check", "done"}
      BY <2>3
    <3> QED BY <1>2, <1>3, <3>4, <3>5, <3>6, <3>7, Zenon DEF TypeOK
  <2>5. AnswersBounded'
    BY <1>1, <1>2, <2>1, <2>3 DEF AnswersBounded, Early, Outstanding, TypeOK, Slots
  <2>6. RefusalsHaveCause' /\ GivenUpForCause'
    <3>1. ~Succeeded => i \in faulty \cup crossed
      BY <1>1 DEF RefusalsHaveCause, Succeeded
    <3> QED BY <1>2, <2>2, <2>3, <3>1 DEF RefusalsHaveCause, GivenUpForCause
  <2>7. Failures'
    <3> DEFINE Leaving == gaveUp \cup {i}
    <3>4. gaveUp' \subseteq Leaving
      BY <2>2, Zenon
    <3>5. \A s \in Leaving : s \in Int /\ s < i'
      BY <1>1, <2>1 DEF Failures, Left, TypeOK, Slots
    <3>1. \A s \in gaveUp' : s < i'
      BY <3>4, <3>5
    <3>2. rc' = EXIT_SUCCESS <=> gaveUp' = {}
      BY <2>2 DEF Failures
    <3>3. pc' = "done" => i' = kMaxSimSlot
      BY <2>3
    <3> QED BY <3>1, <3>2, <3>3 DEF Failures, Left
  <2>8. unheard' \/ Heard'
    <3> SUFFICES ASSUME ~unheard' PROVE Heard'
      OBVIOUS
    <3>1. Heard /\ \A s \in Slots : ~Missing(s)
      BY <1>3
    <3>2. \A s \in Slots : ~Missing(s)'
      BY <1>2, <3>1 DEF Missing
    <3>3. Outstanding(i) = 0
      BY <1>1, <3>1 DEF Missing, Outstanding
    <3>4. Succeeded <=> i \in lastOk
      BY <1>1, <3>1, <3>3, Zenon DEF Heard, Succeeded
    <3>5. i \notin gaveUp
      BY <1>1 DEF Failures, Left, TypeOK
    <3>6. i \in lastOk' <=> i \notin gaveUp'
      BY <1>2, <2>2, <3>4, <3>5
    <3>7. \A s \in Slots : s < i => (s \in lastOk' <=> s \notin gaveUp')
      BY <1>1, <1>2, <2>2, <3>1 DEF Heard, Left, Slots
    <3>8. \A s \in Slots : s < i' => s < i \/ s = i
      BY <1>1, <2>1 DEF Slots
    <3>9. \A s \in Slots : Left(s)' => (s \in lastOk' <=> s \notin gaveUp')
      BY <3>6, <3>7, <3>8 DEF Left
    <3> QED BY <2>3, <3>2, <3>9 DEF Heard
  <2> QED BY <2>4, <2>5, <2>6, <2>7, <2>8
<1>6. retry = 1 \/ retry > 1
  BY <1>1 DEF TypeOK
<1> QED BY <1>4, <1>5, <1>6

\* What taking an answer leaves behind.
LEMMA TakenAnswer ==
  ASSUME TypeOK, NEW s \in Slots, NEW a \in Answers, Take(s, a)
  PROVE  /\ answers[s][a] > 0
         /\ answers' \in [Slots -> [Answers -> 0 .. MaxRetries]]
         /\ \A t \in Slots, b \in Answers :
              answers'[t][b] = IF t = s /\ b = a THEN answers[t][b] - 1 ELSE answers[t][b]
  BY DEF Take, TypeOK, Answers

LEMMA OtherResponseKeepsInv ==
  ASSUME Inv, NEW s \in Slots, OtherResponse(s) PROVE Inv'
<1> USE AnswerTypes DEF Inv
<1>1. /\ UNCHANGED <<mode, pc, i, retry, rc, isOk, silent, registered, gaveUp, lastOk, faulty, unheard>>
      /\ UNCHANGED <<result, crossed>>
  BY DEF OtherResponse, Take
<1>2. /\ answers' \in [Slots -> [Answers -> 0 .. MaxRetries]]
      /\ \A t \in Slots : /\ answers'[t]["accepted"] = answers[t]["accepted"]
                          /\ answers'[t]["refused"] = answers[t]["refused"]
  BY TakenAnswer DEF OtherResponse, Answers
<1>3. TypeOK'
  BY <1>1, <1>2, Zenon DEF TypeOK
<1>4. AnswersBounded'
  BY <1>1, <1>2 DEF AnswersBounded, Early, Outstanding, TypeOK, Slots
<1>5. RefusalsHaveCause' /\ GivenUpForCause' /\ Failures'
  BY <1>1, <1>2 DEF RefusalsHaveCause, GivenUpForCause, Failures, Left, Slots
<1>6. unheard' \/ Heard'
  BY <1>1, <1>2 DEF Heard, Missing, Outstanding, Left, TypeOK, Slots
<1> QED BY <1>3, <1>4, <1>5, <1>6

LEMMA SetNrModeResponseKeepsInv ==
  ASSUME Inv, NEW s \in Slots, SetNrModeResponse(s) PROVE Inv'
<1> USE AnswerTypes DEF Inv
<1>1. PICK a \in {"accepted", "refused"} :
        /\ Take(s, a)
        /\ crossed' = IF s # i /\ a = "refused" THEN crossed \cup {i} ELSE crossed
        /\ \/ result' = IF a = "accepted" THEN 0 ELSE 1
           \/ s # i /\ UNCHANGED result
  BY DEF SetNrModeResponse
<1>2. /\ UNCHANGED <<mode, pc, i, retry, rc, isOk, silent, registered, gaveUp, lastOk, faulty, unheard>>
      /\ pc # "done"
  BY <1>1 DEF Take
<1>3. i \in Slots
  BY <1>2 DEF AnswersBounded
<1>4. /\ answers[s][a] > 0
      /\ answers' \in [Slots -> [Answers -> 0 .. MaxRetries]]
      /\ \A t \in Slots :
           /\ answers'[t]["accepted"] =
                IF t = s /\ a = "accepted" THEN answers[t]["accepted"] - 1
                                          ELSE answers[t]["accepted"]
           /\ answers'[t]["refused"] =
                IF t = s /\ a = "refused" THEN answers[t]["refused"] - 1
                                         ELSE answers[t]["refused"]
  BY <1>1, TakenAnswer DEF Answers
<1>5. TypeOK'
  <2>1. result' \in {0, 1} /\ crossed' \in SUBSET Slots
    BY <1>1, <1>3 DEF TypeOK
  <2> QED BY <1>2, <1>4, <2>1, Zenon DEF TypeOK
<1>6. AnswersBounded'
  <2>1. \A t \in Slots : Outstanding(t)' \in Int /\ Outstanding(t)' <= Outstanding(t)
    BY <1>4 DEF Outstanding
  <2>3. Outstanding(s) > 0
    BY <1>1, <1>4 DEF Outstanding
  <2>2. \A t \in Slots : Outstanding(t) = 0 => Outstanding(t)' = 0
    BY <1>4, <2>3 DEF Outstanding
  <2> QED BY <1>2, <1>3, <2>1, <2>2 DEF AnswersBounded, Early, TypeOK
<1>7. RefusalsHaveCause' /\ GivenUpForCause'
  <2>1. \A t \in Slots : answers'[t]["refused"] > 0 => t \in faulty'
    BY <1>2, <1>4 DEF RefusalsHaveCause
  <2>2. s \in faulty \/ a # "refused"
    BY <1>4 DEF RefusalsHaveCause
  <2>3. crossed \subseteq crossed'
    BY <1>1
  <2>4. pc \in {"call", "check"} /\ result' # 0 => i \in faulty \cup crossed'
    BY <1>1, <2>2, <2>3 DEF RefusalsHaveCause
  <2> QED BY <1>2, <2>1, <2>3, <2>4 DEF RefusalsHaveCause, GivenUpForCause
<1>8. Failures'
  BY <1>2 DEF Failures, Left
<1>9. unheard' \/ Heard'
  <2> SUFFICES ASSUME ~unheard PROVE Heard'
    BY <1>2
  <2>1. Heard
    OBVIOUS
  <2>2. s = i /\ pc = "check" /\ result' = IF a = "accepted" THEN 0 ELSE 1
    BY <1>1, <1>4, <2>1 DEF Heard, Missing
  <2>3. \A t \in Slots : Missing(t)' => t = i
    BY <1>4, <2>1 DEF Heard, Missing
  <2>4. /\ Outstanding(i)' <= 1
        /\ ~(answers'[i]["accepted"] > 0)
        /\ ~(answers'[i]["refused"] > 0)
    <3>1. answers[i]["accepted"] + answers[i]["refused"] <= 1
      BY <2>1, <2>2 DEF Heard, Outstanding
    <3>2. CASE a = "accepted"
      BY <1>2, <1>3, <1>4, <2>2, <3>1, <3>2 DEF Outstanding
    <3>3. CASE a = "refused"
      BY <1>2, <1>3, <1>4, <2>2, <3>1, <3>3 DEF Outstanding
    <3> QED BY <1>1, <3>2, <3>3
  <2>5. isOk => (result' = 0 <=> i \in lastOk)
    BY <1>1, <1>4, <2>1, <2>2 DEF Heard
  <2>6. i' = i /\ pc' = pc /\ isOk' = isOk /\ lastOk' = lastOk /\ registered' = registered
    BY <1>2
  <2>7. \A t \in Slots : Left(t)' => (t \in lastOk' <=> t \notin gaveUp')
    BY <1>2, <2>1 DEF Heard, Left
  <2> QED BY <2>1, <2>2, <2>3, <2>4, <2>5, <2>6, <2>7, Zenon DEF Heard
<1> QED BY <1>5, <1>6, <1>7, <1>8, <1>9

LEMMA NextInv == ASSUME Inv, [Next]_vars PROVE Inv'
<1>1. CASE SkipSlot \/ WaitForService \/ GetService \/ RadioStalls \/ RadioResumes
  BY <1>1, GettingServiceKeepsInv
<1>2. CASE SetCallback
  BY <1>2, SetCallbackKeepsInv
<1>3. CASE SetNrMode
  BY <1>3, SetNrModeKeepsInv
<1>4. CASE Check
  BY <1>4, CheckKeepsInv
<1>5. ASSUME NEW s \in Slots, SetNrModeResponse(s) PROVE Inv'
  BY <1>5, SetNrModeResponseKeepsInv
<1>6. ASSUME NEW s \in Slots, OtherResponse(s) PROVE Inv'
  BY <1>6, OtherResponseKeepsInv
<1>7. CASE UNCHANGED vars
  BY <1>7 DEF vars, main, history, Inv, TypeOK, AnswersBounded, RefusalsHaveCause,
       GivenUpForCause, Failures, Left, Heard, Missing, Outstanding, Early
<1> QED BY <1>1, <1>2, <1>3, <1>4, <1>5, <1>6, <1>7 DEF Next, Main

-----------------------------------------------------------------------------
LEMMA InvGivesExitStatus == ASSUME Inv PROVE ExitStatusExact
<1> SUFFICES ASSUME pc = "done", ~unheard PROVE rc = EXIT_SUCCESS <=> lastOk = Slots
  BY DEF ExitStatusExact
<1>1. Heard /\ Failures /\ TypeOK
  BY DEF Inv
<1>2. \A s \in Slots : s < i
  BY <1>1 DEF Failures, Slots
<1>3. \A s \in Slots : s \in lastOk <=> s \notin gaveUp
  BY <1>1, <1>2 DEF Heard, Left
<1> QED BY <1>1, <1>3 DEF Failures, TypeOK

\* For every number of slots and retries: a slot is given up only for a failure
\* of its own or a refusal that crossed over to it, and when every answer was
\* heard in time the exit status of main() says exactly whether each radio
\* accepted the mode.
THEOREM ExitStatusIsExact == Spec => [](TypeOK /\ VerdictIsSound)
<1>1. Inv => TypeOK /\ VerdictIsSound
  BY InvGivesExitStatus DEF Inv, VerdictIsSound
<1> QED BY <1>1, InitInv, NextInv, PTL DEF Spec
=============================================================================
