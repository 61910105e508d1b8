----------------------------- MODULE FolioDaemon -----------------------------
(***************************************************************************)
(* The folio daemon (folio-daemon/main.cpp) turns the Hall sensor's events *)
(* into a lid switch.  It waits for the sensor, a limited number of times, *)
(* registers for its events and forwards them one by one, each as EV_SW    *)
(* and EV_SYN; any failure ends it.  init starts and stops it with zygote  *)
(* and starts it again when it has ended.                                  *)
(***************************************************************************)
EXTENDS Naturals, Sequences

CONSTANTS RETRY_LIMIT,
          MaxEvents  \* bound: sensor events waiting to be taken

ASSUME FolioAssumption == RETRY_LIMIT \in Nat \ {0} /\ MaxEvents \in Nat \ {0}

VARIABLES
    zygote,        \* is it running?
    sensorThere,   \* is the Hall sensor known to the sensor service?
    magnet,        \* "open" or "closed"
    fpc,           \* where the daemon is
    attemptCount,
    events,        \* its event queue
    isClosed,      \* the event being forwarded
    lid,           \* SW_LID as the input system has it, "none" without a device
    told           \* history: an event came since it registered

folioVars == <<zygote, sensorThere, magnet, fpc, attemptCount, events, isClosed, lid, told>>

FolioInit ==
    /\ zygote = FALSE /\ sensorThere = FALSE /\ magnet = "open"
    /\ fpc = "ended" /\ attemptCount = 0 /\ events = <<>> /\ isClosed = "open"
    /\ lid = "none" /\ told = FALSE

-----------------------------------------------------------------------------
\* out: the queue and the uinput node are closed; the device goes with it.
End ==
    /\ fpc' = "ended" /\ events' = <<>> /\ lid' = "none" /\ told' = FALSE
    /\ UNCHANGED <<attemptCount, isClosed>>

\* The uinput device is set up; the input system takes the lid for open.
Setup ==
    /\ zygote /\ fpc = "ended"
    /\ fpc' = "find" /\ attemptCount' = 0 /\ lid' = "open"
    /\ UNCHANGED <<zygote, sensorThere, magnet, events, isClosed, told>>

FindSensor ==
    /\ fpc = "find"
    /\ IF sensorThere
         THEN fpc' = "register" /\ UNCHANGED <<attemptCount, events, isClosed, lid, told>>
         ELSE IF attemptCount + 1 >= RETRY_LIMIT
                THEN End
                ELSE /\ attemptCount' = attemptCount + 1
                     /\ UNCHANGED <<fpc, events, isClosed, lid, told>>
    /\ UNCHANGED <<zygote, sensorThere, magnet>>

\* The sensor may, or may not, tell its value at once.
RegisterSensor ==
    /\ fpc = "register"
    /\ \/ /\ fpc' = "poll"
          /\ \/ events' = <<magnet>> /\ told' = TRUE
             \/ UNCHANGED <<events, told>>
          /\ UNCHANGED <<attemptCount, isClosed, lid>>
       \/ End
    /\ UNCHANGED <<zygote, sensorThere, magnet>>

\* Seeded fault: what else is in the queue is lost.
RestDropped(q) == <<>>
Rest(q) == Tail(q)

\* pollOnce and getEvents, or an error of the looper.
TakeEvent ==
    /\ fpc = "poll"
    /\ \/ /\ events # <<>>
          /\ isClosed' = Head(events) /\ events' = Rest(events)
          /\ fpc' = "sw" /\ UNCHANGED <<attemptCount, lid, told>>
       \/ End
    /\ UNCHANGED <<zygote, sensorThere, magnet>>

WriteSw ==
    /\ fpc = "sw"
    /\ \/ fpc' = "syn" /\ UNCHANGED <<attemptCount, events, isClosed, lid, told>>
       \/ End
    /\ UNCHANGED <<zygote, sensorThere, magnet>>

\* Only EV_SYN makes the input system see the switch.
WriteSyn ==
    /\ fpc = "syn"
    /\ \/ fpc' = "poll" /\ lid' = isClosed /\ UNCHANGED <<attemptCount, events, isClosed, told>>
       \/ End
    /\ UNCHANGED <<zygote, sensorThere, magnet>>

\* folio-daemon.rc: started when zygote runs, stopped when it stops.
ZygoteStarts ==
    /\ ~zygote /\ zygote' = TRUE
    /\ UNCHANGED <<sensorThere, magnet, fpc, attemptCount, events, isClosed, lid, told>>

ZygoteStops ==
    /\ zygote /\ zygote' = FALSE
    /\ End
    /\ UNCHANGED <<sensorThere, magnet>>

\* External.
SensorAppears ==
    /\ ~sensorThere /\ sensorThere' = TRUE
    /\ UNCHANGED <<zygote, magnet, fpc, attemptCount, events, isClosed, lid, told>>

Registered == fpc \in {"poll", "sw", "syn"}
MagnetMoves ==
    /\ magnet' = IF magnet = "open" THEN "closed" ELSE "open"
    /\ IF Registered
         THEN Len(events) < MaxEvents /\ events' = Append(events, magnet') /\ told' = TRUE
         ELSE UNCHANGED <<events, told>>
    /\ UNCHANGED <<zygote, sensorThere, fpc, attemptCount, isClosed, lid>>

FolioNext ==
    \/ Setup \/ FindSensor \/ RegisterSensor \/ TakeEvent \/ WriteSw \/ WriteSyn
    \/ ZygoteStarts \/ ZygoteStops \/ SensorAppears \/ MagnetMoves

FolioSpec == FolioInit /\ [][FolioNext]_folioVars

-----------------------------------------------------------------------------
\* Whenever the daemon has nothing left to forward the input system has the
\* lid where the magnet is, however often both were started again, unless the
\* sensor has not spoken since: then the lid is taken for open.
LidFollowsMagnet ==
    fpc = "poll" /\ events = <<>> => lid = IF told THEN magnet ELSE "open"
=============================================================================
