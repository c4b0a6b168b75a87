------------------------------- MODULE Onroad -------------------------------
(***************************************************************************)
(* Going onroad and offroad.  hardwared decides from the ignition and its  *)
(* conditions whether the device is started and publishes deviceState;     *)
(* manager follows it, clears the params of the last drive, announces the  *)
(* change in IsOffroad and stops and starts processes; card fingerprints   *)
(* the car and leaves CarParams, FirmwareQueryDone and ControlsReady in    *)
(* the params; pandad follows deviceState by itself and switches the panda *)
(* to the car's safety model when it finds these params.                   *)
(*                                                                         *)
(* deviceState is conflated: a reader gets the last message only.  A param *)
(* is represented by the number of the card that wrote it, 0 if unset.     *)
(***************************************************************************)
EXTENDS Naturals

CONSTANTS
  MaxEvents,    \* bound: changes of the key, the conditions and the requests, and timeouts
  MaxCrashes    \* bound: deaths of card and of pandad

ASSUME OnroadAssumption == MaxEvents \in Nat /\ MaxCrashes \in Nat

(* One process of each kind: card runs only onroad, updated only offroad.  *)
Procs == {"card", "updated"}
Keys == {"FirmwareQueryDone", "CarParams", "ControlsReady"}
Phases == {"fingerprint", "queried", "initializing", "controlling"}

VARIABLES
  ignition, conditions, offroadMode, cycleRequested, events, crashes,
  pandaStates, started, cycling, deviceState, unread,
  at, mStarted, mPrev, clearing, isOffroad, proc, reported,
  phase, gen, queued, interrupted, param,
  pandad, safety, model, closedBehind

outside == <<ignition, conditions, offroadMode, events, crashes>>
hardware == <<pandaStates, started, cycling, deviceState>>
manager == <<at, mStarted, mPrev, clearing, isOffroad, reported>>
card == <<phase, gen, queued, interrupted>>
panda == <<pandad, safety, model, closedBehind>>
vars == <<outside, cycleRequested, hardware, unread, manager, proc, card, param, panda>>

(* PandaSafety's flags and the onroad state pandad has last heard of.      *)
FreshPandad == [up |-> TRUE, onroad |-> FALSE, initialized |-> FALSE, configured |-> FALSE]

TypeOK ==
  /\ ignition \in BOOLEAN /\ offroadMode \in BOOLEAN /\ cycleRequested \in BOOLEAN
  /\ conditions \in {"start", "continue", "stop"}
  /\ events \in 0..MaxEvents /\ crashes \in 0..MaxCrashes
  /\ pandaStates \in BOOLEAN /\ started \in BOOLEAN /\ cycling \in BOOLEAN
  /\ deviceState \in BOOLEAN /\ unread \subseteq {"manager", "pandad"}
  /\ at \in {"update", "clear", "announce", "stop", "start"}
  /\ mStarted \in BOOLEAN /\ mPrev \in BOOLEAN /\ clearing \subseteq Keys
  /\ isOffroad \in BOOLEAN /\ reported \in BOOLEAN
  /\ proc \in [Procs -> [state : {"none", "up", "exited"}, signalled : BOOLEAN]]
  /\ phase \in Phases /\ gen \in Nat /\ queued \in BOOLEAN
  /\ interrupted \in {"code", "put", "get"}
  /\ param \in [Keys -> 0..gen]
  /\ pandad \in [up : BOOLEAN, onroad : BOOLEAN, initialized : BOOLEAN, configured : BOOLEAN]
  /\ safety \in {"silent", "noOutput", "elm327", "car"} /\ model \in 0..gen
  /\ closedBehind \in BOOLEAN

NoProc == [state |-> "none", signalled |-> FALSE]
Running == [state |-> "up", signalled |-> FALSE]

(* manager_init has cleared the params; manager_thread has put IsOffroad   *)
(* and started the offroad processes.                                      *)
Init ==
  /\ ignition = FALSE /\ conditions = "start" /\ offroadMode = FALSE
  /\ cycleRequested = FALSE /\ events = 0 /\ crashes = 0
  /\ pandaStates = FALSE /\ started = FALSE /\ cycling = FALSE
  /\ deviceState = FALSE /\ unread = {}
  /\ at = "update" /\ mStarted = FALSE /\ mPrev = FALSE /\ clearing = {}
  /\ isOffroad = TRUE /\ reported = FALSE
  /\ proc = [p \in Procs |-> IF p = "updated" THEN Running ELSE NoProc]
  /\ phase = "fingerprint" /\ gen = 0 /\ queued = FALSE /\ interrupted = "code"
  /\ param = [k \in Keys |-> 0]
  /\ pandad = FreshPandad /\ safety = "silent" /\ model = 0 /\ closedBehind = FALSE

-----------------------------------------------------------------------------
(* The world: the key, the startup and onroad conditions (the startup ones *)
(* matter only for starting), the always-offroad switch and the request to *)
(* cycle through offroad.                                                  *)

Event == events < MaxEvents /\ events' = events + 1

TurnKey ==
  /\ Event
  /\ ignition' = ~ignition
  /\ UNCHANGED <<conditions, offroadMode, crashes, cycleRequested, hardware,
                 unread, manager, proc, card, param, panda>>

ChangeConditions ==
  /\ Event
  /\ conditions' \in {"start", "continue", "stop"} \ {conditions}
  /\ UNCHANGED <<ignition, offroadMode, crashes, cycleRequested, hardware,
                 unread, manager, proc, card, param, panda>>

ToggleOffroadMode ==
  /\ Event
  /\ offroadMode' = ~offroadMode
  /\ UNCHANGED <<ignition, conditions, crashes, cycleRequested, hardware,
                 unread, manager, proc, card, param, panda>>

RequestCycle ==
  /\ Event
  /\ ~cycleRequested
  /\ cycleRequested' = TRUE
  /\ UNCHANGED <<ignition, conditions, offroadMode, crashes, hardware,
                 unread, manager, proc, card, param, panda>>

World == TurnKey \/ ChangeConditions \/ ToggleOffroadMode \/ RequestCycle

-----------------------------------------------------------------------------
(* hardwared.                                                              *)

ShouldStart ==
  /\ pandaStates /\ ~(cycling \/ cycleRequested) /\ ~offroadMode
  /\ conditions # "stop"
  /\ started \/ conditions = "start"

(* One iteration of hardware_thread that ends in a message.                *)
Hardware ==
  /\ started' = ShouldStart
  /\ deviceState' = started'
  /\ cycling' = (cycling \/ cycleRequested)
  /\ cycleRequested' = FALSE
  /\ unread' = {"manager"} \cup (IF pandad.up THEN {"pandad"} ELSE {})
  /\ UNCHANGED <<outside, pandaStates, manager, proc, card, param, panda>>

(* pandad has published nothing for DISCONNECT_TIMEOUT.                    *)
PandaTimeout ==
  /\ ~pandad.up /\ pandaStates
  /\ Event
  /\ pandaStates' = FALSE
  /\ UNCHANGED <<ignition, conditions, offroadMode, crashes, cycleRequested, started,
                 cycling, deviceState, unread, manager, proc, card, param, panda>>

(* ONROAD_CYCLE_TIME has passed.                                           *)
CycleOver ==
  /\ cycling
  /\ cycling' = FALSE
  /\ UNCHANGED <<outside, cycleRequested, pandaStates, started, deviceState,
                 unread, manager, proc, card, param, panda>>

-----------------------------------------------------------------------------
(* manager_thread, one iteration in five steps.                            *)

Wanted == IF mStarted THEN "card" ELSE "updated"
Unwanted == IF mStarted THEN "updated" ELSE "card"

(* Mutant: the handshake is cleared on both transitions.                   *)
UpdateClearingTwice ==
  /\ at = "update"
  /\ mStarted' = IF "manager" \in unread THEN deviceState ELSE mStarted
  /\ unread' = unread \ {"manager"}
  /\ IF mStarted' # mPrev
       THEN at' = "clear" /\ clearing' = Keys
       ELSE at' = "stop" /\ UNCHANGED clearing
  /\ UNCHANGED <<outside, cycleRequested, hardware, mPrev, isOffroad, reported,
                 proc, card, param, panda>>

Update ==
  /\ at = "update"
  /\ mStarted' = IF "manager" \in unread THEN deviceState ELSE mStarted
  /\ unread' = unread \ {"manager"}
  /\ IF mStarted' # mPrev
       THEN /\ at' = "clear"
            /\ clearing' = IF mStarted' THEN Keys ELSE {}
       ELSE /\ at' = "stop"
            /\ UNCHANGED clearing
  /\ UNCHANGED <<outside, cycleRequested, hardware, mPrev, isOffroad, reported,
                 proc, card, param, panda>>

(* Mutant: clear_all returns after the first file it removes.              *)
ClearOne ==
  /\ at = "clear"
  /\ IF clearing = {} THEN UNCHANGED param
     ELSE \E k \in clearing : param' = [param EXCEPT ![k] = 0]
  /\ clearing' = {}
  /\ at' = "announce"
  /\ UNCHANGED <<outside, cycleRequested, hardware, unread, mStarted, mPrev,
                 isOffroad, reported, proc, card, panda>>

(* clear_all removes the files one after the other, in any order.          *)
Clear ==
  /\ at = "clear"
  /\ \/ \E k \in clearing :
          /\ param' = [param EXCEPT ![k] = 0]
          /\ clearing' = clearing \ {k}
          /\ UNCHANGED at
     \/ /\ clearing = {}
        /\ at' = "announce"
        /\ UNCHANGED <<param, clearing>>
  /\ UNCHANGED <<outside, cycleRequested, hardware, unread, mStarted, mPrev,
                 isOffroad, reported, proc, card, panda>>

Announce ==
  /\ at = "announce"
  /\ isOffroad' = ~mStarted
  /\ mPrev' = mStarted
  /\ at' = "stop"
  /\ UNCHANGED <<outside, cycleRequested, hardware, unread, mStarted, clearing,
                 reported, proc, card, param, panda>>

(* Mutant: a process that does not follow the signal is not killed.        *)
StoppedPatiently(p) ==
  IF p.state = "up" THEN [p EXCEPT !.signalled = TRUE] ELSE NoProc

(* stop(block=False): a first call signals the process, the next ones wait *)
(* for it, kill it after five seconds, and let go of it.                   *)
Stopped(p) == IF p.state = "up" /\ ~p.signalled THEN [p EXCEPT !.signalled = TRUE] ELSE NoProc

CardUp == proc["card"].state = "up"
CardWorks == CardUp /\ ~proc["card"].signalled

(* What SIGINT may find card doing: Python code, which it ends; a blocking *)
(* put, which completes first, being C++; or the blocking read with which  *)
(* fingerprinting waits for pandad to switch OBD multiplexing.  That read  *)
(* takes the signal for its own, and card goes on until it is killed.      *)
Interruptible ==
  {"code"} \cup (IF phase \in {"fingerprint", "queried"} THEN {"put"} ELSE {})
           \cup (IF phase = "fingerprint" THEN {"get"} ELSE {})

Stop ==
  /\ at = "stop"
  /\ proc' = [proc EXCEPT ![Unwanted] = Stopped(@)]
  /\ interrupted' \in IF CardWorks /\ Unwanted = "card" THEN Interruptible ELSE {interrupted}
  /\ queued' = (queued /\ proc'["card"].state # "none")
  /\ at' = "start"
  /\ UNCHANGED <<outside, cycleRequested, hardware, unread, mStarted, mPrev, clearing,
                 isOffroad, reported, phase, gen, param, panda>>

(* start(): a process that is still shutting down is killed first; one     *)
(* that is held is left alone, alive or not.                               *)
Start ==
  /\ at = "start"
  /\ IF proc[Wanted].state = "none" \/ proc[Wanted].signalled
       THEN /\ proc' = [proc EXCEPT ![Wanted] = Running]
            /\ IF Wanted = "card"
                 THEN gen' = gen + 1 /\ phase' = "fingerprint" /\ queued' = FALSE
                      /\ interrupted' = "code"
                 ELSE UNCHANGED card
       ELSE UNCHANGED <<proc, card>>
  /\ reported' = \E p \in Procs : proc'[p].state = "exited" /\ ~proc'[p].signalled
  /\ at' = "update"
  /\ UNCHANGED <<outside, cycleRequested, hardware, unread, mStarted, mPrev, clearing,
                 isOffroad, param, panda>>

Manager == Update \/ Clear \/ Announce \/ Stop \/ Start

-----------------------------------------------------------------------------
(* card.  The signal has ended its Python code unless interrupted says     *)
(* otherwise; its parameter writer thread still finishes what is queued.   *)

GoesOn == CardUp /\ (~proc["card"].signalled \/ interrupted = "get")
FinishesPut == CardUp /\ interrupted = "put"
AfterPut == IF interrupted = "put" THEN "code" ELSE interrupted

Write(k) == param' = [param EXCEPT ![k] = gen]

Fingerprint ==
  /\ GoesOn \/ FinishesPut
  /\ phase = "fingerprint"
  /\ Write("FirmwareQueryDone")
  /\ phase' = "queried"
  /\ interrupted' = AfterPut
  /\ UNCHANGED <<outside, cycleRequested, hardware, unread, manager, proc, gen, queued, panda>>

PutCarParams ==
  /\ GoesOn \/ FinishesPut
  /\ phase = "queried"
  /\ Write("CarParams")
  /\ phase' = "initializing"
  /\ interrupted' = AfterPut
  /\ UNCHANGED <<outside, cycleRequested, hardware, unread, manager, proc, gen, queued, panda>>

(* selfdrived is initialized: ControlsReady is put without waiting.        *)
SignalReady ==
  /\ GoesOn /\ phase = "initializing"
  /\ queued' = TRUE
  /\ phase' = "controlling"
  /\ UNCHANGED <<outside, cycleRequested, hardware, unread, manager, proc, gen, interrupted,
                 param, panda>>

WriteReady ==
  /\ CardUp /\ queued
  /\ Write("ControlsReady")
  /\ queued' = FALSE
  /\ UNCHANGED <<outside, cycleRequested, hardware, unread, manager, proc, phase, gen,
                 interrupted, panda>>

(* updated ends by itself, too, once signalled; card not before its put    *)
(* has returned and its queue is written.                                  *)
Exit ==
  /\ \E p \in Procs :
       /\ proc[p].state = "up" /\ proc[p].signalled
       /\ p = "card" => ~queued /\ interrupted = "code"
       /\ proc' = [proc EXCEPT ![p].state = "exited"]
  /\ UNCHANGED <<outside, cycleRequested, hardware, unread, manager, card, param, panda>>

CardDies ==
  /\ GoesOn
  /\ crashes < MaxCrashes /\ crashes' = crashes + 1
  /\ proc' = [proc EXCEPT !["card"].state = "exited"]
  /\ queued' = FALSE
  /\ UNCHANGED <<ignition, conditions, offroadMode, events, cycleRequested, hardware,
                 unread, manager, phase, gen, interrupted, param, panda>>

Card == Fingerprint \/ PutCarParams \/ SignalReady \/ WriteReady

-----------------------------------------------------------------------------
(* pandad.                                                                 *)

IgnitionLocal == ignition /\ ~offroadMode

(* send_panda_states: the mode left behind, given is_onroad.               *)
Closed(onroad) ==
  IF ~IgnitionLocal \/ ~onroad \/ safety = "silent" THEN "noOutput" ELSE safety

HandshakeDone == param["FirmwareQueryDone"] # 0 /\ param["ControlsReady"] # 0

(* configureSafetyMode while onroad and not configured: ELM327 for         *)
(* fingerprinting, then the model of CarParams; without CarParams the      *)
(* message reader throws and pandad is gone.                               *)
Configure(onroad) ==
  IF HandshakeDone
    THEN /\ model' = param["CarParams"]
         /\ safety' = IF param["CarParams"] = 0 THEN "elm327" ELSE "car"
         /\ pandad' = [FreshPandad EXCEPT !.up = (param["CarParams"] # 0), !.onroad = onroad,
                                           !.initialized = TRUE, !.configured = TRUE]
    ELSE /\ safety' = IF pandad.initialized THEN Closed(onroad) ELSE "elm327"
         /\ pandad' = [pandad EXCEPT !.onroad = onroad, !.initialized = TRUE]
         /\ UNCHANGED model

(* Mutant: the flags survive going offroad.                                *)
ForgetNothing == [pandad EXCEPT !.onroad = FALSE]

(* configureSafetyMode while offroad.                                      *)
Forget == FreshPandad

(* The 10 Hz part of pandad's loop.                                        *)
Tick ==
  /\ pandad.up
  /\ LET onroad == IF "pandad" \in unread THEN deviceState ELSE pandad.onroad
     IN  /\ IF onroad /\ ~pandad.configured
              THEN Configure(onroad)
              ELSE /\ safety' = Closed(onroad)
                   /\ pandad' = IF onroad THEN [pandad EXCEPT !.onroad = TRUE] ELSE Forget
                   /\ UNCHANGED model
         /\ closedBehind' = (onroad /\ (closedBehind \/ (pandad.configured /\ ~IgnitionLocal)))
  /\ pandaStates' = ignition
  /\ unread' = unread \ {"pandad"}
  /\ UNCHANGED <<outside, cycleRequested, started, cycling, deviceState, manager, proc, card, param>>

PandadDies ==
  /\ pandad.up
  /\ crashes < MaxCrashes /\ crashes' = crashes + 1
  /\ pandad' = [pandad EXCEPT !.up = FALSE]
  /\ UNCHANGED <<ignition, conditions, offroadMode, events, cycleRequested, hardware,
                 unread, manager, proc, card, param, safety, model, closedBehind>>

(* Mutant: the panda is not reset.                                         *)
ReconnectWarm ==
  /\ ~pandad.up
  /\ pandad' = FreshPandad
  /\ closedBehind' = FALSE
  /\ unread' = unread \ {"pandad"}
  /\ UNCHANGED <<outside, cycleRequested, hardware, manager, proc, card, param, safety, model>>

(* pandad.py resets the panda and runs pandad again, which hears the next  *)
(* deviceState.                                                            *)
Reconnect ==
  /\ ~pandad.up
  /\ pandad' = FreshPandad
  /\ safety' = "silent"
  /\ closedBehind' = FALSE
  /\ unread' = unread \ {"pandad"}
  /\ UNCHANGED <<outside, cycleRequested, hardware, manager, proc, card, param, model>>

-----------------------------------------------------------------------------
Next ==
  \/ World
  \/ Hardware \/ PandaTimeout \/ CycleOver
  \/ Manager
  \/ Card \/ Exit \/ CardDies
  \/ Tick \/ PandadDies \/ Reconnect

Spec == Init /\ [][Next]_vars

-----------------------------------------------------------------------------
(* Safety.                                                                 *)

(* Nobody clears or overwrites the handshake of a card at work: what the   *)
(* running card has put is what pandad finds (manager.py:147-163,          *)
(* card.py:142,191).                                                       *)
HandshakeKept ==
  CardWorks =>
    /\ phase # "fingerprint" => param["FirmwareQueryDone"] = gen
    /\ phase \in {"initializing", "controlling"} => param["CarParams"] = gen
    /\ phase = "controlling" /\ ~queued => param["ControlsReady"] = gen

(* The panda is in the car's mode only after a pandad, alive or dead       *)
(* without a successor, has configured it with the CarParams of some card  *)
(* and while, as far as that pandad knows, the device is onroad            *)
(* (panda_safety.cc:5-21, pandad.cc:217-220, pandad.py:107-110).           *)
CarModeIsConfigured ==
  safety = "car" => model # 0 /\ pandad.configured /\ pandad.onroad

(* Before card starts, the params of the last drive are cleared: all of    *)
(* them if the last card was let go, and what its direct predecessor,      *)
(* stopped in the iteration before, still wrote is the only exception.     *)
(* IsOffroad is false, and updated has been told to stop.  Before updated  *)
(* starts, IsOffroad is true and card has been told to stop                *)
(* (manager.py:147-163, process.py:225-238).                               *)
CleanStart ==
  [][ /\ gen' # gen =>
           /\ \A k \in Keys : param[k] \in {0, gen}
           /\ proc["card"].state = "none" => \A k \in Keys : param[k] = 0
           /\ ~isOffroad
           /\ proc["updated"].state = "up" => proc["updated"].signalled
      /\ proc["updated"].state # "up" /\ proc'["updated"] = Running =>
           /\ isOffroad
           /\ ~CardWorks ]_vars

-----------------------------------------------------------------------------
(* Liveness.  hardwared, manager, pandad and its wrapper are loops that    *)
(* wait for nothing but time; card is assumed to get through its startup   *)
(* when it is not stopped.                                                 *)
Fairness ==
  /\ WF_vars(Hardware) /\ WF_vars(CycleOver)
  /\ WF_vars(Manager)
  /\ WF_vars(Tick) /\ WF_vars(Reconnect)
  /\ WF_vars(Card)

FairSpec == Spec /\ Fairness

(* When the ignition stays off, or the driver keeps the device offroad,    *)
(* the panda ends without output, card ends, and IsOffroad ends true,      *)
(* whatever was missed, restarted or killed on the way.                    *)
OffroadSettles ==
  <>[](~ignition \/ offroadMode) =>
    <>[](safety = "noOutput" /\ proc["card"].state = "none" /\ isOffroad)

(* When the ignition stays on and all conditions hold, the drive goes on:  *)
(* card runs, IsOffroad is false, and the panda is in the car's mode;      *)
(* unless a process has died, which manager reports and does not repair    *)
(* (manager.py:173), or pandad has closed the relay while hardwared        *)
(* noticed nothing.                                                        *)
OnroadSettles ==
  <>[](ignition /\ ~offroadMode /\ conditions = "start") =>
    <>[](\/ CardWorks /\ ~isOffroad /\ safety = "car"
         \/ reported
         \/ closedBehind)
=============================================================================
