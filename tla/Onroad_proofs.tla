---------------------------- MODULE Onroad_proofs ----------------------------
(***************************************************************************)
(* Theorems about Onroad, for every number of events and crashes.          *)
(***************************************************************************)
EXTENDS Onroad, TLAPS

(* Held: a card that manager has started and not signalled, alive or not.  *)
Held == proc["card"].state # "none" /\ ~proc["card"].signalled

(* No older card than the last one has written k, and the last one has     *)
(* only if manager has not let go of it.                                   *)
Emptied(k) == param[k] \in {0, gen} /\ (proc["card"].state = "none" => param[k] = 0)
AllEmptied == \A k \in Keys : Emptied(k)

(* Where manager stands in its iteration, what it has done so far: card is *)
(* held exactly while the last announced state was onroad, apart from the  *)
(* steps between the announcement and the stop or start it leads to.       *)
Followed ==
  /\ isOffroad <=> ~mPrev
  /\ at \in {"clear", "announce"} => ~(mStarted <=> mPrev)
  /\ at \in {"update", "stop", "start"} => (mStarted <=> mPrev)
  /\ at \in {"update", "clear", "announce"} => (Held <=> mPrev)
  /\ at = "start" /\ ~mStarted => ~Held
  /\ at = "start" /\ mStarted /\ proc["updated"].state = "up" => proc["updated"].signalled

(* What clear_all has removed stays removed until card is started, unless  *)
(* a card that was stopped in the iteration before writes it again.        *)
Cleared ==
  /\ clearing # {} => at = "clear" /\ mStarted
  /\ at = "clear" /\ mStarted =>
       \A k \in Keys \ clearing : Emptied(k)
  /\ at = "announce" /\ mStarted => AllEmptied
  /\ at \in {"stop", "start"} /\ mStarted /\ ~Held => AllEmptied

IInv == TypeOK /\ Followed /\ Cleared /\ HandshakeKept /\ CarModeIsConfigured

-----------------------------------------------------------------------------
(* The Boolean variables in four groups, and the others. *)
KeyFlags == ignition \in BOOLEAN /\ offroadMode \in BOOLEAN /\ cycleRequested \in BOOLEAN

HardwareFlags ==
  /\ pandaStates \in BOOLEAN /\ started \in BOOLEAN /\ cycling \in BOOLEAN
  /\ deviceState \in BOOLEAN

ManagerFlags ==
  mStarted \in BOOLEAN /\ mPrev \in BOOLEAN /\ isOffroad \in BOOLEAN /\ reported \in BOOLEAN

LoopFlags == queued \in BOOLEAN /\ closedBehind \in BOOLEAN

Flags == KeyFlags /\ HardwareFlags /\ ManagerFlags /\ LoopFlags

Others ==
  /\ conditions \in {"start", "continue", "stop"}
  /\ events \in 0..MaxEvents /\ crashes \in 0..MaxCrashes
  /\ unread \subseteq {"manager", "pandad"}
  /\ at \in {"update", "clear", "announce", "stop", "start"} /\ clearing \subseteq Keys
  /\ proc \in [Procs -> [state : {"none", "up", "exited"}, signalled : BOOLEAN]]
  /\ phase \in Phases /\ gen \in Nat /\ interrupted \in {"code", "put", "get"}
  /\ param \in [Keys -> 0..gen]
  /\ pandad \in [up : BOOLEAN, onroad : BOOLEAN, initialized : BOOLEAN, configured : BOOLEAN]
  /\ safety \in {"silent", "noOutput", "elm327", "car"} /\ model \in 0..gen

LEMMA TypeParts == TypeOK <=> Flags /\ Others
  BY DEF TypeOK, Flags, KeyFlags, HardwareFlags, ManagerFlags, LoopFlags, Others

LEMMA InitInv == Init => IInv
<1> SUFFICES ASSUME Init PROVE IInv  OBVIOUS
<1> USE OnroadAssumption DEF Init, Procs, Keys, Phases, NoProc, Running, FreshPandad
<1>1. TypeOK
  <2>1. KeyFlags /\ HardwareFlags  BY Zenon DEF KeyFlags, HardwareFlags
  <2>2. ManagerFlags /\ LoopFlags  BY Zenon DEF ManagerFlags, LoopFlags
  <2>3. Others  BY DEF Others
  <2> QED  BY <2>1, <2>2, <2>3, TypeParts DEF Flags
<1>2. Followed /\ Cleared  BY DEF Followed, Cleared, Held, AllEmptied, Emptied
<1>3. HandshakeKept /\ CarModeIsConfigured
  BY DEF HandshakeKept, CarModeIsConfigured, CardWorks, CardUp
<1> QED  BY <1>1, <1>2, <1>3 DEF IInv

(* Which steps change the Boolean variables.                               *)
LEMMA FlagsChangedBy ==
  ASSUME [Next]_vars
  PROVE  /\ \/ TurnKey \/ ToggleOffroadMode \/ RequestCycle \/ Hardware
            \/ UNCHANGED <<ignition, offroadMode, cycleRequested>>
         /\ \/ Hardware \/ PandaTimeout \/ CycleOver \/ Tick
            \/ UNCHANGED <<pandaStates, started, cycling, deviceState>>
         /\ \/ Update \/ Announce \/ Start
            \/ UNCHANGED <<mStarted, mPrev, isOffroad, reported>>
         /\ \/ Stop \/ Start \/ SignalReady \/ WriteReady \/ CardDies \/ Tick \/ Reconnect
            \/ UNCHANGED <<queued, closedBehind>>
  BY DEF Next, World, Manager, Card, vars, outside, hardware, manager, card, panda,
     TurnKey, ChangeConditions, ToggleOffroadMode, RequestCycle, Event, Hardware, PandaTimeout,
     CycleOver, Update, Clear, Announce, Stop, Start, Fingerprint, PutCarParams, SignalReady,
     WriteReady, Exit, CardDies, Tick, PandadDies, Reconnect

LEMMA FlagsStep == Flags /\ [Next]_vars => Flags'
<1> SUFFICES ASSUME Flags, [Next]_vars PROVE Flags'  OBVIOUS
<1>1. KeyFlags /\ HardwareFlags /\ ManagerFlags /\ LoopFlags  BY DEF Flags
<1>2. KeyFlags'
  <2> USE Zenon DEF KeyFlags
  <2>1. CASE TurnKey  BY <1>1, <2>1 DEF TurnKey
  <2>2. CASE ToggleOffroadMode  BY <1>1, <2>2 DEF ToggleOffroadMode
  <2>3. CASE RequestCycle  BY <1>1, <2>3 DEF RequestCycle
  <2>4. CASE Hardware  BY <1>1, <2>4 DEF Hardware, outside
  <2>5. CASE UNCHANGED <<ignition, offroadMode, cycleRequested>>  BY <1>1, <2>5
  <2> QED  BY <2>1, <2>2, <2>3, <2>4, <2>5, FlagsChangedBy
<1>3. HardwareFlags'
  <2> USE Zenon DEF HardwareFlags
  <2>1. CASE Hardware  BY <1>1, <2>1 DEF Hardware, ShouldStart
  <2>2. CASE PandaTimeout  BY <1>1, <2>2 DEF PandaTimeout
  <2>3. CASE CycleOver  BY <1>1, <2>3 DEF CycleOver
  <2>4. CASE Tick  BY <1>1, <2>4 DEF Tick, KeyFlags
  <2>5. CASE UNCHANGED <<pandaStates, started, cycling, deviceState>>  BY <1>1, <2>5
  <2> QED  BY <2>1, <2>2, <2>3, <2>4, <2>5, FlagsChangedBy
<1>4. ManagerFlags'
  <2> USE Zenon DEF ManagerFlags
  <2>1. CASE Update  BY <1>1, <2>1 DEF Update, HardwareFlags
  <2>2. CASE Announce  BY <1>1, <2>2 DEF Announce
  <2>3. CASE Start  BY <1>1, <2>3 DEF Start
  <2>4. CASE UNCHANGED <<mStarted, mPrev, isOffroad, reported>>  BY <1>1, <2>4
  <2> QED  BY <2>1, <2>2, <2>3, <2>4, FlagsChangedBy
<1>5. LoopFlags'
  <2> USE Zenon DEF LoopFlags
  <2>1. CASE Stop  BY <1>1, <2>1 DEF Stop, panda
  <2>2. CASE Start  BY <1>1, <2>2 DEF Start, card, panda
  <2>3. CASE SignalReady  BY <1>1, <2>3 DEF SignalReady, panda
  <2>4. CASE WriteReady  BY <1>1, <2>4 DEF WriteReady, panda
  <2>5. CASE CardDies  BY <1>1, <2>5 DEF CardDies, panda
  <2>6. CASE Tick  BY <1>1, <2>6 DEF Tick, card
  <2>7. CASE Reconnect  BY <1>1, <2>7 DEF Reconnect, card
  <2>8. CASE UNCHANGED <<queued, closedBehind>>  BY <1>1, <2>8
  <2> QED  BY <2>1, <2>2, <2>3, <2>4, <2>5, <2>6, <2>7, <2>8, FlagsChangedBy
<1> QED  BY <1>2, <1>3, <1>4, <1>5 DEF Flags

LEMMA PandadFlags == Flags /\ Others => deviceState \in BOOLEAN /\ pandad.onroad \in BOOLEAN
  BY DEF Flags, HardwareFlags, Others

(* The other variables, one after the other.                               *)
Pandads == [up : BOOLEAN, onroad : BOOLEAN, initialized : BOOLEAN, configured : BOOLEAN]
Modes == {"silent", "noOutput", "elm327", "car"}
Processes == [Procs -> [state : {"none", "up", "exited"}, signalled : BOOLEAN]]

LEMMA LoopTypes ==
  ASSUME Others, [Next]_vars
  PROVE  /\ conditions' \in {"start", "continue", "stop"}
         /\ events' \in 0..MaxEvents /\ crashes' \in 0..MaxCrashes
         /\ unread' \subseteq {"manager", "pandad"}
         /\ at' \in {"update", "clear", "announce", "stop", "start"} /\ clearing' \subseteq Keys
<1> USE DEF Next, World, Manager, Card, vars, outside, hardware, manager, card, panda,
  TurnKey, ChangeConditions, ToggleOffroadMode, RequestCycle, Event, Hardware, PandaTimeout,
  CycleOver, Update, Clear, Announce, Stop, Start, Fingerprint, PutCarParams, SignalReady,
  WriteReady, Exit, CardDies, Tick, PandadDies, Reconnect
<1>1. conditions' \in {"start", "continue", "stop"} \/ UNCHANGED conditions  OBVIOUS
<1>2. (events < MaxEvents /\ events' = events + 1) \/ UNCHANGED events  OBVIOUS
<1>3. (crashes < MaxCrashes /\ crashes' = crashes + 1) \/ UNCHANGED crashes  OBVIOUS
<1>4. \/ unread' \subseteq unread
      \/ unread' = {"manager"} \cup (IF pandad.up THEN {"pandad"} ELSE {})
  OBVIOUS
<1>5. at' \in {"update", "clear", "announce", "stop", "start"} \/ UNCHANGED at  OBVIOUS
<1>6. clearing' \subseteq clearing \/ clearing' \in {Keys, {}}  OBVIOUS
<1> HIDE DEF Next, World, Manager, Card, vars, TurnKey, ChangeConditions, ToggleOffroadMode,
  RequestCycle, Event, Hardware, PandaTimeout, CycleOver, Update, Clear, Announce, Stop, Start,
  Fingerprint, PutCarParams, SignalReady, WriteReady, Exit, CardDies, Tick, PandadDies, Reconnect
<1>7. events' \in 0..MaxEvents /\ crashes' \in 0..MaxCrashes
  BY <1>2, <1>3, OnroadAssumption DEF Others
<1>8. unread' \subseteq {"manager", "pandad"}  BY <1>4 DEF Others
<1> QED  BY <1>1, <1>5, <1>6, <1>7, <1>8 DEF Others

(* Which steps change the processes, the card and the params.              *)
LEMMA CardChangedBy ==
  ASSUME [Next]_vars
  PROVE  /\ Stop \/ Start \/ Exit \/ CardDies \/ UNCHANGED proc
         /\ Start \/ Fingerprint \/ PutCarParams \/ SignalReady \/ UNCHANGED phase
         /\ Start \/ UNCHANGED gen
         /\ Stop \/ Start \/ Fingerprint \/ PutCarParams \/ UNCHANGED interrupted
         /\ Clear \/ Fingerprint \/ PutCarParams \/ WriteReady \/ UNCHANGED param
         /\ Tick \/ UNCHANGED model
         /\ Tick \/ PandadDies \/ Reconnect \/ UNCHANGED <<pandad, safety>>
  BY DEF Next, World, Manager, Card, vars, outside, hardware, manager, card, panda,
     TurnKey, ChangeConditions, ToggleOffroadMode, RequestCycle, Event, Hardware, PandaTimeout,
     CycleOver, Update, Clear, Announce, Stop, Start, Fingerprint, PutCarParams, SignalReady,
     WriteReady, Exit, CardDies, Tick, PandadDies, Reconnect

LEMMA ProcTypes ==
  ASSUME Others, [Next]_vars
  PROVE  proc' \in Processes
<1> USE DEF Others, Processes, Procs
<1>1. CASE Stop
  <2>1. Stopped(proc[Unwanted]) \in [state : {"none", "up", "exited"}, signalled : BOOLEAN]
    BY DEF Unwanted, Stopped, NoProc
  <2> QED  BY <1>1, <2>1 DEF Stop
<1>2. CASE Start
  <2>1. Running \in [state : {"none", "up", "exited"}, signalled : BOOLEAN]  BY DEF Running
  <2>2. proc' = [proc EXCEPT ![Wanted] = Running] \/ proc' = proc  BY <1>2 DEF Start
  <2> QED  BY <2>1, <2>2
<1>3. CASE Exit  BY <1>3 DEF Exit
<1>4. CASE CardDies  BY <1>4 DEF CardDies
<1>5. CASE UNCHANGED proc  BY <1>5
<1> QED  BY <1>1, <1>2, <1>3, <1>4, <1>5, CardChangedBy

LEMMA CardTypes ==
  ASSUME Others, [Next]_vars
  PROVE  /\ phase' \in Phases /\ gen' \in Nat /\ gen <= gen'
         /\ interrupted' \in {"code", "put", "get"}
         /\ param' \in [Keys -> 0..gen']
<1>1. phase' \in Phases
  BY CardChangedBy DEF Others, Phases, Start, Fingerprint, PutCarParams, SignalReady, card
<1>2. gen' \in Nat /\ gen <= gen'
  <2>1. gen' = gen + 1 \/ gen' = gen  BY CardChangedBy DEF Start, card
  <2> QED  BY <2>1 DEF Others
<1>3. param' \in [Keys -> 0..gen]
  <2>1. 0 \in 0..gen /\ gen \in 0..gen  BY DEF Others
  <2>2. CASE \E k \in Keys : param' = [param EXCEPT ![k] = 0] \/ param' = [param EXCEPT ![k] = gen]
    BY <2>1, <2>2 DEF Others
  <2>3. CASE UNCHANGED param  BY <2>3 DEF Others
  <2> QED  BY <2>2, <2>3, CardChangedBy DEF Others, Keys, Clear, Fingerprint, PutCarParams, WriteReady, Write
<1>4. 0..gen \subseteq 0..gen'  BY <1>2 DEF Others
<1>5. interrupted' \in {"code", "put", "get"}
  BY CardChangedBy DEF Others, Stop, Start, Fingerprint, PutCarParams, Interruptible, AfterPut, card
<1> QED  BY <1>1, <1>2, <1>3, <1>4, <1>5

LEMMA PandaTypes ==
  ASSUME Flags, Others, [Next]_vars
  PROVE  pandad' \in Pandads /\ safety' \in Modes /\ model' \in 0..gen
<1>1. pandad \in Pandads /\ safety \in Modes /\ model \in 0..gen  BY DEF Others, Pandads, Modes
<1>2. FreshPandad \in Pandads  BY DEF FreshPandad, Pandads
<1>3. CASE Tick
  <2> DEFINE onroad == IF "pandad" \in unread THEN deviceState ELSE pandad.onroad
  <2>1. onroad \in BOOLEAN  BY Zenon, PandadFlags
  <2>2. Closed(onroad) \in Modes  BY <1>1 DEF Closed, Modes
  <2>3. CASE onroad /\ ~pandad.configured
    <3>1. Configure(onroad)  BY <1>3, <2>3 DEF Tick
    <3> HIDE DEF onroad
    <3>2. CASE HandshakeDone
      <4>1. (param["CarParams"] # 0) \in BOOLEAN  BY Zenon
      <4>2. pandad' \in Pandads
        BY <2>1, <3>1, <3>2, <4>1 DEF Configure, FreshPandad, Pandads
      <4>3. safety' \in Modes  BY <3>1, <3>2 DEF Configure, Modes
      <4>4. model' \in 0..gen  BY <3>1, <3>2 DEF Configure, Others, Keys
      <4> QED  BY <4>2, <4>3, <4>4
    <3>3. CASE ~HandshakeDone
      <4>1. pandad' = [pandad EXCEPT !.onroad = onroad, !.initialized = TRUE]
        BY <3>1, <3>3 DEF Configure
      <4>2. pandad' \in Pandads  BY <1>1, <2>1, <4>1 DEF Pandads
      <4>3. safety' \in Modes  BY <2>2, <3>1, <3>3 DEF Configure, Modes
      <4> QED  BY <1>1, <3>1, <3>3, <4>2, <4>3 DEF Configure
    <3> QED  BY <3>2, <3>3
  <2>4. CASE ~(onroad /\ ~pandad.configured)
    <3>1. /\ safety' = Closed(onroad)
          /\ pandad' = [pandad EXCEPT !.onroad = TRUE] \/ pandad' = FreshPandad
          /\ UNCHANGED model
      BY <1>3, <2>4 DEF Tick, Forget
    <3> QED  BY <1>1, <1>2, <2>2, <3>1 DEF Pandads
  <2> QED  BY <2>3, <2>4
<1>4. CASE PandadDies
  <2>1. pandad' = [pandad EXCEPT !.up = FALSE] /\ UNCHANGED <<safety, model>>  BY <1>4 DEF PandadDies
  <2> QED  BY <1>1, <2>1 DEF Pandads
<1>5. CASE Reconnect  BY <1>1, <1>2, <1>5 DEF Reconnect, Modes
<1>6. CASE UNCHANGED <<pandad, safety, model>>  BY <1>1, <1>6
<1> QED  BY <1>3, <1>4, <1>5, <1>6, CardChangedBy

LEMMA OthersStep == Flags /\ Others /\ [Next]_vars => Others'
<1> SUFFICES ASSUME Flags, Others, [Next]_vars PROVE Others'  OBVIOUS
<1>1. 0..gen \subseteq 0..gen'  BY CardTypes DEF Others
<1> QED  BY <1>1, LoopTypes, ProcTypes, CardTypes, PandaTypes DEF Others, Processes, Pandads, Modes

LEMMA TypeStep == TypeOK /\ [Next]_vars => TypeOK'
<1>1. (TypeOK <=> Flags /\ Others)'
  BY DEF TypeOK, Flags, KeyFlags, HardwareFlags, ManagerFlags, LoopFlags, Others
<1> QED  BY <1>1, TypeParts, FlagsStep, OthersStep

LEMMA FollowedStep == IInv /\ [Next]_vars => Followed'
<1> SUFFICES ASSUME IInv, [Next]_vars PROVE Followed'  OBVIOUS
<1> USE DEF IInv, TypeOK, Followed, Held, Procs, Keys, outside, hardware, manager, card, panda
<1>1. CASE TurnKey  BY <1>1 DEF TurnKey, Event
<1>2. CASE ChangeConditions  BY <1>2 DEF ChangeConditions, Event
<1>3. CASE ToggleOffroadMode  BY <1>3 DEF ToggleOffroadMode, Event
<1>4. CASE RequestCycle  BY <1>4 DEF RequestCycle, Event
<1>5. CASE Hardware  BY <1>5 DEF Hardware, ShouldStart
<1>6. CASE PandaTimeout  BY <1>6 DEF PandaTimeout, Event
<1>7. CASE CycleOver  BY <1>7 DEF CycleOver
<1>8. CASE Update  BY <1>8 DEF Update
<1>9. CASE Clear  BY <1>9 DEF Clear
<1>10. CASE Announce  BY <1>10 DEF Announce
<1>11. CASE Stop  BY <1>11 DEF Stop, Stopped, Unwanted, Running, NoProc
<1>12. CASE Start  BY <1>12 DEF Start, Wanted, Running, NoProc
<1>13. CASE Fingerprint  BY <1>13 DEF Fingerprint, Write, GoesOn, FinishesPut, CardUp
<1>14. CASE PutCarParams  BY <1>14 DEF PutCarParams, Write, GoesOn, FinishesPut, CardUp
<1>15. CASE SignalReady  BY <1>15 DEF SignalReady, GoesOn, CardUp
<1>16. CASE WriteReady  BY <1>16 DEF WriteReady, Write, CardUp
<1>17. CASE Exit  BY <1>17 DEF Exit
<1>18. CASE CardDies  BY <1>18 DEF CardDies, GoesOn, CardUp
<1>19. CASE Tick
  BY <1>19 DEF Tick, Configure, Closed, Forget, FreshPandad, IgnitionLocal, HandshakeDone
<1>20. CASE PandadDies  BY <1>20 DEF PandadDies
<1>21. CASE Reconnect  BY <1>21 DEF Reconnect, FreshPandad
<1>22. CASE UNCHANGED vars  BY <1>22 DEF vars, outside, hardware, manager, card, panda
<1> QED
  BY <1>1, <1>2, <1>3, <1>4, <1>5, <1>6, <1>7, <1>8, <1>9, <1>10, <1>11,
     <1>12, <1>13, <1>14, <1>15, <1>16, <1>17, <1>18, <1>19, <1>20, <1>21, <1>22
  DEF Next, World, Manager, Card

LEMMA ClearedStep == IInv /\ [Next]_vars => Cleared'
<1> SUFFICES ASSUME IInv, [Next]_vars PROVE Cleared'  OBVIOUS
<1> USE DEF IInv, TypeOK, Followed, Cleared, AllEmptied, Emptied, Held, Procs, Keys,
  outside, hardware, manager, card, panda
<1>1. CASE TurnKey  BY <1>1 DEF TurnKey, Event
<1>2. CASE ChangeConditions  BY <1>2 DEF ChangeConditions, Event
<1>3. CASE ToggleOffroadMode  BY <1>3 DEF ToggleOffroadMode, Event
<1>4. CASE RequestCycle  BY <1>4 DEF RequestCycle, Event
<1>5. CASE Hardware  BY <1>5 DEF Hardware, ShouldStart
<1>6. CASE PandaTimeout  BY <1>6 DEF PandaTimeout, Event
<1>7. CASE CycleOver  BY <1>7 DEF CycleOver
<1>8. CASE Update  BY <1>8 DEF Update
<1>9. CASE Clear
  <2>1. CASE clearing = {} /\ at' = "announce" /\ UNCHANGED <<param, clearing>>
    BY <1>9, <2>1 DEF Clear
  <2>2. ASSUME NEW k \in clearing, param' = [param EXCEPT ![k] = 0],
               clearing' = clearing \ {k}, UNCHANGED at
        PROVE  Cleared'
    <3>1. at = "clear" /\ mStarted /\ UNCHANGED mStarted  BY <1>9, <2>2 DEF Clear
    <3>2. UNCHANGED <<gen, proc>>  BY <1>9 DEF Clear
    <3>3. \A l \in Keys \ clearing' : Emptied(l)'
      BY <2>2, <3>1, <3>2
    <3> QED  BY <2>2, <3>1, <3>2, <3>3
  <2> QED  BY <1>9, <2>1, <2>2 DEF Clear
<1>10. CASE Announce  BY <1>10 DEF Announce
<1>11. CASE Stop  BY <1>11 DEF Stop, Stopped, Unwanted, Running, NoProc
<1>12. CASE Start  BY <1>12 DEF Start, Wanted, Running, NoProc
<1>13. CASE Fingerprint  BY <1>13 DEF Fingerprint, Write, GoesOn, FinishesPut, CardUp
<1>14. CASE PutCarParams  BY <1>14 DEF PutCarParams, Write, GoesOn, FinishesPut, CardUp
<1>15. CASE SignalReady  BY <1>15 DEF SignalReady, GoesOn, CardUp
<1>16. CASE WriteReady  BY <1>16 DEF WriteReady, Write, CardUp
<1>17. CASE Exit  BY <1>17 DEF Exit
<1>18. CASE CardDies  BY <1>18 DEF CardDies, GoesOn, CardUp
<1>19. CASE Tick
  BY <1>19 DEF Tick, Configure, Closed, Forget, FreshPandad, IgnitionLocal, HandshakeDone
<1>20. CASE PandadDies  BY <1>20 DEF PandadDies
<1>21. CASE Reconnect  BY <1>21 DEF Reconnect, FreshPandad
<1>22. CASE UNCHANGED vars  BY <1>22 DEF vars, outside, hardware, manager, card, panda
<1> QED
  BY <1>1, <1>2, <1>3, <1>4, <1>5, <1>6, <1>7, <1>8, <1>9, <1>10, <1>11,
     <1>12, <1>13, <1>14, <1>15, <1>16, <1>17, <1>18, <1>19, <1>20, <1>21, <1>22
  DEF Next, World, Manager, Card

LEMMA HandshakeStep == IInv /\ [Next]_vars => HandshakeKept'
<1> SUFFICES ASSUME IInv, [Next]_vars PROVE HandshakeKept'  OBVIOUS
<1> USE DEF IInv, TypeOK, Followed, Cleared, HandshakeKept, CardWorks, CardUp, Held, Procs, Keys, Phases,
  outside, hardware, manager, card, panda
<1>1. CASE TurnKey  BY <1>1 DEF TurnKey, Event
<1>2. CASE ChangeConditions  BY <1>2 DEF ChangeConditions, Event
<1>3. CASE ToggleOffroadMode  BY <1>3 DEF ToggleOffroadMode, Event
<1>4. CASE RequestCycle  BY <1>4 DEF RequestCycle, Event
<1>5. CASE Hardware  BY <1>5 DEF Hardware, ShouldStart
<1>6. CASE PandaTimeout  BY <1>6 DEF PandaTimeout, Event
<1>7. CASE CycleOver  BY <1>7 DEF CycleOver
<1>8. CASE Update  BY <1>8 DEF Update
<1>9. CASE Clear  BY <1>9 DEF Clear
<1>10. CASE Announce  BY <1>10 DEF Announce
<1>11. CASE Stop  BY <1>11 DEF Stop, Stopped, Unwanted, Running, NoProc
<1>12. CASE Start  BY <1>12 DEF Start, Wanted, Running, NoProc
<1>13. CASE Fingerprint  BY <1>13 DEF Fingerprint, Write, GoesOn, FinishesPut
<1>14. CASE PutCarParams  BY <1>14 DEF PutCarParams, Write, GoesOn, FinishesPut
<1>15. CASE SignalReady  BY <1>15 DEF SignalReady, GoesOn
<1>16. CASE WriteReady  BY <1>16 DEF WriteReady, Write
<1>17. CASE Exit  BY <1>17 DEF Exit
<1>18. CASE CardDies  BY <1>18 DEF CardDies, GoesOn
<1>19. CASE Tick
  BY <1>19 DEF Tick, Configure, Closed, Forget, FreshPandad, IgnitionLocal, HandshakeDone
<1>20. CASE PandadDies  BY <1>20 DEF PandadDies
<1>21. CASE Reconnect  BY <1>21 DEF Reconnect, FreshPandad
<1>22. CASE UNCHANGED vars  BY <1>22 DEF vars, outside, hardware, manager, card, panda
<1> QED
  BY <1>1, <1>2, <1>3, <1>4, <1>5, <1>6, <1>7, <1>8, <1>9, <1>10, <1>11,
     <1>12, <1>13, <1>14, <1>15, <1>16, <1>17, <1>18, <1>19, <1>20, <1>21, <1>22
  DEF Next, World, Manager, Card

LEMMA CarModeStep == IInv /\ [Next]_vars => CarModeIsConfigured'
<1> SUFFICES ASSUME IInv, [Next]_vars PROVE CarModeIsConfigured'  OBVIOUS
<1> USE DEF IInv, TypeOK, CarModeIsConfigured, outside, hardware, manager, card, panda
<1>1. CASE TurnKey  BY <1>1 DEF TurnKey, Event
<1>2. CASE ChangeConditions  BY <1>2 DEF ChangeConditions, Event
<1>3. CASE ToggleOffroadMode  BY <1>3 DEF ToggleOffroadMode, Event
<1>4. CASE RequestCycle  BY <1>4 DEF RequestCycle, Event
<1>5. CASE Hardware  BY <1>5 DEF Hardware, ShouldStart
<1>6. CASE PandaTimeout  BY <1>6 DEF PandaTimeout, Event
<1>7. CASE CycleOver  BY <1>7 DEF CycleOver
<1>8. CASE Update  BY <1>8 DEF Update
<1>9. CASE Clear  BY <1>9 DEF Clear
<1>10. CASE Announce  BY <1>10 DEF Announce
<1>11. CASE Stop  BY <1>11 DEF Stop, Stopped, Unwanted, Running, NoProc
<1>12. CASE Start  BY <1>12 DEF Start, Wanted, Running, NoProc
<1>13. CASE Fingerprint  BY <1>13 DEF Fingerprint, Write, GoesOn, FinishesPut, CardUp
<1>14. CASE PutCarParams  BY <1>14 DEF PutCarParams, Write, GoesOn, FinishesPut, CardUp
<1>15. CASE SignalReady  BY <1>15 DEF SignalReady, GoesOn, CardUp
<1>16. CASE WriteReady  BY <1>16 DEF WriteReady, Write, CardUp
<1>17. CASE Exit  BY <1>17 DEF Exit
<1>18. CASE CardDies  BY <1>18 DEF CardDies, GoesOn, CardUp
<1>19. CASE Tick
  BY <1>19 DEF Tick, Configure, Closed, Forget, FreshPandad, IgnitionLocal, HandshakeDone
<1>20. CASE PandadDies  BY <1>20 DEF PandadDies
<1>21. CASE Reconnect  BY <1>21 DEF Reconnect, FreshPandad
<1>22. CASE UNCHANGED vars  BY <1>22 DEF vars, outside, hardware, manager, card, panda
<1> QED
  BY <1>1, <1>2, <1>3, <1>4, <1>5, <1>6, <1>7, <1>8, <1>9, <1>10, <1>11,
     <1>12, <1>13, <1>14, <1>15, <1>16, <1>17, <1>18, <1>19, <1>20, <1>21, <1>22
  DEF Next, World, Manager, Card

LEMMA InvStep == IInv /\ [Next]_vars => IInv'
  BY TypeStep, FollowedStep, ClearedStep, HandshakeStep, CarModeStep DEF IInv

LEMMA Invariance == Spec => []IInv
<1> QED  BY InitInv, InvStep, PTL DEF Spec

-----------------------------------------------------------------------------
(* Every variable keeps its type, for any number of events and crashes.    *)
THEOREM TypeCorrect == Spec => []TypeOK
<1>1. IInv => TypeOK  BY DEF IInv
<1> QED  BY <1>1, Invariance, PTL

(* What a card at work has put in the params is there: manager clears them *)
(* only after it has told the card of the last drive to stop, and what     *)
(* that one still writes does not come after the next card's start.        *)
THEOREM HandshakeStays == Spec => []HandshakeKept
<1>1. IInv => HandshakeKept  BY DEF IInv
<1> QED  BY <1>1, Invariance, PTL

(* The panda gets into the car's mode only by a pandad that has found the  *)
(* CarParams of some card, and does not stay in it beyond what that pandad *)
(* takes for onroad, nor into the life of the next one.                    *)
THEOREM CarModeNeedsPandad == Spec => []CarModeIsConfigured
<1>1. IInv => CarModeIsConfigured  BY DEF IInv
<1> QED  BY <1>1, Invariance, PTL

LEMMA StartSteps ==
  ASSUME IInv, [Next]_vars
  PROVE  /\ gen' # gen => Start /\ mStarted /\ ~Held
         /\ proc["updated"].state # "up" /\ proc'["updated"] = Running => Start /\ ~mStarted
<1> USE DEF IInv, TypeOK, Procs, outside, hardware, manager, card, panda
<1>1. CASE Start  BY <1>1 DEF Start, Wanted, Running, Held
<1>2. CASE Stop  BY <1>2 DEF Stop, Stopped, Unwanted, Running, NoProc
<1>3. CASE Exit  BY <1>3 DEF Exit, Running
<1>4. CASE CardDies  BY <1>4 DEF CardDies, Running
<1>5. CASE UNCHANGED <<gen, proc>>  BY <1>5 DEF Running
<1> QED  BY <1>1, <1>2, <1>3, <1>4, <1>5 DEF Next, World, Manager, Card, vars, TurnKey, ChangeConditions,
  ToggleOffroadMode, RequestCycle, Hardware, PandaTimeout, CycleOver, Update, Clear, Announce, Fingerprint,
  PutCarParams, SignalReady, WriteReady, Tick, PandadDies, Reconnect

(* card starts on cleared params, except for what a direct predecessor     *)
(* that was still shutting down wrote after the clearing; what older cards *)
(* have left is gone.  Whichever of card and updated starts, the other has *)
(* been told to stop and IsOffroad is announced.                           *)
THEOREM StartsAreClean == Spec => CleanStart
<1>1. IInv /\ [Next]_vars =>
        [ /\ gen' # gen =>
               /\ \A k \in Keys : param[k] \in {0, gen}
               /\ proc["card"].state = "none" => \A k \in Keys : param[k] = 0
               /\ ~isOffroad
               /\ proc["updated"].state = "up" => proc["updated"].signalled
          /\ proc["updated"].state # "up" /\ proc'["updated"] = Running =>
               /\ isOffroad
               /\ ~CardWorks ]_vars
  <2> SUFFICES ASSUME IInv, [Next]_vars
               PROVE  /\ gen' # gen =>
                           /\ \A k \in Keys : param[k] \in {0, gen}
                           /\ proc["card"].state = "none" => \A k \in Keys : param[k] = 0
                           /\ ~isOffroad
                           /\ proc["updated"].state = "up" => proc["updated"].signalled
                      /\ proc["updated"].state # "up" /\ proc'["updated"] = Running =>
                           /\ isOffroad
                           /\ ~CardWorks
    OBVIOUS
  <2>1. Start => at = "start"  BY DEF Start
  <2> QED  BY <2>1, StartSteps DEF IInv, TypeOK, Followed, Cleared, AllEmptied, Emptied, Held, CardWorks, CardUp
<1> QED  BY <1>1, Invariance, PTL DEF Spec, CleanStart
=============================================================================
