---------------------------- MODULE PtpClient_proofs ----------------------------
(***************************************************************************)
(* Proofs about the PTP client (NetX/src/nxd_ptp_client.c) for every set    *)
(* of masters, every interval, every depth of the sockets and any number    *)
(* of requests.  Where start and stop matter, one application thread calls  *)
(* them, as ethernet_init does: Apps = {App}.                               *)
(***************************************************************************)
EXTENDS PtpClient, TLAPS

-------------------------------------------------------------------------------
(* What a step may do to the variables that messages change.                *)
LEMMA ReceiveIsOfOneMessage ==
  ASSUME Receive
  PROVE  \/ \E m \in EventMessages \cup GeneralMessages : Process(m)
         \/ UNCHANGED <<times, delay, role, last>>
  BY DEF Receive

(* Only a master that announces it sends a Follow_Up.                       *)
LEMMA FollowUpOfTwoStep ==
  ASSUME NEW m \in EventMessages \cup GeneralMessages, m.type = "FOLLOW_UP"
  PROVE  m.from \in TwoStep
  BY DEF EventMessages, GeneralMessages, Message, Announce

-------------------------------------------------------------------------------
(* The next request.                                                        *)
Scheduled ==
  /\ delayTimer \in Nat
  /\ NextRequestScheduled

LEMMA ScheduledInit == Init => Scheduled
  BY DEF Init, Scheduled, NextRequestScheduled

LEMMA ScheduledMessage ==
  ASSUME Scheduled, NEW m, Process(m)
  PROVE  Scheduled'
  <1> USE PtpAssumption DEF Scheduled, NextRequestScheduled
  <1>1. ASSUME SendDelayReq, state' = state PROVE Scheduled'
    BY <1>1 DEF SendDelayReq, delay
  <1>2. ASSUME NEW e, SyncReceived(e), state' = state PROVE Scheduled'
    BY <1>1, <1>2 DEF SyncReceived, delay
  <1>3. CASE SyncMessage(m)
    BY <1>2, <1>3 DEF SyncMessage, delay, role
  <1>4. CASE FollowUpMessage(m)
    BY <1>2, <1>4 DEF FollowUpMessage, delay, role
  <1>5. CASE AnnounceMessage(m)
    BY <1>5 DEF AnnounceMessage
  <1>6. CASE DelayRespMessage(m)
    BY <1>6 DEF DelayRespMessage
  <1>7. CASE UNCHANGED <<times, delay, role, last>>
    BY <1>7 DEF delay, role
  <1> QED
    BY <1>3, <1>4, <1>5, <1>6, <1>7 DEF Process

LEMMA ScheduledStep == Scheduled /\ [Next]_vars => Scheduled'
  <1> SUFFICES ASSUME Scheduled, [Next]_vars PROVE Scheduled'
    OBVIOUS
  <1>1. ASSUME UNCHANGED <<delay, role>> PROVE Scheduled'
    BY <1>1 DEF Scheduled, NextRequestScheduled, delay, role
  <1>2. CASE Enter
    BY <1>2 DEF Enter, Scheduled, NextRequestScheduled
  <1>3. CASE TimerEvent
    <2> USE DEF Scheduled, NextRequestScheduled
    <2>1. CASE Expired
      BY <1>3, <2>1 DEF TimerEvent
    <2>2. CASE ~Expired
      <3>1. /\ state' = state
            /\ delayTimer' = IF delayTimer = 0 THEN 0 ELSE delayTimer - 1
            /\ delayFlag' = (delayFlag \/ delayTimer = 1)
        BY <1>3, <2>2 DEF TimerEvent
      <3>2. /\ delayTimer' \in Nat
            /\ delayTimer > 0 => delayTimer = 1 \/ delayTimer' > 0
        BY <3>1
      <3>3. delayFlag \/ delayTimer = 1 => delayFlag'
        BY <3>1, Zenon
      <3> QED
        BY <3>1, <3>2, <3>3
    <2> QED
      BY <2>1, <2>2
  <1>4. CASE Receive
    <2>1. ASSUME UNCHANGED <<times, delay, role, last>> PROVE Scheduled'
      BY <1>1, <2>1
    <2> QED
      BY <1>4, <2>1, ReceiveIsOfOneMessage, ScheduledMessage
  <1>5. CASE GetEvents \/ DrainEnd \/ Tick \/ Arrive
    BY <1>1, <1>5 DEF GetEvents, DrainEnd, Tick, Arrive
  <1>6. ASSUME NEW a \in Apps, Start(a) \/ Stop(a) PROVE Scheduled'
    BY <1>1, <1>6 DEF Start, StartClaim, StartThread, StartSockets, StartTimer,
                      Stop, StopClaim, StopAll, StopPoll
  <1>7. ASSUME NEW a \in Apps, TimeSet(a) PROVE Scheduled'
    BY <1>7 DEF TimeSet, role, Scheduled, NextRequestScheduled
  <1>8. CASE InitAgain
    BY <1>8 DEF InitAgain, delay, Scheduled, NextRequestScheduled
  <1>9. CASE UNCHANGED vars
    BY <1>1, <1>9 DEF vars
  <1> QED
    BY <1>2, <1>3, <1>4, <1>5, <1>6, <1>7, <1>8, <1>9 DEF Next, Thread

(* A slave has its next request due or its timer running, whatever becomes  *)
(* of the requests it sends.                                                *)
THEOREM RequestsGoOn == Spec => []NextRequestScheduled
  <1>1. Scheduled => NextRequestScheduled
    BY DEF Scheduled
  <1> QED
    BY ScheduledInit, ScheduledStep, <1>1, PTL DEF Spec

-------------------------------------------------------------------------------
(* The UTC offset.                                                          *)
LEMMA UtcOffsetMessage ==
  ASSUME UtcOffsetTold, NEW m, Process(m)
  PROVE  UtcOffsetTold'
  <1> USE DEF UtcOffsetTold
  <1>1. ASSUME UNCHANGED role PROVE UtcOffsetTold'
    BY <1>1 DEF role
  <1>2. CASE SyncMessage(m) \/ FollowUpMessage(m) \/ UNCHANGED <<times, delay, role, last>>
    BY <1>1, <1>2 DEF SyncMessage, FollowUpMessage
  <1>3. CASE AnnounceMessage(m)
    <2>1. CASE state = "LISTENING"
      BY <1>3, <2>1 DEF AnnounceMessage
    <2>2. CASE state # "LISTENING" /\ calibrated /\ utc # m.utc
      <3>1. told' = m.utc /\ utc' = m.utc
        BY <1>3, <2>2 DEF AnnounceMessage, Told
      <3>2. ~cleared'
        BY <1>3, <2>2, Zenon DEF AnnounceMessage
      <3> QED
        BY <3>1, <3>2
    <2>3. CASE state # "LISTENING" /\ ~(calibrated /\ utc # m.utc)
      <3>1. /\ told' = told /\ utc' = m.utc /\ UNCHANGED <<state, calibrated>>
            /\ calibrated => utc = m.utc
        BY <1>3, <2>3 DEF AnnounceMessage, Told
      <3>2. cleared' <=> cleared
        BY <1>3, <2>3, Zenon DEF AnnounceMessage
      <3> QED
        BY <3>1, <3>2
    <2> QED
      BY <2>1, <2>2, <2>3
  <1>4. CASE DelayRespMessage(m)
    <2>1. CASE Awaited(m) /\ ~calibrated
      <3>1. told' = utc /\ utc' = utc
        BY <1>4, <2>1 DEF DelayRespMessage
      <3>2. ~cleared'
        BY <1>4, <2>1, Zenon DEF DelayRespMessage
      <3> QED
        BY <3>1, <3>2
    <2>2. CASE ~Awaited(m) \/ calibrated
      <3>1. UNCHANGED <<told, utc, state>> /\ (calibrated' => calibrated)
        BY <1>4, <2>2 DEF DelayRespMessage
      <3>2. cleared' <=> cleared
        BY <1>4, <2>2, Zenon DEF DelayRespMessage
      <3> QED
        BY <3>1, <3>2
    <2> QED
      BY <2>1, <2>2
  <1> QED
    BY <1>2, <1>3, <1>4 DEF Process

LEMMA UtcOffsetStep == UtcOffsetTold /\ [Next]_vars => UtcOffsetTold'
  <1> SUFFICES ASSUME UtcOffsetTold, [Next]_vars PROVE UtcOffsetTold'
    OBVIOUS
  <1> USE DEF UtcOffsetTold
  <1>1. ASSUME UNCHANGED role PROVE UtcOffsetTold'
    BY <1>1 DEF role
  <1>2. CASE Enter
    BY <1>2 DEF Enter
  <1>3. CASE TimerEvent
    BY <1>3 DEF TimerEvent
  <1>4. CASE Receive
    BY <1>1, <1>4, ReceiveIsOfOneMessage, UtcOffsetMessage
  <1>5. CASE GetEvents \/ DrainEnd \/ Tick \/ Arrive
    BY <1>1, <1>5 DEF GetEvents, DrainEnd, Tick, Arrive
  <1>6. ASSUME NEW a \in Apps, Start(a) \/ Stop(a) \/ TimeSet(a) PROVE UtcOffsetTold'
    BY <1>1, <1>6 DEF Start, StartClaim, StartThread, StartSockets, StartTimer,
                      Stop, StopClaim, StopAll, StopPoll, TimeSet
  <1>7. CASE InitAgain
    BY <1>7 DEF InitAgain
  <1>8. CASE UNCHANGED vars
    BY <1>1, <1>8 DEF vars
  <1> QED
    BY <1>2, <1>3, <1>4, <1>5, <1>6, <1>7, <1>8 DEF Next, Thread

(* The application's copy of the UTC offset is that of the master of a      *)
(* calibrated client, or 0 since a further call of ethernet_init.           *)
THEOREM UtcOffsetIsTold == Spec => []UtcOffsetTold
  <1>1. Init => UtcOffsetTold
    BY DEF Init, UtcOffsetTold
  <1> QED
    BY <1>1, UtcOffsetStep, PTL DEF Spec

-------------------------------------------------------------------------------
(* The stages of a run of the client that one application thread starts and *)
(* stops: at each, whether the thread lives and a STOP is on its way.       *)
Stage(App) ==
  \/ app[App] = "idle" /\ threadState = "IDLE"
     /\ pc = "dead" /\ ~bound /\ "STOP" \notin flags
  \/ app[App] = "claimed" /\ threadState = "RUNNING"
     /\ pc = "dead" /\ ~bound /\ "STOP" \notin flags
  \/ app[App] = "resumed" /\ threadState = "RUNNING"
     /\ pc # "dead" /\ ~bound /\ "STOP" \notin flags
  \/ app[App] \in {"bound", "idle"} /\ threadState = "RUNNING"
     /\ pc # "dead" /\ "STOP" \notin flags
  \/ app[App] = "halting" /\ threadState = "STOPPING"
     /\ pc # "dead" /\ "STOP" \notin flags
  \/ app[App] = "polling" /\ threadState = "STOPPING"
     /\ pc # "dead" /\ ~bound
  \/ app[App] = "polling" /\ threadState = "STOPPED"
     /\ pc = "dead" /\ ~bound /\ "STOP" \notin flags

LifeCycle(App) ==
  /\ app = [a \in Apps |-> app[a]]
  /\ eventQ \in Nat /\ generalQ \in Nat
  /\ ~bound => eventQ = 0 /\ generalQ = 0
  /\ Stage(App)

LEMMA LifeCycleInit ==
  ASSUME NEW App, Apps = {App}
  PROVE  Init => LifeCycle(App)
  BY DEF Init, LifeCycle, Stage

LEMMA LifeCycleStep ==
  ASSUME NEW App, Apps = {App}, LifeCycle(App), [Next]_vars
  PROVE  LifeCycle(App)'
  <1> USE DEF LifeCycle, Stage
  <1>1. CASE Enter
    BY <1>1 DEF Enter
  <1>2. CASE GetEvents
    BY <1>2 DEF GetEvents
  <1>3. CASE Receive
    BY <1>3 DEF Receive
  <1>4. CASE DrainEnd
    BY <1>4 DEF DrainEnd
  <1>5. CASE TimerEvent
    BY <1>5 DEF TimerEvent
  <1>6. CASE Tick
    BY <1>6 DEF Tick
  <1>7. CASE Arrive
    BY <1>7 DEF Arrive
  <1>8. ASSUME NEW a \in Apps, Start(a) PROVE LifeCycle(App)'
    <2>1. CASE StartClaim(a)
      BY <2>1 DEF StartClaim
    <2>2. CASE StartThread(a)
      BY <2>2 DEF StartThread
    <2>3. CASE StartSockets(a)
      BY <2>3 DEF StartSockets
    <2>4. CASE StartTimer(a)
      BY <2>4 DEF StartTimer
    <2> QED
      BY <1>8, <2>1, <2>2, <2>3, <2>4 DEF Start
  <1>9. ASSUME NEW a \in Apps, Stop(a) PROVE LifeCycle(App)'
    <2>1. CASE StopClaim(a)
      BY <2>1 DEF StopClaim
    <2>2. CASE StopAll(a)
      BY <2>2 DEF StopAll
    <2>3. CASE StopPoll(a)
      BY <2>3 DEF StopPoll
    <2> QED
      BY <1>9, <2>1, <2>2, <2>3 DEF Stop
  <1>10. ASSUME NEW a \in Apps, TimeSet(a) PROVE LifeCycle(App)'
    BY <1>10 DEF TimeSet, thread
  <1>11. CASE InitAgain \/ UNCHANGED vars
    BY <1>11 DEF InitAgain, vars, thread
  <1> QED
    BY <1>1, <1>2, <1>3, <1>4, <1>5, <1>6, <1>7, <1>8, <1>9, <1>10, <1>11 DEF Next, Thread

-------------------------------------------------------------------------------
(* Packets in the sockets.                                                  *)
LEMMA NothingUnreadStep ==
  ASSUME NEW App, Apps = {App}, LifeCycle(App), NothingUnread, [Next]_vars
  PROVE  NothingUnread'
  <1> USE DEF NothingUnread, LifeCycle, Stage
  <1>1. CASE Enter
    BY <1>1 DEF Enter
  <1>2. CASE GetEvents
    BY <1>2 DEF GetEvents
  <1>3. CASE Receive
    BY <1>3 DEF Receive
  <1>4. CASE DrainEnd
    BY <1>4 DEF DrainEnd
  <1>5. CASE TimerEvent
    BY <1>5 DEF TimerEvent
  <1>6. CASE Tick \/ Arrive
    BY <1>6 DEF Tick, Arrive
  <1>7. ASSUME NEW a \in Apps, Start(a) PROVE NothingUnread'
    BY <1>7 DEF Start, StartClaim, StartThread, StartSockets, StartTimer
  <1>8. ASSUME NEW a \in Apps, Stop(a) \/ TimeSet(a) PROVE NothingUnread'
    BY <1>8 DEF Stop, StopClaim, StopAll, StopPoll, TimeSet, thread
  <1>9. CASE InitAgain \/ UNCHANGED vars
    BY <1>9 DEF InitAgain, vars, thread
  <1> QED
    BY <1>1, <1>2, <1>3, <1>4, <1>5, <1>6, <1>7, <1>8, <1>9 DEF Next, Thread

(* A packet in a socket has the RX flag set or the thread draining.         *)
THEOREM NoWakeUpLost ==
  ASSUME NEW CONSTANT App, Apps = {App}
  PROVE  Spec => []NothingUnread
  <1> DEFINE IInv == LifeCycle(App) /\ NothingUnread
  <1>1. Init => IInv
    <2>1. Init => NothingUnread
      BY DEF Init, NothingUnread
    <2> QED
      BY <2>1, LifeCycleInit
  <1>2. IInv /\ [Next]_vars => IInv'
    BY LifeCycleStep, NothingUnreadStep
  <1>3. IInv => NothingUnread
    OBVIOUS
  <1> QED
    BY <1>1, <1>2, <1>3, PTL DEF Spec

(* Once start has returned the thread runs.                                 *)
THEOREM StartedThreadLives ==
  ASSUME NEW CONSTANT App, Apps = {App}
  PROVE  Spec => []StartedRuns
  <1>1. LifeCycle(App) => StartedRuns
    BY DEF LifeCycle, Stage, StartedRuns
  <1>2. LifeCycle(App) /\ [Next]_vars => LifeCycle(App)'
    BY LifeCycleStep
  <1> QED
    BY LifeCycleInit, <1>1, <1>2, PTL DEF Spec

-------------------------------------------------------------------------------
(* Where the times of an offset come from.  A running slave that waits for  *)
(* an answer has the time of the request it last sent; what it knows of t1  *)
(* is of its master, and of the same Sync as t2 if the Sync carries it.     *)
Running == pc \in {"wait", "drain", "timer"}
Waiting == Running /\ state = "SLAVE" /\ delayState = "WAIT_RESP"

TimesKnown ==
  /\ state \in {"LISTENING", "SLAVE"}
  /\ state = "SLAVE" => sync = NoTime \/ \E n : sync = Reading(<<master, n>>)
  /\ Waiting => delayTs = Reading(reqId)
  /\ Waiting /\ master \notin TwoStep => syncTs = sync

Sound == TimesKnown /\ OffsetIsSound /\ CalibratedByMaster

LEMMA SoundInit == Init => Sound
  BY DEF Init, Sound, TimesKnown, Waiting, OffsetIsSound, CalibratedByMaster

(* A Sync's time and, if it is due, the next request.                       *)
LEMMA TimesKnownAfterSync ==
  ASSUME TimesKnown, state = "SLAVE", UNCHANGED <<pc, role>>, NEW n,
         SyncReceived(<<master, n>>),
         master \notin TwoStep => syncTs' = Reading(<<master, n>>)
  PROVE  TimesKnown'
  <1> USE DEF TimesKnown, Waiting, Running, role
  <1>1. sync' = Reading(<<master, n>>) /\ master' = master /\ state' = "SLAVE"
    BY DEF SyncReceived
  <1>2. Waiting' => delayTs' = Reading(reqId')
    <2>1. CASE UNCHANGED delay
      BY <2>1 DEF delay
    <2>2. CASE SendDelayReq
      BY <2>2, <2>1 DEF SendDelayReq, Reading
    <2> QED
      BY <2>1, <2>2 DEF SyncReceived
  <1> QED
    BY <1>1, <1>2

LEMMA SoundMessage ==
  ASSUME Sound, NEW m \in EventMessages \cup GeneralMessages, Accepted(m), pc = "drain",
         UNCHANGED pc,
         SyncMessage(m) \/ FollowUpMessage(m) \/ AnnounceMessage(m) \/ DelayRespMessage(m)
  PROVE  Sound'
  <1> USE DEF Sound
  <1>1. ASSUME UNCHANGED <<role, last>> PROVE OffsetIsSound' /\ CalibratedByMaster'
    BY <1>1 DEF OffsetIsSound, CalibratedByMaster, role
  <1>2. ASSUME UNCHANGED <<times, delay, role>> PROVE TimesKnown'
    BY <1>2 DEF TimesKnown, Waiting, Running, times, delay, role
  <1>3. CASE SyncMessage(m)
    <2>1. CASE state # "SLAVE"
      BY <1>1, <1>2, <1>3, <2>1 DEF SyncMessage
    <2>2. CASE state = "SLAVE" /\ m.from \in TwoStep
      <3>1. master \in TwoStep
        BY <2>2 DEF Accepted
      <3> QED
        BY <1>1, <1>3, <2>2, <3>1 DEF SyncMessage, TimesKnown, Waiting, Running, delay, role
    <2>3. CASE state = "SLAVE" /\ m.from \notin TwoStep
      <3>1. m.from = master
        BY <2>3 DEF Accepted
      <3>2. TimesKnown'
        BY <1>3, <2>3, <3>1, TimesKnownAfterSync DEF SyncMessage
      <3> QED
        BY <1>1, <1>3, <3>2 DEF SyncMessage
    <2> QED
      BY <2>1, <2>2, <2>3
  <1>4. CASE FollowUpMessage(m)
    <2>1. CASE ~(state = "SLAVE" /\ syncId = m.id)
      BY <1>1, <1>2, <1>4, <2>1 DEF FollowUpMessage
    <2>2. CASE state = "SLAVE" /\ syncId = m.id
      <3>1. m.from = master /\ master \in TwoStep
        BY <1>4, <2>2, FollowUpOfTwoStep DEF Accepted, FollowUpMessage
      <3>2. TimesKnown'
        BY <1>4, <2>2, <3>1, TimesKnownAfterSync DEF FollowUpMessage
      <3> QED
        BY <1>1, <1>4, <3>2 DEF FollowUpMessage
    <2> QED
      BY <2>1, <2>2
  <1>5. CASE AnnounceMessage(m)
    <2>1. CASE state = "LISTENING"
      BY <1>5, <2>1 DEF AnnounceMessage, TimesKnown, Waiting, OffsetIsSound, CalibratedByMaster
    <2>2. CASE state # "LISTENING"
      BY <1>5, <2>2 DEF AnnounceMessage, TimesKnown, Waiting, Running, OffsetIsSound,
                        CalibratedByMaster
    <2> QED
      BY <2>1, <2>2
  <1>6. CASE DelayRespMessage(m)
    <2>1. CASE ~Awaited(m)
      BY <1>6, <2>1 DEF DelayRespMessage, TimesKnown, Waiting, Running, OffsetIsSound,
                        CalibratedByMaster
    <2>2. CASE Awaited(m) /\ state = "SLAVE"
      <3>1. m.from = master /\ Waiting
        BY <2>2 DEF Accepted, Awaited, Waiting, Running
      <3>2. PICK n : sync = Reading(<<master, n>>)
        BY <2>2 DEF TimesKnown, Awaited
      <3>3. sync.of[1] = master /\ sync.fresh
        BY <3>2 DEF Reading
      <3>4. delayTs.of = m.id /\ delayTs.fresh
        BY <2>2, <3>1 DEF TimesKnown, Awaited, Reading
      <3>5. master \notin TwoStep => syncTs.of = sync.of /\ syncTs.fresh
        BY <3>1, <3>3 DEF TimesKnown
      <3>6. PICK offset :
              /\ last' = {offset}
              /\ offset.master = master /\ offset.answeredBy = master
              /\ offset.oneRequest
              /\ master \notin TwoStep => offset.oneSync /\ ~offset.stepped
        <4> DEFINE offset == [master |-> sync.of[1], answeredBy |-> m.from,
                              oneSync |-> syncTs.of = sync.of,
                              oneRequest |-> delayTs.of = m.id /\ delayTs.fresh,
                              stepped |-> ~syncTs.fresh]
        <4>1. last' = {offset}
          BY <1>6, <2>2 DEF DelayRespMessage
        <4>2. offset.master = sync.of[1] /\ offset.answeredBy = m.from
          OBVIOUS
        <4>3. /\ offset.oneRequest = (delayTs.of = m.id /\ delayTs.fresh)
              /\ offset.oneSync = (syncTs.of = sync.of)
              /\ offset.stepped = ~syncTs.fresh
          OBVIOUS
        <4> HIDE DEF offset
        <4>4. /\ offset.oneRequest
              /\ master \notin TwoStep => offset.oneSync /\ ~offset.stepped
          BY <4>3, <3>4, <3>5, Zenon
        <4> QED
          BY <4>1, <4>2, <4>4, <3>1, <3>3
      <3>7. OffsetIsSound' /\ CalibratedByMaster'
        BY <1>6, <3>6 DEF OffsetIsSound, CalibratedByMaster, DelayRespMessage
      <3>8. TimesKnown'
        BY <1>6, <2>2 DEF DelayRespMessage, TimesKnown, Waiting
      <3> QED
        BY <3>7, <3>8
    <2>3. CASE Awaited(m) /\ state # "SLAVE"
      <3>1. TimesKnown' /\ CalibratedByMaster'
        BY <1>6, <2>3 DEF DelayRespMessage, TimesKnown, Waiting, CalibratedByMaster
      <3>2. last' = last
        BY <1>6, <2>3 DEF DelayRespMessage, TimesKnown
      <3> QED
        BY <3>1, <3>2 DEF OffsetIsSound
    <2> QED
      BY <2>1, <2>2, <2>3
  <1> QED
    BY <1>3, <1>4, <1>5, <1>6

LEMMA SoundStep ==
  ASSUME NEW App, Apps = {App}, LifeCycle(App), Sound, [Next]_vars
  PROVE  Sound'
  <1> USE DEF Sound
  <1>1. ASSUME UNCHANGED <<role, last>> PROVE OffsetIsSound' /\ CalibratedByMaster'
    BY <1>1 DEF OffsetIsSound, CalibratedByMaster, role
  <1>2. ASSUME UNCHANGED <<times, delay, role, last>>, Running' => Running PROVE Sound'
    BY <1>1, <1>2 DEF TimesKnown, Waiting, times, delay, role
  <1>3. CASE Enter
    BY <1>3 DEF Enter, TimesKnown, Waiting, OffsetIsSound, CalibratedByMaster
  <1>4. CASE GetEvents \/ DrainEnd \/ Tick \/ Arrive
    BY <1>2, <1>4 DEF GetEvents, DrainEnd, Tick, Arrive, Running
  <1>5. CASE TimerEvent
    <2>1. state' \in {"LISTENING", state} /\ UNCHANGED <<master, calibrated, last>>
      BY <1>5 DEF TimerEvent
    <2>2. OffsetIsSound' /\ CalibratedByMaster'
      BY <2>1 DEF OffsetIsSound, CalibratedByMaster
    <2>3. Waiting' => Waiting
      BY <1>5, <2>1 DEF TimerEvent, Waiting, Running
    <2>4. UNCHANGED <<sync, syncTs, delayTs, reqId>>
      BY <1>5 DEF TimerEvent, times
    <2> QED
      BY <2>1, <2>2, <2>3, <2>4 DEF TimesKnown
  <1>6. CASE Receive
    <2>1. pc = "drain" /\ UNCHANGED pc
      BY <1>6 DEF Receive
    <2>2. ASSUME UNCHANGED <<times, delay, role, last>> PROVE Sound'
      BY <1>2, <2>1, <2>2 DEF Running
    <2>3. ASSUME NEW m \in EventMessages \cup GeneralMessages, Process(m) PROVE Sound'
      BY <2>1, <2>2, <2>3, SoundMessage DEF Process
    <2> QED
      BY <1>6, <2>2, <2>3, ReceiveIsOfOneMessage
  <1>7. ASSUME NEW a \in Apps, Start(a) \/ Stop(a) PROVE Sound'
    <2>1. UNCHANGED <<times, delay, role, last>>
      BY <1>7 DEF Start, StartClaim, StartThread, StartSockets, StartTimer,
                  Stop, StopClaim, StopAll, StopPoll
    <2>2. Running' => Running
      BY <1>7 DEF Start, StartClaim, StartThread, StartSockets, StartTimer,
                  Stop, StopClaim, StopAll, StopPoll, Running
    <2> QED
      BY <1>2, <2>1, <2>2
  <1>8. ASSUME NEW a \in Apps, TimeSet(a) PROVE Sound'
    <2>1. pc = "dead" /\ UNCHANGED <<pc, sync, role, last>>
      BY <1>8 DEF TimeSet, LifeCycle, Stage, thread
    <2> QED
      BY <1>1, <2>1 DEF TimesKnown, Waiting, Running, role
  <1>9. CASE InitAgain
    BY <1>9 DEF InitAgain, times, delay, thread, TimesKnown, Waiting, Running, OffsetIsSound,
                CalibratedByMaster
  <1>10. CASE UNCHANGED vars
    BY <1>2, <1>10 DEF vars, thread, Running
  <1> QED
    BY <1>3, <1>4, <1>5, <1>6, <1>7, <1>8, <1>9, <1>10 DEF Next, Thread

LEMMA SoundAlways ==
  ASSUME NEW CONSTANT App, Apps = {App}
  PROVE  Spec => []Sound
  <1> DEFINE IInv == LifeCycle(App) /\ Sound
  <1>1. Init => IInv
    BY LifeCycleInit, SoundInit
  <1>2. IInv /\ [Next]_vars => IInv'
    BY LifeCycleStep, SoundStep
  <1>3. IInv => Sound
    OBVIOUS
  <1> QED
    BY <1>1, <1>2, <1>3, PTL DEF Spec

(* An offset that is applied is of one request, answered by the master that *)
(* t1 came from; of a master that puts the time into its Sync, also of one  *)
(* Sync, with no step of the clock in between.                              *)
THEOREM OffsetsAreSound ==
  ASSUME NEW CONSTANT App, Apps = {App}
  PROVE  Spec => []OffsetIsSound
  <1>1. Sound => OffsetIsSound
    BY DEF Sound
  <1> QED
    BY <1>1, SoundAlways, PTL

(* A calibrated slave has set its clock by the master it follows.           *)
THEOREM CalibratedByItsMaster ==
  ASSUME NEW CONSTANT App, Apps = {App}
  PROVE  Spec => []CalibratedByMaster
  <1>1. Sound => CalibratedByMaster
    BY DEF Sound
  <1> QED
    BY <1>1, SoundAlways, PTL
================================================================================
