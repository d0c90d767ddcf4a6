---------------------------- MODULE Plugins_proofs --------------------------
(***************************************************************************)
(* The invariants of hypr, sqlite, ffmpeg and of dbus's signals, each of   *)
(* the plugin alone and for all values of its constants; then of any of    *)
(* these and of ws (WsPlugin_proofs) in the host: Plugins does what each   *)
(* of the plugins does, or leaves it alone.                                *)
(***************************************************************************)
EXTENDS Plugins, DbusBodies, WsPlugin_proofs

-----------------------------------------------------------------------------
(* hypr: the promises and the connection                                   *)

\* The event thread is past its "connected" and has not pushed its "disconnected".
HyprBetween == hyprNet \in {"again", "read", "leave", "close", "goodbye"}

\* What the script thread holds at each place of the update hook, and what shutdown
\* leaves off.
HyprHookInv ==
    /\ hyprJs \in {"script", "settle"} => hyprBatch = <<>>
    /\ hyprJs \in {"script", "dispatch", "callback"} => hyprCompleted = <<>>
    /\ hyprJs \in {"load", "cut", "join", "over"} => hyprStopping
    /\ ~hyprStopping /\ hyprNet # "none" => hyprRunning
    /\ ~hyprStopping /\ ~hyprSubscribed => hyprHeard = "none"

\* Between two connections the last that was queued, taken or told is the end of the
\* one before: the push that found the queue full has dropped an older entry.
HyprLastInv ==
    ~hyprStopping /\ ~HyprBetween =>
        /\ hyprEvents # <<>> => Last(hyprEvents) = "disconnected"
        /\ hyprEvents = <<>> /\ hyprBatch # <<>> => Last(hyprBatch) = "disconnected"
        /\ hyprEvents = <<>> /\ hyprBatch = <<>> => hyprHeard # "connected"

HyprIInv == HyprTypeOK /\ HyprHookInv /\ HyprNoPromiseForgotten /\ HyprLastInv

\* The type invariant in parts: the flags, the link, what is queued, and the rest.
HyprFlagsType == hyprSubscribed \in BOOLEAN /\ hyprRunning \in BOOLEAN /\ hyprStopping \in BOOLEAN

HyprLinkType == hyprLink \in [up : BOOLEAN, unread : Nat, said : Nat, shut : BOOLEAN]

HyprQueueType ==
    /\ hyprBatch \in Seq(HyprEvent) /\ hyprEvents \in Seq(HyprEvent)
    /\ Len(hyprEvents) <= HyprMaxQueue
    /\ hyprCompleted \in Seq(HyprIds) /\ hyprResults \in Seq(HyprIds)

HyprPlaceType ==
    /\ hyprJs \in {"script", "dispatch", "callback", "settle", "load", "cut", "join", "over"}
    /\ hyprCut \in 0..HyprMaxLinks
    /\ hyprHeard \in {"none", "connected", "disconnected"}
    /\ hyprNet \in {"none", "test", "dial", "backoff", "store", "announce", "again", "read",
                    "leave", "close", "goodbye", "done"}
    /\ hyprFd \in 0..HyprMaxLinks /\ hyprLinks \in 0..HyprMaxLinks
    /\ hyprJob \in [HyprIds -> {"none", "dial", "register", "exchange", "report", "push", "done"}]
    /\ hyprActive \in SUBSET HyprIds
    /\ hyprThreads \in SUBSET HyprIds
    /\ hyprPromises \in SUBSET HyprIds
    /\ hyprNextId \in 1..(HyprMaxJobs + 1)

LEMMA HyprTypeParts ==
    HyprTypeOK <=> HyprFlagsType /\ HyprLinkType /\ HyprQueueType /\ HyprPlaceType
    BY Zenon DEF HyprTypeOK, HyprFlagsType, HyprLinkType, HyprQueueType, HyprPlaceType

\* A push leaves a queue of events within its limit, with the pushed event last.
LEMMA HyprPushProperties ==
    ASSUME HyprBoundsAssumption, HyprQueueType, NEW event \in HyprEvent
    PROVE  /\ HyprPush(event) \in Seq(HyprEvent)
           /\ Len(HyprPush(event)) <= HyprMaxQueue
           /\ HyprPush(event) # <<>>
           /\ Last(HyprPush(event)) = event
<1> DEFINE q == IF Len(hyprEvents) >= HyprMaxQueue THEN Tail(hyprEvents) ELSE hyprEvents
<1>1. HyprMaxQueue \in Nat \ {0}
    BY HyprBoundsAssumption
<1>2. hyprEvents \in Seq(HyprEvent) /\ Len(hyprEvents) <= HyprMaxQueue
    BY DEF HyprQueueType
<1>3. q \in Seq(HyprEvent) /\ Len(q) \in Nat /\ Len(q) < HyprMaxQueue
    <2>1. CASE Len(hyprEvents) >= HyprMaxQueue
        <3>1. hyprEvents # <<>>
            BY <1>1, <1>2, <2>1
        <3>2. Tail(hyprEvents) \in Seq(HyprEvent) /\ Len(Tail(hyprEvents)) = Len(hyprEvents) - 1
            BY <1>2, <3>1, HeadTailProperties
        <3> QED
            BY <1>1, <1>2, <2>1, <3>1, <3>2, LenProperties
    <2>2. CASE ~(Len(hyprEvents) >= HyprMaxQueue)
        BY <1>1, <1>2, <2>2, LenProperties
    <2> QED
        BY <2>1, <2>2
<1>4. HyprPush(event) = Append(q, event)
    BY DEF HyprPush
<1> HIDE DEF q
<1>5. /\ Append(q, event) \in Seq(HyprEvent)
      /\ Len(Append(q, event)) = Len(q) + 1
      /\ Append(q, event)[Len(q) + 1] = event
    BY <1>3, AppendProperties
<1> QED
    BY <1>1, <1>3, <1>4, <1>5, EmptySeq DEF Last

\* What the event thread, a command and the compositor leave alone.
LEMMA HyprNetFrame ==
    ASSUME HyprNetSteps
    PROVE  /\ UNCHANGED <<hyprJs, hyprCut, hyprBatch, hyprCompleted, hyprSubscribed, hyprHeard>>
           /\ UNCHANGED <<hyprRunning, hyprStopping>>
           /\ UNCHANGED <<hyprJob, hyprActive, hyprThreads, hyprResults, hyprPromises, hyprNextId>>
           /\ hyprNet # "none"
BY DEF HyprNetSteps, hyprScript, hyprFlags, hyprJobs, HyprNetTests, HyprNetDialFails,
    HyprNetWaits, HyprNetDials,
       HyprNetStores, HyprNetAnnounces, HyprNetRetests, HyprNetReads,
       HyprNetReadEnds, HyprNetLeaves, HyprNetCloses, HyprNetSaysGoodbye

LEMMA HyprJobFrame ==
    ASSUME NEW j \in HyprIds, HyprJobSteps(j)
    PROVE  /\ UNCHANGED <<hyprJs, hyprCut, hyprBatch, hyprCompleted, hyprSubscribed, hyprHeard>>
           /\ UNCHANGED <<hyprRunning, hyprStopping>>
           /\ UNCHANGED <<hyprNet, hyprFd, hyprLink, hyprLinks, hyprEvents>>
           /\ UNCHANGED <<hyprThreads, hyprPromises, hyprNextId>>
BY DEF HyprJobSteps, hyprScript, hyprFlags, hyprBus, HyprJobDials, HyprJobRegisters,
    HyprJobUnregisters,
       HyprJobReports, HyprJobPushes

LEMMA HyprServerFrame ==
    ASSUME HyprServerSpeaks \/ HyprServerLeaves
    PROVE  /\ UNCHANGED <<hyprJs, hyprCut, hyprBatch, hyprCompleted, hyprSubscribed, hyprHeard>>
           /\ UNCHANGED <<hyprRunning, hyprStopping>>
           /\ UNCHANGED <<hyprNet, hyprFd, hyprLinks, hyprEvents>>
           /\ UNCHANGED <<hyprJob, hyprActive, hyprThreads, hyprResults, hyprPromises, hyprNextId>>
BY DEF HyprServerSpeaks, HyprServerLeaves, hyprScript, hyprFlags, hyprJobs

LEMMA HyprInitInv == HyprInit => HyprIInv
<1> SUFFICES ASSUME HyprInit PROVE HyprIInv
    OBVIOUS
<1> USE HyprBoundsAssumption DEF HyprInit, HyprIds
<1>1. HyprFlagsType
    BY DEF HyprFlagsType
<1>2. HyprLinkType
    BY DEF HyprLinkType, HyprNoLink
<1>3. HyprQueueType
    BY DEF HyprQueueType
<1>4. HyprPlaceType
    BY DEF HyprPlaceType
<1>5. HyprTypeOK
    BY <1>1, <1>2, <1>3, <1>4, HyprTypeParts
<1>6. HyprHookInv
    BY DEF HyprHookInv
<1>7. HyprNoPromiseForgotten
    BY DEF HyprNoPromiseForgotten
<1>8. HyprLastInv
    BY DEF HyprLastInv
<1> QED
    BY <1>5, <1>6, <1>7, <1>8 DEF HyprIInv

\* The flags.
LEMMA HyprFlagsStep ==
    ASSUME HyprFlagsType, [HyprNext]_hyprVars
    PROVE  HyprFlagsType'
<1> USE DEF HyprFlagsType, hyprScript, hyprFlags, hyprBus, hyprJobs
<1>1. CASE HyprConnect
    BY <1>1 DEF HyprConnect
<1>2. CASE HyprOn
    BY <1>2 DEF HyprOn
<1>3. CASE HyprOff
    BY <1>3 DEF HyprOff
<1>4. CASE HyprSend
    BY <1>4 DEF HyprSend
<1>5. CASE HyprShutdown
    BY <1>5 DEF HyprShutdown
<1>6. CASE HyprUpdate
    BY <1>6 DEF HyprUpdate
<1>7. CASE HyprDispatch
    BY <1>7 DEF HyprDispatch
<1>8. CASE HyprCallbackReturns
    BY <1>8 DEF HyprCallbackReturns
<1>9. CASE HyprTakeResults
    BY <1>9 DEF HyprTakeResults
<1>10. CASE HyprSettle
    BY <1>10 DEF HyprSettle
<1>11. CASE HyprUpdateEnds
    BY <1>11 DEF HyprUpdateEnds
<1>12. CASE HyprShutdownLoads
    BY <1>12 DEF HyprShutdownLoads
<1>13. CASE HyprShutdownCuts
    BY <1>13 DEF HyprShutdownCuts
<1>14. CASE HyprShutdownEnds
    BY <1>14 DEF HyprShutdownEnds
<1>15. CASE HyprNetSteps
    BY <1>15, HyprNetFrame
<1>16. ASSUME NEW j \in HyprIds, HyprJobSteps(j) PROVE HyprFlagsType'
    BY <1>16, HyprJobFrame
<1>17. CASE HyprServerSpeaks \/ HyprServerLeaves
    BY <1>17, HyprServerFrame
<1>18. CASE UNCHANGED hyprVars
    BY <1>18 DEF hyprVars
<1> QED
    BY <1>1, <1>2, <1>3, <1>4, <1>5, <1>6, <1>7, <1>8, <1>9, <1>10, <1>11, <1>12, <1>13,
       <1>14, <1>15, <1>16, <1>17, <1>18
    DEF HyprNext, HyprScriptSteps, HyprHostSteps

\* The link.
LEMMA HyprLinkStep ==
    ASSUME HyprLinkType, [HyprNext]_hyprVars
    PROVE  HyprLinkType'
<1> USE DEF HyprLinkType, HyprNoLink, hyprScript, hyprFlags, hyprBus, hyprJobs
<1>1. CASE HyprConnect
    BY <1>1 DEF HyprConnect
<1>2. CASE HyprOn
    BY <1>2 DEF HyprOn
<1>3. CASE HyprOff
    BY <1>3 DEF HyprOff
<1>4. CASE HyprSend
    BY <1>4 DEF HyprSend
<1>5. CASE HyprShutdown
    BY <1>5 DEF HyprShutdown
<1>6. CASE HyprUpdate
    BY <1>6 DEF HyprUpdate
<1>7. CASE HyprDispatch
    BY <1>7 DEF HyprDispatch
<1>8. CASE HyprCallbackReturns
    BY <1>8 DEF HyprCallbackReturns
<1>9. CASE HyprTakeResults
    BY <1>9 DEF HyprTakeResults
<1>10. CASE HyprSettle
    BY <1>10 DEF HyprSettle
<1>11. CASE HyprUpdateEnds
    BY <1>11 DEF HyprUpdateEnds
<1>12. CASE HyprShutdownLoads
    BY <1>12 DEF HyprShutdownLoads
<1>13. CASE HyprShutdownCuts
    BY <1>13 DEF HyprShutdownCuts
<1>14. CASE HyprShutdownEnds
    BY <1>14 DEF HyprShutdownEnds
<1>15. CASE HyprNetTests
    BY <1>15 DEF HyprNetTests
<1>16. CASE HyprNetDialFails
    BY <1>16 DEF HyprNetDialFails
<1>17. CASE HyprNetWaits
    BY <1>17 DEF HyprNetWaits
<1>18. CASE HyprNetDials
    BY <1>18 DEF HyprNetDials
<1>19. CASE HyprNetStores
    BY <1>19 DEF HyprNetStores
<1>20. CASE HyprNetAnnounces
    BY <1>20 DEF HyprNetAnnounces
<1>21. CASE HyprNetRetests
    BY <1>21 DEF HyprNetRetests
<1>22. CASE HyprNetReads
    BY <1>22 DEF HyprNetReads
<1>23. CASE HyprNetReadEnds
    BY <1>23 DEF HyprNetReadEnds
<1>24. CASE HyprNetLeaves
    BY <1>24 DEF HyprNetLeaves
<1>25. CASE HyprNetCloses
    BY <1>25 DEF HyprNetCloses
<1>26. CASE HyprNetSaysGoodbye
    BY <1>26 DEF HyprNetSaysGoodbye
<1>27. ASSUME NEW j \in HyprIds, HyprJobSteps(j) PROVE HyprLinkType'
    BY <1>27, HyprJobFrame
<1>28. CASE HyprServerSpeaks
    <2>1. hyprLink' = [up |-> hyprLink.up, unread |-> hyprLink.unread + 1,
                        said |-> hyprLink.said + 1, shut |-> hyprLink.shut]
        BY <1>28 DEF HyprServerSpeaks
    <2>2. hyprLink.up \in BOOLEAN /\ hyprLink.shut \in BOOLEAN
        OBVIOUS
    <2>3. hyprLink.unread + 1 \in Nat /\ hyprLink.said + 1 \in Nat
        OBVIOUS
    <2> QED
        BY ONLY <2>1, <2>2, <2>3 DEF HyprLinkType
<1>29. CASE HyprServerLeaves
    BY <1>29 DEF HyprServerLeaves
<1>30. CASE UNCHANGED hyprVars
    BY <1>30 DEF hyprVars
<1> QED
    BY <1>1, <1>2, <1>3, <1>4, <1>5, <1>6, <1>7, <1>8, <1>9, <1>10, <1>11, <1>12, <1>13,
       <1>14, <1>15, <1>16, <1>17, <1>18, <1>19, <1>20, <1>21, <1>22, <1>23, <1>24, <1>25,
       <1>26, <1>27, <1>28, <1>29, <1>30
    DEF HyprNext, HyprScriptSteps, HyprHostSteps, HyprNetSteps

\* What is queued.
LEMMA HyprQueueStep ==
    ASSUME HyprQueueType, HyprPlaceType, [HyprNext]_hyprVars
    PROVE  HyprQueueType'
<1> USE HyprBoundsAssumption DEF HyprQueueType, hyprScript, hyprFlags, hyprBus, hyprJobs
<1>1. CASE HyprConnect
    BY <1>1 DEF HyprConnect
<1>2. CASE HyprOn
    BY <1>2 DEF HyprOn
<1>3. CASE HyprOff
    BY <1>3 DEF HyprOff
<1>4. CASE HyprSend
    BY <1>4 DEF HyprSend
<1>5. CASE HyprShutdown
    BY <1>5 DEF HyprShutdown
<1>6. CASE HyprUpdate
    BY <1>6 DEF HyprUpdate
<1>7. CASE HyprDispatch
    <2>1. hyprBatch' \in Seq(HyprEvent)
        BY <1>7, HeadTailProperties DEF HyprDispatch
    <2> QED
        BY <1>7, <2>1 DEF HyprDispatch
<1>8. CASE HyprCallbackReturns
    BY <1>8 DEF HyprCallbackReturns
<1>9. CASE HyprTakeResults
    BY <1>9 DEF HyprTakeResults
<1>10. CASE HyprSettle
    <2>1. hyprCompleted' \in Seq(HyprIds)
        BY <1>10, HeadTailProperties DEF HyprSettle
    <2> QED
        BY <1>10, <2>1 DEF HyprSettle
<1>11. CASE HyprUpdateEnds
    BY <1>11 DEF HyprUpdateEnds
<1>12. CASE HyprShutdownLoads
    BY <1>12 DEF HyprShutdownLoads
<1>13. CASE HyprShutdownCuts
    BY <1>13 DEF HyprShutdownCuts
<1>14. CASE HyprShutdownEnds
    BY <1>14 DEF HyprShutdownEnds
<1>15. CASE HyprNetTests
    BY <1>15 DEF HyprNetTests
<1>16. CASE HyprNetDialFails
    BY <1>16 DEF HyprNetDialFails
<1>17. CASE HyprNetWaits
    BY <1>17 DEF HyprNetWaits
<1>18. CASE HyprNetDials
    BY <1>18 DEF HyprNetDials
<1>19. CASE HyprNetStores
    BY <1>19 DEF HyprNetStores
<1>20. CASE HyprNetAnnounces
    <2>1. "connected" \in HyprEvent
        BY DEF HyprEvent
    <2> QED
        BY <1>20, <2>1, HyprPushProperties DEF HyprNetAnnounces
<1>21. CASE HyprNetRetests
    BY <1>21 DEF HyprNetRetests
<1>22. CASE HyprNetReads
    <2>1. "line" \in HyprEvent
        BY DEF HyprEvent
    <2> QED
        BY <1>22, <2>1, HyprPushProperties DEF HyprNetReads
<1>23. CASE HyprNetReadEnds
    BY <1>23 DEF HyprNetReadEnds
<1>24. CASE HyprNetLeaves
    BY <1>24 DEF HyprNetLeaves
<1>25. CASE HyprNetCloses
    BY <1>25 DEF HyprNetCloses
<1>26. CASE HyprNetSaysGoodbye
    <2>1. "disconnected" \in HyprEvent
        BY DEF HyprEvent
    <2> QED
        BY <1>26, <2>1, HyprPushProperties DEF HyprNetSaysGoodbye
<1>27. ASSUME NEW j \in HyprIds, HyprJobDials(j) PROVE HyprQueueType'
    BY <1>27 DEF HyprJobDials
<1>28. ASSUME NEW j \in HyprIds, HyprJobRegisters(j) PROVE HyprQueueType'
    BY <1>28 DEF HyprJobRegisters
<1>29. ASSUME NEW j \in HyprIds, HyprJobUnregisters(j) PROVE HyprQueueType'
    BY <1>29 DEF HyprJobUnregisters
<1>30. ASSUME NEW j \in HyprIds, HyprJobReports(j) PROVE HyprQueueType'
    BY <1>30 DEF HyprJobReports
<1>31. ASSUME NEW j \in HyprIds, HyprJobPushes(j) PROVE HyprQueueType'
    <2>1. hyprResults' \in Seq(HyprIds)
        BY <1>31, AppendProperties DEF HyprJobPushes
    <2> QED
        BY <1>31, <2>1 DEF HyprJobPushes
<1>32. CASE HyprServerSpeaks
    BY <1>32 DEF HyprServerSpeaks
<1>33. CASE HyprServerLeaves
    BY <1>33 DEF HyprServerLeaves
<1>34. CASE UNCHANGED hyprVars
    BY <1>34 DEF hyprVars
<1> QED
    BY <1>1, <1>2, <1>3, <1>4, <1>5, <1>6, <1>7, <1>8, <1>9, <1>10, <1>11, <1>12, <1>13,
       <1>14, <1>15, <1>16, <1>17, <1>18, <1>19, <1>20, <1>21, <1>22, <1>23, <1>24, <1>25,
       <1>26, <1>27, <1>28, <1>29, <1>30, <1>31, <1>32, <1>33, <1>34
    DEF HyprNext, HyprScriptSteps, HyprHostSteps, HyprNetSteps, HyprJobSteps

\* The rest.
LEMMA HyprPlaceStep ==
    ASSUME HyprQueueType, HyprPlaceType, [HyprNext]_hyprVars
    PROVE  HyprPlaceType'
<1> USE HyprBoundsAssumption DEF HyprPlaceType, HyprIds, hyprScript, hyprFlags, hyprBus, hyprJobs
<1>1. CASE HyprConnect
    BY <1>1 DEF HyprConnect
<1>2. CASE HyprOn
    BY <1>2 DEF HyprOn
<1>3. CASE HyprOff
    BY <1>3 DEF HyprOff
<1>4. CASE HyprSend
    BY <1>4 DEF HyprSend
<1>5. CASE HyprShutdown
    BY <1>5 DEF HyprShutdown
<1>6. CASE HyprUpdate
    BY <1>6 DEF HyprUpdate
<1>7. CASE HyprDispatch
    <2>1. Head(hyprBatch) \in HyprEvent
        BY <1>7, HeadTailProperties DEF HyprDispatch, HyprQueueType
    <2>2. hyprHeard' \in {"none", "connected", "disconnected"}
        BY <1>7, <2>1 DEF HyprDispatch, HyprEvent
    <2> QED
        BY <1>7, <2>2 DEF HyprDispatch
<1>8. CASE HyprCallbackReturns
    BY <1>8 DEF HyprCallbackReturns
<1>9. CASE HyprTakeResults
    BY <1>9 DEF HyprTakeResults
<1>10. CASE HyprSettle
    BY <1>10 DEF HyprSettle
<1>11. CASE HyprUpdateEnds
    BY <1>11 DEF HyprUpdateEnds
<1>12. CASE HyprShutdownLoads
    BY <1>12 DEF HyprShutdownLoads
<1>13. CASE HyprShutdownCuts
    BY <1>13 DEF HyprShutdownCuts
<1>14. CASE HyprShutdownEnds
    BY <1>14 DEF HyprShutdownEnds
<1>15. CASE HyprNetTests
    BY <1>15 DEF HyprNetTests
<1>16. CASE HyprNetDialFails
    BY <1>16 DEF HyprNetDialFails
<1>17. CASE HyprNetWaits
    BY <1>17 DEF HyprNetWaits
<1>18. CASE HyprNetDials
    BY <1>18 DEF HyprNetDials
<1>19. CASE HyprNetStores
    BY <1>19 DEF HyprNetStores
<1>20. CASE HyprNetAnnounces
    BY <1>20 DEF HyprNetAnnounces
<1>21. CASE HyprNetRetests
    BY <1>21 DEF HyprNetRetests
<1>22. CASE HyprNetReads
    BY <1>22 DEF HyprNetReads
<1>23. CASE HyprNetReadEnds
    BY <1>23 DEF HyprNetReadEnds
<1>24. CASE HyprNetLeaves
    BY <1>24 DEF HyprNetLeaves
<1>25. CASE HyprNetCloses
    BY <1>25 DEF HyprNetCloses
<1>26. CASE HyprNetSaysGoodbye
    BY <1>26 DEF HyprNetSaysGoodbye
<1>27. ASSUME NEW j \in HyprIds, HyprJobDials(j) PROVE HyprPlaceType'
    BY <1>27 DEF HyprJobDials
<1>28. ASSUME NEW j \in HyprIds, HyprJobRegisters(j) PROVE HyprPlaceType'
    BY <1>28 DEF HyprJobRegisters
<1>29. ASSUME NEW j \in HyprIds, HyprJobUnregisters(j) PROVE HyprPlaceType'
    BY <1>29 DEF HyprJobUnregisters
<1>30. ASSUME NEW j \in HyprIds, HyprJobReports(j) PROVE HyprPlaceType'
    BY <1>30 DEF HyprJobReports
<1>31. ASSUME NEW j \in HyprIds, HyprJobPushes(j) PROVE HyprPlaceType'
    BY <1>31 DEF HyprJobPushes
<1>32. CASE HyprServerSpeaks
    BY <1>32 DEF HyprServerSpeaks
<1>33. CASE HyprServerLeaves
    BY <1>33 DEF HyprServerLeaves
<1>34. CASE UNCHANGED hyprVars
    BY <1>34 DEF hyprVars
<1> QED
    BY <1>1, <1>2, <1>3, <1>4, <1>5, <1>6, <1>7, <1>8, <1>9, <1>10, <1>11, <1>12, <1>13,
       <1>14, <1>15, <1>16, <1>17, <1>18, <1>19, <1>20, <1>21, <1>22, <1>23, <1>24, <1>25,
       <1>26, <1>27, <1>28, <1>29, <1>30, <1>31, <1>32, <1>33, <1>34
    DEF HyprNext, HyprScriptSteps, HyprHostSteps, HyprNetSteps, HyprJobSteps

\* Places of the script thread.
LEMMA HyprHookStep ==
    ASSUME HyprFlagsType, HyprHookInv, [HyprNext]_hyprVars
    PROVE  HyprHookInv'
<1> USE DEF HyprFlagsType, HyprHookInv, HyprInScript, hyprScript, hyprFlags, hyprBus, hyprJobs
<1>1. CASE HyprConnect
    BY <1>1 DEF HyprConnect
<1>2. CASE HyprOn
    BY <1>2 DEF HyprOn
<1>3. CASE HyprOff
    BY <1>3 DEF HyprOff
<1>4. CASE HyprSend
    BY <1>4 DEF HyprSend
<1>5. CASE HyprShutdown
    BY <1>5 DEF HyprShutdown
<1>6. CASE HyprUpdate
    BY <1>6 DEF HyprUpdate
<1>7. CASE HyprDispatch
    BY <1>7 DEF HyprDispatch
<1>8. CASE HyprCallbackReturns
    BY <1>8 DEF HyprCallbackReturns
<1>9. CASE HyprTakeResults
    BY <1>9 DEF HyprTakeResults
<1>10. CASE HyprSettle
    BY <1>10 DEF HyprSettle
<1>11. CASE HyprUpdateEnds
    BY <1>11 DEF HyprUpdateEnds
<1>12. CASE HyprShutdownLoads
    BY <1>12 DEF HyprShutdownLoads
<1>13. CASE HyprShutdownCuts
    BY <1>13 DEF HyprShutdownCuts
<1>14. CASE HyprShutdownEnds
    BY <1>14 DEF HyprShutdownEnds
<1>15. CASE HyprNetSteps
    BY <1>15, HyprNetFrame
<1>16. ASSUME NEW j \in HyprIds, HyprJobSteps(j) PROVE HyprHookInv'
    BY <1>16, HyprJobFrame
<1>17. CASE HyprServerSpeaks \/ HyprServerLeaves
    BY <1>17, HyprServerFrame
<1>18. CASE UNCHANGED hyprVars
    BY <1>18 DEF hyprVars
<1> QED
    BY <1>1, <1>2, <1>3, <1>4, <1>5, <1>6, <1>7, <1>8, <1>9, <1>10, <1>11, <1>12, <1>13,
       <1>14, <1>15, <1>16, <1>17, <1>18
    DEF HyprNext, HyprScriptSteps, HyprHostSteps

\* Pending promises.
LEMMA HyprPromiseStep ==
    ASSUME HyprTypeOK, HyprHookInv, HyprNoPromiseForgotten, [HyprNext]_hyprVars
    PROVE  HyprNoPromiseForgotten'
<1> USE DEF HyprNoPromiseForgotten, hyprScript, hyprFlags, hyprBus, hyprJobs
<1>1. CASE HyprConnect
    BY <1>1 DEF HyprConnect
<1>2. CASE HyprOn
    BY <1>2 DEF HyprOn
<1>3. CASE HyprOff
    BY <1>3 DEF HyprOff
<1>4. CASE HyprSend
    <2>1. /\ hyprPromises' = hyprPromises \cup {hyprNextId}
          /\ hyprJob' = [hyprJob EXCEPT ![hyprNextId] = "dial"]
          /\ UNCHANGED <<hyprResults, hyprCompleted, hyprStopping>>
        BY <1>4 DEF HyprSend
    <2>2. hyprNextId \in HyprIds /\ DOMAIN hyprJob = HyprIds
        BY <1>4 DEF HyprSend, HyprTypeOK
    <2>3. hyprJob'[hyprNextId] = "dial"
        BY <2>1, <2>2
    <2>4. \A i \in hyprPromises : i # hyprNextId => hyprJob'[i] = hyprJob[i]
        BY <2>1, <2>2
    <2> QED
        BY <2>1, <2>3, <2>4
<1>5. CASE HyprShutdown
    BY <1>5 DEF HyprShutdown
<1>6. CASE HyprUpdate
    BY <1>6 DEF HyprUpdate
<1>7. CASE HyprDispatch
    BY <1>7 DEF HyprDispatch
<1>8. CASE HyprCallbackReturns
    BY <1>8 DEF HyprCallbackReturns
<1>9. CASE HyprTakeResults
    BY <1>9 DEF HyprTakeResults, HyprHookInv
<1>10. CASE HyprSettle
    <2>1. hyprCompleted \in Seq(HyprIds) /\ hyprCompleted # <<>>
        BY <1>10 DEF HyprSettle, HyprTypeOK
    <2>2. \A i \in DOMAIN hyprCompleted :
             hyprCompleted[i] # Head(hyprCompleted)
             => i - 1 \in DOMAIN Tail(hyprCompleted) /\ i - 1 + 1 = i
        BY <2>1
    <2>3. \A k \in DOMAIN Tail(hyprCompleted) : Tail(hyprCompleted)[k] = hyprCompleted[k + 1]
        BY <2>1
    <2>4. \A i \in DOMAIN hyprCompleted : hyprCompleted[i] # Head(hyprCompleted)
            => \E k \in DOMAIN Tail(hyprCompleted) : Tail(hyprCompleted)[k] = hyprCompleted[i]
        BY ONLY <2>2, <2>3
    <2> QED
        BY <1>10, <2>4 DEF HyprSettle
<1>11. CASE HyprUpdateEnds
    BY <1>11 DEF HyprUpdateEnds
<1>12. CASE HyprShutdownLoads
    BY <1>12 DEF HyprShutdownLoads
<1>13. CASE HyprShutdownCuts
    BY <1>13 DEF HyprShutdownCuts
<1>14. CASE HyprShutdownEnds
    BY <1>14 DEF HyprShutdownEnds, HyprHookInv
<1>15. CASE HyprNetSteps
    BY <1>15, HyprNetFrame
<1>16. ASSUME NEW j \in HyprIds, HyprJobDials(j) PROVE HyprNoPromiseForgotten'
    BY <1>16 DEF HyprJobDials, HyprTypeOK
<1>17. ASSUME NEW j \in HyprIds, HyprJobRegisters(j) PROVE HyprNoPromiseForgotten'
    BY <1>17 DEF HyprJobRegisters, HyprTypeOK
<1>18. ASSUME NEW j \in HyprIds, HyprJobUnregisters(j) PROVE HyprNoPromiseForgotten'
    BY <1>18 DEF HyprJobUnregisters, HyprTypeOK
<1>19. ASSUME NEW j \in HyprIds, HyprJobReports(j) PROVE HyprNoPromiseForgotten'
    BY <1>19 DEF HyprJobReports, HyprTypeOK
<1>20. ASSUME NEW j \in HyprIds, HyprJobPushes(j) PROVE HyprNoPromiseForgotten'
    <2>1. hyprResults \in Seq(HyprIds) /\ j \in HyprIds
        BY DEF HyprTypeOK
    <2>2. /\ Len(Append(hyprResults, j)) = Len(hyprResults) + 1
          /\ DOMAIN Append(hyprResults, j) = 1..(Len(hyprResults) + 1)
          /\ DOMAIN hyprResults = 1..Len(hyprResults) /\ Len(hyprResults) \in Nat
          /\ Append(hyprResults, j)[Len(hyprResults) + 1] = j
          /\ \A i \in 1..Len(hyprResults) : Append(hyprResults, j)[i] = hyprResults[i]
        BY ONLY <2>1, AppendProperties, LenProperties
    <2>3. /\ \E i \in DOMAIN Append(hyprResults, j) : Append(hyprResults, j)[i] = j
          /\ \A i \in DOMAIN hyprResults : /\ i \in DOMAIN Append(hyprResults, j)
                                           /\ Append(hyprResults, j)[i] = hyprResults[i]
        BY ONLY <2>2
    <2>4. /\ UNCHANGED <<hyprPromises, hyprStopping, hyprCompleted>>
          /\ hyprResults' = Append(hyprResults, j)
          /\ hyprJob' = [hyprJob EXCEPT ![j] = "done"]
        BY ONLY <1>20 DEF HyprJobPushes, hyprScript, hyprFlags, hyprBus
    <2>5. DOMAIN hyprJob = HyprIds /\ hyprPromises \subseteq HyprIds
        BY ONLY HyprTypeOK DEF HyprTypeOK
    <2>6. \A k \in hyprPromises : k # j => hyprJob'[k] = hyprJob[k]
        BY ONLY <2>4, <2>5
    <2> QED
        BY ONLY <2>3, <2>4, <2>6, HyprNoPromiseForgotten DEF HyprNoPromiseForgotten
<1>21. CASE HyprServerSpeaks \/ HyprServerLeaves
    BY <1>21, HyprServerFrame
<1>22. CASE UNCHANGED hyprVars
    BY <1>22 DEF hyprVars
<1> QED
    BY <1>1, <1>2, <1>3, <1>4, <1>5, <1>6, <1>7, <1>8, <1>9, <1>10, <1>11, <1>12, <1>13,
       <1>14, <1>15, <1>16, <1>17, <1>18, <1>19, <1>20, <1>21, <1>22
    DEF HyprNext, HyprScriptSteps, HyprHostSteps, HyprJobSteps

\* The last connection change.
LEMMA HyprLastStep ==
    ASSUME HyprTypeOK, HyprHookInv, HyprLastInv, [HyprNext]_hyprVars
    PROVE  HyprLastInv'
<1> USE DEF HyprLastInv, HyprBetween, HyprInScript, hyprScript, hyprFlags, hyprBus, hyprJobs
<1>1. CASE HyprConnect
    BY <1>1 DEF HyprConnect, HyprHookInv
<1>2. CASE HyprOn
    BY <1>2 DEF HyprOn
<1>3. CASE HyprOff
    BY <1>3 DEF HyprOff, HyprHookInv
<1>4. CASE HyprSend
    BY <1>4 DEF HyprSend
<1>5. CASE HyprShutdown
    BY <1>5 DEF HyprShutdown
<1>6. CASE HyprUpdate
    BY <1>6 DEF HyprUpdate, HyprHookInv
<1>7. CASE HyprDispatch
    <2>1. hyprBatch \in Seq(HyprEvent) /\ hyprBatch # <<>>
        BY <1>7 DEF HyprDispatch, HyprTypeOK
    <2>2. Tail(hyprBatch) = <<>> => Last(hyprBatch) = Head(hyprBatch)
        BY ONLY <2>1, HeadTailProperties, EmptySeq, LenProperties DEF Last
    <2>3. Tail(hyprBatch) # <<>> => Last(Tail(hyprBatch)) = Last(hyprBatch)
        BY ONLY <2>1, HeadTailProperties, EmptySeq, LenProperties DEF Last
    <2>4. /\ hyprBatch' = Tail(hyprBatch)
          /\ hyprHeard' = IF hyprSubscribed /\ Head(hyprBatch) # "line" THEN Head(hyprBatch)
                                                                       ELSE hyprHeard
          /\ UNCHANGED <<hyprEvents, hyprNet, hyprStopping>>
        BY <1>7 DEF HyprDispatch
    <2>5. ~hyprStopping /\ Head(hyprBatch) = "disconnected" => hyprHeard' # "connected"
        BY <2>4 DEF HyprHookInv
    <2> QED
        BY <2>1, <2>2, <2>3, <2>4, <2>5
<1>8. CASE HyprCallbackReturns
    BY <1>8 DEF HyprCallbackReturns
<1>9. CASE HyprTakeResults
    BY <1>9 DEF HyprTakeResults
<1>10. CASE HyprSettle
    BY <1>10 DEF HyprSettle
<1>11. CASE HyprUpdateEnds
    BY <1>11 DEF HyprUpdateEnds
<1>12. CASE HyprShutdownLoads
    BY <1>12 DEF HyprShutdownLoads
<1>13. CASE HyprShutdownCuts
    BY <1>13 DEF HyprShutdownCuts
<1>14. CASE HyprShutdownEnds
    BY <1>14 DEF HyprShutdownEnds, HyprHookInv
<1>15. CASE HyprNetTests
    BY <1>15 DEF HyprNetTests
<1>16. CASE HyprNetDialFails
    BY <1>16 DEF HyprNetDialFails
<1>17. CASE HyprNetWaits
    BY <1>17 DEF HyprNetWaits
<1>18. CASE HyprNetDials
    BY <1>18 DEF HyprNetDials
<1>19. CASE HyprNetStores
    BY <1>19 DEF HyprNetStores
<1>20. CASE HyprNetAnnounces
    BY <1>20 DEF HyprNetAnnounces
<1>21. CASE HyprNetRetests
    BY <1>21 DEF HyprNetRetests
<1>22. CASE HyprNetReads
    BY <1>22 DEF HyprNetReads
<1>23. CASE HyprNetReadEnds
    BY <1>23 DEF HyprNetReadEnds
<1>24. CASE HyprNetLeaves
    BY <1>24 DEF HyprNetLeaves
<1>25. CASE HyprNetCloses
    BY <1>25 DEF HyprNetCloses, HyprHookInv
<1>26. CASE HyprNetSaysGoodbye
    <2>1. "disconnected" \in HyprEvent /\ HyprQueueType
        BY HyprTypeParts DEF HyprEvent
    <2> QED
        BY <1>26, <2>1, HyprPushProperties, HyprBoundsAssumption DEF HyprNetSaysGoodbye
<1>27. ASSUME NEW j \in HyprIds, HyprJobSteps(j) PROVE HyprLastInv'
    BY <1>27, HyprJobFrame
<1>28. CASE HyprServerSpeaks \/ HyprServerLeaves
    BY <1>28, HyprServerFrame
<1>29. CASE UNCHANGED hyprVars
    BY <1>29 DEF hyprVars
<1> QED
    BY <1>1, <1>2, <1>3, <1>4, <1>5, <1>6, <1>7, <1>8, <1>9, <1>10, <1>11, <1>12, <1>13,
       <1>14, <1>15, <1>16, <1>17, <1>18, <1>19, <1>20, <1>21, <1>22, <1>23, <1>24, <1>25,
       <1>26, <1>27, <1>28, <1>29
    DEF HyprNext, HyprScriptSteps, HyprHostSteps, HyprNetSteps

\* The invariant holds initially and every step preserves it.
THEOREM HyprInvariance == HyprSpec => []HyprIInv
<1>1. HyprIInv /\ [HyprNext]_hyprVars => HyprTypeOK'
    <2> SUFFICES ASSUME HyprIInv, [HyprNext]_hyprVars PROVE HyprTypeOK'
        OBVIOUS
    <2>1. HyprFlagsType /\ HyprLinkType /\ HyprQueueType /\ HyprPlaceType
        BY HyprTypeParts DEF HyprIInv
    <2>2. HyprFlagsType' /\ HyprLinkType' /\ HyprQueueType' /\ HyprPlaceType'
        BY <2>1, HyprFlagsStep, HyprLinkStep, HyprQueueStep, HyprPlaceStep
    <2> QED
        BY <2>2, HyprTypeParts, PTL
<1>2. HyprIInv /\ [HyprNext]_hyprVars => HyprHookInv'
    BY HyprHookStep, HyprTypeParts DEF HyprIInv
<1>3. HyprIInv /\ [HyprNext]_hyprVars => HyprIInv'
    BY <1>1, <1>2, HyprPromiseStep, HyprLastStep DEF HyprIInv
<1> QED
    BY <1>3, HyprInitInv, PTL DEF HyprSpec

\* The state of the hypr plugin is well formed.
THEOREM HyprTypeCorrect == HyprSpec => []HyprTypeOK
<1>1. HyprIInv => HyprTypeOK
    BY DEF HyprIInv
<1> QED
    BY <1>1, HyprInvariance, PTL

\* Every pending promise of send() and json() will be settled by somebody
\* (enqueue_job_promise, hypr_update_callback).
THEOREM PromisesKept == HyprSpec => []HyprNoPromiseForgotten
<1>1. HyprIInv => HyprNoPromiseForgotten
    BY DEF HyprIInv
<1> QED
    BY <1>1, HyprInvariance, PTL

\* However full the queue, a script last told "connected" is (event_loop,
\* dispatch_events).
THEOREM ConnectionReal == HyprSpec => []HyprConnectionIsReal
<1>1. HyprIInv => HyprConnectionIsReal
    <2> SUFFICES ASSUME HyprIInv, ~hyprStopping, ~HyprBetween, hyprHeard = "connected",
                        \A i \in DOMAIN hyprBatch : hyprBatch[i] # "disconnected",
                        \A i \in DOMAIN hyprEvents : hyprEvents[i] # "disconnected"
                 PROVE  FALSE
        BY DEF HyprConnectionIsReal, HyprBetween
    <2>1. hyprBatch \in Seq(HyprEvent) /\ hyprEvents \in Seq(HyprEvent)
        BY DEF HyprIInv, HyprTypeOK
    <2>2. hyprEvents = <<>>
        BY <2>1 DEF HyprIInv, HyprLastInv, Last
    <2>3. hyprBatch = <<>>
        BY <2>1, <2>2 DEF HyprIInv, HyprLastInv, Last
    <2> QED
        BY <2>2, <2>3 DEF HyprIInv, HyprLastInv
<1> QED
    BY <1>1, HyprInvariance, PTL

-----------------------------------------------------------------------------
(* sqlite: what close() takes away                                         *)

\* A worker that has seen a job or the end finds it, and what it holds was called for.
SqlHandsInv ==
    /\ sqlWorker.pc = "chosen" /\ sqlRunning => sqlJobs # <<>>
    /\ sqlWorker.pc \in {"lookup", "prepare", "stepping", "post"}
       => sqlWorker.job \in SqlJobIds /\ sqlDb[sqlWorker.job] # 0
    /\ \A i \in 1..Len(sqlJobs) : sqlDb[sqlJobs[i]] # 0
    /\ sqlJs.pc = "close" => sqlJs.db # 0

\* What is in the map is open, what is to be opened is untouched, and what close() has
\* taken from the map it has still to close.
SqlHandleInv ==
    /\ \A d \in sqlDbs : sqlHandle[d] = "open" /\ d < sqlNextDb
    /\ \A d \in SqlDbIds : d >= sqlNextDb => sqlHandle[d] = "none"
    /\ sqlJs.pc = "close" => sqlHandle[sqlJs.db] = "open" /\ sqlJs.db \notin sqlDbs

\* A job that used a freed database keeps it freed: no job looked up later gets it, and
\* the one in the worker's hands is the only one that may have it.
SqlStaleInv ==
    /\ \A j \in sqlStale : sqlDb[j] # 0 /\ sqlHandle[sqlDb[j]] = "freed"
    /\ \A i, j \in sqlStale : sqlDb[i] = sqlDb[j] => i = j
    /\ sqlWorker.pc \in {"prepare", "stepping"}
       => \A j \in sqlStale : sqlDb[j] = sqlDb[sqlWorker.job] => j = sqlWorker.job

SqlIInv == SqlTypeOK /\ SqlHandsInv /\ SqlHandleInv /\ SqlStaleInv

\* The type invariant in two parts: the flag, and the rest.
SqlRunType == sqlRunning \in BOOLEAN

SqlDataType ==
    /\ sqlJs \in [pc : {"script", "close", "notify", "wake", "join", "over"},
                  db : 0..SqlMaxDbs]
    /\ sqlWorker \in [pc : {"none", "check", "test", "parking", "asleep", "chosen", "lookup",
                            "prepare", "stepping", "post", "done"}, job : 0..SqlMaxJobs]
    /\ sqlJobs \in Seq(SqlJobIds) /\ sqlDone \in Seq(SqlJobIds)
    /\ sqlDbs \in SUBSET SqlDbIds
    /\ sqlHandle \in [SqlDbIds -> {"none", "open", "freed", "leaked"}]
    /\ sqlNextDb \in 1..(SqlMaxDbs + 1)
    /\ sqlDb \in [SqlJobIds -> 0..SqlMaxDbs]
    /\ sqlSettled \in SUBSET SqlJobIds /\ sqlStale \in SUBSET SqlJobIds

LEMMA SqlTypeParts == SqlTypeOK <=> SqlRunType /\ SqlDataType
BY Zenon DEF SqlTypeOK, SqlRunType, SqlDataType

LEMMA SqlInitInv == SqlInit => SqlIInv
<1> SUFFICES ASSUME SqlInit PROVE SqlIInv
    OBVIOUS
<1> USE SqlBoundsAssumption DEF SqlInit, SqlAt, SqlBusy, SqlDbIds, SqlJobIds
<1>1. SqlTypeOK
    <2>1. SqlRunType
        BY DEF SqlRunType
    <2>2. SqlDataType
        BY DEF SqlDataType
    <2> QED
        BY <2>1, <2>2, SqlTypeParts
<1>2. SqlHandsInv
    BY DEF SqlHandsInv
<1>3. SqlHandleInv
    BY DEF SqlHandleInv
<1>4. SqlStaleInv
    BY DEF SqlStaleInv
<1> QED
    BY <1>1, <1>2, <1>3, <1>4 DEF SqlIInv

\* Well-formedness of the flag.
LEMMA SqlRunStep ==
    ASSUME SqlRunType, [SqlNext]_sqlVars
    PROVE  SqlRunType'
<1> USE DEF SqlRunType, sqlData, sqlTold
<1>1. CASE SqlOpen
    BY <1>1 DEF SqlOpen
<1>2. ASSUME NEW d \in SqlDbIds, SqlClose(d) PROVE SqlRunType'
    BY <1>2 DEF SqlClose
<1>3. CASE SqlCloses
    BY <1>3 DEF SqlCloses
<1>4. ASSUME NEW d \in SqlDbIds, SqlCall(d) PROVE SqlRunType'
    BY <1>4 DEF SqlCall
<1>5. CASE SqlNotify
    BY <1>5 DEF SqlNotify
<1>6. CASE SqlUpdate
    BY <1>6 DEF SqlUpdate
<1>7. CASE SqlShutdown
    BY <1>7 DEF SqlShutdown
<1>8. CASE SqlShutdownWakes
    BY <1>8 DEF SqlShutdownWakes
<1>9. CASE SqlShutdownEnds
    BY <1>9 DEF SqlShutdownEnds
<1>10. CASE SqlWorkerChecks
    BY <1>10 DEF SqlWorkerChecks
<1>11. CASE SqlWorkerTests
    BY <1>11 DEF SqlWorkerTests
<1>12. CASE SqlWorkerParks
    BY <1>12 DEF SqlWorkerParks
<1>13. CASE SqlWorkerTakes
    BY <1>13 DEF SqlWorkerTakes
<1>14. CASE SqlWorkerLooksUp
    BY <1>14 DEF SqlWorkerLooksUp
<1>15. CASE SqlWorkerUses
    BY <1>15 DEF SqlWorkerUses
<1>16. CASE SqlWorkerPosts
    BY <1>16 DEF SqlWorkerPosts
<1>17. CASE SqlWorkerWakesSpuriously
    BY <1>17 DEF SqlWorkerWakesSpuriously
<1>18. CASE UNCHANGED sqlVars
    BY <1>18 DEF sqlVars
<1> QED
    BY <1>1, <1>2, <1>3, <1>4, <1>5, <1>6, <1>7, <1>8, <1>9, <1>10, <1>11, <1>12,
       <1>13, <1>14, <1>15, <1>16, <1>17, <1>18
    DEF SqlNext, SqlScriptSteps, SqlHostSteps, SqlWorkerSteps

\* Well-formedness of the rest.
LEMMA SqlDataStep ==
    ASSUME SqlDataType, SqlHandsInv, [SqlNext]_sqlVars
    PROVE  SqlDataType'
<1> USE SqlBoundsAssumption DEF SqlDataType, SqlDbIds, SqlJobIds, SqlAt, SqlBusy,
    SqlNotified, sqlData, sqlTold
<1>1. CASE SqlOpen
    BY <1>1 DEF SqlOpen
<1>2. ASSUME NEW d \in SqlDbIds, SqlClose(d) PROVE SqlDataType'
    BY <1>2 DEF SqlClose
<1>3. CASE SqlCloses
    <2>1. sqlJs.db \in 0..SqlMaxDbs /\ sqlJs' \in [pc : {"script"}, db : {0}]
        BY <1>3 DEF SqlCloses
    <2>2. sqlHandle' \in [SqlDbIds -> {"none", "open", "freed", "leaked"}]
        <3>1. CASE SqlHasStatement(sqlJs.db)
            BY ONLY <1>3, <3>1, sqlHandle \in [SqlDbIds -> {"none", "open", "freed", "leaked"}]
               DEF SqlCloses
        <3>2. CASE ~SqlHasStatement(sqlJs.db)
            BY ONLY <1>3, <3>2, sqlHandle \in [SqlDbIds -> {"none", "open", "freed", "leaked"}]
               DEF SqlCloses
        <3> QED
            BY ONLY <3>1, <3>2
    <2> QED
        BY <1>3, <2>1, <2>2 DEF SqlCloses
<1>4. ASSUME NEW d \in SqlDbIds, SqlCall(d) PROVE SqlDataType'
    <2>1. PICK j \in SqlJobIds : /\ sqlDb' = [sqlDb EXCEPT ![j] = d]
                                /\ sqlJobs' = Append(sqlJobs, j)
        BY <1>4 DEF SqlCall
    <2>2. sqlJobs' \in Seq(SqlJobIds) /\ sqlDb' \in [SqlJobIds -> 0..SqlMaxDbs]
        BY <2>1
    <2> QED
        BY <1>4, <2>2 DEF SqlCall, SqlBusy, SqlAt
<1>5. CASE SqlNotify
    <2>1. CASE sqlWorker.pc = "asleep"
        <3>1. sqlWorker' = [sqlWorker EXCEPT !.pc = "test"]
            BY <1>5, <2>1 DEF SqlNotify
        <3>2. sqlWorker' \in [pc : {"test"}, job : 0..SqlMaxJobs]
            BY <3>1
        <3>3. sqlJs' \in [pc : {"script", "join"}, db : {0}]
            BY <1>5 DEF SqlNotify
        <3>4. UNCHANGED <<sqlJobs, sqlDone, sqlDbs, sqlHandle, sqlNextDb, sqlDb, sqlSettled,
            sqlStale>>
            BY <1>5 DEF SqlNotify
        <3> QED
            BY <3>2, <3>3, <3>4
    <2>2. CASE sqlWorker.pc # "asleep"
        <3>1. sqlWorker' = sqlWorker
            BY <1>5, <2>2 DEF SqlNotify
        <3> QED
            BY <1>5, <3>1 DEF SqlNotify
    <2> QED
        BY <2>1, <2>2
<1>6. CASE SqlUpdate
    <2>1. \A i \in DOMAIN sqlDone : sqlDone[i] \in SqlJobIds
        <3>1. sqlDone \in Seq(SqlJobIds) /\ DOMAIN sqlDone = 1..Len(sqlDone)
            OBVIOUS
        <3> QED
            BY ONLY <3>1, ElementOfSeq
    <2>2. sqlSettled' \in SUBSET SqlJobIds
        BY ONLY <1>6, <2>1, sqlSettled \in SUBSET SqlJobIds DEF SqlUpdate
    <2>3. /\ UNCHANGED <<sqlJs, sqlWorker, sqlJobs, sqlDbs, sqlHandle, sqlNextDb, sqlDb, sqlStale>>
          /\ sqlDone' = <<>>
        BY ONLY <1>6 DEF SqlUpdate, sqlData
    <2> QED
        BY ONLY <2>2, <2>3, SqlDataType DEF SqlDataType
<1>7. CASE SqlShutdown
    BY <1>7 DEF SqlShutdown
<1>8. CASE SqlShutdownWakes
    <2>1. CASE sqlWorker.pc = "asleep"
        <3>1. sqlWorker' = [sqlWorker EXCEPT !.pc = "test"]
            BY <1>8, <2>1 DEF SqlShutdownWakes
        <3>2. sqlWorker' \in [pc : {"test"}, job : 0..SqlMaxJobs]
            BY <3>1
        <3>3. sqlJs' \in [pc : {"script", "join"}, db : {0}]
            BY <1>8 DEF SqlShutdownWakes
        <3>4. UNCHANGED <<sqlJobs, sqlDone, sqlDbs, sqlHandle, sqlNextDb, sqlDb, sqlSettled,
            sqlStale>>
            BY <1>8 DEF SqlShutdownWakes
        <3> QED
            BY <3>2, <3>3, <3>4
    <2>2. CASE sqlWorker.pc # "asleep"
        <3>1. sqlWorker' = sqlWorker
            BY <1>8, <2>2 DEF SqlShutdownWakes
        <3> QED
            BY <1>8, <3>1 DEF SqlShutdownWakes
    <2> QED
        BY <2>1, <2>2
<1>9. CASE SqlShutdownEnds
    BY <1>9 DEF SqlShutdownEnds
<1>10. CASE SqlWorkerChecks
    BY <1>10 DEF SqlWorkerChecks
<1>11. CASE SqlWorkerTests
    BY <1>11 DEF SqlWorkerTests
<1>12. CASE SqlWorkerParks
    BY <1>12 DEF SqlWorkerParks
<1>13. CASE SqlWorkerTakes
    <2>1. CASE sqlRunning
        <3>1. sqlJobs # <<>>
            BY <1>13, <2>1 DEF SqlWorkerTakes, SqlHandsInv
        <3>2. Head(sqlJobs) \in SqlJobIds /\ Tail(sqlJobs) \in Seq(SqlJobIds)
            BY <3>1
        <3>3. sqlWorker' = [pc |-> "lookup", job |-> Head(sqlJobs)] /\ sqlJobs' = Tail(sqlJobs)
            BY <1>13, <2>1 DEF SqlWorkerTakes
        <3>4. Head(sqlJobs) \in 0..SqlMaxJobs
            BY <3>2
        <3>5. UNCHANGED <<sqlJs, sqlDone, sqlDbs, sqlHandle, sqlNextDb, sqlDb, sqlSettled,
            sqlStale>>
            BY <1>13 DEF SqlWorkerTakes
        <3>6. sqlWorker'.pc = "lookup" /\ sqlWorker' \in [pc : {"lookup"}, job : 0..SqlMaxJobs]
            BY ONLY <3>3, <3>4
        <3>7. sqlJobs' \in Seq(SqlJobIds)
            BY ONLY <3>2, <3>3
        <3> QED
            BY <3>5, <3>6, <3>7
    <2>2. CASE ~sqlRunning
        BY <1>13, <2>2 DEF SqlWorkerTakes
    <2> QED
        BY <2>1, <2>2
<1>14. CASE SqlWorkerLooksUp
    BY <1>14 DEF SqlWorkerLooksUp
<1>15. CASE SqlWorkerUses
    <2>1. sqlWorker.job \in SqlJobIds
        BY <1>15 DEF SqlWorkerUses, SqlHandsInv
    <2> QED
        BY <1>15, <2>1 DEF SqlWorkerUses
<1>16. CASE SqlWorkerPosts
    <2>1. sqlDone' \in Seq(SqlJobIds)
        BY <1>16 DEF SqlWorkerPosts, SqlHandsInv
    <2> QED
        BY <1>16, <2>1 DEF SqlWorkerPosts
<1>17. CASE SqlWorkerWakesSpuriously
    BY <1>17 DEF SqlWorkerWakesSpuriously
<1>18. CASE UNCHANGED sqlVars
    BY <1>18 DEF sqlVars
<1> QED
    BY <1>1, <1>2, <1>3, <1>4, <1>5, <1>6, <1>7, <1>8, <1>9, <1>10, <1>11, <1>12,
       <1>13, <1>14, <1>15, <1>16, <1>17, <1>18
    DEF SqlNext, SqlScriptSteps, SqlHostSteps, SqlWorkerSteps

\* Jobs and hands.
LEMMA SqlHandsStep ==
    ASSUME SqlTypeOK, SqlHandsInv, [SqlNext]_sqlVars
    PROVE  SqlHandsInv'
<1> USE SqlBoundsAssumption DEF SqlTypeOK, SqlHandsInv, SqlDbIds, SqlJobIds, SqlAt, SqlBusy,
    SqlNotified, SqlJobMutexFree, sqlData, sqlTold
<1>1. CASE SqlOpen
    BY <1>1 DEF SqlOpen
<1>2. ASSUME NEW d \in SqlDbIds, SqlClose(d) PROVE SqlHandsInv'
    BY <1>2 DEF SqlClose
<1>3. CASE SqlCloses
    BY <1>3 DEF SqlCloses
<1>4. ASSUME NEW d \in SqlDbIds, SqlCall(d) PROVE SqlHandsInv'
    <2>1. PICK j \in SqlJobIds : /\ sqlDb[j] = 0
                                /\ sqlDb' = [sqlDb EXCEPT ![j] = d]
                                /\ sqlJobs' = Append(sqlJobs, j)
        BY <1>4 DEF SqlCall
    <2>2. sqlJobs' # <<>> /\ Len(sqlJobs') = Len(sqlJobs) + 1 /\ sqlJobs'[Len(sqlJobs')] = j
        <3>1. sqlJobs \in Seq(SqlJobIds) /\ j \in SqlJobIds
            OBVIOUS
        <3> QED
            BY ONLY <2>1, <3>1, AppendProperties
    <2>3. \A i \in 1..Len(sqlJobs) : sqlJobs'[i] = sqlJobs[i]
        <3>1. sqlJobs \in Seq(SqlJobIds) /\ j \in SqlJobIds
            OBVIOUS
        <3> QED
            BY ONLY <2>1, <3>1, AppendProperties
    <2>4. \A i \in SqlJobIds : sqlDb[i] # 0 => sqlDb'[i] # 0
        BY <2>1
    <2>5. sqlDb'[j] # 0
        BY <2>1
    <2>6. Len(sqlJobs) \in Nat /\ \A i \in 1..Len(sqlJobs) : sqlJobs[i] \in SqlJobIds
        OBVIOUS
    <2>7. \A i \in 1..Len(sqlJobs') : sqlDb'[sqlJobs'[i]] # 0
        BY ONLY <2>2, <2>3, <2>4, <2>5, <2>6, \A i \in 1..Len(sqlJobs) : sqlDb[sqlJobs[i]] # 0
    <2> QED
        BY <1>4, <2>2, <2>4, <2>7 DEF SqlCall
<1>5. CASE SqlNotify
    BY <1>5 DEF SqlNotify
<1>6. CASE SqlUpdate
    BY <1>6 DEF SqlUpdate
<1>7. CASE SqlShutdown
    BY <1>7 DEF SqlShutdown
<1>8. CASE SqlShutdownWakes
    BY <1>8 DEF SqlShutdownWakes
<1>9. CASE SqlShutdownEnds
    BY <1>9 DEF SqlShutdownEnds
<1>10. CASE SqlWorkerChecks
    BY <1>10 DEF SqlWorkerChecks
<1>11. CASE SqlWorkerTests
    BY <1>11 DEF SqlWorkerTests
<1>12. CASE SqlWorkerParks
    BY <1>12 DEF SqlWorkerParks
<1>13. CASE SqlWorkerTakes
    <2>1. CASE sqlRunning
        <3>1. sqlJobs # <<>>
            BY <1>13, <2>1 DEF SqlWorkerTakes
        <3>2. Head(sqlJobs) \in SqlJobIds /\ Head(sqlJobs) = sqlJobs[1] /\ Len(sqlJobs) >= 1
            BY <3>1
        <3>3. Len(Tail(sqlJobs)) = Len(sqlJobs) - 1
            BY <3>1
        <3>4. \A i \in 1..Len(Tail(sqlJobs)) : Tail(sqlJobs)[i] = sqlJobs[i + 1]
            BY <3>1
        <3>5. \A i \in 1..Len(Tail(sqlJobs)) : sqlDb[Tail(sqlJobs)[i]] # 0
            BY <3>2, <3>3, <3>4
        <3>6. sqlWorker' = [pc |-> "lookup", job |-> Head(sqlJobs)] /\ sqlJobs' = Tail(sqlJobs)
            BY <1>13, <2>1 DEF SqlWorkerTakes
        <3>7. UNCHANGED <<sqlJs, sqlDb>>
            BY <1>13 DEF SqlWorkerTakes
        <3>8. sqlDb[Head(sqlJobs)] # 0
            BY <3>2
        <3> QED
            BY <3>2, <3>5, <3>6, <3>7, <3>8
    <2>2. CASE ~sqlRunning
        BY <1>13, <2>2 DEF SqlWorkerTakes
    <2> QED
        BY <2>1, <2>2
<1>14. CASE SqlWorkerLooksUp
    BY <1>14 DEF SqlWorkerLooksUp
<1>15. CASE SqlWorkerUses
    BY <1>15 DEF SqlWorkerUses
<1>16. CASE SqlWorkerPosts
    BY <1>16 DEF SqlWorkerPosts
<1>17. CASE SqlWorkerWakesSpuriously
    BY <1>17 DEF SqlWorkerWakesSpuriously
<1>18. CASE UNCHANGED sqlVars
    BY <1>18 DEF sqlVars
<1> QED
    BY <1>1, <1>2, <1>3, <1>4, <1>5, <1>6, <1>7, <1>8, <1>9, <1>10, <1>11, <1>12,
       <1>13, <1>14, <1>15, <1>16, <1>17, <1>18
    DEF SqlNext, SqlScriptSteps, SqlHostSteps, SqlWorkerSteps

\* Databases.
LEMMA SqlHandleStep ==
    ASSUME SqlTypeOK, SqlHandsInv, SqlHandleInv, [SqlNext]_sqlVars
    PROVE  SqlHandleInv'
<1> USE SqlBoundsAssumption DEF SqlTypeOK, SqlHandsInv, SqlHandleInv, SqlDbIds, SqlJobIds,
    SqlAt, SqlBusy, SqlNotified, sqlData, sqlTold
<1>1. CASE SqlOpen
    BY <1>1 DEF SqlOpen
<1>2. ASSUME NEW d \in SqlDbIds, SqlClose(d) PROVE SqlHandleInv'
    BY <1>2 DEF SqlClose
<1>3. CASE SqlCloses
    BY <1>3 DEF SqlCloses
<1>4. ASSUME NEW d \in SqlDbIds, SqlCall(d) PROVE SqlHandleInv'
    BY <1>4 DEF SqlCall
<1>5. CASE SqlNotify
    BY <1>5 DEF SqlNotify
<1>6. CASE SqlUpdate
    BY <1>6 DEF SqlUpdate
<1>7. CASE SqlShutdown
    BY <1>7 DEF SqlShutdown
<1>8. CASE SqlShutdownWakes
    BY <1>8 DEF SqlShutdownWakes
<1>9. CASE SqlShutdownEnds
    BY <1>9 DEF SqlShutdownEnds
<1>10. CASE SqlWorkerChecks
    BY <1>10 DEF SqlWorkerChecks
<1>11. CASE SqlWorkerTests
    BY <1>11 DEF SqlWorkerTests
<1>12. CASE SqlWorkerParks
    BY <1>12 DEF SqlWorkerParks
<1>13. CASE SqlWorkerTakes
    BY <1>13 DEF SqlWorkerTakes
<1>14. CASE SqlWorkerLooksUp
    BY <1>14 DEF SqlWorkerLooksUp
<1>15. CASE SqlWorkerUses
    BY <1>15 DEF SqlWorkerUses
<1>16. CASE SqlWorkerPosts
    BY <1>16 DEF SqlWorkerPosts
<1>17. CASE SqlWorkerWakesSpuriously
    BY <1>17 DEF SqlWorkerWakesSpuriously
<1>18. CASE UNCHANGED sqlVars
    BY <1>18 DEF sqlVars
<1> QED
    BY <1>1, <1>2, <1>3, <1>4, <1>5, <1>6, <1>7, <1>8, <1>9, <1>10, <1>11, <1>12,
       <1>13, <1>14, <1>15, <1>16, <1>17, <1>18
    DEF SqlNext, SqlScriptSteps, SqlHostSteps, SqlWorkerSteps

\* Uses of freed databases.
LEMMA SqlStaleStep ==
    ASSUME SqlIInv, [SqlNext]_sqlVars
    PROVE  SqlStaleInv'
<1> USE SqlBoundsAssumption DEF SqlIInv, SqlTypeOK, SqlHandsInv, SqlHandleInv, SqlStaleInv,
    SqlDbIds, SqlJobIds, SqlAt, SqlBusy, SqlNotified, SqlJobMutexFree, sqlData, sqlTold
<1>1. CASE SqlOpen
    BY <1>1 DEF SqlOpen
<1>2. ASSUME NEW d \in SqlDbIds, SqlClose(d) PROVE SqlStaleInv'
    BY <1>2 DEF SqlClose
<1>3. CASE SqlCloses
    BY <1>3 DEF SqlCloses
<1>4. ASSUME NEW d \in SqlDbIds, SqlCall(d) PROVE SqlStaleInv'
    <2>1. PICK j \in SqlJobIds : sqlDb[j] = 0 /\ sqlDb' = [sqlDb EXCEPT ![j] = d]
        BY <1>4 DEF SqlCall
    <2>2. \A i \in SqlJobIds : sqlDb[i] # 0 => sqlDb'[i] = sqlDb[i]
        BY <2>1
    <2>3. UNCHANGED <<sqlStale, sqlHandle>>
        BY <1>4 DEF SqlCall
    <2>4. sqlWorker'.pc \in {"prepare", "stepping"} => sqlWorker' = sqlWorker
        BY <1>4 DEF SqlCall
    <2> QED
        BY <2>2, <2>3, <2>4
<1>5. CASE SqlNotify
    BY <1>5 DEF SqlNotify
<1>6. CASE SqlUpdate
    BY <1>6 DEF SqlUpdate
<1>7. CASE SqlShutdown
    BY <1>7 DEF SqlShutdown
<1>8. CASE SqlShutdownWakes
    BY <1>8 DEF SqlShutdownWakes
<1>9. CASE SqlShutdownEnds
    BY <1>9 DEF SqlShutdownEnds
<1>10. CASE SqlWorkerChecks
    BY <1>10 DEF SqlWorkerChecks
<1>11. CASE SqlWorkerTests
    BY <1>11 DEF SqlWorkerTests
<1>12. CASE SqlWorkerParks
    BY <1>12 DEF SqlWorkerParks
<1>13. CASE SqlWorkerTakes
    BY <1>13 DEF SqlWorkerTakes
<1>14. CASE SqlWorkerLooksUp
    BY <1>14 DEF SqlWorkerLooksUp
<1>15. CASE SqlWorkerUses
    BY <1>15 DEF SqlWorkerUses
<1>16. CASE SqlWorkerPosts
    BY <1>16 DEF SqlWorkerPosts
<1>17. CASE SqlWorkerWakesSpuriously
    BY <1>17 DEF SqlWorkerWakesSpuriously
<1>18. CASE UNCHANGED sqlVars
    BY <1>18 DEF sqlVars
<1> QED
    BY <1>1, <1>2, <1>3, <1>4, <1>5, <1>6, <1>7, <1>8, <1>9, <1>10, <1>11, <1>12,
       <1>13, <1>14, <1>15, <1>16, <1>17, <1>18
    DEF SqlNext, SqlScriptSteps, SqlHostSteps, SqlWorkerSteps

\* The invariant holds initially and every step preserves it.
THEOREM SqlInvariance == SqlSpec => []SqlIInv
<1>1. SqlIInv /\ [SqlNext]_sqlVars => SqlTypeOK'
    <2> SUFFICES ASSUME SqlIInv, [SqlNext]_sqlVars PROVE SqlTypeOK'
        OBVIOUS
    <2>1. SqlRunType /\ SqlDataType /\ SqlHandsInv
        BY SqlTypeParts DEF SqlIInv
    <2>2. SqlRunType' /\ SqlDataType'
        BY <2>1, SqlRunStep, SqlDataStep
    <2> QED
        BY <2>2, SqlTypeParts, PTL
<1>2. SqlIInv /\ [SqlNext]_sqlVars => SqlIInv'
    BY <1>1, SqlHandsStep, SqlHandleStep, SqlStaleStep DEF SqlIInv
<1> QED
    BY <1>2, SqlInitInv, PTL DEF SqlSpec

\* The state of the sqlite plugin is well formed.
THEOREM SqlTypeCorrect == SqlSpec => []SqlTypeOK
<1>1. SqlIInv => SqlTypeOK
    BY DEF SqlIInv
<1> QED
    BY <1>1, SqlInvariance, PTL

\* close() pulls a database from under at most one job (js_close, worker_thread_body).
THEOREM OneStaleUse == SqlSpec => []SqlOneStaleUse
<1>1. SqlIInv => SqlOneStaleUse
    BY DEF SqlIInv, SqlStaleInv, SqlOneStaleUse
<1> QED
    BY <1>1, SqlInvariance, PTL

-----------------------------------------------------------------------------
(* sqlite: the queue                                                       *)

\* What is under way is a line of jobs.
LEMMA SqlLineIs ==
    ASSUME SqlTypeOK, SqlHandsInv
    PROVE  /\ sqlDone \in Seq(SqlJobIds) /\ SqlInHand \in Seq(SqlJobIds)
           /\ sqlJobs \in Seq(SqlJobIds) /\ sqlDone \o SqlInHand \in Seq(SqlJobIds)
           /\ SqlLine \in Seq(SqlJobIds)
           /\ Len(SqlLine) = Len(sqlDone) + Len(SqlInHand) + Len(sqlJobs)
           /\ Len(sqlDone) \in Nat /\ Len(SqlInHand) \in Nat /\ Len(sqlJobs) \in Nat
<1>1. sqlDone \in Seq(SqlJobIds) /\ sqlJobs \in Seq(SqlJobIds)
    BY DEF SqlTypeOK
<1>2. SqlInHand \in Seq(SqlJobIds)
    BY DEF SqlInHand, SqlHandsInv
<1> DEFINE s == sqlDone \o SqlInHand
<1>3. s \in Seq(SqlJobIds) /\ Len(s) = Len(sqlDone) + Len(SqlInHand)
    BY <1>1, <1>2, ConcatProperties
<1>4. SqlLine = s \o sqlJobs
    BY DEF SqlLine
<1> HIDE DEF s
<1>5. SqlLine \in Seq(SqlJobIds) /\ Len(SqlLine) = Len(s) + Len(sqlJobs)
    BY <1>1, <1>3, <1>4, ConcatProperties
<1>6. Len(sqlDone) \in Nat /\ Len(SqlInHand) \in Nat /\ Len(sqlJobs) \in Nat
    BY <1>1, <1>2, LenProperties
<1>7. sqlDone \o SqlInHand \in Seq(SqlJobIds)
    BY <1>3 DEF s
<1> QED
    BY <1>1, <1>2, <1>3, <1>5, <1>6, <1>7

LEMMA SqlLineIsHere == SqlTypeOK /\ SqlHandsInv => SqlLine \in Seq(SqlJobIds)
    BY SqlLineIs

LEMMA SqlLineIsNext == (SqlTypeOK /\ SqlHandsInv => SqlLine \in Seq(SqlJobIds))'
    BY SqlLineIsHere, PTL

\* A worker is started before it has anything in its hands.
SqlStartInv ==
    /\ sqlJs.pc \in {"script", "close"} /\ ~sqlRunning => sqlWorker.pc = "none"
    /\ sqlJs.pc = "notify" => sqlRunning

\* What a step does to the line: nothing,
SqlLineStays ==
    /\ UNCHANGED <<SqlLine, sqlDone, sqlDb, sqlSettled>>
    /\ sqlJs'.pc = "over" <=> sqlJs.pc = "over"

\* add a job, serve the next, deliver all that are served, or drop all.
SqlLineCalls(d, j) ==
    /\ sqlDb[j] = 0 /\ \A i \in 1..(j - 1) : sqlDb[i] # 0
    /\ sqlDb' = [sqlDb EXCEPT ![j] = d] /\ SqlLine' = Append(SqlLine, j)
    /\ UNCHANGED <<sqlDone, sqlSettled>> /\ sqlJs.pc # "over" /\ sqlJs'.pc # "over"
SqlLinePosts ==
    /\ Len(sqlDone') = Len(sqlDone) + 1 /\ Len(sqlDone) < Len(SqlLine)
    /\ UNCHANGED <<SqlLine, sqlJs, sqlDb, sqlSettled>>
SqlLineUpdates ==
    /\ Len(sqlDone) > 0 /\ Len(sqlDone) <= Len(SqlLine) /\ Len(sqlDone') = 0
    /\ SqlLine' = SubSeq(SqlLine, Len(sqlDone) + 1, Len(SqlLine))
    /\ sqlSettled' = sqlSettled \cup {SqlLine[i] : i \in 1..Len(sqlDone)}
    /\ UNCHANGED <<sqlJs, sqlDb>>
SqlLineEnds ==
    SqlLine' = <<>> /\ Len(sqlDone') = 0 /\ sqlJs'.pc = "over" /\ UNCHANGED sqlDb

\* The worker takes the first of the queue in hand.
LEMMA SqlLineTakes ==
    ASSUME SqlIInv, SqlWorkerTakes
    PROVE  SqlLineStays
<1>1. /\ sqlDone \in Seq(SqlJobIds) /\ sqlJobs \in Seq(SqlJobIds)
      /\ SqlLine = (sqlDone \o SqlInHand) \o sqlJobs
      /\ SqlLine' = (sqlDone \o SqlInHand') \o sqlJobs'
      /\ UNCHANGED <<sqlJs, sqlDone, sqlDb, sqlSettled>> /\ SqlInHand = <<>>
    BY SqlLineIs DEF SqlIInv, SqlLine, SqlWorkerTakes, SqlInHand, sqlTold
<1>2. CASE ~sqlRunning
    <2>1. SqlInHand' = <<>> /\ sqlJobs' = sqlJobs
        BY <1>2 DEF SqlWorkerTakes, SqlInHand, SqlBusy
    <2> QED
        BY <1>1, <2>1 DEF SqlLineStays
<1>3. CASE sqlRunning
    <2>1. /\ sqlJobs # <<>> /\ SqlInHand' = <<Head(sqlJobs)>> /\ sqlJobs' = Tail(sqlJobs)
        BY <1>3 DEF SqlIInv, SqlHandsInv, SqlWorkerTakes, SqlInHand
    <2>2. <<Head(sqlJobs)>> \in Seq(SqlJobIds) /\ Tail(sqlJobs) \in Seq(SqlJobIds)
        BY <1>1, <2>1, HeadTailProperties
    <2>3. sqlJobs = <<Head(sqlJobs)>> \o Tail(sqlJobs)
        BY <1>1, <2>1, HeadTailConcat
    <2>4. (sqlDone \o <<Head(sqlJobs)>>) \o Tail(sqlJobs)
          = sqlDone \o (<<Head(sqlJobs)>> \o Tail(sqlJobs))
        BY <1>1, <2>2, ConcatAssociative
    <2>5. sqlDone \o SqlInHand = sqlDone
        BY <1>1, ConcatEmptySeq
    <2>6. SqlLine' = SqlLine
        <3>1. SqlLine' = (sqlDone \o <<Head(sqlJobs)>>) \o Tail(sqlJobs)
            BY <1>1, <2>1
        <3>2. SqlLine = sqlDone \o sqlJobs
            BY <1>1, <2>5
        <3> QED
            BY <2>3, <2>4, <3>1, <3>2
    <2> QED
        BY <1>1, <2>6 DEF SqlLineStays
<1> QED
    BY <1>2, <1>3

\* A served job leaves the worker's hands for the completions.
LEMMA SqlLinePost ==
    ASSUME SqlIInv, SqlWorkerPosts
    PROVE  SqlLinePosts
<1>1. /\ sqlDone \in Seq(SqlJobIds) /\ sqlWorker.job \in SqlJobIds
      /\ SqlInHand = <<sqlWorker.job>> /\ SqlInHand' = <<>>
      /\ sqlDone' = Append(sqlDone, sqlWorker.job) /\ sqlJobs' = sqlJobs
      /\ UNCHANGED <<sqlJs, sqlDb, sqlSettled>>
    BY DEF SqlIInv, SqlTypeOK, SqlHandsInv, SqlWorkerPosts, SqlInHand, SqlBusy, sqlTold
<1>2. sqlDone' \in Seq(SqlJobIds) /\ Len(sqlDone') = Len(sqlDone) + 1
    BY <1>1, AppendProperties
<1>3. sqlDone' \o SqlInHand' = sqlDone \o SqlInHand
    BY <1>1, <1>2, AppendIsConcat, ConcatEmptySeq
<1>4. SqlLine' = SqlLine
    BY <1>1, <1>3 DEF SqlLine
<1>5. Len(sqlDone) < Len(SqlLine)
    <2>1. Len(SqlInHand) = 1
        BY <1>1
    <2>2. /\ Len(SqlLine) = Len(sqlDone) + Len(SqlInHand) + Len(sqlJobs)
          /\ Len(sqlDone) \in Nat /\ Len(sqlJobs) \in Nat
        BY SqlLineIs DEF SqlIInv
    <2> QED
        BY <2>1, <2>2
<1> QED
    BY <1>1, <1>2, <1>4, <1>5 DEF SqlLinePosts

\* A call adds its job at the end.
LEMMA SqlLineCall ==
    ASSUME SqlIInv, SqlStartInv, NEW d \in SqlDbIds, SqlCall(d)
    PROVE  \E j \in SqlJobIds : SqlLineCalls(d, j)
<1>1. PICK j \in SqlJobIds : /\ sqlDb[j] = 0 /\ \A i \in 1..(j - 1) : sqlDb[i] # 0
                             /\ sqlDb' = [sqlDb EXCEPT ![j] = d]
                             /\ sqlJobs' = Append(sqlJobs, j)
    BY DEF SqlCall
<1>2. /\ UNCHANGED <<sqlDone, sqlSettled>> /\ sqlJs.pc = "script" /\ sqlJs'.pc = "notify"
    BY DEF SqlCall, SqlAt
<1>3. SqlInHand' = SqlInHand
    <2>1. CASE sqlRunning
        BY <2>1 DEF SqlCall, SqlInHand
    <2>2. CASE ~sqlRunning
        <3>1. sqlWorker.pc = "none" /\ sqlWorker' = SqlBusy("check")
            BY <1>2, <2>2 DEF SqlStartInv, SqlCall
        <3> QED
            BY <3>1 DEF SqlInHand, SqlBusy
    <2> QED
        BY <2>1, <2>2
<1>4. SqlLine' = Append(SqlLine, j)
    <2> DEFINE s == sqlDone \o SqlInHand
    <2>1. s \in Seq(SqlJobIds) /\ sqlJobs \in Seq(SqlJobIds) /\ SqlLine \in Seq(SqlJobIds)
        BY SqlLineIs DEF SqlIInv
    <2>2. SqlLine = s \o sqlJobs /\ SqlLine' = s \o Append(sqlJobs, j)
        BY <1>1, <1>2, <1>3 DEF SqlLine
    <2> HIDE DEF s
    <2>3. Append(sqlJobs, j) = sqlJobs \o <<j>> /\ Append(SqlLine, j) = SqlLine \o <<j>>
        BY <2>1, AppendIsConcat
    <2>4. <<j>> \in Seq(SqlJobIds)
        OBVIOUS
    <2>5. (s \o sqlJobs) \o <<j>> = s \o (sqlJobs \o <<j>>)
        BY <2>1, <2>4, ConcatAssociative
    <2> QED
        BY <2>2, <2>3, <2>5
<1>5. sqlJs.pc # "over" /\ sqlJs'.pc # "over"
    BY <1>2
<1>6. SqlLineCalls(d, j)
    BY <1>1, <1>2, <1>4, <1>5 DEF SqlLineCalls
<1> QED
    BY <1>6

\* The update hook takes what is served.
LEMMA SqlLineUpdate ==
    ASSUME SqlIInv, SqlUpdate
    PROVE  SqlLineUpdates
<1> DEFINE r == SqlInHand \o sqlJobs
<1>1. /\ sqlDone # <<>> /\ sqlDone' = <<>> /\ UNCHANGED <<sqlJs, sqlJobs, sqlWorker, sqlDb>>
      /\ sqlSettled' = sqlSettled \cup {sqlDone[i] : i \in DOMAIN sqlDone}
    BY DEF SqlUpdate
<1>2. /\ sqlDone \in Seq(SqlJobIds) /\ SqlInHand \in Seq(SqlJobIds) /\ sqlJobs \in Seq(SqlJobIds)
      /\ Len(SqlLine) = Len(sqlDone) + Len(SqlInHand) + Len(sqlJobs)
      /\ Len(sqlDone) \in Nat /\ Len(SqlInHand) \in Nat /\ Len(sqlJobs) \in Nat
    BY SqlLineIs DEF SqlIInv
<1>3. r \in Seq(SqlJobIds)
    BY <1>2, ConcatProperties
<1>4. SqlLine = sqlDone \o r
    BY <1>2, ConcatAssociative DEF SqlLine
<1>5. SqlInHand' = SqlInHand
    BY <1>1 DEF SqlInHand
<1>6. SqlLine' = r
    <2>1. SqlLine' = (<<>> \o SqlInHand) \o sqlJobs
        BY <1>1, <1>5 DEF SqlLine
    <2>2. <<>> \o SqlInHand = SqlInHand
        BY <1>2, ConcatEmptySeq
    <2> QED
        BY <2>1, <2>2
<1> HIDE DEF r
<1>7. SqlLine' = SubSeq(SqlLine, Len(sqlDone) + 1, Len(SqlLine))
    BY <1>2, <1>3, <1>4, <1>6, ConcatRest
<1>8. Len(sqlDone) > 0 /\ DOMAIN sqlDone = 1..Len(sqlDone)
    BY <1>1, <1>2, EmptySeq, LenProperties
<1>9. \A i \in 1..Len(sqlDone) : SqlLine[i] = sqlDone[i]
    <2>1. \A i \in 1..(Len(sqlDone) + Len(r)) :
              (sqlDone \o r)[i] = IF i <= Len(sqlDone) THEN sqlDone[i] ELSE r[i - Len(sqlDone)]
        BY <1>2, <1>3, ConcatProperties
    <2>2. Len(r) \in Nat
        BY <1>3, LenProperties
    <2> QED
        BY <1>2, <1>4, <2>1, <2>2
<1>10. sqlSettled' = sqlSettled \cup {SqlLine[i] : i \in 1..Len(sqlDone)}
    BY <1>1, <1>8, <1>9
<1>11. Len(sqlDone') = 0 /\ Len(sqlDone) <= Len(SqlLine)
    BY <1>1, <1>2
<1> QED
    BY <1>1, <1>7, <1>8, <1>10, <1>11 DEF SqlLineUpdates

\* Every step does one of these.
LEMMA SqlLineNext ==
    ASSUME SqlIInv, SqlStartInv, [SqlNext]_sqlVars
    PROVE  \/ SqlLineStays \/ \E d \in SqlDbIds, j \in SqlJobIds : SqlLineCalls(d, j)
           \/ SqlLinePosts \/ SqlLineUpdates \/ SqlLineEnds
\* Steps that move no job.
<1> DEFINE Apart == /\ UNCHANGED <<sqlJobs, sqlDone, sqlDb, sqlSettled>>
                    /\ SqlInHand' = SqlInHand /\ (sqlJs'.pc = "over" <=> sqlJs.pc = "over")
<1>a. ASSUME Apart PROVE SqlLineStays
    BY <1>a DEF SqlLineStays, SqlLine
<1> USE DEF SqlAt, SqlBusy, SqlNotified, sqlData, sqlTold
<1>1. CASE SqlOpen
    <2>1. Apart
        BY <1>1 DEF SqlOpen, SqlInHand
    <2> QED
        BY <1>a, <2>1
<1>2. ASSUME NEW d \in SqlDbIds, SqlClose(d) PROVE SqlLineStays
    <2>1. Apart
        BY <1>2 DEF SqlClose, SqlInHand
    <2> QED
        BY <1>a, <2>1
<1>3. CASE SqlCloses
    <2>1. Apart
        BY <1>3 DEF SqlCloses, SqlInHand
    <2> QED
        BY <1>a, <2>1
<1>4. ASSUME NEW d \in SqlDbIds, SqlCall(d) PROVE \E j \in SqlJobIds : SqlLineCalls(d, j)
    BY <1>4, SqlLineCall
<1>5. CASE SqlNotify
    <2>1. Apart
        BY <1>5 DEF SqlNotify, SqlInHand
    <2> QED
        BY <1>a, <2>1
<1>6. CASE SqlUpdate
    BY <1>6, SqlLineUpdate
<1>7. CASE SqlShutdown
    <2>1. Apart
        BY <1>7 DEF SqlShutdown, SqlInHand
    <2> QED
        BY <1>a, <2>1
<1>15. CASE SqlShutdownWakes
    <2>1. Apart
        BY <1>15 DEF SqlShutdownWakes, SqlInHand
    <2> QED
        BY <1>a, <2>1
<1>8. CASE SqlShutdownEnds
    <2>1. SqlInHand' = <<>> /\ sqlDone' = <<>> /\ sqlJobs' = <<>> /\ sqlJs'.pc = "over"
          /\ UNCHANGED sqlDb
        BY <1>8 DEF SqlShutdownEnds, SqlInHand
    <2>2. SqlLine' = <<>>
        BY <2>1 DEF SqlLine
    <2> QED
        BY <2>1, <2>2 DEF SqlLineEnds
<1>9. CASE SqlWorkerChecks \/ SqlWorkerTests \/ SqlWorkerParks \/ SqlWorkerWakesSpuriously
    <2>1. Apart
        BY <1>9 DEF SqlWorkerChecks, SqlWorkerTests, SqlWorkerParks, SqlWorkerWakesSpuriously,
                    SqlInHand
    <2> QED
        BY <1>a, <2>1
<1>10. CASE SqlWorkerTakes
    BY <1>10, SqlLineTakes
<1>11. CASE SqlWorkerLooksUp
    <2>1. Apart
        BY <1>11 DEF SqlWorkerLooksUp, SqlInHand, SqlIInv, SqlTypeOK
    <2> QED
        BY <1>a, <2>1
<1>12. CASE SqlWorkerUses
    <2>1. Apart
        BY <1>12 DEF SqlWorkerUses, SqlInHand, SqlIInv, SqlTypeOK
    <2> QED
        BY <1>a, <2>1
<1>13. CASE SqlWorkerPosts
    BY <1>13, SqlLinePost
<1>14. CASE UNCHANGED sqlVars
    <2>1. Apart
        BY <1>14 DEF sqlVars, SqlInHand
    <2> QED
        BY <1>a, <2>1
<1> HIDE DEF Apart
<1> QED
    BY <1>1, <1>2, <1>3, <1>4, <1>5, <1>6, <1>7, <1>8, <1>9, <1>10, <1>11, <1>12, <1>13, <1>14,
       <1>15
    DEF SqlNext, SqlScriptSteps, SqlHostSteps, SqlWorkerSteps

\* p jobs have been called for.  Those under way are the last of them; those before them
\* are settled, until shutdown drops what is under way.
SqlNumbered(p) ==
    /\ Len(SqlLine) <= p /\ p <= SqlMaxJobs
    /\ CountsTo(SqlLine, p)
    /\ \A j \in SqlJobIds : sqlDb[j] # 0 <=> j <= p
    /\ sqlJs.pc # "over" => \A j \in SqlJobIds : j \in sqlSettled <=> j <= p - Len(SqlLine)

SqlFifoInv == SqlStartInv /\ \E p \in Nat : SqlNumbered(p)

LEMMA SqlStartStep ==
    ASSUME SqlIInv, SqlStartInv, [SqlNext]_sqlVars
    PROVE  SqlStartInv'
<1> USE DEF SqlIInv, SqlTypeOK, SqlStartInv, SqlAt, SqlBusy, SqlNotified, sqlData, sqlTold
<1>1. CASE SqlOpen \/ SqlCloses \/ SqlNotify \/ SqlUpdate
    BY <1>1 DEF SqlOpen, SqlCloses, SqlNotify, SqlUpdate
<1>2. ASSUME NEW d \in SqlDbIds, SqlClose(d) \/ SqlCall(d) PROVE SqlStartInv'
    BY <1>2 DEF SqlClose, SqlCall
<1>3. CASE SqlShutdown \/ SqlShutdownWakes \/ SqlShutdownEnds
    BY <1>3 DEF SqlShutdown, SqlShutdownWakes, SqlShutdownEnds
<1>4. CASE SqlWorkerChecks \/ SqlWorkerTests \/ SqlWorkerParks \/ SqlWorkerWakesSpuriously
    BY <1>4 DEF SqlWorkerChecks, SqlWorkerTests, SqlWorkerParks, SqlWorkerWakesSpuriously
<1>5. CASE SqlWorkerTakes \/ SqlWorkerLooksUp \/ SqlWorkerUses \/ SqlWorkerPosts
    BY <1>5 DEF SqlWorkerTakes, SqlWorkerLooksUp, SqlWorkerUses, SqlWorkerPosts
<1>6. CASE UNCHANGED sqlVars
    BY <1>6 DEF sqlVars
<1> QED
    BY <1>1, <1>2, <1>3, <1>4, <1>5, <1>6
    DEF SqlNext, SqlScriptSteps, SqlHostSteps, SqlWorkerSteps

\* The job of a call is the one after those called for.
LEMMA SqlNextJob ==
    ASSUME NEW p \in Nat, SqlNumbered(p), NEW d, NEW j \in SqlJobIds, SqlLineCalls(d, j)
    PROVE  j = p + 1
<1>1. j \in Int /\ j >= 1 /\ j <= SqlMaxJobs /\ SqlMaxJobs \in Nat
    BY SqlBoundsAssumption DEF SqlJobIds
<1>2. ~(j <= p)
    BY DEF SqlLineCalls, SqlNumbered
<1>3. ASSUME p + 1 < j PROVE FALSE
    <2>1. p + 1 \in 1..(j - 1) /\ p + 1 \in SqlJobIds /\ ~(p + 1 <= p)
        BY <1>1, <1>3 DEF SqlJobIds
    <2>2. sqlDb[p + 1] # 0
        BY <2>1 DEF SqlLineCalls
    <2> QED
        BY <2>1, <2>2 DEF SqlNumbered
<1> QED
    BY <1>1, <1>2, <1>3

LEMMA SqlNumberedStep ==
    ASSUME SqlIInv, SqlIInv', SqlStartInv, [SqlNext]_sqlVars, NEW p \in Nat, SqlNumbered(p)
    PROVE  SqlNumbered(p)' \/ SqlNumbered(p + 1)'
<1>1. /\ SqlLine \in Seq(SqlJobIds) /\ Len(SqlLine) \in Nat /\ Len(sqlDone) \in Nat
      /\ SqlMaxJobs \in Nat
    BY SqlLineIs, SqlBoundsAssumption, LenProperties DEF SqlIInv
<1>2. CASE SqlLineStays
    BY <1>2 DEF SqlLineStays, SqlNumbered, CountsTo
<1>3. ASSUME NEW d \in SqlDbIds, NEW j \in SqlJobIds, SqlLineCalls(d, j)
      PROVE  SqlNumbered(p + 1)'
    <2>1. j = p + 1 /\ p + 1 <= SqlMaxJobs
        BY <1>3, SqlNextJob, SqlBoundsAssumption DEF SqlJobIds
    <2>2. /\ SqlLine' = Append(SqlLine, p + 1) /\ sqlSettled' = sqlSettled
          /\ sqlDb' = [sqlDb EXCEPT ![p + 1] = d] /\ sqlJs.pc # "over"
        BY <1>3, <2>1 DEF SqlLineCalls
    <2>3. /\ Len(SqlLine') = Len(SqlLine) + 1
          /\ \A i \in 1..Len(SqlLine) : SqlLine'[i] = SqlLine[i]
          /\ SqlLine'[Len(SqlLine) + 1] = p + 1
        BY <1>1, <2>1, <2>2, AppendProperties
    <2>4. CountsTo(SqlLine', p + 1)
        <3>1. \A i \in 1..Len(SqlLine) : SqlLine[i] = p - Len(SqlLine) + i
            BY DEF SqlNumbered, CountsTo
        <3>2. ASSUME NEW i \in 1..Len(SqlLine') PROVE SqlLine'[i] = (p + 1) - Len(SqlLine') + i
            <4>1. CASE i = Len(SqlLine) + 1
                BY <1>1, <2>3, <4>1
            <4>2. CASE i # Len(SqlLine) + 1
                BY <1>1, <2>3, <3>1, <4>2
            <4> QED
                BY <4>1, <4>2
        <3> QED
            BY <3>2 DEF CountsTo
    <2>5. ASSUME NEW i \in SqlJobIds PROVE sqlDb'[i] # 0 <=> i <= p + 1
        <3>1. i \in Int /\ d # 0 /\ sqlDb \in [SqlJobIds -> 0..SqlMaxDbs] /\ p + 1 \in SqlJobIds
            BY <2>1 DEF SqlJobIds, SqlDbIds, SqlIInv, SqlTypeOK
        <3>2. CASE i = p + 1
            BY <2>2, <3>1, <3>2
        <3>3. CASE i # p + 1
            <4>1. sqlDb'[i] = sqlDb[i]
                BY <2>2, <3>1, <3>3
            <4>2. sqlDb[i] # 0 <=> i <= p
                BY DEF SqlNumbered
            <4> QED
                BY <3>1, <3>3, <4>1, <4>2
        <3> QED
            BY <3>2, <3>3
    <2>6. \A i \in SqlJobIds : i \in sqlSettled' <=> i <= (p + 1) - Len(SqlLine')
        <3>1. (p + 1) - Len(SqlLine') = p - Len(SqlLine)
            BY <1>1, <2>3
        <3>2. \A i \in SqlJobIds : i \in sqlSettled <=> i <= p - Len(SqlLine)
            BY <2>2 DEF SqlNumbered
        <3> QED
            BY <2>2, <3>1, <3>2
    <2>7. Len(SqlLine') <= p + 1
        BY <1>1, <2>3 DEF SqlNumbered
    <2> QED
        BY <2>1, <2>4, <2>5, <2>6, <2>7 DEF SqlNumbered
<1>4. CASE SqlLinePosts
    BY <1>4 DEF SqlLinePosts, SqlNumbered, CountsTo
<1>5. CASE SqlLineUpdates
    <2> DEFINE k == Len(sqlDone)
               n == Len(SqlLine)
    <2>1. /\ k \in Nat /\ n \in Nat /\ k <= n /\ n <= p
          /\ SqlLine' = SubSeq(SqlLine, k + 1, n)
          /\ \A i \in 1..n : SqlLine[i] = p - n + i
          /\ \A i \in 1..n : SqlLine[i] \in SqlJobIds
        BY <1>1, <1>5, ElementOfSeq DEF SqlLineUpdates, SqlNumbered, CountsTo
    <2>2. /\ sqlSettled' = sqlSettled \cup {SqlLine[i] : i \in 1..k}
          /\ UNCHANGED <<sqlJs, sqlDb>>
        BY <1>5 DEF SqlLineUpdates
    <2>3. sqlJs.pc # "over" => \A j \in SqlJobIds : j \in sqlSettled <=> j <= p - n
        BY DEF SqlNumbered
    <2> HIDE DEF k, n
    <2>4. /\ Len(SqlLine') = n - k
          /\ \A i \in 1..(n - k) : SqlLine'[i] = SqlLine[k + i]
        <3>1. \A i \in (k + 1)..n : SqlLine[i] \in SqlJobIds
            BY <2>1
        <3>2. /\ Len(SubSeq(SqlLine, k + 1, n)) = IF k + 1 <= n THEN n - (k + 1) + 1 ELSE 0
              /\ \A i \in 1..(n - (k + 1) + 1) :
                    SubSeq(SqlLine, k + 1, n)[i] = SqlLine[(k + 1) + i - 1]
            BY <2>1, <3>1, SubSeqProperties
        <3> QED
            BY <2>1, <3>2
    <2>5. CountsTo(SqlLine', p)
        <3>1. ASSUME NEW i \in 1..(n - k) PROVE SqlLine'[i] = p - (n - k) + i
            <4>1. k + i \in 1..n
                BY <2>1
            <4>2. SqlLine[k + i] = p - n + (k + i)
                BY <2>1, <4>1
            <4> QED
                BY <2>1, <2>4, <4>2
        <3> QED
            BY <2>4, <3>1 DEF CountsTo
    <2>6. sqlJs'.pc # "over" => \A j \in SqlJobIds : j \in sqlSettled' <=> j <= p - Len(SqlLine')
        <3> SUFFICES ASSUME sqlJs.pc # "over", NEW j \in SqlJobIds
                     PROVE  j \in sqlSettled' <=> j <= p - (n - k)
            BY <2>2, <2>4
        <3>1. j \in Int
            BY DEF SqlJobIds
        <3>2. j \in {SqlLine[i] : i \in 1..k} <=> p - n < j /\ j <= p - (n - k)
            <4>1. ASSUME NEW i \in 1..k, j = SqlLine[i] PROVE p - n < j /\ j <= p - (n - k)
                BY <2>1, <4>1
            <4>2. ASSUME p - n < j, j <= p - (n - k) PROVE \E i \in 1..k : j = SqlLine[i]
                <5>1. j - (p - n) \in 1..k /\ j - (p - n) \in 1..n
                    BY <2>1, <3>1, <4>2
                <5>2. SqlLine[j - (p - n)] = j
                    BY <2>1, <3>1, <5>1
                <5> QED
                    BY <5>1, <5>2
            <4> QED
                BY <4>1, <4>2
        <3>3. j \in sqlSettled <=> j <= p - n
            BY <2>3
        <3>4. j \in sqlSettled' <=> j \in sqlSettled \/ j \in {SqlLine[i] : i \in 1..k}
            BY <2>2
        <3>5. j \in sqlSettled' <=> j <= p - n \/ (p - n < j /\ j <= p - (n - k))
            BY <3>2, <3>3, <3>4
        <3> QED
            BY <2>1, <3>1, <3>5
    <2>7. Len(SqlLine') <= p /\ p <= SqlMaxJobs /\ \A j \in SqlJobIds : sqlDb'[j] # 0 <=> j <= p
        BY <2>1, <2>2, <2>4 DEF SqlNumbered
    <2> QED
        BY <2>5, <2>6, <2>7 DEF SqlNumbered
<1>6. CASE SqlLineEnds
    BY <1>1, <1>6 DEF SqlLineEnds, SqlNumbered, CountsTo
<1> QED
    BY <1>2, <1>3, <1>4, <1>5, <1>6, SqlLineNext

LEMMA SqlFifoInit == SqlInit => SqlFifoInv
<1> SUFFICES ASSUME SqlInit PROVE SqlFifoInv
    OBVIOUS
<1>1. /\ sqlJs.pc = "script" /\ sqlWorker.pc = "none" /\ sqlDone = <<>> /\ sqlJobs = <<>>
      /\ sqlSettled = {} /\ \A j \in SqlJobIds : sqlDb[j] = 0
    BY DEF SqlInit, SqlAt, SqlBusy
<1>2. SqlInHand = <<>>
    BY <1>1 DEF SqlInHand
<1>3. SqlLine = <<>>
    BY <1>1, <1>2 DEF SqlLine
<1>4. SqlNumbered(0)
    BY <1>1, <1>3, SqlBoundsAssumption DEF SqlNumbered, CountsTo, SqlJobIds
<1>5. SqlStartInv
    BY <1>1 DEF SqlStartInv
<1> QED
    BY <1>4, <1>5 DEF SqlFifoInv

LEMMA SqlFifoInvariance == SqlSpec => []SqlFifoInv
<1>1. SqlIInv /\ SqlIInv' /\ SqlFifoInv /\ [SqlNext]_sqlVars => SqlFifoInv'
    <2> SUFFICES ASSUME SqlIInv, SqlIInv', SqlFifoInv, [SqlNext]_sqlVars PROVE SqlFifoInv'
        OBVIOUS
    <2>1. SqlStartInv /\ SqlStartInv'
        BY SqlStartStep DEF SqlFifoInv
    <2>2. PICK p \in Nat : SqlNumbered(p)
        BY DEF SqlFifoInv
    <2>3. SqlNumbered(p)' \/ SqlNumbered(p + 1)'
        BY <2>1, <2>2, SqlNumberedStep
    <2>4. p + 1 \in Nat
        OBVIOUS
    <2> QED
        BY <2>1, <2>3, <2>4 DEF SqlFifoInv
<1> QED
    BY <1>1, SqlFifoInit, SqlInvariance, PTL DEF SqlSpec

\* Until shutdown, a call that is not settled is under way, once, and what is under way is
\* not settled: no job is lost or settled twice (js_exec, worker_thread_body, scriptUpdate).
THEOREM SqlCallsKept == SqlSpec => []SqlCallsAccounted
<1>1. SqlIInv /\ SqlFifoInv => SqlCallsAccounted
    <2> SUFFICES ASSUME SqlIInv, SqlFifoInv, sqlJs.pc # "over", NEW j \in SqlJobIds
                 PROVE  sqlDb[j] # 0 /\ j \notin sqlSettled
                        <=> \E i \in 1..Len(SqlLine) : SqlLine[i] = j
        BY DEF SqlCallsAccounted
    <2>1. PICK p \in Nat : SqlNumbered(p)
        BY DEF SqlFifoInv
    <2>2. Len(SqlLine) \in Nat /\ j \in Int
        BY SqlLineIs, LenProperties DEF SqlIInv, SqlJobIds
    <2> DEFINE n == Len(SqlLine)
    <2>3. /\ n \in Nat /\ \A i \in 1..n : SqlLine[i] = p - n + i
          /\ (sqlDb[j] # 0 <=> j <= p) /\ (j \in sqlSettled <=> j <= p - n)
        BY <2>1, <2>2 DEF SqlNumbered, CountsTo
    <2> HIDE DEF n
    <2>4. ASSUME sqlDb[j] # 0, j \notin sqlSettled PROVE \E i \in 1..n : SqlLine[i] = j
        <3>1. j - (p - n) \in 1..n
            BY <2>2, <2>3, <2>4
        <3>2. SqlLine[j - (p - n)] = j
            BY <2>2, <2>3, <3>1
        <3> QED
            BY <3>1, <3>2
    <2>5. ASSUME NEW i \in 1..n, SqlLine[i] = j PROVE sqlDb[j] # 0 /\ j \notin sqlSettled
        BY <2>2, <2>3, <2>5
    <2> QED
        BY <2>4, <2>5 DEF n
<1> QED
    BY <1>1, SqlInvariance, SqlFifoInvariance, PTL

\* exec() and query() implement the queue: each step of the plugin is one of WorkQueue's or
\* leaves the queue as it is (js_exec, worker_thread_body, scriptUpdate, scriptShutdown).
THEOREM SqlQueueImplemented == SqlSpec => SqlImplementsQueue
<1>1. SqlInit => SqlQueue!QueueInit
    <2> SUFFICES ASSUME SqlInit PROVE SqlQueue!QueueInit
        OBVIOUS
    <2>1. /\ sqlJs.pc = "script" /\ sqlWorker.pc = "none" /\ sqlDone = <<>> /\ sqlJobs = <<>>
        BY DEF SqlInit, SqlAt, SqlBusy
    <2>2. SqlInHand = <<>>
        BY <2>1 DEF SqlInHand
    <2>3. SqlLine = <<>>
        BY <2>1, <2>2 DEF SqlLine
    <2> QED
        BY <2>1, <2>3 DEF SqlQueue!QueueInit
<1>2. SqlIInv /\ SqlFifoInv /\ [SqlNext]_sqlVars => [SqlQueue!QueueNext]_(SqlQueue!queueVars)
    <2> SUFFICES ASSUME SqlIInv, SqlFifoInv, [SqlNext]_sqlVars
                 PROVE  [SqlQueue!QueueNext]_(SqlQueue!queueVars)
        OBVIOUS
    <2>1. SqlStartInv
        BY DEF SqlFifoInv
    <2>2. PICK p \in Nat : SqlNumbered(p)
        BY DEF SqlFifoInv
    <2>3. /\ Len(SqlLine) \in Nat /\ Len(sqlDone) \in Nat /\ Len(SqlLine) <= p
          /\ \A i \in 1..Len(SqlLine) : SqlLine[i] = p - Len(SqlLine) + i
        BY <2>2, SqlLineIs, LenProperties DEF SqlIInv, SqlNumbered, CountsTo
    <2>4. CASE SqlLineStays
        BY <2>4 DEF SqlLineStays, SqlQueue!queueVars
    <2>5. ASSUME NEW d \in SqlDbIds, NEW j \in SqlJobIds, SqlLineCalls(d, j)
          PROVE  SqlQueue!Submit(j)
        <3>1. j = p + 1 /\ p + 1 <= SqlMaxJobs
            BY <2>2, <2>5, SqlNextJob, SqlBoundsAssumption DEF SqlJobIds
        <3>2. Len(SqlLine) < SqlMaxJobs /\ \A i \in 1..Len(SqlLine) : SqlLine[i] < j
            BY <2>3, <3>1, SqlBoundsAssumption
        <3> QED
            BY <2>5, <3>2 DEF SqlLineCalls, SqlQueue!Submit
    <2>6. CASE SqlLinePosts
        BY <2>6 DEF SqlLinePosts, SqlQueue!Serve, SqlQueue!QueueNext
    <2>7. CASE SqlLineUpdates
        <3> DEFINE n == Len(sqlDone)
        <3>1. n \in 1..n /\ n \in Nat
            BY <2>3, <2>7 DEF SqlLineUpdates
        <3>2. SqlQueue!Deliver(n)
            BY <2>3, <2>7 DEF SqlLineUpdates, SqlQueue!Deliver
        <3> QED
            BY <3>1, <3>2 DEF SqlQueue!QueueNext
    <2>8. CASE SqlLineEnds
        BY <2>8 DEF SqlLineEnds, SqlQueue!Close, SqlQueue!QueueNext
    <2> QED
        BY <2>1, <2>4, <2>5, <2>6, <2>7, <2>8, SqlLineNext DEF SqlQueue!QueueNext
<1> QED
    BY <1>1, <1>2, SqlInvariance, SqlFifoInvariance, PTL
    DEF SqlSpec, SqlImplementsQueue, SqlQueue!QueueSpec

-----------------------------------------------------------------------------
(* ffmpeg: the clock and the texture                                       *)

\* Where the script thread stands tells which streams there are: while it joins there
\* is one, while it opens the next there is none, and what is stored is what was loaded
\* last.
VideoLoadInv ==
    /\ videoJs.pc = "join" => videoMap # 0 /\ videoJs.op # "none"
    /\ videoJs.pc \in {"open", "start", "store"} => videoMap = 0
    /\ videoJs.pc = "open" \/ (videoJs.pc = "join" /\ videoJs.op = "load")
       => videoLoads < VideoMaxLoads
    /\ videoJs.pc \in {"start", "store"} => videoLoads # 0
    /\ videoMap # 0 => videoMap = videoLoads

\* A stream that has not been started has no worker and no clock.
VideoNewInv ==
    \A k \in Streams :
        k > videoLoads \/ (videoJs.pc = "start" /\ k = videoLoads)
        => videoWorker[k] = "none" /\ videoClock[k] = VideoNoClock

\* The clock of a stream counts from its start without what pauses took away; a stream
\* that play() would resume was not behind when it was paused.
VideoClockInv ==
    /\ videoNow \in Nat
    /\ \A k \in Streams : videoClock[k].start + videoClock[k].lost <= videoNow
    /\ videoJs.pc = "store" => videoPlaying[videoLoads]
    /\ \A k \in Streams :
          k = videoMap /\ videoJs.pc # "join" /\ ~videoPlaying[k] /\ videoClock[k].paused # 0
          => videoClock[k].start + videoClock[k].lost <= videoClock[k].paused

\* Textures are made for streams that were loaded, and the pass under way is for a
\* stream whose successor has no texture yet.
VideoTextureInv ==
    /\ videoTasks \in Seq(1..videoLoads)
    /\ videoTexture <= videoLoads
    /\ videoRender.stream # 0 => videoTexture <= videoRender.stream
    /\ videoRender.pc = "idle" <=> videoRender.stream = 0

VideoIInv == VideoTypeOK /\ VideoLoadInv /\ VideoNewInv /\ VideoClockInv /\ VideoTextureInv

VideoClock == [start : Nat, paused : Nat, lost : Int]

LEMMA VideoInitInv == VideoInit => VideoIInv
<1> SUFFICES ASSUME VideoInit PROVE VideoIInv
    OBVIOUS
<1>1. VideoTypeOK
    BY VideoBoundsAssumption DEF VideoInit, VideoTypeOK, VideoScript, VideoIn, VideoIdle,
       VideoNoClock
<1>2. VideoLoadInv
    BY DEF VideoInit, VideoLoadInv, VideoScript, VideoIn
<1>3. VideoNewInv
    BY DEF VideoInit, VideoNewInv
<1>4. VideoClockInv
    BY DEF VideoInit, VideoClockInv, VideoNoClock, VideoScript, VideoIn
<1>5. VideoTextureInv
    BY DEF VideoInit, VideoTextureInv, VideoIdle
<1> QED
    BY <1>1, <1>2, <1>3, <1>4, <1>5 DEF VideoIInv

\* The type invariant in two parts: the flags, which are Boolean, and the rest.
VideoFlagsType ==
    /\ videoRunning \in [Streams -> BOOLEAN]
    /\ videoPlaying \in [Streams -> BOOLEAN]
    /\ videoFresh \in [Streams -> BOOLEAN]

VideoDataType ==
    /\ videoJs \in [pc : {"script", "join", "open", "start", "store", "over"},
                    op : {"none", "load", "stop", "cleanup"}]
    /\ videoLoads \in 0..VideoMaxLoads /\ videoMap \in 0..VideoMaxLoads
    /\ videoClock \in [Streams -> VideoClock]
    /\ videoWorker \in [Streams -> {"none", "top", "look", "read", "pace", "copy", "request",
                                    "done"}]
    /\ videoTasks \in Seq(Streams)
    /\ videoRender \in [pc : {"idle", "look", "upload"}, stream : 0..VideoMaxLoads]
    /\ videoTexture \in 0..VideoMaxLoads
    /\ videoNow \in Nat

LEMMA VideoTypeParts == VideoTypeOK <=> VideoFlagsType /\ VideoDataType
BY Zenon DEF VideoTypeOK, VideoFlagsType, VideoDataType, VideoClock

LEMMA VideoFlagsStep ==
    ASSUME VideoFlagsType, [VideoNext]_videoVars
    PROVE  VideoFlagsType'
<1> USE DEF VideoFlagsType, videoFlags, videoScreen
<1>1. CASE VideoLoad
    BY <1>1 DEF VideoLoad, VideoTeardown
<1>2. CASE VideoStop
    BY <1>2 DEF VideoStop, VideoTeardown
<1>3. CASE VideoJoin
    BY <1>3 DEF VideoJoin
<1>4. CASE VideoOpenFails
    BY <1>4 DEF VideoOpenFails
<1>5. CASE VideoRequestsTexture
    BY <1>5 DEF VideoRequestsTexture
<1>6. CASE VideoStarts
    BY <1>6 DEF VideoStarts
<1>7. CASE VideoStores
    BY <1>7 DEF VideoStores
<1>8. CASE VideoPlay
    BY <1>8 DEF VideoPlay
<1>9. CASE VideoPause
    BY <1>9 DEF VideoPause
<1>10. CASE VideoCleanup
    BY <1>10 DEF VideoCleanup, VideoTeardown
<1>11. ASSUME NEW k \in Streams, VideoWorkerSteps(k) PROVE VideoFlagsType'
    <2>1. CASE VideoWorkerTests(k)
        BY <2>1 DEF VideoWorkerTests, VideoWorkerGoes
    <2>2. CASE VideoWorkerLooks(k)
        BY <2>2 DEF VideoWorkerLooks, VideoWorkerGoes
    <2>3. CASE VideoWorkerReads(k)
        BY <2>3 DEF VideoWorkerReads, VideoWorkerGoes
    <2>4. CASE VideoWorkerRewinds(k)
        BY <2>4 DEF VideoWorkerRewinds, VideoWorkerGoes
    <2>5. CASE VideoWorkerLocks(k)
        BY <2>5 DEF VideoWorkerLocks, VideoWorkerGoes
    <2>6. CASE VideoWorkerPublishes(k)
        BY <2>6 DEF VideoWorkerPublishes, VideoWorkerGoes
    <2>7. CASE VideoWorkerRequests(k)
        BY <2>7 DEF VideoWorkerRequests, VideoWorkerGoes
    <2> QED
        BY <1>11, <2>1, <2>2, <2>3, <2>4, <2>5, <2>6, <2>7 DEF VideoWorkerSteps
<1>12. CASE VideoRenderBegins
    BY <1>12 DEF VideoRenderBegins
<1>13. CASE VideoRenderLooks
    BY <1>13 DEF VideoRenderLooks
<1>14. CASE VideoRenderUploads
    BY <1>14 DEF VideoRenderUploads
<1>15. CASE VideoRenderTask
    BY <1>15 DEF VideoRenderTask
<1>16. CASE VideoTick
    BY <1>16 DEF VideoTick
<1>17. CASE UNCHANGED videoVars
    BY <1>17 DEF videoVars
<1> QED
    BY <1>1, <1>2, <1>3, <1>4, <1>5, <1>6, <1>7, <1>8, <1>9, <1>10, <1>11, <1>12,
       <1>13, <1>14, <1>15, <1>16, <1>17
    DEF VideoNext, VideoScriptSteps, VideoHostSteps, VideoRenderSteps

\* Well-formedness of the rest, and the streams there are.
LEMMA VideoDataStep ==
    ASSUME VideoDataType, VideoLoadInv, [VideoNext]_videoVars
    PROVE  VideoDataType' /\ VideoLoadInv'
<1> USE VideoBoundsAssumption DEF VideoDataType, VideoLoadInv, VideoIn, VideoScript, Streams,
    videoScreen
<1>1. CASE VideoLoad
    <2>1. CASE videoMap = 0
        BY <1>1, <2>1 DEF VideoLoad
    <2>2. CASE videoMap # 0
        BY <1>1, <2>2 DEF VideoLoad, VideoTeardown
    <2> QED
        BY <2>1, <2>2
<1>2. CASE VideoStop
    BY <1>2 DEF VideoStop, VideoTeardown
<1>3. CASE VideoJoin
    <2>1. VideoNoClock \in VideoClock
        BY DEF VideoNoClock, VideoClock
    <2>2. videoClock' \in [Streams -> VideoClock]
        BY <1>3, <2>1 DEF VideoJoin
    <2>3. CASE videoJs.op = "load"
        BY <1>3, <2>2, <2>3 DEF VideoJoin
    <2>4. CASE videoJs.op = "stop"
        BY <1>3, <2>2, <2>4 DEF VideoJoin
    <2>5. CASE videoJs.op = "cleanup"
        BY <1>3, <2>2, <2>5 DEF VideoJoin
    <2> QED
        BY <1>3, <2>3, <2>4, <2>5 DEF VideoJoin
<1>4. CASE VideoOpenFails
    BY <1>4 DEF VideoOpenFails
<1>5. CASE VideoRequestsTexture
    <2>1. videoLoads' \in Streams
        BY <1>5 DEF VideoRequestsTexture
    <2>2. videoTasks' \in Seq(Streams)
        BY <1>5, <2>1 DEF VideoRequestsTexture
    <2> QED
        BY <1>5, <2>1, <2>2 DEF VideoRequestsTexture
<1>6. CASE VideoStarts
    <2>1. videoClock' \in [Streams -> VideoClock]
        BY <1>6 DEF VideoStarts, VideoClock
    <2> QED
        BY <1>6, <2>1 DEF VideoStarts
<1>7. CASE VideoStores
    BY <1>7 DEF VideoStores
<1>8. CASE VideoPlay
    <2>1. videoMap \in Streams
        BY <1>8 DEF VideoPlay
    <2>2. \A x \in Int : [videoClock EXCEPT ![videoMap].lost = x] \in [Streams -> VideoClock]
        BY <2>1 DEF VideoClock
    <2>3. videoClock[videoMap].lost + videoNow - videoClock[videoMap].paused \in Int
        BY <2>1 DEF VideoClock
    <2>4. videoClock' \in [Streams -> VideoClock]
        BY <1>8, <2>2, <2>3 DEF VideoPlay
    <2> QED
        BY <1>8, <2>4 DEF VideoPlay
<1>9. CASE VideoPause
    <2>1. videoClock' \in [Streams -> VideoClock]
        BY <1>9 DEF VideoPause, VideoClock
    <2> QED
        BY <1>9, <2>1 DEF VideoPause
<1>10. CASE VideoCleanup
    <2>1. CASE videoMap = 0
        BY <1>10, <2>1 DEF VideoCleanup
    <2>2. CASE videoMap # 0
        BY <1>10, <2>2 DEF VideoCleanup, VideoTeardown
    <2> QED
        BY <2>1, <2>2
<1>11. ASSUME NEW k \in Streams, VideoWorkerSteps(k) PROVE VideoDataType' /\ VideoLoadInv'
    <2>1. CASE VideoWorkerRewinds(k)
        <3>1. [start |-> videoNow, paused |-> 0, lost |-> 0] \in VideoClock
            BY DEF VideoClock
        <3> QED
            BY <2>1, <3>1 DEF VideoWorkerRewinds, VideoWorkerGoes
    <2>2. CASE VideoWorkerTests(k)
        BY <2>2 DEF VideoWorkerTests, VideoWorkerGoes
    <2>3. CASE VideoWorkerLooks(k)
        BY <2>3 DEF VideoWorkerLooks, VideoWorkerGoes
    <2>4. CASE VideoWorkerReads(k)
        BY <2>4 DEF VideoWorkerReads, VideoWorkerGoes
    <2>5. CASE VideoWorkerLocks(k)
        BY <2>5 DEF VideoWorkerLocks, VideoWorkerGoes
    <2>6. CASE VideoWorkerPublishes(k)
        BY <2>6 DEF VideoWorkerPublishes, VideoWorkerGoes
    <2>7. CASE VideoWorkerRequests(k)
        BY <2>7 DEF VideoWorkerRequests, VideoWorkerGoes
    <2> QED
        BY <1>11, <2>1, <2>2, <2>3, <2>4, <2>5, <2>6, <2>7 DEF VideoWorkerSteps
<1>12. CASE VideoRenderBegins
    BY <1>12 DEF VideoRenderBegins
<1>13. CASE VideoRenderLooks
    BY <1>13 DEF VideoRenderLooks, VideoIdle
<1>14. CASE VideoRenderUploads
    BY <1>14 DEF VideoRenderUploads, VideoIdle
<1>15. CASE VideoRenderTask
    <2>1. Head(videoTasks) \in Streams /\ Tail(videoTasks) \in Seq(Streams)
        BY <1>15 DEF VideoRenderTask
    <2> QED
        BY <1>15, <2>1 DEF VideoRenderTask
<1>16. CASE VideoTick
    BY <1>16 DEF VideoTick
<1>17. CASE UNCHANGED videoVars
    BY <1>17 DEF videoVars
<1> QED
    BY <1>1, <1>2, <1>3, <1>4, <1>5, <1>6, <1>7, <1>8, <1>9, <1>10, <1>11, <1>12,
       <1>13, <1>14, <1>15, <1>16, <1>17
    DEF VideoNext, VideoScriptSteps, VideoHostSteps, VideoRenderSteps

\* Only the start of a stream gives it a worker and a clock.
LEMMA VideoNewStep ==
    ASSUME VideoIInv, [VideoNext]_videoVars
    PROVE  VideoNewInv'
<1> USE VideoBoundsAssumption DEF VideoIInv, VideoTypeOK, VideoLoadInv, VideoNewInv, VideoIn,
    VideoScript,
        Streams, videoFlags, videoScreen
<1>1. CASE VideoLoad
    BY <1>1 DEF VideoLoad, VideoTeardown
<1>2. CASE VideoStop
    BY <1>2 DEF VideoStop, VideoTeardown
<1>3. CASE VideoJoin
    BY <1>3 DEF VideoJoin
<1>4. CASE VideoOpenFails
    BY <1>4 DEF VideoOpenFails
<1>5. CASE VideoRequestsTexture
    BY <1>5 DEF VideoRequestsTexture
<1>6. CASE VideoStarts
    BY <1>6 DEF VideoStarts
<1>7. CASE VideoStores
    BY <1>7 DEF VideoStores
<1>8. CASE VideoPlay
    BY <1>8 DEF VideoPlay
<1>9. CASE VideoPause
    BY <1>9 DEF VideoPause
<1>10. CASE VideoCleanup
    BY <1>10 DEF VideoCleanup, VideoTeardown
<1>11. ASSUME NEW k \in Streams, VideoWorkerSteps(k) PROVE VideoNewInv'
    \* The worker of k runs: k is not new.
    <2>1. /\ videoWorker[k] # "none"
          /\ UNCHANGED <<videoLoads, videoJs>>
          /\ \A i \in Streams : i # k => videoWorker'[i] = videoWorker[i]
                                         /\ videoClock'[i] = videoClock[i]
        BY <1>11 DEF VideoWorkerSteps, VideoWorkerTests, VideoWorkerLooks, VideoWorkerReads,
           VideoWorkerRewinds, VideoWorkerLocks, VideoWorkerPublishes, VideoWorkerRequests,
           VideoWorkerGoes
    <2> QED
        BY <2>1
<1>12. CASE VideoRenderSteps
    BY <1>12 DEF VideoRenderSteps, VideoRenderBegins, VideoRenderLooks, VideoRenderUploads,
       VideoRenderTask
<1>13. CASE VideoTick
    BY <1>13 DEF VideoTick
<1>14. CASE UNCHANGED videoVars
    BY <1>14 DEF videoVars
<1> QED
    BY <1>1, <1>2, <1>3, <1>4, <1>5, <1>6, <1>7, <1>8, <1>9, <1>10, <1>11, <1>12, <1>13,
       <1>14
    DEF VideoNext, VideoScriptSteps, VideoHostSteps

\* The clock: play() adds what lies between the pause and now, and the stream was not
\* behind at the pause.
LEMMA VideoClockStep ==
    ASSUME VideoIInv, [VideoNext]_videoVars
    PROVE  VideoClockInv'
<1> USE VideoBoundsAssumption DEF VideoIInv, VideoTypeOK, VideoLoadInv, VideoClockInv,
    VideoIn, VideoScript,
        Streams, videoFlags, videoScreen
<1>1. CASE VideoLoad
    BY <1>1 DEF VideoLoad, VideoTeardown
<1>2. CASE VideoStop
    BY <1>2 DEF VideoStop, VideoTeardown
<1>3. CASE VideoJoin
    BY <1>3 DEF VideoJoin, VideoNoClock
<1>4. CASE VideoOpenFails
    BY <1>4 DEF VideoOpenFails
<1>5. CASE VideoRequestsTexture
    BY <1>5 DEF VideoRequestsTexture
<1>6. CASE VideoStarts
    <2>1. videoLoads \in Streams /\ videoClock[videoLoads] = VideoNoClock
        BY <1>6 DEF VideoStarts, VideoNewInv
    <2>2. videoClock' = [videoClock EXCEPT ![videoLoads].start = videoNow]
        BY <1>6 DEF VideoStarts
    <2>3. videoClock'[videoLoads] = [start |-> videoNow, paused |-> 0, lost |-> 0]
        BY <2>1, <2>2 DEF VideoNoClock
    <2>4. \A k \in Streams : k # videoLoads => videoClock'[k] = videoClock[k]
        BY <2>1, <2>2
    <2>5. /\ videoMap' = 0 /\ videoNow' = videoNow
          /\ videoPlaying'[videoLoads] /\ videoLoads' = videoLoads
        BY <1>6, <2>1 DEF VideoStarts
    <2>6. \A k \in Streams : videoClock'[k].start + videoClock'[k].lost <= videoNow
        BY <2>3, <2>4
    <2> QED
        BY <2>5, <2>6
<1>7. CASE VideoStores
    BY <1>7 DEF VideoStores
<1>8. CASE VideoPlay
    <2> DEFINE clock == videoClock[videoMap]
    <2>1. videoMap \in Streams /\ videoMap' = videoMap /\ videoNow' = videoNow
        BY <1>8 DEF VideoPlay
    <2>2. videoPlaying'[videoMap] /\ videoJs' = videoJs /\ videoJs.pc = "script"
        BY <1>8, <2>1 DEF VideoPlay
    <2>3. CASE ~videoPlaying[videoMap] /\ clock.paused # 0
        <3>1. videoClock' = [videoClock EXCEPT ![videoMap].lost = @ + videoNow - clock.paused]
            BY <1>8, <2>3 DEF VideoPlay
        <3>2. /\ videoClock'[videoMap].start = clock.start
              /\ videoClock'[videoMap].lost = clock.lost + videoNow - clock.paused
            BY <2>1, <3>1
        <3>3. \A k \in Streams : k # videoMap => videoClock'[k] = videoClock[k]
            BY <2>1, <3>1
        <3>4. clock.start + clock.lost <= clock.paused
            BY <2>1, <2>2, <2>3
        <3>5. clock.start \in Nat /\ clock.paused \in Nat /\ clock.lost \in Int
            BY <2>1
        <3>6. videoClock'[videoMap].start + videoClock'[videoMap].lost <= videoNow
            BY ONLY <3>2, <3>4, <3>5, videoNow \in Nat
        <3> QED
            BY <2>1, <2>2, <3>3, <3>6
    <2>4. CASE ~(~videoPlaying[videoMap] /\ clock.paused # 0)
        <3>1. videoClock' = videoClock
            BY <1>8, <2>4 DEF VideoPlay
        <3> QED
            BY <2>1, <2>2, <3>1
    <2> QED
        BY <2>3, <2>4
<1>9. CASE VideoPause
    BY <1>9 DEF VideoPause
<1>10. CASE VideoCleanup
    BY <1>10 DEF VideoCleanup, VideoTeardown
<1>11. ASSUME NEW k \in Streams, VideoWorkerSteps(k) PROVE VideoClockInv'
    <2>1. CASE VideoWorkerRewinds(k)
        BY <2>1 DEF VideoWorkerRewinds, VideoWorkerGoes
    <2>2. CASE ~VideoWorkerRewinds(k)
        <3>1. UNCHANGED <<videoNow, videoClock, videoJs, videoMap, videoLoads, videoPlaying>>
            BY <1>11, <2>2 DEF VideoWorkerSteps, VideoWorkerTests, VideoWorkerLooks,
               VideoWorkerReads, VideoWorkerLocks, VideoWorkerPublishes, VideoWorkerRequests
        <3> QED
            BY <3>1
    <2> QED
        BY <2>1, <2>2
<1>12. CASE VideoRenderSteps
    <2>1. UNCHANGED <<videoNow, videoClock, videoJs, videoMap, videoLoads, videoPlaying>>
        BY <1>12 DEF VideoRenderSteps, VideoRenderBegins, VideoRenderLooks, VideoRenderUploads,
           VideoRenderTask
    <2> QED
        BY <2>1
<1>13. CASE VideoTick
    BY <1>13 DEF VideoTick
<1>14. CASE UNCHANGED videoVars
    BY <1>14 DEF videoVars
<1> QED
    BY <1>1, <1>2, <1>3, <1>4, <1>5, <1>6, <1>7, <1>8, <1>9, <1>10, <1>11, <1>12, <1>13,
       <1>14
    DEF VideoNext, VideoScriptSteps, VideoHostSteps

\* Textures: the pass under way keeps the render thread from making the next one.
LEMMA VideoTextureStep ==
    ASSUME VideoIInv, [VideoNext]_videoVars
    PROVE  VideoTextureInv'
<1> USE VideoBoundsAssumption DEF VideoIInv, VideoTypeOK, VideoLoadInv, VideoTextureInv,
    VideoIn, VideoScript,
        videoFlags
<1>1. CASE UNCHANGED <<videoTasks, videoTexture, videoRender, videoLoads>>
    BY <1>1
<1>2. CASE VideoRequestsTexture
    <2>1. videoLoads' = videoLoads + 1 /\ videoLoads \in Nat
        BY <1>2 DEF VideoRequestsTexture
    <2>2. videoTasks \in Seq(1..videoLoads') /\ videoLoads' \in 1..videoLoads'
        <3>1. 1..videoLoads \subseteq 1..videoLoads'
            BY <2>1
        <3>2. \A i \in 1..Len(videoTasks) : videoTasks[i] \in 1..videoLoads'
            <4>1. videoTasks \in Seq(1..videoLoads)
                OBVIOUS
            <4>2. \A i \in 1..Len(videoTasks) : videoTasks[i] \in 1..videoLoads
                BY <4>1, ElementOfSeq
            <4> QED
                BY Zenon, <3>1, <4>2
        <3> QED
            BY <2>1, <3>2
    <2>3. videoTasks' \in Seq(1..videoLoads')
        BY <1>2, <2>2 DEF VideoRequestsTexture
    <2> QED
        BY <1>2, <2>1, <2>3 DEF VideoRequestsTexture
<1>3. CASE VideoRenderBegins
    BY <1>3 DEF VideoRenderBegins
<1>4. CASE VideoRenderLooks
    BY <1>4 DEF VideoRenderLooks, VideoIdle
<1>5. CASE VideoRenderUploads
    BY <1>5 DEF VideoRenderUploads, VideoIdle
<1>6. CASE VideoRenderTask
    <2>1. Head(videoTasks) \in 1..videoLoads /\ Tail(videoTasks) \in Seq(1..videoLoads)
        BY <1>6 DEF VideoRenderTask
    <2>2. videoRender.stream = 0
        BY <1>6 DEF VideoRenderTask
    <2> QED
        BY <1>6, <2>1, <2>2 DEF VideoRenderTask
<1>7. CASE VideoNext
    <2>1. \/ VideoRequestsTexture \/ VideoRenderSteps
          \/ UNCHANGED <<videoTasks, videoTexture, videoRender, videoLoads>>
        BY <1>7 DEF VideoNext, VideoScriptSteps, VideoHostSteps, VideoWorkerSteps, VideoLoad,
           VideoStop, VideoPlay, VideoPause, VideoCleanup, VideoJoin, VideoOpenFails,
           VideoStarts, VideoStores, VideoTick, VideoWorkerTests, VideoWorkerLooks,
           VideoWorkerReads, VideoWorkerRewinds, VideoWorkerLocks, VideoWorkerPublishes,
           VideoWorkerRequests, videoScreen
    <2> QED
        BY <1>1, <1>2, <1>3, <1>4, <1>5, <1>6, <2>1 DEF VideoRenderSteps
<1> QED
    BY <1>1, <1>7 DEF videoVars

\* The invariant holds initially and every step preserves it.
THEOREM VideoInvariance == VideoSpec => []VideoIInv
<1>1. VideoIInv /\ [VideoNext]_videoVars => VideoTypeOK' /\ VideoLoadInv'
    <2> SUFFICES ASSUME VideoIInv, [VideoNext]_videoVars
                 PROVE  VideoTypeOK' /\ VideoLoadInv'
        OBVIOUS
    <2>1. VideoFlagsType /\ VideoDataType /\ VideoLoadInv
        BY VideoTypeParts DEF VideoIInv
    <2>2. VideoFlagsType' /\ VideoDataType' /\ VideoLoadInv'
        BY <2>1, VideoFlagsStep, VideoDataStep
    <2> QED
        BY <2>2, VideoTypeParts, PTL
<1>2. VideoIInv /\ [VideoNext]_videoVars => VideoIInv'
    BY <1>1, VideoNewStep, VideoClockStep, VideoTextureStep DEF VideoIInv
<1> QED
    BY <1>2, VideoInitInv, PTL DEF VideoSpec

\* The state of the ffmpeg plugin is well formed.
THEOREM VideoTypeCorrect == VideoSpec => []VideoTypeOK
<1>1. VideoIInv => VideoTypeOK
    BY DEF VideoIInv
<1> QED
    BY <1>1, VideoInvariance, PTL

\* Playback never stands before its beginning (js_play, js_pause, the worker's rewind).
THEOREM ClockCorrect == VideoSpec => []VideoClockNeverNegative
<1>1. VideoIInv => VideoClockNeverNegative
    BY DEF VideoIInv, VideoClockInv, VideoTypeOK, VideoClockNeverNegative, VideoMediaTime
<1> QED
    BY <1>1, VideoInvariance, PTL

\* A replaced stream's frames never meet its successor's texture (js_load,
\* on_render_begin).
THEOREM FramesCorrect == VideoSpec => []VideoNoOldFrame
<1>1. VideoIInv => VideoNoOldFrame
    BY DEF VideoIInv, VideoTextureInv, VideoNoOldFrame
<1> QED
    BY <1>1, VideoInvariance, PTL

-----------------------------------------------------------------------------
(* dbus: its signals                                                       *)

\* The signals delivered to the end so far.
SigDone == sigSent - Len(sigWire) - Len(sigQueue) - Len(sigBatch)

\* No function is twice in a list.
SigDistinct(s) == \A i, j \in 1..Len(s) : i # j => s[i] # s[j]

\* The sequences and numbers.
SigDataType ==
    /\ sigCallbacks \in Seq(SigCallbacks) /\ sigCopies \in Seq(SigCallbacks)
    /\ sigHeard \in [SigCallbacks -> Seq(Nat)]
    /\ IsSeq(sigWire) /\ IsSeq(sigQueue) /\ IsSeq(sigBatch)
    /\ sigSent \in Nat /\ sigTurn \in Nat

\* Signals are numbered as they were sent, on the bus, in the queue and in the batch.
SigNumberInv ==
    /\ SigDone >= 0
    /\ \A i \in 1..Len(sigWire)  : sigWire[i].n = sigSent - Len(sigWire) + i
    /\ \A i \in 1..Len(sigQueue) : sigQueue[i].n = sigSent - Len(sigWire) - Len(sigQueue) + i
    /\ \A i \in 1..Len(sigBatch) : sigBatch[i].n = SigDone + i

\* Only while an update delivers there is a batch and a turn to take.
SigTurnInv ==
    /\ sigJs \in {"script", "deliver", "callback", "over"}
    /\ SigDistinct(sigCallbacks) /\ SigDistinct(sigCopies)
    /\ sigJs \in {"script", "over"} => sigBatch = <<>>
    /\ sigJs = "callback" => sigBatch # <<>>
    /\ sigBatch = <<>> => sigTurn = 1
    /\ sigTurn \in 1..(Len(sigCopies) + 1)

\* The last signal c has heard.
SigLast(c) == sigHeard[c][Len(sigHeard[c])]

\* Who has heard anything and is in the list has heard the last signal delivered to all;
\* during an update, the callbacks that had their turn have heard the one being
\* delivered too, and those added meanwhile nothing.
SigHeardInv ==
    /\ sigJs \in {"deliver", "callback"} =>
          /\ \A k \in 1..Len(sigCopies) :
                sigHeard[sigCopies[k]] # <<>>
                => SigLast(sigCopies[k])
                   = IF k < sigTurn /\ sigBatch # <<>> THEN SigDone + 1 ELSE SigDone
          /\ \A k \in 1..Len(sigCallbacks) :
                (\A l \in 1..Len(sigCopies) : sigCopies[l] # sigCallbacks[k])
                => sigHeard[sigCallbacks[k]] = <<>>
    /\ sigJs = "script" =>
          \A k \in 1..Len(sigCallbacks) :
             sigHeard[sigCallbacks[k]] # <<>> => SigLast(sigCallbacks[k]) = SigDone

SigInv == SigTypeOK /\ SigDataType /\ SigNumberInv /\ SigTurnInv /\ SigHeardInv /\ SigNoneMissed

\* At first nothing was sent.
LEMMA SigInitInv == SigInit => SigInv
<1> SUFFICES ASSUME SigInit PROVE SigInv
    OBVIOUS
<1>1. SigTypeOK
    BY SigAssumption DEF SigInit, SigTypeOK
<1>2. SigDataType
    BY EmptyAny DEF SigInit, SigDataType
<1>3. SigNumberInv
    BY EmptyAny DEF SigInit, SigNumberInv, SigDone
<1>4. SigTurnInv
    BY DEF SigInit, SigTurnInv, SigDistinct
<1>5. SigHeardInv
    BY DEF SigInit, SigHeardInv
<1>6. SigNoneMissed
    BY DEF SigInit, SigNoneMissed
<1> QED
    BY <1>1, <1>2, <1>3, <1>4, <1>5, <1>6 DEF SigInv

\* The step of SigNext that sends a signal.
SigEmits == \E n \in 1..SigMax : n = sigSent + 1 /\ \E b \in SigBodies[n] : SigEmit(b[1], b[2])

\* The parts of the invariant, one by one: types,
LEMMA SigDataStep ==
    ASSUME SigInv, [SigNext]_sigVars
    PROVE  SigDataType'
<1> USE DEF SigDataType
<1>0. SigDataType /\ SigTurnInv /\ SigNumberInv
    BY DEF SigInv
<1>1. ASSUME NEW c \in SigCallbacks, SigOn(c) PROVE SigDataType'
    <2>1. sigCallbacks' \in Seq(SigCallbacks)
        BY <1>0, <1>1, AppendProperties DEF SigOn
    <2>2. sigHeard' \in [SigCallbacks -> Seq(Nat)]
        BY <1>0, <1>1 DEF SigOn
    <2> QED
        BY <1>0, <1>1, <2>1, <2>2 DEF SigOn
<1>2. ASSUME NEW c \in SigCallbacks, SigOff(c) PROVE SigDataType'
    <2>1. PICK i \in DOMAIN sigCallbacks : sigCallbacks' = RemoveAt(sigCallbacks, i)
        BY <1>2 DEF SigOff
    <2>2. i \in 1..Len(sigCallbacks)
        BY <1>0, LenProperties
    <2>3. sigCallbacks' \in Seq(SigCallbacks)
        BY <1>0, <2>1, <2>2, RemoveAtProperties
    <2> QED
        BY <1>0, <1>2, <2>3 DEF SigOff
<1>3. CASE SigOffAll
    BY <1>0, <1>3 DEF SigOffAll
<1>4. CASE SigEmits
    <2>1. sigSent' = sigSent + 1 /\ (\E e : sigWire' = Append(sigWire, e))
          /\ UNCHANGED <<sigCallbacks, sigQueue, sigBatch, sigCopies, sigTurn, sigHeard>>
        BY <1>4 DEF SigEmits, SigEmit
    <2>2. IsSeq(sigWire')
        BY <1>0, <2>1, AppendAny
    <2> QED
        BY <1>0, <2>1, <2>2
<1>5. CASE SigPump
    <2>1. sigWire # <<>> /\ sigWire' = Tail(sigWire) /\ (\E e : sigQueue' = Append(sigQueue, e))
          /\ UNCHANGED <<sigCallbacks, sigSent, sigBatch, sigCopies, sigTurn, sigHeard>>
        BY <1>5 DEF SigPump
    <2>2. IsSeq(sigWire')
        BY <1>0, <2>1, TailAny
    <2>3. IsSeq(sigQueue')
        BY <1>0, <2>1, AppendAny
    <2> QED
        BY <1>0, <2>1, <2>2, <2>3
<1>6. CASE SigUpdate
    BY <1>0, <1>6, EmptyAny DEF SigUpdate
<1>7. CASE SigCall
    <2> DEFINE c == sigCopies[sigTurn]
               n == Head(sigBatch).n
    <2>1. c \in SigCallbacks
        BY <1>0, <1>7, ElementOfSeq DEF SigCall, SigTurnInv
    <2>2. n \in Nat
        <3>1. Head(sigBatch) = sigBatch[1] /\ Len(sigBatch) \in Nat \ {0}
            BY <1>0, <1>7, TailAny DEF SigCall
        <3>2. sigBatch[1].n = SigDone + 1
            BY <1>0, <3>1 DEF SigNumberInv
        <3>3. SigDone \in Nat
            BY <1>0, LenAny DEF SigDone, SigNumberInv
        <3> QED
            BY <3>1, <3>2, <3>3
    <2>3. sigHeard' = [sigHeard EXCEPT ![c] = Append(sigHeard[c], n)]
          /\ UNCHANGED <<sigCallbacks, sigSent, sigWire, sigQueue, sigBatch, sigCopies>>
          /\ sigTurn' = sigTurn + 1
        BY <1>7 DEF SigCall
    <2> HIDE DEF c, n
    <2>4. Append(sigHeard[c], n) \in Seq(Nat)
        BY <1>0, <2>1, <2>2, AppendProperties
    <2>5. sigHeard' \in [SigCallbacks -> Seq(Nat)]
        BY <1>0, <2>1, <2>3, <2>4
    <2> QED
        BY <1>0, <2>3, <2>5
<1>8. CASE SigCallReturns
    BY <1>0, <1>8 DEF SigCallReturns
<1>9. CASE SigNextSignal
    BY <1>0, <1>9, TailAny DEF SigNextSignal
<1>10. CASE SigUpdateEnds
    BY <1>0, <1>10 DEF SigUpdateEnds
<1>11. CASE SigShutdown
    BY <1>0, <1>11, EmptyAny DEF SigShutdown
<1>12. CASE UNCHANGED sigVars
    BY <1>0, <1>12 DEF sigVars
<1> QED
    BY <1>1, <1>2, <1>3, <1>4, <1>5, <1>6, <1>7, <1>8, <1>9, <1>10, <1>11, <1>12
       DEF SigNext, SigEmits

\* numbers,
LEMMA SigNumberStep ==
    ASSUME SigInv, [SigNext]_sigVars
    PROVE  SigNumberInv'
<1> USE DEF SigNumberInv, SigDone
<1>0. SigDataType /\ SigTurnInv /\ SigNumberInv
    BY DEF SigInv
<1>a. /\ IsSeq(sigWire) /\ IsSeq(sigQueue) /\ IsSeq(sigBatch) /\ sigSent \in Nat
      /\ Len(sigWire) \in Nat /\ Len(sigQueue) \in Nat /\ Len(sigBatch) \in Nat
    BY <1>0, LenAny DEF SigDataType
<1>1. CASE SigEmits
    <2>1. /\ sigSent' = sigSent + 1
          /\ UNCHANGED <<sigQueue, sigBatch>>
          /\ \E e : sigWire' = Append(sigWire, e) /\ e.n = sigSent + 1
        BY <1>1 DEF SigEmits, SigEmit
    <2>2. PICK e : sigWire' = Append(sigWire, e) /\ e.n = sigSent + 1
        BY <2>1
    <2>3. /\ Len(sigWire') = Len(sigWire) + 1
          /\ \A i \in 1..Len(sigWire) : sigWire'[i] = sigWire[i]
          /\ sigWire'[Len(sigWire) + 1] = e
        BY <1>a, <2>2, AppendAny
    <2>4. ASSUME NEW i \in 1..Len(sigWire') PROVE sigWire'[i].n = sigSent' - Len(sigWire') + i
        <3>1. CASE i = Len(sigWire) + 1
            BY <1>a, <2>1, <2>2, <2>3, <3>1
        <3>2. CASE i # Len(sigWire) + 1
            <4>1. i \in 1..Len(sigWire)
                BY <1>a, <2>3, <3>2
            <4> QED
                BY <1>0, <1>a, <2>1, <2>3, <4>1
        <3> QED
            BY <3>1, <3>2
    <2>5. sigSent' - Len(sigWire') = sigSent - Len(sigWire)
        BY <1>a, <2>1, <2>3
    <2>6. SigDone' >= 0
        BY <1>0, <2>1, <2>5
    <2>7. \A i \in 1..Len(sigQueue') :
             sigQueue'[i].n = sigSent' - Len(sigWire') - Len(sigQueue') + i
        BY <1>0, <2>1, <2>5
    <2>8. \A i \in 1..Len(sigBatch') : sigBatch'[i].n = SigDone' + i
        BY <1>0, <2>1, <2>5
    <2> QED
        BY <2>4, <2>6, <2>7, <2>8
<1>2. CASE SigPump
    <2>1. /\ sigWire # <<>> /\ sigWire' = Tail(sigWire)
          /\ UNCHANGED <<sigSent, sigBatch>>
          /\ \E e : sigQueue' = Append(sigQueue, e) /\ e.n = Head(sigWire).n
        BY <1>2 DEF SigPump
    <2>2. PICK e : sigQueue' = Append(sigQueue, e) /\ e.n = Head(sigWire).n
        BY <2>1
    <2>3. /\ Len(sigQueue') = Len(sigQueue) + 1
          /\ \A i \in 1..Len(sigQueue) : sigQueue'[i] = sigQueue[i]
          /\ sigQueue'[Len(sigQueue) + 1] = e
        BY <1>a, <2>2, AppendAny
    <2>4. /\ Len(sigWire) \in Nat \ {0} /\ Len(sigWire') = Len(sigWire) - 1
          /\ \A i \in 1..Len(sigWire) - 1 : sigWire'[i] = sigWire[i + 1]
          /\ Head(sigWire) = sigWire[1]
        BY <1>a, <2>1, TailAny
    <2>5. sigSent' - Len(sigWire') - Len(sigQueue') = sigSent - Len(sigWire) - Len(sigQueue)
        BY <1>a, <2>1, <2>3, <2>4
    <2>6. ASSUME NEW i \in 1..Len(sigQueue')
          PROVE  sigQueue'[i].n = sigSent' - Len(sigWire') - Len(sigQueue') + i
        <3>1. CASE i = Len(sigQueue) + 1
            <4>1. e.n = sigSent - Len(sigWire) + 1
                BY <1>0, <2>2, <2>4
            <4> QED
                BY <1>a, <2>1, <2>3, <2>4, <3>1, <4>1
        <3>2. CASE i # Len(sigQueue) + 1
            <4>1. i \in 1..Len(sigQueue)
                BY <1>a, <2>3, <3>2
            <4> QED
                BY <1>0, <1>a, <2>3, <2>5, <4>1
        <3> QED
            BY <3>1, <3>2
    <2>7. ASSUME NEW i \in 1..Len(sigWire') PROVE sigWire'[i].n = sigSent' - Len(sigWire') + i
        <3>1. i + 1 \in 1..Len(sigWire) /\ i \in 1..Len(sigWire) - 1
            BY <1>a, <2>4
        <3>2. sigWire[i + 1].n = sigSent - Len(sigWire) + (i + 1)
            BY <1>0, <3>1
        <3> QED
            BY <1>a, <2>1, <2>4, <3>1, <3>2
    <2>8. SigDone' >= 0 /\ \A i \in 1..Len(sigBatch') : sigBatch'[i].n = SigDone' + i
        BY <1>0, <2>1, <2>5
    <2> QED
        BY <2>6, <2>7, <2>8
<1>3. CASE SigUpdate
    <2>1. sigBatch = <<>> /\ sigBatch' = sigQueue /\ sigQueue' = <<>>
          /\ UNCHANGED <<sigSent, sigWire>>
        BY <1>0, <1>3 DEF SigUpdate, SigTurnInv
    <2> QED
        BY <1>0, <1>a, <2>1, EmptyAny
<1>4. CASE SigNextSignal
    <2>1. sigBatch # <<>> /\ sigBatch' = Tail(sigBatch) /\ UNCHANGED <<sigSent, sigWire, sigQueue>>
        BY <1>4 DEF SigNextSignal
    <2>2. /\ Len(sigBatch) \in Nat \ {0} /\ Len(sigBatch') = Len(sigBatch) - 1
          /\ \A i \in 1..Len(sigBatch) - 1 : sigBatch'[i] = sigBatch[i + 1]
        BY <1>a, <2>1, TailAny
    <2>3. ASSUME NEW i \in 1..Len(sigBatch') PROVE sigBatch'[i].n = SigDone' + i
        <3>1. i + 1 \in 1..Len(sigBatch) /\ i \in 1..Len(sigBatch) - 1
            BY <2>2
        <3>2. sigBatch[i + 1].n = SigDone + (i + 1)
            BY <1>0, <3>1
        <3> QED
            BY <1>a, <2>1, <2>2, <3>1, <3>2
    <2> QED
        BY <1>0, <1>a, <2>1, <2>2, <2>3
<1>5. CASE SigShutdown
    <2>1. sigBatch = <<>> /\ sigQueue' = <<>> /\ UNCHANGED <<sigSent, sigWire, sigBatch>>
        BY <1>0, <1>5 DEF SigShutdown, SigTurnInv
    <2> QED
        BY <1>0, <1>a, <2>1, EmptyAny
<1>6. CASE \/ \E c \in SigCallbacks : SigOn(c) \/ SigOff(c)
           \/ SigOffAll \/ SigCall \/ SigCallReturns \/ SigUpdateEnds \/ UNCHANGED sigVars
    <2>1. UNCHANGED <<sigSent, sigWire, sigQueue, sigBatch>>
        BY <1>6 DEF SigOn, SigOff, SigOffAll, SigCall, SigCallReturns, SigUpdateEnds, sigVars
    <2> QED
        BY <1>0, <2>1
<1> QED
    BY <1>1, <1>2, <1>3, <1>4, <1>5, <1>6 DEF SigNext, SigEmits

\* turns,
LEMMA SigTurnStep ==
    ASSUME SigInv, [SigNext]_sigVars
    PROVE  SigTurnInv'
<1> USE DEF SigTurnInv
<1>0. SigDataType /\ SigTurnInv
    BY DEF SigInv
<1>a. /\ sigCallbacks \in Seq(SigCallbacks) /\ Len(sigCallbacks) \in Nat /\ Len(sigCopies) \in Nat
      /\ DOMAIN sigCallbacks = 1..Len(sigCallbacks)
    BY <1>0, LenProperties DEF SigDataType
<1>1. ASSUME NEW c \in SigCallbacks, SigOn(c) PROVE SigTurnInv'
    <2>1. /\ sigCallbacks' = Append(sigCallbacks, c) /\ c \notin Range(sigCallbacks)
          /\ UNCHANGED <<sigJs, sigBatch, sigCopies, sigTurn>>
        BY <1>1 DEF SigOn
    <2>2. \A i \in 1..Len(sigCallbacks) : sigCallbacks[i] # c
        BY <1>a, <2>1 DEF Range
    <2>3. /\ Len(sigCallbacks') = Len(sigCallbacks) + 1
          /\ \A i \in 1..Len(sigCallbacks) : sigCallbacks'[i] = sigCallbacks[i]
          /\ sigCallbacks'[Len(sigCallbacks) + 1] = c
        BY <1>a, <2>1, AppendProperties
    <2>4. ASSUME NEW i \in 1..Len(sigCallbacks'), NEW j \in 1..Len(sigCallbacks'), i # j
          PROVE  sigCallbacks'[i] # sigCallbacks'[j]
        <3>1. \A k \in 1..Len(sigCallbacks') :
                 k \in 1..Len(sigCallbacks) \/ k = Len(sigCallbacks) + 1
            BY <1>a, <2>3
        <3>2. CASE i = Len(sigCallbacks) + 1
            <4>1. j \in 1..Len(sigCallbacks)
                BY <2>4, <3>1, <3>2
            <4> QED
                BY <2>2, <2>3, <3>2, <4>1
        <3>3. CASE j = Len(sigCallbacks) + 1
            <4>1. i \in 1..Len(sigCallbacks)
                BY <2>4, <3>1, <3>3
            <4> QED
                BY <2>2, <2>3, <3>3, <4>1
        <3>4. CASE i \in 1..Len(sigCallbacks) /\ j \in 1..Len(sigCallbacks)
            BY <1>0, <2>3, <2>4, <3>4 DEF SigDistinct
        <3> QED
            BY <3>1, <3>2, <3>3, <3>4
    <2>5. SigDistinct(sigCallbacks)'
        BY <2>4 DEF SigDistinct
    <2> QED
        BY <1>0, <2>1, <2>5 DEF SigDistinct
<1>2. ASSUME NEW c \in SigCallbacks, SigOff(c) PROVE SigTurnInv'
    <2>1. PICK i \in DOMAIN sigCallbacks : sigCallbacks' = RemoveAt(sigCallbacks, i)
        BY <1>2 DEF SigOff
    <2>2. UNCHANGED <<sigJs, sigBatch, sigCopies, sigTurn>>
        BY <1>2 DEF SigOff
    <2>3. i \in 1..Len(sigCallbacks)
        BY <1>a
    <2>4. /\ Len(sigCallbacks') = Len(sigCallbacks) - 1
          /\ \A k \in 1..Len(sigCallbacks) - 1 :
                sigCallbacks'[k] = IF k < i THEN sigCallbacks[k] ELSE sigCallbacks[k + 1]
        BY <1>a, <2>1, <2>3, RemoveAtProperties
    <2>5. ASSUME NEW k \in 1..Len(sigCallbacks'), NEW l \in 1..Len(sigCallbacks'), k # l
          PROVE  sigCallbacks'[k] # sigCallbacks'[l]
        <3> DEFINE to(x) == IF x < i THEN x ELSE x + 1
        <3>1. to(k) \in 1..Len(sigCallbacks) /\ to(l) \in 1..Len(sigCallbacks) /\ to(k) # to(l)
            BY <1>a, <2>3, <2>4, <2>5
        <3>2. sigCallbacks'[k] = sigCallbacks[to(k)] /\ sigCallbacks'[l] = sigCallbacks[to(l)]
            BY <1>a, <2>4
        <3> HIDE DEF to
        <3> QED
            BY <1>0, <3>1, <3>2 DEF SigDistinct
    <2>6. SigDistinct(sigCallbacks)'
        BY <2>5 DEF SigDistinct
    <2> QED
        BY <1>0, <2>2, <2>6 DEF SigDistinct
<1>3. CASE SigOffAll
    BY <1>0, <1>3 DEF SigOffAll, SigDistinct
<1>4. CASE SigEmits \/ SigPump \/ UNCHANGED sigVars
    <2>1. UNCHANGED <<sigJs, sigCallbacks, sigBatch, sigCopies, sigTurn>>
        BY <1>4 DEF SigEmits, SigEmit, SigPump, sigVars
    <2> QED
        BY <1>0, <2>1 DEF SigDistinct
<1>5. CASE SigUpdate
    BY <1>0, <1>a, <1>5 DEF SigUpdate, SigDistinct
<1>6. CASE SigCall
    BY <1>0, <1>a, <1>6 DEF SigCall, SigDistinct
<1>7. CASE SigCallReturns
    BY <1>0, <1>7 DEF SigCallReturns, SigDistinct
<1>8. CASE SigNextSignal
    BY <1>0, <1>a, <1>8 DEF SigNextSignal, SigDistinct
<1>9. CASE SigUpdateEnds
    BY <1>0, <1>9, EmptyAny DEF SigUpdateEnds, SigDistinct
<1>10. CASE SigShutdown
    BY <1>0, <1>10, EmptyAny DEF SigShutdown, SigDistinct
<1> QED
    BY <1>1, <1>2, <1>3, <1>4, <1>5, <1>6, <1>7, <1>8, <1>9, <1>10 DEF SigNext, SigEmits

\* The number of the signal being delivered.
LEMMA SigHeadNumber ==
    ASSUME SigDataType, SigNumberInv, sigBatch # <<>>
    PROVE  /\ Head(sigBatch).n = SigDone + 1 /\ SigDone \in Nat
           /\ SigDone + 1 <= sigSent
<1>1. Head(sigBatch) = sigBatch[1] /\ Len(sigBatch) \in Nat \ {0}
    BY TailAny DEF SigDataType
<1>2. Len(sigWire) \in Nat /\ Len(sigQueue) \in Nat /\ sigSent \in Nat
    BY LenAny DEF SigDataType
<1> QED
    BY <1>1, <1>2 DEF SigNumberInv, SigDone

\* who has heard the last signal,
LEMMA SigHeardStep ==
    ASSUME SigInv, [SigNext]_sigVars
    PROVE  SigHeardInv'
<1> USE DEF SigHeardInv, SigLast
<1>0. SigDataType /\ SigNumberInv /\ SigTurnInv /\ SigHeardInv
    BY DEF SigInv
<1>a. /\ sigCallbacks \in Seq(SigCallbacks) /\ sigCopies \in Seq(SigCallbacks)
      /\ Len(sigCallbacks) \in Nat /\ Len(sigCopies) \in Nat
      /\ DOMAIN sigCallbacks = 1..Len(sigCallbacks)
      /\ \A k \in 1..Len(sigCallbacks) : sigCallbacks[k] \in SigCallbacks
      /\ \A k \in 1..Len(sigCopies) : sigCopies[k] \in SigCallbacks
      /\ sigHeard \in [SigCallbacks -> Seq(Nat)]
      /\ sigSent \in Nat /\ sigTurn \in Nat
    BY <1>0, LenProperties, ElementOfSeq DEF SigDataType
<1>b. /\ IsSeq(sigWire) /\ IsSeq(sigQueue) /\ IsSeq(sigBatch)
      /\ Len(sigWire) \in Nat /\ Len(sigQueue) \in Nat /\ Len(sigBatch) \in Nat
    BY <1>0, LenAny DEF SigDataType
<1>1. ASSUME NEW c \in SigCallbacks, SigOn(c) PROVE SigHeardInv'
    <2>1. /\ sigCallbacks' = Append(sigCallbacks, c) /\ c \notin Range(sigCallbacks)
          /\ sigHeard' = [sigHeard EXCEPT ![c] = <<>>]
          /\ UNCHANGED <<sigJs, sigSent, sigWire, sigQueue, sigBatch, sigCopies, sigTurn>>
        BY <1>1 DEF SigOn
    <2>2. sigHeard'[c] = <<>> /\ \A d \in SigCallbacks : d # c => sigHeard'[d] = sigHeard[d]
        BY <1>a, <2>1
    <2>3. SigDone' = SigDone
        BY <2>1 DEF SigDone
    <2>4. /\ Len(sigCallbacks') = Len(sigCallbacks) + 1
          /\ \A i \in 1..Len(sigCallbacks) : sigCallbacks'[i] = sigCallbacks[i]
          /\ sigCallbacks'[Len(sigCallbacks) + 1] = c
        BY <1>a, <2>1, AppendProperties
    <2>5. \A k \in 1..Len(sigCallbacks') :
             sigCallbacks'[k] # c
                => k \in 1..Len(sigCallbacks) /\ sigCallbacks'[k] = sigCallbacks[k]
        <3> SUFFICES ASSUME NEW k \in 1..Len(sigCallbacks'), sigCallbacks'[k] # c
                     PROVE  k \in 1..Len(sigCallbacks) /\ sigCallbacks'[k] = sigCallbacks[k]
            OBVIOUS
        <3>1. k # Len(sigCallbacks) + 1
            BY <2>4
        <3>2. k \in 1..Len(sigCallbacks)
            BY <1>a, <2>4, <3>1
        <3> QED
            BY <2>4, <3>2
    <2> HIDE DEF SigLast
    <2>6. \A d \in SigCallbacks : d # c => SigLast(d)' = SigLast(d)
        BY <2>2 DEF SigLast
    <2>7. ASSUME NEW k \in 1..Len(sigCopies'), sigJs' \in {"deliver", "callback"},
                 sigHeard'[sigCopies'[k]] # <<>>
          PROVE  SigLast(sigCopies[k])'
                 = IF k < sigTurn' /\ sigBatch' # <<>> THEN SigDone' + 1 ELSE SigDone'
        <3>1. sigCopies[k] # c /\ sigCopies[k] \in SigCallbacks /\ k \in 1..Len(sigCopies)
            BY <1>a, <2>1, <2>2, <2>7
        <3>2. SigLast(sigCopies[k])' = SigLast(sigCopies[k])
            BY <2>1, <2>2, <3>1 DEF SigLast
        <3> QED
            BY <1>0, <2>1, <2>2, <2>3, <2>7, <3>1, <3>2
    <2>8. ASSUME NEW k \in 1..Len(sigCallbacks'), sigJs' \in {"deliver", "callback"},
                 \A l \in 1..Len(sigCopies') : sigCopies'[l] # sigCallbacks'[k]
          PROVE  sigHeard'[sigCallbacks'[k]] = <<>>
        <3>1. CASE sigCallbacks'[k] = c
            BY <2>2, <3>1
        <3>2. CASE sigCallbacks'[k] # c
            <4>1. k \in 1..Len(sigCallbacks) /\ sigCallbacks'[k] = sigCallbacks[k]
                  /\ sigCallbacks[k] \in SigCallbacks /\ sigJs \in {"deliver", "callback"}
                BY <1>a, <2>1, <2>5, <2>8, <3>2
            <4>2. \A l \in 1..Len(sigCopies) : sigCopies[l] # sigCallbacks[k]
                BY <2>1, <2>8, <4>1
            <4>3. sigHeard[sigCallbacks[k]] = <<>>
                BY <1>0, <4>1, <4>2
            <4>4. sigHeard'[sigCallbacks[k]] = sigHeard[sigCallbacks[k]]
                BY <2>2, <3>2, <4>1
            <4> QED
                BY <4>1, <4>3, <4>4
        <3> QED
            BY <3>1, <3>2
    <2>9. ASSUME NEW k \in 1..Len(sigCallbacks'), sigJs' = "script",
                 sigHeard'[sigCallbacks'[k]] # <<>>
          PROVE  SigLast(sigCallbacks[k])' = SigDone'
        <3>1. sigCallbacks'[k] # c
            BY <2>2, <2>9
        <3>2. k \in 1..Len(sigCallbacks) /\ sigCallbacks'[k] = sigCallbacks[k]
              /\ sigCallbacks[k] \in SigCallbacks
            BY <1>a, <2>5, <3>1
        <3>3. SigLast(sigCallbacks[k])' = SigLast(sigCallbacks[k])
            BY <2>2, <3>1, <3>2 DEF SigLast
        <3> QED
            BY <1>0, <2>1, <2>2, <2>3, <2>9, <3>1, <3>2, <3>3
    <2> QED
        BY <2>1, <2>7, <2>8, <2>9 DEF SigLast
<1>2. ASSUME NEW c \in SigCallbacks, SigOff(c) PROVE SigHeardInv'
    <2>1. PICK i \in DOMAIN sigCallbacks : sigCallbacks' = RemoveAt(sigCallbacks, i)
        BY <1>2 DEF SigOff
    <2>2. UNCHANGED <<sigJs, sigSent, sigWire, sigQueue, sigBatch, sigCopies, sigTurn, sigHeard>>
        BY <1>2 DEF SigOff
    <2>3. /\ Len(sigCallbacks') = Len(sigCallbacks) - 1
          /\ \A k \in 1..Len(sigCallbacks) - 1 :
                sigCallbacks'[k] = IF k < i THEN sigCallbacks[k] ELSE sigCallbacks[k + 1]
        BY <1>a, <2>1, RemoveAtProperties
    <2>4. \A k \in 1..Len(sigCallbacks') : \E l \in 1..Len(sigCallbacks) :
             sigCallbacks'[k] = sigCallbacks[l]
        <3> TAKE k \in 1..Len(sigCallbacks')
        <3>1. k \in 1..Len(sigCallbacks) - 1 /\ k \in 1..Len(sigCallbacks)
              /\ k + 1 \in 1..Len(sigCallbacks)
            BY <1>a, <2>3
        <3>2. sigCallbacks'[k] = IF k < i THEN sigCallbacks[k] ELSE sigCallbacks[k + 1]
            BY <2>3, <3>1
        <3> QED
            BY <3>1, <3>2
    <2>5. SigDone' = SigDone
        BY <2>2 DEF SigDone
    <2> QED
        BY <1>0, <2>2, <2>4, <2>5
<1>3. CASE SigOffAll
    BY <1>0, <1>3 DEF SigOffAll, SigDone
<1>4. CASE SigEmits \/ SigPump
    <2>1. UNCHANGED <<sigJs, sigCallbacks, sigBatch, sigCopies, sigTurn, sigHeard>>
        BY <1>4 DEF SigEmits, SigEmit, SigPump
    <2>2. SigDone' = SigDone
        <3>1. CASE SigEmits
            <4>1. sigSent' = sigSent + 1 /\ UNCHANGED <<sigQueue, sigBatch>>
                  /\ \E e : sigWire' = Append(sigWire, e)
                BY <3>1 DEF SigEmits, SigEmit
            <4>2. Len(sigWire') = Len(sigWire) + 1
                BY <1>b, <4>1, AppendAny
            <4> QED
                BY <1>a, <1>b, <4>1, <4>2 DEF SigDone
        <3>2. CASE SigPump
            <4>1. sigWire # <<>> /\ sigWire' = Tail(sigWire) /\ UNCHANGED <<sigSent, sigBatch>>
                  /\ \E e : sigQueue' = Append(sigQueue, e)
                BY <3>2 DEF SigPump
            <4>2. Len(sigQueue') = Len(sigQueue) + 1
                BY <1>b, <4>1, AppendAny
            <4>3. Len(sigWire') = Len(sigWire) - 1
                BY <1>b, <4>1, TailAny
            <4> QED
                BY <1>a, <1>b, <4>1, <4>2, <4>3 DEF SigDone
        <3> QED
            BY <1>4, <3>1, <3>2
    <2> QED
        BY <1>0, <2>1, <2>2
<1>5. CASE SigUpdate
    <2>1. /\ sigJs = "script" /\ sigJs' = "deliver" /\ sigBatch = <<>>
          /\ sigBatch' = sigQueue /\ sigQueue' = <<>> /\ sigCopies' = sigCallbacks /\ sigTurn' = 1
          /\ UNCHANGED <<sigCallbacks, sigSent, sigWire, sigHeard>>
        BY <1>0, <1>5 DEF SigUpdate, SigTurnInv
    <2>2. SigDone' = SigDone
        BY <1>a, <1>b, <2>1, EmptyAny DEF SigDone
    <2>3. \A k \in 1..Len(sigCallbacks) : ~(k < 1)
        OBVIOUS
    <2> QED
        BY <1>0, <2>1, <2>2, <2>3
<1>6. CASE SigCall
    <2> DEFINE c == sigCopies[sigTurn]
    <2>1. /\ sigJs = "deliver" /\ sigJs' = "callback" /\ sigBatch # <<>>
          /\ sigTurn <= Len(sigCopies)
          /\ sigHeard' = [sigHeard EXCEPT ![c] = Append(sigHeard[c], Head(sigBatch).n)]
          /\ sigTurn' = sigTurn + 1
          /\ UNCHANGED <<sigCallbacks, sigSent, sigWire, sigQueue, sigBatch, sigCopies>>
        BY <1>6 DEF SigCall
    <2>2. sigTurn \in 1..Len(sigCopies) /\ c \in SigCallbacks
        BY <1>0, <1>a, <2>1 DEF SigTurnInv
    <2>3. Head(sigBatch).n = SigDone + 1 /\ SigDone \in Nat
        BY <1>0, <2>1, SigHeadNumber
    <2>4. SigDone' = SigDone
        BY <2>1 DEF SigDone
    <2>5. \A k \in 1..Len(sigCopies) : sigCopies[k] = c <=> k = sigTurn
        BY <1>0, <2>2 DEF SigTurnInv, SigDistinct
    <2> HIDE DEF c
    <2>6. \A d \in SigCallbacks : d # c => sigHeard'[d] = sigHeard[d]
        BY <1>a, <2>1
    <2>7. sigHeard'[c][Len(sigHeard'[c])] = SigDone + 1
        <3>1. sigHeard[c] \in Seq(Nat) /\ SigDone + 1 \in Nat
            BY <1>a, <2>2, <2>3
        <3>2. sigHeard'[c] = Append(sigHeard[c], SigDone + 1)
            BY <1>a, <2>1, <2>2, <2>3
        <3>3. Len(sigHeard'[c]) = Len(sigHeard[c]) + 1
              /\ sigHeard'[c][Len(sigHeard[c]) + 1] = SigDone + 1
            BY <3>1, <3>2, AppendProperties
        <3> QED
            BY <3>3, Zenon
    <2>8. ASSUME NEW k \in 1..Len(sigCopies), sigHeard'[sigCopies[k]] # <<>>
          PROVE  SigLast(sigCopies[k])'
                 = IF k < sigTurn' /\ sigBatch' # <<>> THEN SigDone' + 1 ELSE SigDone'
        <3>1. CASE k = sigTurn
            <4>1. sigCopies[k] = c /\ sigCopies'[k] = c /\ k < sigTurn'
                BY <1>a, <2>1, <2>5, <3>1
            <4>2. SigLast(sigCopies[k])' = sigHeard'[c][Len(sigHeard'[c])]
                BY <4>1 DEF SigLast
            <4> QED
                BY <2>1, <2>4, <2>7, <4>1, <4>2
        <3>2. CASE k # sigTurn
            <4>1. sigCopies[k] # c /\ sigCopies[k] \in SigCallbacks /\ sigCopies'[k] = sigCopies[k]
                BY <1>a, <2>1, <2>5, <3>2
            <4>2. sigHeard'[sigCopies[k]] = sigHeard[sigCopies[k]]
                BY <2>6, <4>1
            <4>3. k < sigTurn' <=> k < sigTurn
                BY <1>a, <2>1, <3>2
            <4> QED
                BY <1>0, <2>1, <2>4, <2>8, <4>1, <4>2, <4>3
        <3> QED
            BY <3>1, <3>2
    <2>9. ASSUME NEW k \in 1..Len(sigCallbacks),
                 \A l \in 1..Len(sigCopies) : sigCopies[l] # sigCallbacks[k]
          PROVE  sigHeard'[sigCallbacks[k]] = <<>>
        <3>1. sigCallbacks[k] # c /\ sigCallbacks[k] \in SigCallbacks
            BY <1>a, <2>2, <2>9 DEF c
        <3> QED
            BY <1>0, <2>1, <2>6, <2>9, <3>1
    <2> QED
        BY <2>1, <2>8, <2>9
<1>7. CASE SigCallReturns
    BY <1>0, <1>7 DEF SigCallReturns, SigDone
<1>8. CASE SigNextSignal
    <2>1. /\ sigJs = "deliver" /\ sigBatch # <<>> /\ sigTurn > Len(sigCopies)
          /\ sigBatch' = Tail(sigBatch) /\ sigTurn' = 1
          /\ UNCHANGED <<sigJs, sigCallbacks, sigSent, sigWire, sigQueue, sigCopies, sigHeard>>
        BY <1>8 DEF SigNextSignal
    <2>2. Len(sigBatch') = Len(sigBatch) - 1
        BY <1>b, <2>1, TailAny
    <2>3. SigDone' = SigDone + 1
        BY <1>a, <1>b, <2>1, <2>2 DEF SigDone
    <2>4. \A k \in 1..Len(sigCopies) : k < sigTurn /\ ~(k < 1)
        BY <1>a, <2>1
    <2> QED
        BY <1>0, <2>1, <2>3, <2>4
<1>9. CASE SigUpdateEnds
    <2>1. sigJs = "deliver" /\ sigJs' = "script" /\ sigBatch = <<>>
          /\ UNCHANGED <<sigCallbacks, sigSent, sigWire, sigQueue, sigBatch, sigHeard>>
        BY <1>9 DEF SigUpdateEnds
    <2>2. SigDone' = SigDone
        BY <2>1 DEF SigDone
    <2> QED
        BY <1>0, <2>1, <2>2
<1>10. CASE SigShutdown
    BY <1>10 DEF SigShutdown
<1>11. CASE UNCHANGED sigVars
    BY <1>0, <1>11 DEF sigVars, SigDone
<1> QED
    BY <1>1, <1>2, <1>3, <1>4, <1>5, <1>6, <1>7, <1>8, <1>9, <1>10, <1>11 DEF SigNext, SigEmits

\* that none is missed,
LEMMA SigMissedStep ==
    ASSUME SigInv, [SigNext]_sigVars
    PROVE  SigNoneMissed'
<1>0. SigDataType /\ SigNumberInv /\ SigTurnInv /\ SigHeardInv /\ SigNoneMissed
    BY DEF SigInv
<1>a. sigHeard \in [SigCallbacks -> Seq(Nat)]
    BY <1>0 DEF SigDataType
<1>1. ASSUME NEW c \in SigCallbacks, SigOn(c) PROVE SigNoneMissed'
    <2>1. sigHeard' = [sigHeard EXCEPT ![c] = <<>>]
        BY <1>1 DEF SigOn
    <2>2. \A i \in 1..(Len(<<>>) - 1) : FALSE
        OBVIOUS
    <2> QED
        BY <1>0, <1>a, <2>1, <2>2 DEF SigNoneMissed
<1>2. CASE SigCall
    <2> DEFINE c == sigCopies[sigTurn]
    <2>1. /\ sigJs = "deliver" /\ sigBatch # <<>> /\ sigTurn \in 1..Len(sigCopies)
          /\ sigHeard' = [sigHeard EXCEPT ![c] = Append(sigHeard[c], Head(sigBatch).n)]
        BY <1>0, <1>2 DEF SigCall, SigDataType, SigTurnInv
    <2>2. c \in SigCallbacks
        BY <1>0, <2>1, ElementOfSeq DEF SigDataType
    <2>3. Head(sigBatch).n = SigDone + 1 /\ SigDone \in Nat
        BY <1>0, <2>1, SigHeadNumber
    <2>4. sigHeard[c] # <<>> => sigHeard[c][Len(sigHeard[c])] = SigDone
        <3>1. ~(sigTurn < sigTurn)
            BY <1>0 DEF SigDataType
        <3> QED
            BY <1>0, <2>1, <3>1 DEF SigHeardInv, SigLast
    <2> HIDE DEF c
    <2> DEFINE h == sigHeard[c]
               n == Len(h)
    <2>5. h \in Seq(Nat) /\ n \in Nat /\ SigDone + 1 \in Nat
        BY <1>a, <2>2, <2>3
    <2>6. sigHeard'[c] = Append(h, SigDone + 1)
        BY <1>a, <2>1, <2>2, <2>3
    <2>7. /\ Len(sigHeard'[c]) = n + 1
          /\ \A i \in 1..n : sigHeard'[c][i] = h[i]
          /\ sigHeard'[c][n + 1] = SigDone + 1
        <3> HIDE DEF h
        <3> QED
            BY <2>5, <2>6, AppendProperties
    <2>8. \A i \in 1..(n - 1) : h[i + 1] = h[i] + 1
        BY <1>0, <2>2 DEF SigNoneMissed
    <2>9. n # 0 => h[n] = SigDone
        BY <2>4, <2>5
    <2> HIDE DEF h, n
    <2>10. ASSUME NEW i \in 1..(Len(sigHeard'[c]) - 1)
           PROVE  sigHeard'[c][i + 1] = sigHeard'[c][i] + 1
        <3>1. i \in 1..n /\ (i = n \/ (i \in 1..(n - 1) /\ i + 1 \in 1..n))
            BY <2>5, <2>7
        <3>2. CASE i = n
            BY <2>5, <2>7, <2>9, <3>1, <3>2
        <3>3. CASE i \in 1..(n - 1) /\ i + 1 \in 1..n
            BY <2>7, <2>8, <3>1, <3>3
        <3> QED
            BY <3>1, <3>2, <3>3
    <2>11. \A d \in SigCallbacks : d # c => sigHeard'[d] = sigHeard[d]
        BY <1>a, <2>1
    <2> QED
        BY <1>0, <2>10, <2>11 DEF SigNoneMissed
<1>3. CASE \/ \E c \in SigCallbacks : SigOff(c)
           \/ SigOffAll \/ SigEmits \/ SigPump \/ SigUpdate \/ SigCallReturns \/ SigNextSignal
           \/ SigUpdateEnds \/ SigShutdown \/ UNCHANGED sigVars
    <2>1. sigHeard' = sigHeard
        BY <1>3 DEF SigOff, SigOffAll, SigEmits, SigEmit, SigPump, SigUpdate, SigCallReturns,
           SigNextSignal, SigUpdateEnds, SigShutdown, sigVars
    <2> QED
        BY <1>0, <2>1 DEF SigNoneMissed
<1> QED
    BY <1>1, <1>2, <1>3 DEF SigNext, SigEmits

\* and the type invariant.
LEMMA SigTypeStep ==
    ASSUME SigInv, [SigNext]_sigVars
    PROVE  SigTypeOK'
<1>0. SigTypeOK /\ SigDataType /\ SigNumberInv /\ SigTurnInv
    BY DEF SigInv
<1>1. SigDataType' /\ SigTurnInv'
    BY SigDataStep, SigTurnStep
<1>2. sigSent' \in 0..SigMax
    <2>1. CASE SigEmits
        BY <1>0, <2>1, SigAssumption DEF SigEmits, SigEmit, SigTypeOK
    <2>2. CASE ~SigEmits
        <3>1. sigSent' = sigSent
            BY <2>2 DEF SigNext, SigEmits, SigOn, SigOff, SigOffAll, SigPump, SigUpdate, SigCall,
               SigCallReturns, SigNextSignal, SigUpdateEnds, SigShutdown, sigVars
        <3> QED
            BY <1>0, <3>1 DEF SigTypeOK
    <2> QED
        BY <2>1, <2>2
<1>3. \A c \in SigCallbacks : sigHeard'[c] \in Seq(1..SigMax)
    <2>0. sigHeard \in [SigCallbacks -> Seq(1..SigMax)]
        BY <1>0 DEF SigTypeOK, SigDataType
    <2>1. ASSUME NEW c \in SigCallbacks,
        SigOn(c) PROVE sigHeard' \in [SigCallbacks -> Seq(1..SigMax)]
        BY <2>0, <2>1 DEF SigOn
    <2>2. CASE SigCall
        <3> DEFINE c == sigCopies[sigTurn]
                   n == Head(sigBatch).n
        <3>1. c \in SigCallbacks
            BY <1>0, <2>2, ElementOfSeq DEF SigCall, SigTurnInv, SigDataType
        <3>2. n \in 1..SigMax
            BY <1>0, <2>2, SigHeadNumber, SigAssumption DEF SigCall, SigTypeOK
        <3>3. sigHeard' = [sigHeard EXCEPT ![c] = Append(sigHeard[c], n)]
            BY <2>2 DEF SigCall
        <3> HIDE DEF c, n
        <3>4. Append(sigHeard[c], n) \in Seq(1..SigMax)
            BY <2>0, <3>1, <3>2, AppendProperties
        <3> QED
            BY <2>0, <3>1, <3>3, <3>4
    <2>3. CASE ~SigCall /\ ~\E c \in SigCallbacks : SigOn(c)
        <3>1. sigHeard' = sigHeard
            BY <2>3 DEF SigNext, SigOff, SigOffAll, SigEmit, SigPump, SigUpdate,
               SigCallReturns, SigNextSignal, SigUpdateEnds, SigShutdown, sigVars
        <3> QED
            BY <2>0, <3>1
    <2> QED
        BY <2>1, <2>2, <2>3
<1> QED
    BY <1>1, <1>2, <1>3 DEF SigTypeOK, SigDataType, SigTurnInv

\* The invariant holds in every state (the functions, the pump thread, dbus_update).
THEOREM SigInvariance == SigSpec => []SigInv
<1>1. SigInv /\ [SigNext]_sigVars => SigInv'
    BY SigTypeStep, SigDataStep, SigNumberStep, SigTurnStep, SigHeardStep, SigMissedStep DEF SigInv
<1> QED
    BY <1>1, SigInitInv, PTL DEF SigSpec

\* The variables have their types (the signals of a connection).
THEOREM SigTypeCorrect == SigSpec => []SigTypeOK
<1>1. SigInv => SigTypeOK
    BY DEF SigInv
<1> QED
    BY <1>1, SigInvariance, PTL

\* A callback hears every signal from the first it hears to the last, in order and once
\* (dbus_update, js_onSignal, js_offSignal).
THEOREM NoneMissed == SigSpec => []SigNoneMissed
<1>1. SigInv => SigNoneMissed
    BY DEF SigInv
<1> QED
    BY <1>1, SigInvariance, PTL

-----------------------------------------------------------------------------
(* dbus: the arguments of its signals                                      *)

\* What WriteValue lets through of v by type t is of that type and is read as it was.
SigSound(t, v) ==
    LET w      == WriteValue(t, v).wire
        answer == ReadReply(w)
    IN WriteValue(t, v).ok =>
          /\ Conforms(w, t)
          /\ Modest(v) => ReadValue(w) = Plain(v) /\ (Is("text", answer) \/ answer = Plain(v))

\* What is written can be read.
LEMMA SigWritten ==
    ASSUME NEW t \in Types, NEW v \in Values, WriteValue(t, v).ok
    PROVE  LET w == WriteValue(t, v).wire
           IN /\ w \in Wiring
              /\ ReadValue(w) = JsonLevel(ReadValue, w)
              /\ ReadReply(w) = ReplyLevel(ReadReply, ReadValue, w)
              /\ \A type \in Types : Conforms(w, type) <=> ConformsLevel(Conforms, w, type)
<1>1. WriteValue(t, v).wire \in Wiring
    <2>1. <<t, v>> \in {p \in Types \X Values : WriteValue(p[1], p[2]).ok}
        OBVIOUS
    <2>2. WriteValue(<<t, v>>[1], <<t, v>>[2]).wire = WriteValue(t, v).wire
        OBVIOUS
    <2> QED
        BY <2>1, <2>2 DEF Wiring
<1> QED
    BY <1>1, ReadAssumption, AgreedAssumption

\* A type is of one kind.
LEMMA SigTypeKinds ==
    ASSUME NEW t \in Types
    PROVE  /\ \/ Is("variant", t) \/ Is("basic", t) \/ Is("array", t) \/ Is("struct", t)
              \/ Is("dict", t)
           /\ \A k, l \in {"variant", "basic", "array", "struct", "dict"} :
                 Is(k, t) /\ Is(l, t) => k = l
           /\ Is("basic", t)  => t.basic \in Codes
           /\ Is("array", t)  => t.array \in Types
           /\ Is("struct", t) => t.struct \in Seq(Types)
           /\ Is("dict", t)   => t.dict[1] \in Types /\ t.dict[2] \in Types
                                 /\ Is("basic", t.dict[1])
<1>1. TypeForm(t)
    BY TypesAssumption
<1> QED
    BY <1>1 DEF TypeForm, Is

\* So is a value.
LEMMA SigValueKinds ==
    ASSUME NEW v \in Values
    PROVE  /\ \A k, l \in {"str", "bool", "frac", "num", "big", "arr", "obj", "tag"} :
                 Is(k, v) /\ Is(l, v) => k = l
           /\ Is("num", v) => v = [num |-> v.num] /\ v.num \in Int
           /\ Is("big", v) => v.big \in Int
           /\ Is("arr", v) => v.arr \in Seq(Values) /\ \A i \in DOMAIN v.arr : Inside(v.arr[i], v)
           /\ Is("obj", v) => \A i \in DOMAIN v.obj : Inside([str |-> v.obj[i].key], v)
                                                      /\ Inside(v.obj[i].val, v)
           /\ Is("tag", v) => v.tag \in Types /\ Inside(v.val, v)
<1>1. ValueForm(v)
    BY ValuesAssumption
<1> QED
    BY <1>1 DEF ValueForm, Is

\* Writing and reading, by the kind of the type.
LEMMA SigWriteBasic ==
    ASSUME NEW t \in Types, Is("basic", t), NEW v \in Values
    PROVE  WriteValue(t, v) = AppendBasic(t.basic, v)
<1>1. WriteValue(t, v) = AppendLevel(WriteValue, t, v)
    BY WriteAssumption
<1>2. ~Is("variant", t) /\ ~Is("array", t) /\ ~Is("struct", t) /\ ~Is("dict", t)
    BY SigTypeKinds
<1> QED
    BY <1>1, <1>2 DEF AppendLevel

\* The integer that is read is the one that was written.
LEMMA SigCast ==
    ASSUME NEW code \in Codes \ {"s", "b", "d"}, NEW n \in Int,
           \/ code \notin {"x", "t"} /\ IntegerFits(code, n)
           \/ code \in {"x", "t"} /\ n \in -SafeMax..SafeMax /\ (code = "t" => n >= 0)
    PROVE  Cast(code, n) = n /\ Parsed(n) = [num |-> n]
<1>1. /\ code = "y" => 0 <= n /\ n <= 255
      /\ code = "n" => -32768 <= n /\ n <= 32767
      /\ code = "q" => 0 <= n /\ n <= 65535
      /\ code = "i" => -IntMax - 1 <= n /\ n <= IntMax
    <2>1. CASE code = "y"
        BY <2>1 DEF IntegerFits
    <2>2. CASE code = "n"
        BY <2>2 DEF IntegerFits
    <2>3. CASE code = "q"
        BY <2>3 DEF IntegerFits
    <2>4. CASE code = "i"
        BY <2>4 DEF IntegerFits
    <2> QED
        BY <2>1, <2>2, <2>3, <2>4
<1>2. Parsed(n) = [num |-> n]
    <2>1. n \in -SafeMax..SafeMax
        BY <1>1, WidthAssumption DEF Codes
    <2> QED
        BY <2>1 DEF Parsed
<1>3. CASE code = "y"
    BY <1>1, <1>2, <1>3 DEF Cast, Stored
<1>4. CASE code = "n"
    BY <1>1, <1>2, <1>4 DEF Cast, Stored
<1>5. CASE code = "q"
    BY <1>1, <1>2, <1>5 DEF Cast, Stored
<1>6. CASE code = "i"
    BY <1>2, <1>6 DEF Cast
<1>7. CASE code \in {"x", "t"}
    <2> DEFINE low    == IF code = "x" THEN -WideMax - 1 ELSE 0
               values == 2 * (WideMax + 1)
    <2>1. n - low \in 0..(values - 1) /\ values \in Nat \ {0} /\ low \in Int
        BY <1>7, WidthAssumption
    <2>2. Cast(code, n) = ((n - low) % values) + low
        BY <1>7 DEF Cast, Stored
    <2> HIDE DEF low, values
    <2>3. (n - low) % values = n - low
        BY <2>1
    <2> QED
        BY <1>2, <2>1, <2>2, <2>3
<1> QED
    BY <1>3, <1>4, <1>5, <1>6, <1>7 DEF Codes

\* What a basic value becomes on the wire and when it is read.
LEMMA SigBasicWire ==
    ASSUME NEW t \in Types, Is("basic", t), NEW v \in Values, WriteValue(t, v).ok
    PROVE  LET w == WriteValue(t, v).wire
           IN /\ DOMAIN w = {"basic", "val"} /\ w.basic = t.basic
              /\ ~Is("tag", v) /\ ~Is("arr", v) /\ ~Is("obj", v)
              /\ t.basic = "s" => Is("str", v) /\ w.val = [str |-> CString(v.str)]
              /\ t.basic \in {"b", "d"} => w.val = v /\ ~Is("big", v) /\ ~Is("str", v)
              /\ t.basic \notin {"s", "b", "d"} =>
                    /\ Is("num", v) \/ Is("big", v)
                    /\ Is("num", v) => w.val = v /\ Parsed(v.num) = v
                    /\ Is("big", v) /\ v.big \in 0..SafeMax =>
                          w.val = [num |-> v.big] /\ Parsed(v.big) = [num |-> v.big]
              /\ t.basic = "y" => Is("num", v)
<1> DEFINE code == t.basic
           w    == WriteValue(t, v).wire
<1>1. code \in Codes
    BY SigTypeKinds
<1>2. WriteValue(t, v) = AppendBasic(code, v)
    BY SigWriteBasic
<1>3. CASE code \in {"s", "b", "d"}
    <2>1. CASE code = "s"
        <3>1. /\ Is("str", v)
              /\ WriteValue(t, v) = Written([basic |-> code, val |-> [str |-> CString(v.str)]])
            BY <1>2, <2>1 DEF AppendBasic, Refused
        <3> QED
            BY <1>3, <2>1, <3>1, SigValueKinds DEF Written
    <2>2. CASE code = "b"
        <3>1. Is("bool", v) /\ WriteValue(t, v) = Written([basic |-> code, val |-> v])
            BY <1>2, <2>2 DEF AppendBasic, Refused
        <3> QED
            BY <1>3, <2>2, <3>1, SigValueKinds DEF Written
    <2>3. CASE code = "d"
        <3>1. (Is("num", v) \/ Is("frac", v))
              /\ WriteValue(t, v) = Written([basic |-> code, val |-> v])
            BY <1>2, <2>3 DEF AppendBasic, Refused
        <3> QED
            BY <1>3, <2>3, <3>1, SigValueKinds DEF Written
    <2> QED
        BY <1>3, <2>1, <2>2, <2>3
<1>4. CASE code \notin {"s", "b", "d"}
    <2> DEFINE n == IF Is("big", v) THEN v.big ELSE v.num
    <2>1. WriteValue(t, v) = AppendInteger(code, v)
        BY <1>2, <1>4 DEF AppendBasic
    <2>2. WriteValue(t, v) = Written([basic |-> code, val |-> [num |-> Cast(code, n)]])
        BY <2>1 DEF AppendInteger, Refused
    <2>3. \/ code \notin {"x", "t"} /\ Is("num", v) /\ IntegerFits(code, v.num)
          \/ code \in {"x", "t"} /\ Is("num", v) /\ v.num \in -SafeMax..SafeMax
             /\ (code = "t" => v.num >= 0)
          \/ code \in {"x", "t"} /\ Is("big", v)
        BY <2>1 DEF AppendInteger, Refused
    <2>4. Is("num", v) => ~Is("big", v) /\ v = [num |-> v.num] /\ v.num \in Int
        BY SigValueKinds
    <2>5. w = [basic |-> code, val |-> [num |-> Cast(code, n)]]
        BY <2>2 DEF Written
    <2>6. ASSUME Is("num", v) PROVE w.val = v /\ Parsed(v.num) = v
        <3>1. n = v.num
            BY <2>4, <2>6
        <3>2. Cast(code, v.num) = v.num /\ Parsed(v.num) = [num |-> v.num]
            BY <1>1, <1>4, <2>3, <2>4, <2>6, SigCast
        <3> QED
            BY <2>4, <2>5, <2>6, <3>1, <3>2
    <2>7. ASSUME Is("big", v), v.big \in 0..SafeMax
          PROVE  w.val = [num |-> v.big] /\ Parsed(v.big) = [num |-> v.big]
        <3>1. n = v.big
            BY <2>7
        <3>2. code \in {"x", "t"} /\ v.big \in Int /\ v.big \in -SafeMax..SafeMax /\ v.big >= 0
            BY <2>3, <2>4, <2>7, WidthAssumption
        <3>3. Cast(code, v.big) = v.big /\ Parsed(v.big) = [num |-> v.big]
            BY <1>1, <1>4, <3>2, SigCast
        <3> QED
            BY <2>5, <3>1, <3>3
    <2>8. ~Is("tag", v) /\ ~Is("arr", v) /\ ~Is("obj", v)
        BY <2>3, SigValueKinds
    <2> QED
        BY <1>4, <2>3, <2>5, <2>6, <2>7, <2>8
<1> QED
    BY <1>3, <1>4

\* A basic type,
LEMMA SigSoundBasic ==
    ASSUME NEW t \in Types, Is("basic", t), NEW v \in Values
    PROVE  SigSound(t, v)
<1> SUFFICES ASSUME WriteValue(t, v).ok PROVE SigSound(t, v)
    BY DEF SigSound
<1> DEFINE w == WriteValue(t, v).wire
<1>1. DOMAIN w = {"basic", "val"} /\ w.basic = t.basic
    BY SigBasicWire
<1>2. /\ ReadValue(w) = JsonLevel(ReadValue, w)
      /\ ReadReply(w) = ReplyLevel(ReadReply, ReadValue, w)
      /\ Conforms(w, t) <=> ConformsLevel(Conforms, w, t)
    BY SigWritten
<1>3. Conforms(w, t)
    <2>1. ~Is("variant", t) /\ ~Is("array", t) /\ ~Is("struct", t) /\ ~Is("dict", t)
        BY SigTypeKinds
    <2>2. ConformsLevel(Conforms, w, t) <=> Is("basic", w) /\ w.basic = t.basic
        BY <2>1 DEF ConformsLevel
    <2> QED
        BY <1>1, <1>2, <2>2 DEF Is
<1>4. ReadReply(w) = [text |-> w.val]
    BY <1>1, <1>2 DEF ReplyLevel, Is
<1>5. ReadValue(w) = IF w.basic \in {"s", "b", "d"} THEN w.val ELSE Parsed(w.val.num)
    BY <1>1, <1>2 DEF JsonLevel, Is
<1>6. ASSUME Modest(v) PROVE ReadValue(w) = Plain(v)
    <2>1. Plain(v) = PlainLevel(Plain, v) /\ ModestLevel(Modest, v)
        BY <1>6, AgreedAssumption
    <2>2. CASE Is("big", v)
        <3>1. /\ ~Is("tag", v) /\ ~Is("arr", v) /\ ~Is("obj", v) /\ ~Is("str", v)
              /\ ~Is("num", v)
            BY <2>2, SigValueKinds
        <3>2. Plain(v) = [num |-> v.big] /\ v.big \in 0..SafeMax
            BY <2>1, <2>2, <3>1 DEF PlainLevel, ModestLevel
        <3>3. t.basic \notin {"s", "b", "d"}
            BY <2>2, <3>1, SigBasicWire
        <3>4. w.val = [num |-> v.big] /\ Parsed(v.big) = [num |-> v.big]
            BY <2>2, <3>2, <3>3, SigBasicWire
        <3> QED
            BY <1>1, <1>5, <3>2, <3>3, <3>4
    <2>3. CASE Is("str", v)
        <3>1. /\ ~Is("tag", v) /\ ~Is("arr", v) /\ ~Is("obj", v) /\ ~Is("big", v)
              /\ ~Is("num", v)
            BY <2>3, SigValueKinds
        <3>2. Plain(v) = [str |-> CString(v.str)]
            BY <2>1, <2>3, <3>1 DEF PlainLevel
        <3>3. t.basic = "s"
            BY <2>3, <3>1, SigBasicWire
        <3> QED
            BY <1>1, <1>5, <3>2, <3>3, SigBasicWire
    <2>4. CASE ~Is("big", v) /\ ~Is("str", v)
        <3>1. Plain(v) = v
            BY <2>1, <2>4, SigBasicWire DEF PlainLevel
        <3> QED
            BY <1>1, <1>5, <2>4, <3>1, SigBasicWire
    <2> QED
        BY <2>2, <2>3, <2>4
<1> QED
    BY <1>3, <1>4, <1>6 DEF SigSound, Is

\* a byte, which is read as the value written,
LEMMA SigByteWire ==
    ASSUME NEW t \in Types, t = Basic("y"), NEW v \in Values, WriteValue(t, v).ok
    PROVE  LET w == WriteValue(t, v).wire
           IN ReadValue(w) = w.val
<1> DEFINE w == WriteValue(t, v).wire
<1>1. Is("basic", t) /\ t.basic = "y"
    BY DEF Is, Basic
<1>2. DOMAIN w = {"basic", "val"} /\ w.basic = "y" /\ w.val = v /\ Parsed(v.num) = v
    BY <1>1, SigBasicWire
<1>3. ReadValue(w) = JsonLevel(ReadValue, w)
    BY SigWritten
<1>4. ReadValue(w) = Parsed(w.val.num)
    BY <1>2, <1>3 DEF JsonLevel, Is
<1> QED
    BY <1>2, <1>4

\* a key of a dictionary, which is written as a C string,
LEMMA SigKeyWire ==
    ASSUME NEW t \in Types, Is("basic", t), NEW s, [str |-> s] \in Values,
           WriteValue(t, [str |-> s]).ok
    PROVE  WriteValue(t, [str |-> s]).wire.val = [str |-> CString(s)]
<1> DEFINE v == [str |-> s]
<1>1. Is("str", v) /\ ~Is("num", v) /\ ~Is("big", v) /\ v.str = s
    BY DEF Is
<1>2. v \in Values /\ WriteValue(t, v).ok
    OBVIOUS
<1> HIDE DEF v
<1>3. t.basic = "s"
    BY <1>1, <1>2, SigBasicWire
<1>4. WriteValue(t, v).wire.val = [str |-> CString(v.str)]
    BY <1>2, <1>3, SigBasicWire
<1>5. WriteValue(t, v).wire.val = [str |-> CString(s)]
    BY <1>1, <1>4
<1> QED
    BY <1>5 DEF v

\* all values lower than v,
SigSoundBelow(v) == \A t \in Types, u \in Values : Height(u) < Height(v) => SigSound(t, u)

\* an array of them,
LEMMA SigSoundArray ==
    ASSUME NEW t \in Types, Is("array", t), NEW v \in Values, SigSoundBelow(v)
    PROVE  SigSound(t, v)
<1> SUFFICES ASSUME WriteValue(t, v).ok PROVE SigSound(t, v)
    BY DEF SigSound
<1> DEFINE w       == WriteValue(t, v).wire
           results == [i \in DOMAIN v.arr |-> WriteValue(t.array, v.arr[i])]
<1>1. /\ ReadValue(w) = JsonLevel(ReadValue, w)
      /\ ReadReply(w) = ReplyLevel(ReadReply, ReadValue, w)
      /\ Conforms(w, t) <=> ConformsLevel(Conforms, w, t)
    BY SigWritten
<1>2. ~Is("variant", t) /\ ~Is("basic", t) /\ ~Is("struct", t) /\ ~Is("dict", t)
      /\ t.array \in Types
    BY SigTypeKinds
<1>3. WriteValue(t, v) = AppendArray(WriteValue, t.array, v)
    <2>1. WriteValue(t, v) = AppendLevel(WriteValue, t, v)
        BY WriteAssumption
    <2> QED
        BY <1>2, <2>1 DEF AppendLevel
<1>4. /\ Is("arr", v) /\ AllOf(results)
      /\ WriteValue(t, v) = Written([items |-> Wires(results), type |-> [array |-> t.array]])
    BY <1>3 DEF AppendArray, Refused
<1>5. w = [items |-> Wires(results), type |-> [array |-> t.array]]
    BY <1>4 DEF Written
<1>6. DOMAIN w.items = DOMAIN v.arr
      /\ \A i \in DOMAIN v.arr : w.items[i] = WriteValue(t.array, v.arr[i]).wire
    BY <1>5 DEF Wires
<1>7. ASSUME NEW i \in DOMAIN v.arr
      PROVE  /\ v.arr[i] \in Values /\ WriteValue(t.array, v.arr[i]).ok
             /\ Conforms(w.items[i], t.array)
             /\ Modest(v.arr[i]) => ReadValue(w.items[i]) = Plain(v.arr[i])
    <2>1. v.arr[i] \in Values /\ Height(v.arr[i]) < Height(v)
        BY <1>4, SigValueKinds DEF Inside
    <2>2. WriteValue(t.array, v.arr[i]).ok
        BY <1>4 DEF AllOf
    <2>3. SigSound(t.array, v.arr[i])
        BY <1>2, <2>1 DEF SigSoundBelow
    <2> QED
        BY <1>6, <2>1, <2>2, <2>3 DEF SigSound
<1>8. Is("items", w) /\ ~Is("variant", w) /\ ~Is("basic", w)
    BY <1>5 DEF Is
<1>9. Conforms(w, t)
    <2>1. ConformsLevel(Conforms, w, t)
          <=> Is("items", w) /\ \A i \in DOMAIN w.items : Conforms(w.items[i], t.array)
        BY <1>2 DEF ConformsLevel
    <2> QED
        BY <1>1, <1>6, <1>7, <1>8, <2>1
<1>10. ASSUME Modest(v)
       PROVE  /\ \A i \in DOMAIN v.arr : Modest(v.arr[i])
              /\ Plain(v) = [arr |-> [i \in DOMAIN v.arr |-> Plain(v.arr[i])]]
    <2>1. Plain(v) = PlainLevel(Plain, v) /\ ModestLevel(Modest, v)
        BY <1>10, AgreedAssumption
    <2>2. ~Is("tag", v) /\ ~Is("obj", v) /\ ~Is("str", v) /\ ~Is("big", v)
        BY <1>4, SigValueKinds
    <2> QED
        BY <1>4, <2>1, <2>2 DEF PlainLevel, ModestLevel
<1>11. ReadValue(w) = [arr |-> [i \in DOMAIN v.arr |-> ReadValue(w.items[i])]]
    <2>1. ReadValue(w) = [arr |-> [i \in DOMAIN w.items |-> ReadValue(w.items[i])]]
        <3> HIDE DEF w
        <3>1. ~Is("entries", w)
            BY <1>5 DEF Is
        <3> QED
            BY <1>1, <1>8, <3>1 DEF JsonLevel
    <2> QED
        BY <1>6, <2>1
<1>12. Modest(v) => ReadValue(w) = Plain(v)
    BY <1>7, <1>10, <1>11
<1>13. Modest(v) => ReadReply(w) = Plain(v)
    <2>1. CASE w.type = [array |-> Basic("y")]
        <3>1. ReadReply(w) = [arr |-> [i \in DOMAIN v.arr |-> w.items[i].val]]
            BY <1>1, <1>6, <1>8, <2>1 DEF ReplyLevel
        <3>2. t.array = Basic("y")
            BY <1>5, <2>1
        <3>3. ASSUME NEW i \in DOMAIN v.arr PROVE w.items[i].val = ReadValue(w.items[i])
            <4>1. v.arr[i] \in Values /\ WriteValue(t.array, v.arr[i]).ok
                  /\ w.items[i] = WriteValue(t.array, v.arr[i]).wire
                BY <1>6, <1>7
            <4> QED
                BY <1>2, <3>2, <4>1, SigByteWire
        <3> QED
            BY <1>11, <1>12, <3>1, <3>3
    <2>2. CASE w.type # [array |-> Basic("y")]
        BY <1>1, <1>8, <1>12, <2>2 DEF ReplyLevel
    <2> QED
        BY <2>1, <2>2
<1> QED
    BY <1>9, <1>12, <1>13 DEF SigSound

\* a struct of them,
LEMMA SigSoundStruct ==
    ASSUME NEW t \in Types, Is("struct", t), NEW v \in Values, SigSoundBelow(v)
    PROVE  SigSound(t, v)
<1> SUFFICES ASSUME WriteValue(t, v).ok PROVE SigSound(t, v)
    BY DEF SigSound
<1> DEFINE w       == WriteValue(t, v).wire
           results == [i \in DOMAIN t.struct |-> WriteValue(t.struct[i], v.arr[i])]
<1>1. /\ ReadValue(w) = JsonLevel(ReadValue, w)
      /\ ReadReply(w) = ReplyLevel(ReadReply, ReadValue, w)
      /\ Conforms(w, t) <=> ConformsLevel(Conforms, w, t)
    BY SigWritten
<1>2. ~Is("variant", t) /\ ~Is("basic", t) /\ ~Is("array", t) /\ ~Is("dict", t)
      /\ t.struct \in Seq(Types)
    BY SigTypeKinds
<1>3. WriteValue(t, v) = AppendStruct(WriteValue, t.struct, v)
    <2>1. WriteValue(t, v) = AppendLevel(WriteValue, t, v)
        BY WriteAssumption
    <2> QED
        BY <1>2, <2>1 DEF AppendLevel
<1>4. /\ Is("arr", v) /\ Len(v.arr) = Len(t.struct) /\ AllOf(results)
      /\ WriteValue(t, v) = Written([items |-> Wires(results), type |-> [struct |-> t.struct]])
    BY <1>3 DEF AppendStruct, Refused
<1>5. w = [items |-> Wires(results), type |-> [struct |-> t.struct]]
    BY <1>4 DEF Written
<1>6. /\ v.arr \in Seq(Values) /\ DOMAIN v.arr = DOMAIN t.struct
      /\ w.items = [i \in DOMAIN t.struct |-> WriteValue(t.struct[i], v.arr[i]).wire]
      /\ Len(w.items) = Len(t.struct)
    <2>1. v.arr \in Seq(Values)
        BY <1>4, SigValueKinds
    <2>2. DOMAIN v.arr = 1..Len(t.struct) /\ DOMAIN t.struct = 1..Len(t.struct)
          /\ Len(t.struct) \in Nat
        BY <1>2, <1>4, <2>1
    <2>3. w.items = [i \in 1..Len(t.struct) |-> WriteValue(t.struct[i], v.arr[i]).wire]
        BY <1>5, <2>2 DEF Wires
    <2>4. Len(w.items) = Len(t.struct)
        BY <2>2, <2>3
    <2> QED
        BY <2>1, <2>2, <2>3, <2>4
<1>7. ASSUME NEW i \in DOMAIN v.arr
      PROVE  /\ Conforms(w.items[i], t.struct[i])
             /\ Modest(v.arr[i]) => ReadValue(w.items[i]) = Plain(v.arr[i])
    <2>1. v.arr[i] \in Values /\ Height(v.arr[i]) < Height(v)
        BY <1>4, SigValueKinds DEF Inside
    <2>2. WriteValue(t.struct[i], v.arr[i]).ok
        BY <1>4, <1>6 DEF AllOf
    <2>3. t.struct[i] \in Types
        BY <1>2, <1>6
    <2>4. SigSound(t.struct[i], v.arr[i])
        BY <2>1, <2>3 DEF SigSoundBelow
    <2> QED
        BY <1>6, <2>1, <2>2, <2>4 DEF SigSound
<1>8. Is("items", w) /\ ~Is("variant", w) /\ ~Is("basic", w)
      /\ w.type # [array |-> Basic("y")]
    BY <1>5 DEF Is
<1>9. Conforms(w, t)
    <2>1. ConformsLevel(Conforms, w, t)
          <=> /\ Is("items", w) /\ Len(w.items) = Len(t.struct)
              /\ \A i \in DOMAIN w.items : Conforms(w.items[i], t.struct[i])
        BY <1>2 DEF ConformsLevel
    <2> QED
        BY <1>1, <1>6, <1>7, <1>8, <2>1
<1>10. ASSUME Modest(v)
       PROVE  /\ \A i \in DOMAIN v.arr : Modest(v.arr[i])
              /\ Plain(v) = [arr |-> [i \in DOMAIN v.arr |-> Plain(v.arr[i])]]
    <2>1. Plain(v) = PlainLevel(Plain, v) /\ ModestLevel(Modest, v)
        BY <1>10, AgreedAssumption
    <2>2. ~Is("tag", v) /\ ~Is("obj", v) /\ ~Is("str", v) /\ ~Is("big", v)
        BY <1>4, SigValueKinds
    <2> QED
        BY <1>4, <2>1, <2>2 DEF PlainLevel, ModestLevel
<1>11. ReadValue(w) = [arr |-> [i \in DOMAIN v.arr |-> ReadValue(w.items[i])]]
    <2>1. ReadValue(w) = [arr |-> [i \in DOMAIN w.items |-> ReadValue(w.items[i])]]
        <3> HIDE DEF w
        <3>1. ~Is("entries", w)
            BY <1>5 DEF Is
        <3> QED
            BY <1>1, <1>8, <3>1 DEF JsonLevel
    <2> QED
        BY <1>6, <2>1
<1>12. Modest(v) => ReadValue(w) = Plain(v)
    BY <1>7, <1>10, <1>11
<1>13. ReadReply(w) = ReadValue(w)
    BY <1>1, <1>8 DEF ReplyLevel
<1> QED
    BY <1>9, <1>12, <1>13 DEF SigSound

\* a dictionary of them,
LEMMA SigSoundDict ==
    ASSUME NEW t \in Types, Is("dict", t), NEW v \in Values, SigSoundBelow(v)
    PROVE  SigSound(t, v)
<1> SUFFICES ASSUME WriteValue(t, v).ok PROVE SigSound(t, v)
    BY DEF SigSound
<1> DEFINE w      == WriteValue(t, v).wire
           key(i) == [str |-> v.obj[i].key]
           keys   == [i \in DOMAIN v.obj |-> WriteValue(t.dict[1], [str |-> v.obj[i].key])]
           values == [i \in DOMAIN v.obj |-> WriteValue(t.dict[2], v.obj[i].val)]
           ws     == [i \in DOMAIN v.obj |-> [key |-> keys[i].wire, val |-> values[i].wire]]
<1>1. /\ ReadValue(w) = JsonLevel(ReadValue, w)
      /\ ReadReply(w) = ReplyLevel(ReadReply, ReadValue, w)
      /\ Conforms(w, t) <=> ConformsLevel(Conforms, w, t)
    BY SigWritten
<1>2. /\ ~Is("variant", t) /\ ~Is("basic", t) /\ ~Is("array", t) /\ ~Is("struct", t)
      /\ t.dict[1] \in Types /\ t.dict[2] \in Types /\ Is("basic", t.dict[1])
    BY SigTypeKinds
<1>3. WriteValue(t, v) = AppendDict(WriteValue, t.dict, v)
    <2>1. WriteValue(t, v) = AppendLevel(WriteValue, t, v)
        BY WriteAssumption
    <2> QED
        BY <1>2, <2>1 DEF AppendLevel
<1>4. /\ Is("obj", v) /\ AllOf(keys) /\ AllOf(values)
      /\ WriteValue(t, v) = Written([entries |-> ws, type |-> [dict |-> t.dict]])
    BY <1>3 DEF AppendDict, Refused
<1>5. w = [entries |-> ws, type |-> [dict |-> t.dict]]
    BY <1>4 DEF Written
<1>6. /\ DOMAIN w.entries = DOMAIN v.obj
      /\ \A i \in DOMAIN v.obj : /\ w.entries[i].key = WriteValue(t.dict[1], key(i)).wire
                                 /\ w.entries[i].val = WriteValue(t.dict[2], v.obj[i].val).wire
    <2>1. w.entries = ws
        BY <1>5
    <2>2. DOMAIN ws = DOMAIN v.obj
        OBVIOUS
    <2>3. \A i \in DOMAIN v.obj : /\ ws[i].key = WriteValue(t.dict[1], key(i)).wire
                                  /\ ws[i].val = WriteValue(t.dict[2], v.obj[i].val).wire
        OBVIOUS
    <2> HIDE DEF ws
    <2> QED
        BY <2>1, <2>2, <2>3
<1>7. ASSUME NEW i \in DOMAIN v.obj
      PROVE  /\ Conforms(w.entries[i].key, t.dict[1]) /\ Conforms(w.entries[i].val, t.dict[2])
             /\ w.entries[i].key.val.str = CString(v.obj[i].key)
             /\ Modest(v.obj[i].val) => ReadValue(w.entries[i].val) = Plain(v.obj[i].val)
    <2>1. /\ key(i) \in Values /\ Height(key(i)) < Height(v)
          /\ v.obj[i].val \in Values /\ Height(v.obj[i].val) < Height(v)
        BY <1>4, SigValueKinds DEF Inside
    <2>2. WriteValue(t.dict[1], key(i)).ok /\ WriteValue(t.dict[2], v.obj[i].val).ok
        BY <1>4 DEF AllOf
    <2>3. SigSound(t.dict[1], key(i)) /\ SigSound(t.dict[2], v.obj[i].val)
        BY <1>2, <2>1 DEF SigSoundBelow
    <2>4. WriteValue(t.dict[1], key(i)).wire.val = [str |-> CString(v.obj[i].key)]
        BY <1>2, <2>1, <2>2, SigKeyWire
    <2> QED
        BY <1>6, <2>2, <2>3, <2>4 DEF SigSound
<1>8. Is("entries", w) /\ ~Is("variant", w) /\ ~Is("basic", w) /\ ~Is("items", w)
    BY <1>5 DEF Is
<1>9. Conforms(w, t)
    <2>1. ConformsLevel(Conforms, w, t)
          <=> /\ Is("entries", w)
              /\ \A i \in DOMAIN w.entries : /\ Conforms(w.entries[i].key, t.dict[1])
                                             /\ Conforms(w.entries[i].val, t.dict[2])
        BY <1>2 DEF ConformsLevel
    <2> QED
        BY <1>1, <1>6, <1>7, <1>8, <2>1
<1>10. ASSUME Modest(v)
       PROVE  /\ \A i \in DOMAIN v.obj : Modest(v.obj[i].val)
              /\ Plain(v) = [obj |-> ObjectOf([i \in DOMAIN v.obj |->
                                                   [key |-> CString(v.obj[i].key),
                                                    val |-> Plain(v.obj[i].val)]])]
    <2>1. Plain(v) = PlainLevel(Plain, v) /\ ModestLevel(Modest, v)
        BY <1>10, AgreedAssumption
    <2>2. ~Is("tag", v) /\ ~Is("arr", v) /\ ~Is("str", v) /\ ~Is("big", v)
        BY <1>4, SigValueKinds
    <2> QED
        BY <1>4, <2>1, <2>2 DEF PlainLevel, ModestLevel
<1>11. ReadValue(w) = [obj |-> ObjectOf([i \in DOMAIN v.obj |->
                                            [key |-> w.entries[i].key.val.str,
                                             val |-> ReadValue(w.entries[i].val)]])]
    BY <1>1, <1>6, <1>8 DEF JsonLevel
<1>12. ASSUME Modest(v) PROVE ReadValue(w) = Plain(v)
    <2>1. \A i \in DOMAIN v.obj : /\ w.entries[i].key.val.str = CString(v.obj[i].key)
                                 /\ ReadValue(w.entries[i].val) = Plain(v.obj[i].val)
        BY <1>7, <1>10, <1>12
    <2>2. [i \in DOMAIN v.obj |-> [key |-> w.entries[i].key.val.str,
                                   val |-> ReadValue(w.entries[i].val)]]
          = [i \in DOMAIN v.obj |-> [key |-> CString(v.obj[i].key),
                                     val |-> Plain(v.obj[i].val)]]
        BY <2>1
    <2> QED
        BY <1>10, <1>11, <1>12, <2>2
<1>13. ReadReply(w) = ReadValue(w)
    BY <1>1, <1>8 DEF ReplyLevel
<1> QED
    BY <1>9, <1>12, <1>13 DEF SigSound

\* any of these,
LEMMA SigSoundFixed ==
    ASSUME NEW t \in Types, ~Is("variant", t), NEW v \in Values, SigSoundBelow(v)
    PROVE  SigSound(t, v)
    BY SigTypeKinds, SigSoundBasic, SigSoundArray, SigSoundStruct, SigSoundDict

\* and a variant, whose inner type is named, of a lower value, or guessed and no variant.
LEMMA SigSoundVariant ==
    ASSUME NEW t \in Types, Is("variant", t), NEW v \in Values, SigSoundBelow(v)
    PROVE  SigSound(t, v)
<1> SUFFICES ASSUME WriteValue(t, v).ok PROVE SigSound(t, v)
    BY DEF SigSound
<1> DEFINE w     == WriteValue(t, v).wire
           inner == InnerType(v)[1]
           part  == IF Is("tag", v) THEN v.val ELSE v
           x     == WriteValue(inner, part).wire
<1>1. /\ ReadValue(w) = JsonLevel(ReadValue, w)
      /\ ReadReply(w) = ReplyLevel(ReadReply, ReadValue, w)
      /\ Conforms(w, t) <=> ConformsLevel(Conforms, w, t)
    BY SigWritten
<1>2. WriteValue(t, v) = AppendVariant(WriteValue, v)
    <2>1. WriteValue(t, v) = AppendLevel(WriteValue, t, v)
        BY WriteAssumption
    <2>2. ~Is("basic", t) /\ ~Is("array", t) /\ ~Is("struct", t) /\ ~Is("dict", t)
        BY SigTypeKinds
    <2> QED
        BY <2>1, <2>2 DEF AppendLevel
<1>3. /\ InnerType(v) # <<>> /\ WriteValue(inner, part).ok
      /\ WriteValue(t, v) = Written([variant |-> x])
    BY <1>2 DEF AppendVariant, Refused
<1>4. w = [variant |-> x]
    BY <1>3 DEF Written
<1>5. inner \in Types /\ part \in Values /\ SigSound(inner, part)
    <2>1. CASE Is("tag", v)
        <3>1. inner = v.tag /\ part = v.val
            <4>1. /\ ~Is("str", v) /\ ~Is("bool", v) /\ ~Is("num", v) /\ ~Is("frac", v)
                  /\ ~Is("arr", v)
                BY <2>1, SigValueKinds
            <4> QED
                BY <2>1, <4>1 DEF InnerType
        <3>2. v.tag \in Types /\ v.val \in Values /\ Height(v.val) < Height(v)
            BY <2>1, SigValueKinds DEF Inside
        <3> QED
            BY <3>1, <3>2 DEF SigSoundBelow
    <2>2. CASE ~Is("tag", v)
        <3>1. inner \in Guesses
            BY <1>3, <2>2 DEF InnerType, Guesses
        <3>2. inner \in Types
            BY <3>1, TypesAssumption
        <3>3. ~Is("variant", inner)
            BY <3>1 DEF Guesses, Basic, Is
        <3> HIDE DEF inner
        <3> QED
            BY <2>2, <3>2, <3>3, SigSoundFixed
    <2> QED
        BY <2>1, <2>2
<1>6. Modest(v) => Modest(part) /\ Plain(v) = Plain(part)
    <2>1. CASE Is("tag", v)
        <3>1. Modest(v) <=> ModestLevel(Modest, v)
            BY AgreedAssumption
        <3>2. Plain(v) = PlainLevel(Plain, v)
            BY AgreedAssumption
        <3>3. ~Is("arr", v) /\ ~Is("obj", v) /\ ~Is("str", v) /\ ~Is("big", v)
            BY <2>1, SigValueKinds
        <3>4. ModestLevel(Modest, v) <=> Modest(v.val)
            BY <2>1, <3>3 DEF ModestLevel
        <3>5. PlainLevel(Plain, v) = Plain(v.val)
            BY <2>1, <3>3 DEF PlainLevel
        <3> QED
            BY <2>1, <3>1, <3>2, <3>4, <3>5
    <2>2. CASE ~Is("tag", v)
        BY <2>2
    <2> QED
        BY <2>1, <2>2
<1>7. Conforms(w, t)
    <2>1. ~Is("basic", t) /\ ~Is("array", t) /\ ~Is("struct", t) /\ ~Is("dict", t)
        BY SigTypeKinds
    <2>2. ConformsLevel(Conforms, w, t) <=> Is("variant", w)
        BY <2>1 DEF ConformsLevel
    <2> QED
        BY <1>1, <1>4, <2>2 DEF Is
<1>8. Is("variant", w) /\ ~Is("basic", w) /\ ~Is("items", w) /\ ~Is("entries", w)
      /\ w.variant = x
    BY <1>4 DEF Is
<1>9. ReadValue(w) = ReadValue(x) /\ ReadReply(w) = ReadReply(x)
    BY <1>1, <1>8 DEF JsonLevel, ReplyLevel
<1> HIDE DEF w, inner, part, x
<1>10. Modest(part) => ReadValue(x) = Plain(part)
                       /\ (Is("text", ReadReply(x)) \/ ReadReply(x) = Plain(part))
    BY <1>3, <1>5 DEF SigSound, x
<1> QED
    BY <1>6, <1>7, <1>9, <1>10 DEF SigSound, w

\* So all values are, by induction on their height.
LEMMA SigAllSound == \A t \in Types, v \in Values : SigSound(t, v)
<1> DEFINE N == {n \in Nat : \A t \in Types, v \in Values : Height(v) < n => SigSound(t, v)}
<1>1. 0 \in N
    BY ValuesAssumption
<1>2. ASSUME NEW n \in N PROVE n + 1 \in N
    <2> SUFFICES ASSUME NEW t \in Types, NEW v \in Values, Height(v) < n + 1 PROVE SigSound(t, v)
        OBVIOUS
    <2>1. SigSoundBelow(v)
        <3>1. Height(v) \in Nat /\ \A u \in Values : Height(u) \in Nat
            BY ValuesAssumption
        <3> QED
            BY <3>1 DEF SigSoundBelow
    <2> QED
        BY <2>1, SigSoundFixed, SigSoundVariant
<1>3. N = Nat
    <2> HIDE DEF N
    <2>1. N \in SUBSET Nat
        BY DEF N
    <2> QED
        BY <1>1, <1>2, <2>1, SetInduction
<1>4. ASSUME NEW t \in Types, NEW v \in Values PROVE SigSound(t, v)
    <2>1. Height(v) + 1 \in N /\ Height(v) < Height(v) + 1
        BY <1>3, ValuesAssumption
    <2> QED
        BY <2>1
<1> QED
    BY <1>4


\* A message on the bus carries what was written of its arguments.
SigEncoded(m) ==
    /\ m.types \in Seq(Types) /\ m.args \in Seq(Values)
    /\ AppendAll(WriteValue, m.types, m.args).ok
    /\ m.body = AppendAll(WriteValue, m.types, m.args).wire

\* A signal that was received tells its arguments.
SigTold(m) == \A i \in DOMAIN m.args : Modest(m.args[i]) => m.told[i] = Plain(m.args[i])

SigBodyInv ==
    /\ \A i \in 1..Len(sigWire)  : SigEncoded(sigWire[i])
    /\ \A i \in 1..Len(sigQueue) : SigTold(sigQueue[i])
    /\ \A i \in 1..Len(sigBatch) : SigTold(sigBatch[i])

\* Each argument of a message was written by its own type.
LEMMA SigEncodedParts ==
    ASSUME NEW m, SigEncoded(m)
    PROVE  /\ DOMAIN m.types = DOMAIN m.args /\ DOMAIN m.body = DOMAIN m.args
           /\ \A i \in DOMAIN m.args : /\ m.types[i] \in Types /\ m.args[i] \in Values
                                       /\ WriteValue(m.types[i], m.args[i]).ok
                                       /\ m.body[i] = WriteValue(m.types[i], m.args[i]).wire
<1> DEFINE results == [i \in DOMAIN m.types |-> WriteValue(m.types[i], m.args[i])]
<1>1. m.types \in Seq(Types) /\ m.args \in Seq(Values)
    BY DEF SigEncoded
<1>2. Len(m.args) = Len(m.types) /\ AllOf(results) /\ m.body = Wires(results)
    BY DEF SigEncoded, AppendAll, Refused, Written
<1>3. DOMAIN m.types = DOMAIN m.args
    BY <1>1, <1>2
<1>4. DOMAIN m.body = DOMAIN m.types
    BY <1>2 DEF Wires
<1>5. ASSUME NEW i \in DOMAIN m.args
      PROVE  /\ m.types[i] \in Types /\ m.args[i] \in Values
             /\ WriteValue(m.types[i], m.args[i]).ok
             /\ m.body[i] = WriteValue(m.types[i], m.args[i]).wire
    <2>1. m.types[i] \in Types /\ m.args[i] \in Values
        BY <1>1, <1>3
    <2>2. results[i] = WriteValue(m.types[i], m.args[i]) /\ i \in DOMAIN results
        BY <1>3
    <2> HIDE DEF results
    <2> QED
        BY <1>2, <2>1, <2>2 DEF AllOf, Wires
<1> QED
    BY <1>3, <1>4, <1>5

\* It is what the caller asked for, and what the listener is told.
LEMMA SigEncodedArrives ==
    ASSUME NEW m, SigEncoded(m)
    PROVE  /\ \A i \in DOMAIN m.types : Conforms(m.body[i], m.types[i])
           /\ \A i \in DOMAIN m.args :
                 Modest(m.args[i]) =>
                    /\ SigDecode(m.body[i]) = Plain(m.args[i])
                    /\ Is("text", ReadReply(m.body[i])) \/ ReadReply(m.body[i]) = Plain(m.args[i])
<1>1. ASSUME NEW i \in DOMAIN m.args
      PROVE  /\ Conforms(m.body[i], m.types[i])
             /\ Modest(m.args[i]) =>
                   /\ SigDecode(m.body[i]) = Plain(m.args[i])
                   /\ Is("text", ReadReply(m.body[i])) \/ ReadReply(m.body[i]) = Plain(m.args[i])
    <2> DEFINE t == m.types[i]
               v == m.args[i]
    <2>1. t \in Types /\ v \in Values /\ WriteValue(t, v).ok /\ m.body[i] = WriteValue(t, v).wire
        BY SigEncodedParts
    <2>2. SigSound(t, v)
        BY <2>1, SigAllSound
    <2>3. SigDecode(m.body[i]) = ReadValue(m.body[i])
        BY <2>1, SigWritten, BodiesAssumption
    <2> HIDE DEF t, v
    <2>4. /\ Conforms(m.body[i], t)
          /\ Modest(v) => /\ SigDecode(m.body[i]) = Plain(v)
                          /\ Is("text", ReadReply(m.body[i])) \/ ReadReply(m.body[i]) = Plain(v)
        BY <2>1, <2>2, <2>3 DEF SigSound
    <2> QED
        BY <2>4 DEF t, v
<1> QED
    BY <1>1, SigEncodedParts

\* The messages and signals are such in every state.
LEMMA SigBodyStep ==
    ASSUME SigInv, SigBodyInv, [SigNext]_sigVars
    PROVE  SigBodyInv'
<1>0. IsSeq(sigWire) /\ IsSeq(sigQueue) /\ IsSeq(sigBatch)
    BY DEF SigInv, SigDataType
<1>1. CASE UNCHANGED <<sigWire, sigQueue, sigBatch>>
    BY <1>1 DEF SigBodyInv
<1>2. CASE SigEmits
    <2>1. PICK n \in 1..SigMax : \E b \in SigBodies[n] : SigEmit(b[1], b[2])
        BY <1>2 DEF SigEmits
    <2>2. PICK b \in SigBodies[n] : SigEmit(b[1], b[2])
        BY <2>1
    <2> DEFINE m == [n |-> sigSent + 1, types |-> b[1], args |-> b[2],
                     body |-> SigEncode(b[1], b[2]).wire]
    <2>3. sigWire' = Append(sigWire, m) /\ SigEncode(b[1], b[2]).ok
          /\ UNCHANGED <<sigQueue, sigBatch>>
        BY <2>2 DEF SigEmit
    <2>4. b[1] \in Seq(Types) /\ b[2] \in Seq(Values)
          /\ SigEncode(b[1], b[2]) = AppendAll(WriteValue, b[1], b[2])
        BY BodiesAssumption
    <2>5. m.types = b[1] /\ m.args = b[2] /\ m.body = SigEncode(b[1], b[2]).wire
        OBVIOUS
    <2>6. SigEncoded(m)
        <3> HIDE DEF m
        <3> QED
            BY <2>3, <2>4, <2>5 DEF SigEncoded
    <2> HIDE DEF m
    <2>7. /\ Len(sigWire) \in Nat /\ Len(sigWire') = Len(sigWire) + 1
          /\ \A i \in 1..Len(sigWire) : sigWire'[i] = sigWire[i]
          /\ sigWire'[Len(sigWire) + 1] = m
        BY <1>0, <2>3, AppendAny
    <2>8. \A i \in 1..Len(sigWire') : SigEncoded(sigWire'[i])
        <3> TAKE i \in 1..Len(sigWire')
        <3>1. CASE i = Len(sigWire) + 1
            BY <2>6, <2>7, <3>1
        <3>2. CASE i # Len(sigWire) + 1
            <4>1. i \in 1..Len(sigWire)
                BY <2>7, <3>2
            <4> QED
                BY <2>7, <4>1 DEF SigBodyInv
        <3> QED
            BY <3>1, <3>2
    <2> QED
        BY <2>3, <2>8 DEF SigBodyInv
<1>3. CASE SigPump
    <2> DEFINE m == Head(sigWire)
               s == [n    |-> m.n,
                     args |-> m.args,
                     told |-> [i \in DOMAIN m.body |-> SigDecode(m.body[i])]]
    <2>1. sigWire # <<>> /\ sigQueue' = Append(sigQueue, s) /\ sigWire' = Tail(sigWire)
          /\ UNCHANGED sigBatch
        BY <1>3 DEF SigPump
    <2>2. Len(sigWire) \in Nat \ {0} /\ Len(sigWire') = Len(sigWire) - 1 /\ m = sigWire[1]
          /\ \A i \in 1..(Len(sigWire) - 1) : sigWire'[i] = sigWire[i + 1]
        BY <1>0, <2>1, TailAny
    <2>3. SigEncoded(m)
        <3> HIDE DEF m
        <3> QED
            BY <2>2 DEF SigBodyInv
    <2>4. SigTold(s)
        <3> HIDE DEF m
        <3>1. s.args = m.args /\ s.told = [i \in DOMAIN m.body |-> SigDecode(m.body[i])]
            OBVIOUS
        <3>2. DOMAIN m.body = DOMAIN m.args
            BY <2>3, SigEncodedParts
        <3>3. \A i \in DOMAIN m.args : Modest(m.args[i]) => SigDecode(m.body[i]) = Plain(m.args[i])
            BY <2>3, SigEncodedArrives
        <3> HIDE DEF s
        <3> QED
            BY <3>1, <3>2, <3>3 DEF SigTold
    <2> HIDE DEF m, s
    <2>5. /\ Len(sigQueue) \in Nat /\ Len(sigQueue') = Len(sigQueue) + 1
          /\ \A i \in 1..Len(sigQueue) : sigQueue'[i] = sigQueue[i]
          /\ sigQueue'[Len(sigQueue) + 1] = s
        BY <1>0, <2>1, AppendAny
    <2>6. \A i \in 1..Len(sigQueue') : SigTold(sigQueue'[i])
        <3> TAKE i \in 1..Len(sigQueue')
        <3>1. CASE i = Len(sigQueue) + 1
            BY <2>4, <2>5, <3>1
        <3>2. CASE i # Len(sigQueue) + 1
            <4>1. i \in 1..Len(sigQueue)
                BY <2>5, <3>2
            <4> QED
                BY <2>5, <4>1 DEF SigBodyInv
        <3> QED
            BY <3>1, <3>2
    <2>7. \A i \in 1..Len(sigWire') : SigEncoded(sigWire'[i])
        <3> TAKE i \in 1..Len(sigWire')
        <3>1. i \in 1..(Len(sigWire) - 1) /\ i + 1 \in 1..Len(sigWire)
            BY <2>2
        <3> QED
            BY <2>2, <3>1 DEF SigBodyInv
    <2> QED
        BY <2>1, <2>6, <2>7 DEF SigBodyInv
<1>4. CASE SigUpdate
    BY <1>4, EmptyAny DEF SigUpdate, SigBodyInv
<1>5. CASE SigNextSignal
    <2>1. sigBatch # <<>> /\ sigBatch' = Tail(sigBatch) /\ UNCHANGED <<sigWire, sigQueue>>
        BY <1>5 DEF SigNextSignal
    <2>2. Len(sigBatch) \in Nat \ {0} /\ Len(sigBatch') = Len(sigBatch) - 1
          /\ \A i \in 1..(Len(sigBatch) - 1) : sigBatch'[i] = sigBatch[i + 1]
        BY <1>0, <2>1, TailAny
    <2>3. \A i \in 1..Len(sigBatch') : SigTold(sigBatch'[i])
        <3> TAKE i \in 1..Len(sigBatch')
        <3>1. i \in 1..(Len(sigBatch) - 1) /\ i + 1 \in 1..Len(sigBatch)
            BY <2>2
        <3> QED
            BY <2>2, <3>1 DEF SigBodyInv
    <2> QED
        BY <2>1, <2>3 DEF SigBodyInv
<1>6. CASE SigShutdown
    BY <1>6, EmptyAny DEF SigShutdown, SigBodyInv
<1>7. ASSUME NEW c \in SigCallbacks, SigOn(c) \/ SigOff(c)
      PROVE  UNCHANGED <<sigWire, sigQueue, sigBatch>>
    BY <1>7 DEF SigOn, SigOff
<1>8. SigOffAll \/ SigCall \/ SigCallReturns \/ SigUpdateEnds
      => UNCHANGED <<sigWire, sigQueue, sigBatch>>
    BY DEF SigOffAll, SigCall, SigCallReturns, SigUpdateEnds
<1>9. UNCHANGED sigVars => UNCHANGED <<sigWire, sigQueue, sigBatch>>
    BY DEF sigVars
<1> QED
    BY <1>1, <1>2, <1>3, <1>4, <1>5, <1>6, <1>7, <1>8, <1>9 DEF SigNext, SigEmits

\* Of such messages and signals the property holds.
LEMMA SigBodyImplies ==
    ASSUME SigInv, SigBodyInv
    PROVE  SigBodyArrives
<1>0. IsSeq(sigWire) /\ IsSeq(sigQueue) /\ IsSeq(sigBatch)
    BY DEF SigInv, SigDataType
<1>1. ASSUME NEW m \in Range(sigWire) PROVE SigEncoded(m)
    <2>1. PICK i \in DOMAIN sigWire : m = sigWire[i]
        BY DEF Range
    <2>2. PICK S : sigWire \in Seq(S)
        BY <1>0 DEF IsSeq
    <2> QED
        BY <2>1, <2>2 DEF SigBodyInv
<1>2. ASSUME NEW m \in Range(sigQueue \o sigBatch) PROVE SigTold(m)
    <2>1. PICK S : sigQueue \in Seq(S)
        BY <1>0 DEF IsSeq
    <2>2. PICK T : sigBatch \in Seq(T)
        BY <1>0 DEF IsSeq
    <2>3. Range(sigQueue \o sigBatch) = Range(sigQueue) \cup Range(sigBatch)
        <3>1. sigQueue \in Seq(S \cup T) /\ sigBatch \in Seq(S \cup T)
            BY <2>1, <2>2, SeqMonotonic
        <3> QED
            BY <3>1, RangeConcatenation
    <2>4. CASE m \in Range(sigQueue)
        <3>1. PICK i \in DOMAIN sigQueue : m = sigQueue[i]
            BY <2>4 DEF Range
        <3> QED
            BY <2>1, <3>1 DEF SigBodyInv
    <2>5. CASE m \in Range(sigBatch)
        <3>1. PICK i \in DOMAIN sigBatch : m = sigBatch[i]
            BY <2>5 DEF Range
        <3> QED
            BY <2>2, <3>1 DEF SigBodyInv
    <2> QED
        BY <2>3, <2>4, <2>5
<1>3. ASSUME NEW m \in Range(sigWire)
      PROVE  /\ \A i \in DOMAIN m.types : Conforms(m.body[i], m.types[i])
             /\ \A i \in DOMAIN m.args :
                   Modest(m.args[i]) =>
                      Is("text", ReadReply(m.body[i])) \/ ReadReply(m.body[i]) = Plain(m.args[i])
    BY <1>1, SigEncodedArrives
<1> QED
    BY <1>2, <1>3 DEF SigBodyArrives, SigTold

\* The invariant of the bodies holds in every state (emitSignal(), the pump thread,
\* dbus_update).
THEOREM BodiesInvariance == SigSpec => []SigBodyInv
<1>1. SigInit => SigBodyInv
    BY EmptyAny DEF SigInit, SigBodyInv
<1>2. SigInv /\ SigBodyInv /\ [SigNext]_sigVars => SigBodyInv'
    BY SigBodyStep
<1> QED
    BY <1>1, <1>2, SigInvariance, PTL DEF SigSpec

\* What append_values lets through is of the signature asked for and arrives as it was,
\* strings and keys up to their first NUL, in a signal and as the answer to a call, for
\* every tree of types and values (js_to_string, append_value, dbus_value_to_json,
\* decode_reply).
THEOREM BodiesArrive == SigSpec => []SigBodyArrives
<1>1. SigInv /\ SigBodyInv => SigBodyArrives
    BY SigBodyImplies
<1> QED
    BY <1>1, SigInvariance, BodiesInvariance, PTL


-----------------------------------------------------------------------------
(* The host                                                                *)

\* Each step of the host is a step of hypr or leaves hypr as it is: the host refines the
\* plugin (the hooks and functions of hypr, called by the host's one script thread).
THEOREM RunsHypr == Spec => HyprSpec
<1>1. Init => HyprInit
    BY DEF Init
<1>2. [Next]_vars => [HyprNext]_hyprVars
    BY DEF Next, Hypr, Sqlite, Ws, Ffmpeg, Dbus, vars
<1> QED
    BY <1>1, <1>2, PTL DEF Spec, HyprSpec

\* Each step of the host is a step of sqlite or leaves sqlite as it is (exec(), query(),
\* close() and the hooks).
THEOREM RunsSqlite == Spec => SqlSpec
<1>1. Init => SqlInit
    BY DEF Init
<1>2. [Next]_vars => [SqlNext]_sqlVars
    BY DEF Next, Hypr, Sqlite, Ws, Ffmpeg, Dbus, vars
<1> QED
    BY <1>1, <1>2, PTL DEF Spec, SqlSpec

\* Each step of the host is a step of ws or leaves ws as it is (the methods of a socket,
\* drain() and the hooks).
THEOREM RunsWs == Spec => WsSpec
<1>1. Init => WsInit
    BY DEF Init
<1>2. [Next]_vars => [WsNext]_wsVars
    BY DEF Next, Hypr, Sqlite, Ws, Ffmpeg, Dbus, vars
<1> QED
    BY <1>1, <1>2, PTL DEF Spec, WsSpec

\* Each step of the host is a step of ffmpeg or leaves ffmpeg as it is (load(), play(),
\* stop() and the hooks).
THEOREM RunsFfmpeg == Spec => VideoSpec
<1>1. Init => VideoInit
    BY DEF Init
<1>2. [Next]_vars => [VideoNext]_videoVars
    BY DEF Next, Hypr, Sqlite, Ws, Ffmpeg, Dbus, vars
<1> QED
    BY <1>1, <1>2, PTL DEF Spec, VideoSpec

\* Each step of the host is a step of dbus's signals or leaves these as they are
\* (onSignal(), offSignal(), emitSignal(), the pump thread and dbus_update).
THEOREM RunsDbus == Spec => SigSpec
<1>1. Init => SigInit
    BY DEF Init
<1>2. [Next]_vars => [SigNext]_sigVars
    BY DEF Next, Hypr, Sqlite, Ws, Ffmpeg, Dbus, vars
<1> QED
    BY <1>1, <1>2, PTL DEF Spec, SigSpec

\* The variables have their types in the host too (all plugins).
THEOREM HostTypeCorrect == Spec => []TypeOK
<1>1. HyprTypeOK /\ SqlTypeOK /\ WsTypeOK /\ VideoTypeOK /\ SigTypeOK => TypeOK
    BY DEF TypeOK
<1> QED
    BY <1>1, RunsHypr, RunsSqlite, RunsWs, RunsFfmpeg, RunsDbus, HyprTypeCorrect, SqlTypeCorrect,
       WsTypeCorrect, VideoTypeCorrect, SigTypeCorrect, PTL

\* What holds of each plugin alone holds of it in the host: no promise of send() is
\* forgotten, close() pulls a database from under one job at most, the jobs of sqlite not
\* settled are those under way, no event or signal is lost or heard twice, arguments arrive
\* as they were up to the first NUL of their strings, no clock runs backwards past the
\* beginning of its stream.
THEOREM HostSafe ==
    Spec => [](/\ HyprNoPromiseForgotten /\ HyprConnectionIsReal /\ SqlOneStaleUse
               /\ SqlCallsAccounted /\ WsEventsAccounted /\ VideoClockNeverNegative /\ VideoNoOldFrame
               /\ SigNoneMissed /\ SigBodyArrives)
    BY RunsHypr, RunsSqlite, RunsWs, RunsFfmpeg, RunsDbus, PromisesKept, ConnectionReal,
       OneStaleUse, SqlCallsKept, EventsAccounted, ClockCorrect, FramesCorrect, NoneMissed,
       BodiesArrive, PTL

\* The queue of sqlite is one in the host too (exec(), query(), worker_thread_body).
THEOREM HostImplementsQueue == Spec => SqlImplementsQueue
    BY RunsSqlite, SqlQueueImplemented, PTL

=============================================================================
