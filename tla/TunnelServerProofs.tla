------------------------- MODULE TunnelServerProofs -------------------------
(***************************************************************************)
(* Proofs about TunnelServer, for any number of sessions, target names,    *)
(* connections, stream ids and reads.  IInv of TunnelServer is inductive;  *)
(* the safety properties follow from it.  Each lemma below shows that one  *)
(* conjunct of IInv survives every step, with one case per action that can *)
(* disturb it and one case for the steps that leave its variables alone.   *)
(***************************************************************************)
EXTENDS TunnelServer, TLAPS

\* Every step of every thread keeps the variables in their types.
LEMMA TypeStep ==
  TypeOK /\ HandlerInv /\ ForwarderInv /\ Next => TypeOK'
<1> SUFFICES ASSUME TypeOK, HandlerInv, ForwarderInv, Next
             PROVE  TypeOK'
  OBVIOUS
<1> USE ServerAssumption DEF TypeOK, Targets, Ids, Reading, HandlerPC,
        ForwarderPC, PumpPC, HandlerInv, ForwarderInv, handlerVars, fwdVars,
        sockVars, pumpVars, ownVars
<1>1. ASSUME NEW s \in Sessions, RegisterCalled(s)
      PROVE  TypeOK'
  BY <1>1 DEF RegisterCalled, Step
<1>2. ASSUME NEW s \in Sessions, AddTarget(s)
      PROVE  TypeOK'
  BY <1>2 DEF AddTarget, Step, RegistryAdd
<1>3. ASSUME NEW s \in Sessions, AckBegin(s)
      PROVE  TypeOK'
  BY <1>3 DEF AckBegin, Step, SendEnters
<1>4. ASSUME NEW s \in Sessions, AckEnd(s)
      PROVE  TypeOK'
  BY <1>4 DEF AckEnd, Step, SendLeaves
<1>5. ASSUME NEW s \in Sessions, DataWritten(s)
      PROVE  TypeOK'
  BY <1>5 DEF DataWritten, Step
<1>6. ASSUME NEW s \in Sessions, DataFailed(s)
      PROVE  TypeOK'
  BY <1>6 DEF DataFailed, Step
<1>7. ASSUME NEW s \in Sessions, DataConnGone(s)
      PROVE  TypeOK'
  BY <1>7 DEF DataConnGone, Step
<1>8. ASSUME NEW s \in Sessions, DataCloseConn(s)
      PROVE  TypeOK'
  BY <1>8 DEF DataCloseConn, Step, Erase
<1>9. ASSUME NEW s \in Sessions, CloseReplyBegin(s)
      PROVE  TypeOK'
  BY <1>9 DEF CloseReplyBegin, Step, SendEnters
<1>10. ASSUME NEW s \in Sessions, CloseReplyEnd(s)
      PROVE  TypeOK'
  BY <1>10 DEF CloseReplyEnd, Step, SendLeaves
<1>11. ASSUME NEW s \in Sessions, Unregister(s)
      PROVE  TypeOK'
  BY <1>11 DEF Unregister, Step, RegistryRemove
<1>12. ASSUME NEW s \in Sessions, Shutdown(s)
      PROVE  TypeOK'
  BY <1>12 DEF Shutdown, Step
<1>13. ASSUME NEW s \in Sessions, CloseAll(s)
      PROVE  TypeOK'
  BY <1>13 DEF CloseAll, Step
<1>14. ASSUME NEW s \in Sessions, HandlerReturns(s)
      PROVE  TypeOK'
  BY <1>14 DEF HandlerReturns, Step
<1>15. ASSUME NEW s \in Sessions, NEW t \in Names, RecvRegister(s, t)
      PROVE  TypeOK'
  BY <1>15 DEF RecvRegister, Step, RegistryRemove
<1>16. ASSUME NEW s \in Sessions, NEW i \in Ids, RecvData(s, i)
      PROVE  TypeOK'
  BY <1>16 DEF RecvData, Step
<1>17. ASSUME NEW s \in Sessions, NEW i \in Ids, RecvDataUnknown(s, i)
      PROVE  TypeOK'
  BY <1>17 DEF RecvDataUnknown, Step
<1>18. ASSUME NEW s \in Sessions, NEW i \in Ids, RecvClose(s, i)
      PROVE  TypeOK'
  BY <1>18 DEF RecvClose, Step, Erase
<1>19. ASSUME NEW s \in Sessions, CloseConnShuts(s, "cshut", "read")
      PROVE  TypeOK'
  BY <1>19 DEF CloseConnShuts, Step, ShutConn
<1>20. ASSUME NEW s \in Sessions, CloseConnShuts(s, "dshut", "dclose")
      PROVE  TypeOK'
  BY <1>20 DEF CloseConnShuts, Step, ShutConn
<1>21. ASSUME NEW s \in Sessions, NEW c \in Conns, CloseAllShuts(s, c)
      PROVE  TypeOK'
  BY <1>21 DEF CloseAllShuts, ShutConn
<1>22. ASSUME NEW s \in Sessions, StreamBreaks(s)
      PROVE  TypeOK'
  BY <1>22 DEF StreamBreaks
<1>23. ASSUME Refuse
      PROVE  TypeOK'
  BY <1>23 DEF Refuse
<1>24. ASSUME GetSession
      PROVE  TypeOK'
  BY <1>24 DEF GetSession
<1>25. ASSUME AddConn
      PROVE  TypeOK'
  BY <1>25 DEF AddConn
<1>26. ASSUME OpenBegin
      PROVE  TypeOK'
  BY <1>26 DEF OpenBegin, SendEnters
<1>27. ASSUME OpenRefused
      PROVE  TypeOK'
  BY <1>27 DEF OpenRefused, SendRefused
<1>28. ASSUME OpenEnd
      PROVE  TypeOK'
  BY <1>28 DEF OpenEnd, SendLeaves
<1>29. ASSUME OpenConnGone
      PROVE  TypeOK'
  BY <1>29 DEF OpenConnGone, NextAccept
<1>30. ASSUME OpenCloseConn
      PROVE  TypeOK'
  BY <1>30 DEF OpenCloseConn, Erase
<1>31. ASSUME OpenConnShuts
      PROVE  TypeOK'
  BY <1>31 DEF OpenConnShuts, ShutConn, NextAccept
<1>32. ASSUME SpawnPump
      PROVE  TypeOK'
  BY <1>32 DEF SpawnPump, NextAccept
<1>33. ASSUME NEW c \in Conns, Accept(c)
      PROVE  TypeOK'
  BY <1>33 DEF Accept
<1>33f. ASSUME AcceptFails
      PROVE  TypeOK'
  BY <1>33f DEF AcceptFails
<1>34. ASSUME NEW c \in Conns, PumpRecv(c)
      PROVE  TypeOK'
  BY <1>34 DEF PumpRecv, PumpStep
<1>35. ASSUME NEW c \in Conns, PumpEof(c)
      PROVE  TypeOK'
  BY <1>35 DEF PumpEof, PumpStep
<1>36. ASSUME NEW c \in Conns, PumpSendBegin(c)
      PROVE  TypeOK'
  BY <1>36 DEF PumpSendBegin, PumpStep, SendEnters
<1>37. ASSUME NEW c \in Conns, PumpSendRefused(c)
      PROVE  TypeOK'
  BY <1>37 DEF PumpSendRefused, PumpStep, SendRefused
<1>38. ASSUME NEW c \in Conns, PumpSendEnd(c)
      PROVE  TypeOK'
  BY <1>38 DEF PumpSendEnd, PumpStep, SendLeaves
<1>39. ASSUME NEW c \in Conns, PumpExit(c)
      PROVE  TypeOK'
  BY <1>39 DEF PumpExit, PumpStep
<1>40. ASSUME NEW c \in Conns, PumpErase(c)
      PROVE  TypeOK'
  BY <1>40 DEF PumpErase, PumpStep, Erase
<1>41. ASSUME NEW c \in Conns, PumpCloseBegin(c)
      PROVE  TypeOK'
  BY <1>41 DEF PumpCloseBegin, PumpStep, SendEnters
<1>42. ASSUME NEW c \in Conns, PumpCloseRefused(c)
      PROVE  TypeOK'
  BY <1>42 DEF PumpCloseRefused, PumpStep, SendRefused
<1>43. ASSUME NEW c \in Conns, PumpCloseEnd(c)
      PROVE  TypeOK'
  BY <1>43 DEF PumpCloseEnd, PumpStep, SendLeaves
<1>44. ASSUME NEW c \in Conns, AppCloses(c)
      PROVE  TypeOK'
  BY <1>44 DEF AppCloses
<1>45. ASSUME AutoWaitFor
      PROVE  TypeOK'
  BY <1>45 DEF AutoWaitFor
<1> HIDE ServerAssumption DEF TypeOK, Targets, Ids, Reading, HandlerPC,
        ForwarderPC, PumpPC, HandlerInv, ForwarderInv
<1> QED
  BY <1>1, <1>2, <1>3, <1>4, <1>5, <1>6, <1>7, <1>8, <1>9, <1>10, <1>11,
     <1>12, <1>13, <1>14, <1>15, <1>16, <1>17, <1>18, <1>19, <1>20, <1>21,
     <1>22, <1>23, <1>24, <1>25, <1>26, <1>27, <1>28, <1>29, <1>30, <1>31,
     <1>32, <1>33, <1>33f, <1>34, <1>35, <1>36, <1>37, <1>38, <1>39, <1>40, <1>41,
     <1>42, <1>43, <1>44, <1>45
  DEF Next, Handler, HandlerRead, HandlerWork, Forwarder, ForwarderWork,
      PumpThread, PumpWork

\* The handler's references and ids stay meaningful along its frames.
LEMMA HandlerStep ==
  TypeOK /\ HandlerInv /\ Next => HandlerInv'
<1> SUFFICES ASSUME TypeOK, HandlerInv, Next
             PROVE  HandlerInv'
  OBVIOUS
<1>0. /\ handler \in [Sessions -> HandlerPC]
      /\ hid \in [Sessions -> Ids \union {0}]
      /\ hconn \in [Sessions -> Conns \union {NoConn}]
      /\ conns \in [Sessions -> [Ids -> Conns \union {NoConn}]]
  BY DEF TypeOK
<1> USE <1>0, ServerAssumption DEF HandlerInv, Ids, handlerVars, fwdVars,
        sockVars, pumpVars, ownVars
<1>1. ASSUME NEW s \in Sessions, RegisterCalled(s)
      PROVE  HandlerInv'
  BY <1>1 DEF RegisterCalled, Step
<1>2. ASSUME NEW s \in Sessions, AddTarget(s)
      PROVE  HandlerInv'
  BY <1>2 DEF AddTarget, Step, RegistryAdd
<1>3. ASSUME NEW s \in Sessions, AckBegin(s)
      PROVE  HandlerInv'
  BY <1>3 DEF AckBegin, Step, SendEnters
<1>4. ASSUME NEW s \in Sessions, AckEnd(s)
      PROVE  HandlerInv'
  BY <1>4 DEF AckEnd, Step, SendLeaves
<1>5. ASSUME NEW s \in Sessions, DataWritten(s)
      PROVE  HandlerInv'
  BY <1>5 DEF DataWritten, Step
<1>6. ASSUME NEW s \in Sessions, DataFailed(s)
      PROVE  HandlerInv'
  BY <1>6 DEF DataFailed, Step
<1>7. ASSUME NEW s \in Sessions, DataConnGone(s)
      PROVE  HandlerInv'
  BY <1>7 DEF DataConnGone, Step
<1>8. ASSUME NEW s \in Sessions, DataCloseConn(s)
      PROVE  HandlerInv'
  BY <1>8 DEF DataCloseConn, Step, Erase
<1>9. ASSUME NEW s \in Sessions, CloseReplyBegin(s)
      PROVE  HandlerInv'
  BY <1>9 DEF CloseReplyBegin, Step, SendEnters
<1>10. ASSUME NEW s \in Sessions, CloseReplyEnd(s)
      PROVE  HandlerInv'
  BY <1>10 DEF CloseReplyEnd, Step, SendLeaves
<1>11. ASSUME NEW s \in Sessions, Unregister(s)
      PROVE  HandlerInv'
  BY <1>11 DEF Unregister, Step, RegistryRemove
<1>12. ASSUME NEW s \in Sessions, Shutdown(s)
      PROVE  HandlerInv'
  BY <1>12 DEF Shutdown, Step
<1>13. ASSUME NEW s \in Sessions, CloseAll(s)
      PROVE  HandlerInv'
  BY <1>13 DEF CloseAll, Step
<1>14. ASSUME NEW s \in Sessions, HandlerReturns(s)
      PROVE  HandlerInv'
  BY <1>14 DEF HandlerReturns, Step
<1>15. ASSUME NEW s \in Sessions, NEW t \in Names, RecvRegister(s, t)
      PROVE  HandlerInv'
  BY <1>15 DEF RecvRegister, Step, RegistryRemove
<1>16. ASSUME NEW s \in Sessions, NEW i \in Ids, RecvData(s, i)
      PROVE  HandlerInv'
  BY <1>16 DEF RecvData, Step
<1>17. ASSUME NEW s \in Sessions, NEW i \in Ids, RecvDataUnknown(s, i)
      PROVE  HandlerInv'
  BY <1>17 DEF RecvDataUnknown, Step
<1>18. ASSUME NEW s \in Sessions, NEW i \in Ids, RecvClose(s, i)
      PROVE  HandlerInv'
  BY <1>18 DEF RecvClose, Step, Erase
<1>19. ASSUME NEW s \in Sessions, CloseConnShuts(s, "cshut", "read")
      PROVE  HandlerInv'
  BY <1>19 DEF CloseConnShuts, Step, ShutConn
<1>20. ASSUME NEW s \in Sessions, CloseConnShuts(s, "dshut", "dclose")
      PROVE  HandlerInv'
  BY <1>20 DEF CloseConnShuts, Step, ShutConn
<1>21. CASE UNCHANGED <<handler, hid, hconn>>
  BY <1>21
<1> HIDE <1>0, ServerAssumption DEF HandlerInv, Ids
<1> QED
  BY <1>1, <1>2, <1>3, <1>4, <1>5, <1>6, <1>7, <1>8, <1>9, <1>10, <1>11,
     <1>12, <1>13, <1>14, <1>15, <1>16, <1>17, <1>18, <1>19, <1>20, <1>21
  DEF Next, Handler, HandlerRead, HandlerWork, Forwarder, ForwarderWork,
      PumpThread, PumpWork, CloseAllShuts, StreamBreaks, Refuse, GetSession,
      AddConn, OpenBegin, OpenRefused, OpenEnd, OpenConnGone, OpenCloseConn,
      OpenConnShuts, SpawnPump, Accept, AcceptFails, PumpRecv, PumpEof, PumpSendBegin,
      PumpSendRefused, PumpSendEnd, PumpExit, PumpErase, PumpCloseBegin,
      PumpCloseRefused, PumpCloseEnd, AppCloses, AutoWaitFor

\* A Register handler touches neither the forwarder's nor the pumps' locals.
LEMMA HandlerFrame ==
  ASSUME NEW s \in Sessions, Handler(s) \/ StreamBreaks(s)
  PROVE  UNCHANGED <<fwdVars, ownVars, pumpVars>>
  BY DEF Handler, HandlerRead, HandlerWork, RegisterCalled, RecvRegister, AddTarget,
         AckBegin, AckEnd, RecvData, RecvDataUnknown, DataWritten, DataFailed,
         DataConnGone, DataCloseConn, RecvClose, CloseConnShuts, CloseReplyBegin,
         CloseReplyEnd, Unregister, Shutdown, CloseAll, CloseAllShuts,
         HandlerReturns, StreamBreaks

\* The forwarder's locals stay meaningful from accept() to the next accept().
LEMMA ForwarderStep ==
  TypeOK /\ ForwarderInv /\ TableInv /\ Next => ForwarderInv'
<1> SUFFICES ASSUME TypeOK, ForwarderInv, TableInv, Next
             PROVE  ForwarderInv'
  OBVIOUS
<1>0. /\ fsess \in Sessions \union {NoSession}
      /\ registry \in [Targets -> Sessions \union {NoSession}]
      /\ next_id \in [Sessions -> 1..(MaxId + 1)]
      /\ osess \in [Conns -> Sessions \union {NoSession}]
      /\ oid \in [Conns -> Ids \union {0}]
      /\ pump \in [Conns -> PumpPC]
  BY DEF TypeOK
<1> USE <1>0, ServerAssumption DEF Targets, Ids, ForwarderInv, TableInv,
        handlerVars, fwdVars, sockVars, pumpVars, ownVars
<1>1. ASSUME Refuse
      PROVE  ForwarderInv'
  BY <1>1 DEF Refuse
<1>2. ASSUME GetSession
      PROVE  ForwarderInv'
  BY <1>2 DEF GetSession
<1>3. ASSUME AddConn
      PROVE  ForwarderInv'
  BY <1>3 DEF AddConn
<1>4. ASSUME OpenBegin
      PROVE  ForwarderInv'
  BY <1>4 DEF OpenBegin, SendEnters
<1>5. ASSUME OpenRefused
      PROVE  ForwarderInv'
  BY <1>5 DEF OpenRefused, SendRefused
<1>6. ASSUME OpenEnd
      PROVE  ForwarderInv'
  BY <1>6 DEF OpenEnd, SendLeaves
<1>7. ASSUME OpenConnGone
      PROVE  ForwarderInv'
  BY <1>7 DEF OpenConnGone, NextAccept
<1>8. ASSUME OpenCloseConn
      PROVE  ForwarderInv'
  BY <1>8 DEF OpenCloseConn, Erase
<1>9. ASSUME OpenConnShuts
      PROVE  ForwarderInv'
  BY <1>9 DEF OpenConnShuts, ShutConn, NextAccept
<1>10. ASSUME SpawnPump
      PROVE  ForwarderInv'
  BY <1>10 DEF SpawnPump, NextAccept
<1>11. ASSUME NEW c \in Conns, Accept(c)
      PROVE  ForwarderInv'
  BY <1>11 DEF Accept
<1>11f. ASSUME AcceptFails
      PROVE  ForwarderInv'
  BY <1>11f DEF AcceptFails
<1>12. ASSUME NEW c \in Conns, PumpRecv(c)
      PROVE  ForwarderInv'
  BY <1>12 DEF PumpRecv, PumpStep
<1>13. ASSUME NEW c \in Conns, PumpEof(c)
      PROVE  ForwarderInv'
  BY <1>13 DEF PumpEof, PumpStep
<1>14. ASSUME NEW c \in Conns, PumpSendBegin(c)
      PROVE  ForwarderInv'
  BY <1>14 DEF PumpSendBegin, PumpStep, SendEnters
<1>15. ASSUME NEW c \in Conns, PumpSendRefused(c)
      PROVE  ForwarderInv'
  BY <1>15 DEF PumpSendRefused, PumpStep, SendRefused
<1>16. ASSUME NEW c \in Conns, PumpSendEnd(c)
      PROVE  ForwarderInv'
  BY <1>16 DEF PumpSendEnd, PumpStep, SendLeaves
<1>17. ASSUME NEW c \in Conns, PumpExit(c)
      PROVE  ForwarderInv'
  BY <1>17 DEF PumpExit, PumpStep
<1>18. ASSUME NEW c \in Conns, PumpErase(c)
      PROVE  ForwarderInv'
  BY <1>18 DEF PumpErase, PumpStep, Erase
<1>19. ASSUME NEW c \in Conns, PumpCloseBegin(c)
      PROVE  ForwarderInv'
  BY <1>19 DEF PumpCloseBegin, PumpStep, SendEnters
<1>20. ASSUME NEW c \in Conns, PumpCloseRefused(c)
      PROVE  ForwarderInv'
  BY <1>20 DEF PumpCloseRefused, PumpStep, SendRefused
<1>21. ASSUME NEW c \in Conns, PumpCloseEnd(c)
      PROVE  ForwarderInv'
  BY <1>21 DEF PumpCloseEnd, PumpStep, SendLeaves
<1>22. CASE UNCHANGED <<fpc, fsess, fid, fconn, osess, oid, pump>>
  BY <1>22
<1>23. CASE \E s \in Sessions : Handler(s) \/ StreamBreaks(s)
  BY <1>23, HandlerFrame
<1> HIDE <1>0, ServerAssumption DEF Targets, Ids, ForwarderInv, TableInv
<1> QED
  BY <1>1, <1>2, <1>3, <1>4, <1>5, <1>6, <1>7, <1>8, <1>9, <1>10, <1>11, <1>11f,
     <1>12, <1>13, <1>14, <1>15, <1>16, <1>17, <1>18, <1>19, <1>20, <1>21,
     <1>22, <1>23
  DEF Next, Forwarder, ForwarderWork, PumpThread, PumpWork, AppCloses,
      AutoWaitFor

\* write_mu_ serialises the writers, and Shutdown keeps them out for good.
LEMMA MutexStep ==
  TypeOK /\ MutexInv /\ ForwarderInv /\ TableInv /\ Next => MutexInv'
<1> SUFFICES ASSUME TypeOK, MutexInv, ForwarderInv, TableInv, Next
             PROVE  MutexInv'
  OBVIOUS
<1>0. /\ handler \in [Sessions -> HandlerPC]
      /\ alive \in [Sessions -> BOOLEAN]
      /\ write_mu \in [Sessions -> BOOLEAN]
      /\ fsess \in Sessions \union {NoSession}
      /\ osess \in [Conns -> Sessions \union {NoSession}]
      /\ pump \in [Conns -> PumpPC]
      /\ up \in [Sessions -> BOOLEAN]
  BY DEF TypeOK
<1> USE <1>0, ServerAssumption DEF Reading, MutexInv, ForwarderInv, TableInv,
        OneWriter, HandlerWrites, ForwarderWrites, PumpWrites, handlerVars,
        fwdVars, sockVars, pumpVars, ownVars
<1>1. ASSUME NEW s \in Sessions, RegisterCalled(s)
      PROVE  MutexInv'
  BY <1>1 DEF RegisterCalled, Step
<1>2. ASSUME NEW s \in Sessions, AddTarget(s)
      PROVE  MutexInv'
  BY <1>2 DEF AddTarget, Step, RegistryAdd
<1>3. ASSUME NEW s \in Sessions, AckBegin(s)
      PROVE  MutexInv'
  BY <1>3 DEF AckBegin, Step, SendEnters
<1>4. ASSUME NEW s \in Sessions, AckEnd(s)
      PROVE  MutexInv'
  BY <1>4 DEF AckEnd, Step, SendLeaves
<1>5. ASSUME NEW s \in Sessions, DataWritten(s)
      PROVE  MutexInv'
  BY <1>5 DEF DataWritten, Step
<1>6. ASSUME NEW s \in Sessions, DataFailed(s)
      PROVE  MutexInv'
  BY <1>6 DEF DataFailed, Step
<1>7. ASSUME NEW s \in Sessions, DataConnGone(s)
      PROVE  MutexInv'
  BY <1>7 DEF DataConnGone, Step
<1>8. ASSUME NEW s \in Sessions, DataCloseConn(s)
      PROVE  MutexInv'
  BY <1>8 DEF DataCloseConn, Step, Erase
<1>9. ASSUME NEW s \in Sessions, CloseReplyBegin(s)
      PROVE  MutexInv'
  BY <1>9 DEF CloseReplyBegin, Step, SendEnters
<1>10. ASSUME NEW s \in Sessions, CloseReplyEnd(s)
      PROVE  MutexInv'
  BY <1>10 DEF CloseReplyEnd, Step, SendLeaves
<1>11. ASSUME NEW s \in Sessions, Unregister(s)
      PROVE  MutexInv'
  BY <1>11 DEF Unregister, Step, RegistryRemove
<1>12. ASSUME NEW s \in Sessions, Shutdown(s)
      PROVE  MutexInv'
  BY <1>12 DEF Shutdown, Step
<1>13. ASSUME NEW s \in Sessions, CloseAll(s)
      PROVE  MutexInv'
  BY <1>13 DEF CloseAll, Step
<1>14. ASSUME NEW s \in Sessions, HandlerReturns(s)
      PROVE  MutexInv'
  BY <1>14 DEF HandlerReturns, Step
<1>15. ASSUME NEW s \in Sessions, NEW t \in Names, RecvRegister(s, t)
      PROVE  MutexInv'
  BY <1>15 DEF RecvRegister, Step, RegistryRemove
<1>16. ASSUME NEW s \in Sessions, NEW i \in Ids, RecvData(s, i)
      PROVE  MutexInv'
  BY <1>16 DEF RecvData, Step
<1>17. ASSUME NEW s \in Sessions, NEW i \in Ids, RecvDataUnknown(s, i)
      PROVE  MutexInv'
  BY <1>17 DEF RecvDataUnknown, Step
<1>18. ASSUME NEW s \in Sessions, NEW i \in Ids, RecvClose(s, i)
      PROVE  MutexInv'
  BY <1>18 DEF RecvClose, Step, Erase
<1>19. ASSUME NEW s \in Sessions, CloseConnShuts(s, "cshut", "read")
      PROVE  MutexInv'
  BY <1>19 DEF CloseConnShuts, Step, ShutConn
<1>20. ASSUME NEW s \in Sessions, CloseConnShuts(s, "dshut", "dclose")
      PROVE  MutexInv'
  BY <1>20 DEF CloseConnShuts, Step, ShutConn
<1>21. ASSUME NEW s \in Sessions, NEW c \in Conns, CloseAllShuts(s, c)
      PROVE  MutexInv'
  BY <1>21 DEF CloseAllShuts, ShutConn
<1>22. ASSUME NEW s \in Sessions, StreamBreaks(s)
      PROVE  MutexInv'
  BY <1>22 DEF StreamBreaks
<1>23. ASSUME Refuse
      PROVE  MutexInv'
  BY <1>23 DEF Refuse
<1>24. ASSUME GetSession
      PROVE  MutexInv'
  BY <1>24 DEF GetSession
<1>25. ASSUME AddConn
      PROVE  MutexInv'
  BY <1>25 DEF AddConn
<1>26. ASSUME OpenBegin
      PROVE  MutexInv'
  BY <1>26 DEF OpenBegin, SendEnters
<1>27. ASSUME OpenRefused
      PROVE  MutexInv'
  BY <1>27 DEF OpenRefused, SendRefused
<1>28. ASSUME OpenEnd
      PROVE  MutexInv'
  BY <1>28 DEF OpenEnd, SendLeaves
<1>29. ASSUME OpenConnGone
      PROVE  MutexInv'
  BY <1>29 DEF OpenConnGone, NextAccept
<1>30. ASSUME OpenCloseConn
      PROVE  MutexInv'
  BY <1>30 DEF OpenCloseConn, Erase
<1>31. ASSUME OpenConnShuts
      PROVE  MutexInv'
  BY <1>31 DEF OpenConnShuts, ShutConn, NextAccept
<1>32. ASSUME SpawnPump
      PROVE  MutexInv'
  BY <1>32 DEF SpawnPump, NextAccept
<1>33. ASSUME NEW c \in Conns, Accept(c)
      PROVE  MutexInv'
  BY <1>33 DEF Accept
<1>33f. ASSUME AcceptFails
      PROVE  MutexInv'
  BY <1>33f DEF AcceptFails
<1>34. ASSUME NEW c \in Conns, PumpRecv(c)
      PROVE  MutexInv'
  BY <1>34 DEF PumpRecv, PumpStep
<1>35. ASSUME NEW c \in Conns, PumpEof(c)
      PROVE  MutexInv'
  BY <1>35 DEF PumpEof, PumpStep
<1>36. ASSUME NEW c \in Conns, PumpSendBegin(c)
      PROVE  MutexInv'
  BY <1>36 DEF PumpSendBegin, PumpStep, SendEnters
<1>37. ASSUME NEW c \in Conns, PumpSendRefused(c)
      PROVE  MutexInv'
  BY <1>37 DEF PumpSendRefused, PumpStep, SendRefused
<1>38. ASSUME NEW c \in Conns, PumpSendEnd(c)
      PROVE  MutexInv'
  BY <1>38 DEF PumpSendEnd, PumpStep, SendLeaves
<1>39. ASSUME NEW c \in Conns, PumpExit(c)
      PROVE  MutexInv'
  BY <1>39 DEF PumpExit, PumpStep
<1>40. ASSUME NEW c \in Conns, PumpErase(c)
      PROVE  MutexInv'
  BY <1>40 DEF PumpErase, PumpStep, Erase
<1>41. ASSUME NEW c \in Conns, PumpCloseBegin(c)
      PROVE  MutexInv'
  BY <1>41 DEF PumpCloseBegin, PumpStep, SendEnters
<1>42. ASSUME NEW c \in Conns, PumpCloseRefused(c)
      PROVE  MutexInv'
  BY <1>42 DEF PumpCloseRefused, PumpStep, SendRefused
<1>43. ASSUME NEW c \in Conns, PumpCloseEnd(c)
      PROVE  MutexInv'
  BY <1>43 DEF PumpCloseEnd, PumpStep, SendLeaves
<1>44. ASSUME NEW c \in Conns, AppCloses(c)
      PROVE  MutexInv'
  BY <1>44 DEF AppCloses
<1>45. ASSUME AutoWaitFor
      PROVE  MutexInv'
  BY <1>45, SMTT(30) DEF AutoWaitFor
<1> HIDE <1>0, ServerAssumption DEF Reading, MutexInv, ForwarderInv, TableInv,
        OneWriter, HandlerWrites, ForwarderWrites, PumpWrites
<1> QED
  BY <1>1, <1>2, <1>3, <1>4, <1>5, <1>6, <1>7, <1>8, <1>9, <1>10, <1>11,
     <1>12, <1>13, <1>14, <1>15, <1>16, <1>17, <1>18, <1>19, <1>20, <1>21,
     <1>22, <1>23, <1>24, <1>25, <1>26, <1>27, <1>28, <1>29, <1>30, <1>31,
     <1>32, <1>33, <1>33f, <1>34, <1>35, <1>36, <1>37, <1>38, <1>39, <1>40, <1>41,
     <1>42, <1>43, <1>44, <1>45
  DEF Next, Handler, HandlerRead, HandlerWork, Forwarder, ForwarderWork,
      PumpThread, PumpWork

\* AddConn gives each socket an id of its own; nothing else moves an entry.
LEMMA TableStep ==
  TypeOK /\ ForwarderInv /\ TableInv /\ Next => TableInv'
<1> SUFFICES ASSUME TypeOK, ForwarderInv, TableInv, Next
             PROVE  TableInv'
  OBVIOUS
<1>0. /\ conns \in [Sessions -> [Ids -> Conns \union {NoConn}]]
      /\ next_id \in [Sessions -> 1..(MaxId + 1)]
      /\ fsess \in Sessions \union {NoSession}
      /\ fid \in Ids \union {0}
      /\ osess \in [Conns -> Sessions \union {NoSession}]
      /\ oid \in [Conns -> Ids \union {0}]
      /\ pump \in [Conns -> PumpPC]
      /\ hid \in [Sessions -> Ids \union {0}]
  BY DEF TypeOK
<1> USE <1>0, ServerAssumption DEF Ids, ForwarderInv, TableInv, handlerVars,
        fwdVars, sockVars, pumpVars, ownVars
<1>1. ASSUME NEW s \in Sessions, DataCloseConn(s)
      PROVE  TableInv'
  BY <1>1 DEF DataCloseConn, Step, Erase
<1>2. ASSUME NEW s \in Sessions, CloseAll(s)
      PROVE  TableInv'
  BY <1>2 DEF CloseAll, Step
<1>3. ASSUME NEW s \in Sessions, NEW i \in Ids, RecvClose(s, i)
      PROVE  TableInv'
  BY <1>3 DEF RecvClose, Step, Erase
<1>4. ASSUME AddConn
      PROVE  TableInv'
  BY <1>4 DEF AddConn
<1>5. ASSUME OpenCloseConn
      PROVE  TableInv'
  BY <1>5 DEF OpenCloseConn, Erase
<1>6. ASSUME SpawnPump
      PROVE  TableInv'
  BY <1>6 DEF SpawnPump, NextAccept
<1>7. ASSUME NEW c \in Conns, PumpRecv(c)
      PROVE  TableInv'
  BY <1>7, SMTT(30) DEF PumpRecv, PumpStep
<1>8. ASSUME NEW c \in Conns, PumpEof(c)
      PROVE  TableInv'
  BY <1>8 DEF PumpEof, PumpStep
<1>9. ASSUME NEW c \in Conns, PumpSendBegin(c)
      PROVE  TableInv'
  BY <1>9 DEF PumpSendBegin, PumpStep, SendEnters
<1>10. ASSUME NEW c \in Conns, PumpSendRefused(c)
      PROVE  TableInv'
  BY <1>10 DEF PumpSendRefused, PumpStep, SendRefused
<1>11. ASSUME NEW c \in Conns, PumpSendEnd(c)
      PROVE  TableInv'
  BY <1>11 DEF PumpSendEnd, PumpStep, SendLeaves
<1>12. ASSUME NEW c \in Conns, PumpExit(c)
      PROVE  TableInv'
  BY <1>12 DEF PumpExit, PumpStep
<1>13. ASSUME NEW c \in Conns, PumpErase(c)
      PROVE  TableInv'
  BY <1>13, SMTT(30) DEF PumpErase, PumpStep, Erase
<1>14. ASSUME NEW c \in Conns, PumpCloseBegin(c)
      PROVE  TableInv'
  BY <1>14 DEF PumpCloseBegin, PumpStep, SendEnters
<1>15. ASSUME NEW c \in Conns, PumpCloseRefused(c)
      PROVE  TableInv'
  BY <1>15, SMTT(30) DEF PumpCloseRefused, PumpStep, SendRefused
<1>16. ASSUME NEW c \in Conns, PumpCloseEnd(c)
      PROVE  TableInv'
  BY <1>16 DEF PumpCloseEnd, PumpStep, SendLeaves
<1>17. CASE UNCHANGED <<conns, osess, oid, next_id, pump>>
  BY <1>17
<1> HIDE <1>0, ServerAssumption DEF Ids, ForwarderInv, TableInv
<1> QED
  BY <1>1, <1>2, <1>3, <1>4, <1>5, <1>6, <1>7, <1>8, <1>9, <1>10, <1>11,
     <1>12, <1>13, <1>14, <1>15, <1>16, <1>17, ZenonT(60)
  DEF Next, Handler, HandlerRead, HandlerWork, Forwarder, ForwarderWork,
      PumpThread, PumpWork, RegisterCalled, AddTarget, AckBegin, AckEnd,
      DataWritten, DataFailed, DataConnGone, CloseReplyBegin, CloseReplyEnd,
      Unregister, Shutdown, HandlerReturns, RecvRegister, RecvData,
      RecvDataUnknown, CloseConnShuts, CloseAllShuts, StreamBreaks, Refuse,
      GetSession, OpenBegin, OpenRefused, OpenEnd, OpenConnGone,
      OpenConnShuts, Accept, AcceptFails, AppCloses, AutoWaitFor

\* Only CloseAll takes sockets, and it returns when it has shut them all.
LEMMA TakenStep ==
  TypeOK /\ TakenInv /\ Next => TakenInv'
<1> SUFFICES ASSUME TypeOK, TakenInv, Next
             PROVE  TakenInv'
  OBVIOUS
<1>0. /\ handler \in [Sessions -> HandlerPC]
      /\ taken \in [Sessions -> SUBSET Conns]
  BY DEF TypeOK
<1> USE <1>0, ServerAssumption DEF TakenInv, handlerVars, fwdVars, sockVars,
        pumpVars, ownVars
<1>1. ASSUME NEW s \in Sessions, RegisterCalled(s)
      PROVE  TakenInv'
  BY <1>1 DEF RegisterCalled, Step
<1>2. ASSUME NEW s \in Sessions, AddTarget(s)
      PROVE  TakenInv'
  BY <1>2 DEF AddTarget, Step, RegistryAdd
<1>3. ASSUME NEW s \in Sessions, AckBegin(s)
      PROVE  TakenInv'
  BY <1>3 DEF AckBegin, Step, SendEnters
<1>4. ASSUME NEW s \in Sessions, AckEnd(s)
      PROVE  TakenInv'
  BY <1>4 DEF AckEnd, Step, SendLeaves
<1>5. ASSUME NEW s \in Sessions, DataWritten(s)
      PROVE  TakenInv'
  BY <1>5 DEF DataWritten, Step
<1>6. ASSUME NEW s \in Sessions, DataFailed(s)
      PROVE  TakenInv'
  BY <1>6 DEF DataFailed, Step
<1>7. ASSUME NEW s \in Sessions, DataConnGone(s)
      PROVE  TakenInv'
  BY <1>7 DEF DataConnGone, Step
<1>8. ASSUME NEW s \in Sessions, DataCloseConn(s)
      PROVE  TakenInv'
  BY <1>8 DEF DataCloseConn, Step, Erase
<1>9. ASSUME NEW s \in Sessions, CloseReplyBegin(s)
      PROVE  TakenInv'
  BY <1>9 DEF CloseReplyBegin, Step, SendEnters
<1>10. ASSUME NEW s \in Sessions, CloseReplyEnd(s)
      PROVE  TakenInv'
  BY <1>10 DEF CloseReplyEnd, Step, SendLeaves
<1>11. ASSUME NEW s \in Sessions, Unregister(s)
      PROVE  TakenInv'
  BY <1>11 DEF Unregister, Step, RegistryRemove
<1>12. ASSUME NEW s \in Sessions, Shutdown(s)
      PROVE  TakenInv'
  BY <1>12 DEF Shutdown, Step
<1>13. ASSUME NEW s \in Sessions, CloseAll(s)
      PROVE  TakenInv'
  BY <1>13 DEF CloseAll, Step
<1>14. ASSUME NEW s \in Sessions, HandlerReturns(s)
      PROVE  TakenInv'
  BY <1>14 DEF HandlerReturns, Step
<1>15. ASSUME NEW s \in Sessions, NEW t \in Names, RecvRegister(s, t)
      PROVE  TakenInv'
  BY <1>15 DEF RecvRegister, Step, RegistryRemove
<1>16. ASSUME NEW s \in Sessions, NEW i \in Ids, RecvData(s, i)
      PROVE  TakenInv'
  BY <1>16 DEF RecvData, Step
<1>17. ASSUME NEW s \in Sessions, NEW i \in Ids, RecvDataUnknown(s, i)
      PROVE  TakenInv'
  BY <1>17 DEF RecvDataUnknown, Step
<1>18. ASSUME NEW s \in Sessions, NEW i \in Ids, RecvClose(s, i)
      PROVE  TakenInv'
  BY <1>18 DEF RecvClose, Step, Erase
<1>19. ASSUME NEW s \in Sessions, CloseConnShuts(s, "cshut", "read")
      PROVE  TakenInv'
  BY <1>19 DEF CloseConnShuts, Step, ShutConn
<1>20. ASSUME NEW s \in Sessions, CloseConnShuts(s, "dshut", "dclose")
      PROVE  TakenInv'
  BY <1>20 DEF CloseConnShuts, Step, ShutConn
<1>21. ASSUME NEW s \in Sessions, NEW c \in Conns, CloseAllShuts(s, c)
      PROVE  TakenInv'
  BY <1>21 DEF CloseAllShuts, ShutConn
<1>22. CASE UNCHANGED <<taken, handler>>
  BY <1>22
<1> HIDE <1>0, ServerAssumption DEF TakenInv
<1> QED
  BY <1>1, <1>2, <1>3, <1>4, <1>5, <1>6, <1>7, <1>8, <1>9, <1>10, <1>11,
     <1>12, <1>13, <1>14, <1>15, <1>16, <1>17, <1>18, <1>19, <1>20, <1>21,
     <1>22
  DEF Next, Handler, HandlerRead, HandlerWork, Forwarder, ForwarderWork,
      PumpThread, PumpWork, StreamBreaks, Refuse, GetSession, AddConn,
      OpenBegin, OpenRefused, OpenEnd, OpenConnGone, OpenCloseConn,
      OpenConnShuts, SpawnPump, Accept, AcceptFails, PumpRecv, PumpEof, PumpSendBegin,
      PumpSendRefused, PumpSendEnd, PumpExit, PumpErase, PumpCloseBegin,
      PumpCloseRefused, PumpCloseEnd, AppCloses, AutoWaitFor

\* A session that is being torn down gets no entry that would stay.
LEMMA EmptiedStep ==
  TypeOK /\ MutexInv /\ ForwarderInv /\ TableInv /\ EmptiedInv /\ Next => EmptiedInv'
<1> SUFFICES ASSUME TypeOK, MutexInv, ForwarderInv, TableInv, EmptiedInv, Next
             PROVE  EmptiedInv'
  OBVIOUS
<1> SUFFICES ASSUME NEW r \in Sessions, NEW j \in Ids,
                    handler'[r] \in {"shutall", "returned"}, conns'[r][j] # NoConn
             PROVE  fconn' = conns'[r][j] /\ fpc' \in {"open", "fail"}
  BY DEF EmptiedInv
<1>a. handler[r] \in {"shutall", "returned"} /\ conns[r][j] # NoConn =>
        fconn = conns[r][j] /\ fpc \in {"open", "fail"}
  BY DEF EmptiedInv
<1>b. conns[r][j] # NoConn => osess[conns[r][j]] = r /\ oid[conns[r][j]] = j
  BY DEF TableInv
<1>c. /\ alive[r] <=> handler[r] \in Reading \union {"none", "shutdown"}
      /\ fpc \in {"add", "open", "fail"} => fsess \in Sessions /\ fconn \in Conns
      /\ fpc \in {"open", "fail"} => osess[fconn] = fsess /\ oid[fconn] = fid
  BY DEF MutexInv, ForwarderInv
<1>0. /\ handler \in [Sessions -> HandlerPC]
      /\ hid \in [Sessions -> Ids \union {0}]
      /\ conns \in [Sessions -> [Ids -> Conns \union {NoConn}]]
      /\ next_id \in [Sessions -> 1..(MaxId + 1)]
      /\ fsess \in Sessions \union {NoSession}
      /\ fid \in Ids \union {0}
      /\ osess \in [Conns -> Sessions \union {NoSession}]
      /\ oid \in [Conns -> Ids \union {0}]
  BY DEF TypeOK
<1> USE <1>0, <1>a, <1>b, <1>c, ServerAssumption DEF Ids, Reading,
        handlerVars, fwdVars, sockVars, pumpVars, ownVars
<1>1. ASSUME NEW s \in Sessions, RegisterCalled(s)
      PROVE  fconn' = conns'[r][j] /\ fpc' \in {"open", "fail"}
  BY <1>1 DEF RegisterCalled, Step
<1>2. ASSUME NEW s \in Sessions, AddTarget(s)
      PROVE  fconn' = conns'[r][j] /\ fpc' \in {"open", "fail"}
  BY <1>2 DEF AddTarget, Step, RegistryAdd
<1>3. ASSUME NEW s \in Sessions, AckBegin(s)
      PROVE  fconn' = conns'[r][j] /\ fpc' \in {"open", "fail"}
  BY <1>3 DEF AckBegin, Step, SendEnters
<1>4. ASSUME NEW s \in Sessions, AckEnd(s)
      PROVE  fconn' = conns'[r][j] /\ fpc' \in {"open", "fail"}
  BY <1>4 DEF AckEnd, Step, SendLeaves
<1>5. ASSUME NEW s \in Sessions, DataWritten(s)
      PROVE  fconn' = conns'[r][j] /\ fpc' \in {"open", "fail"}
  BY <1>5 DEF DataWritten, Step
<1>6. ASSUME NEW s \in Sessions, DataFailed(s)
      PROVE  fconn' = conns'[r][j] /\ fpc' \in {"open", "fail"}
  BY <1>6 DEF DataFailed, Step
<1>7. ASSUME NEW s \in Sessions, DataConnGone(s)
      PROVE  fconn' = conns'[r][j] /\ fpc' \in {"open", "fail"}
  BY <1>7 DEF DataConnGone, Step
<1>8. ASSUME NEW s \in Sessions, DataCloseConn(s)
      PROVE  fconn' = conns'[r][j] /\ fpc' \in {"open", "fail"}
  BY <1>8 DEF DataCloseConn, Step, Erase
<1>9. ASSUME NEW s \in Sessions, CloseReplyBegin(s)
      PROVE  fconn' = conns'[r][j] /\ fpc' \in {"open", "fail"}
  BY <1>9 DEF CloseReplyBegin, Step, SendEnters
<1>10. ASSUME NEW s \in Sessions, CloseReplyEnd(s)
      PROVE  fconn' = conns'[r][j] /\ fpc' \in {"open", "fail"}
  BY <1>10 DEF CloseReplyEnd, Step, SendLeaves
<1>11. ASSUME NEW s \in Sessions, Unregister(s)
      PROVE  fconn' = conns'[r][j] /\ fpc' \in {"open", "fail"}
  BY <1>11 DEF Unregister, Step, RegistryRemove
<1>12. ASSUME NEW s \in Sessions, Shutdown(s)
      PROVE  fconn' = conns'[r][j] /\ fpc' \in {"open", "fail"}
  BY <1>12 DEF Shutdown, Step
<1>13. ASSUME NEW s \in Sessions, CloseAll(s)
      PROVE  fconn' = conns'[r][j] /\ fpc' \in {"open", "fail"}
  BY <1>13 DEF CloseAll, Step
<1>14. ASSUME NEW s \in Sessions, HandlerReturns(s)
      PROVE  fconn' = conns'[r][j] /\ fpc' \in {"open", "fail"}
  BY <1>14 DEF HandlerReturns, Step
<1>15. ASSUME NEW s \in Sessions, NEW t \in Names, RecvRegister(s, t)
      PROVE  fconn' = conns'[r][j] /\ fpc' \in {"open", "fail"}
  BY <1>15 DEF RecvRegister, Step, RegistryRemove
<1>16. ASSUME NEW s \in Sessions, NEW i \in Ids, RecvData(s, i)
      PROVE  fconn' = conns'[r][j] /\ fpc' \in {"open", "fail"}
  BY <1>16 DEF RecvData, Step
<1>17. ASSUME NEW s \in Sessions, NEW i \in Ids, RecvDataUnknown(s, i)
      PROVE  fconn' = conns'[r][j] /\ fpc' \in {"open", "fail"}
  BY <1>17 DEF RecvDataUnknown, Step
<1>18. ASSUME NEW s \in Sessions, NEW i \in Ids, RecvClose(s, i)
      PROVE  fconn' = conns'[r][j] /\ fpc' \in {"open", "fail"}
  BY <1>18 DEF RecvClose, Step, Erase
<1>19. ASSUME NEW s \in Sessions, CloseConnShuts(s, "cshut", "read")
      PROVE  fconn' = conns'[r][j] /\ fpc' \in {"open", "fail"}
  BY <1>19 DEF CloseConnShuts, Step, ShutConn
<1>20. ASSUME NEW s \in Sessions, CloseConnShuts(s, "dshut", "dclose")
      PROVE  fconn' = conns'[r][j] /\ fpc' \in {"open", "fail"}
  BY <1>20 DEF CloseConnShuts, Step, ShutConn
<1>21. ASSUME NEW s \in Sessions, NEW c \in Conns, CloseAllShuts(s, c)
      PROVE  fconn' = conns'[r][j] /\ fpc' \in {"open", "fail"}
  BY <1>21 DEF CloseAllShuts, ShutConn
<1>22. ASSUME Refuse
      PROVE  fconn' = conns'[r][j] /\ fpc' \in {"open", "fail"}
  BY <1>22 DEF Refuse
<1>23. ASSUME GetSession
      PROVE  fconn' = conns'[r][j] /\ fpc' \in {"open", "fail"}
  BY <1>23 DEF GetSession
<1>24. ASSUME AddConn
      PROVE  fconn' = conns'[r][j] /\ fpc' \in {"open", "fail"}
  BY <1>24 DEF AddConn
<1>25. ASSUME OpenBegin
      PROVE  fconn' = conns'[r][j] /\ fpc' \in {"open", "fail"}
  BY <1>25 DEF OpenBegin, SendEnters
<1>26. ASSUME OpenRefused
      PROVE  fconn' = conns'[r][j] /\ fpc' \in {"open", "fail"}
  BY <1>26 DEF OpenRefused, SendRefused
<1>27. ASSUME OpenEnd
      PROVE  fconn' = conns'[r][j] /\ fpc' \in {"open", "fail"}
  BY <1>27 DEF OpenEnd, SendLeaves
<1>28. ASSUME OpenConnGone
      PROVE  fconn' = conns'[r][j] /\ fpc' \in {"open", "fail"}
  BY <1>28 DEF OpenConnGone, NextAccept
<1>29. ASSUME OpenCloseConn
      PROVE  fconn' = conns'[r][j] /\ fpc' \in {"open", "fail"}
  BY <1>29 DEF OpenCloseConn, Erase
<1>30. ASSUME OpenConnShuts
      PROVE  fconn' = conns'[r][j] /\ fpc' \in {"open", "fail"}
  BY <1>30 DEF OpenConnShuts, ShutConn, NextAccept
<1>31. ASSUME SpawnPump
      PROVE  fconn' = conns'[r][j] /\ fpc' \in {"open", "fail"}
  BY <1>31 DEF SpawnPump, NextAccept
<1>32. ASSUME NEW c \in Conns, Accept(c)
      PROVE  fconn' = conns'[r][j] /\ fpc' \in {"open", "fail"}
  BY <1>32 DEF Accept
<1>32f. ASSUME AcceptFails
      PROVE  fconn' = conns'[r][j] /\ fpc' \in {"open", "fail"}
  BY <1>32f DEF AcceptFails
<1>33. ASSUME NEW c \in Conns, PumpRecv(c)
      PROVE  fconn' = conns'[r][j] /\ fpc' \in {"open", "fail"}
  BY <1>33 DEF PumpRecv, PumpStep
<1>34. ASSUME NEW c \in Conns, PumpEof(c)
      PROVE  fconn' = conns'[r][j] /\ fpc' \in {"open", "fail"}
  BY <1>34 DEF PumpEof, PumpStep
<1>35. ASSUME NEW c \in Conns, PumpSendBegin(c)
      PROVE  fconn' = conns'[r][j] /\ fpc' \in {"open", "fail"}
  BY <1>35 DEF PumpSendBegin, PumpStep, SendEnters
<1>36. ASSUME NEW c \in Conns, PumpSendRefused(c)
      PROVE  fconn' = conns'[r][j] /\ fpc' \in {"open", "fail"}
  BY <1>36 DEF PumpSendRefused, PumpStep, SendRefused
<1>37. ASSUME NEW c \in Conns, PumpSendEnd(c)
      PROVE  fconn' = conns'[r][j] /\ fpc' \in {"open", "fail"}
  BY <1>37 DEF PumpSendEnd, PumpStep, SendLeaves
<1>38. ASSUME NEW c \in Conns, PumpExit(c)
      PROVE  fconn' = conns'[r][j] /\ fpc' \in {"open", "fail"}
  BY <1>38 DEF PumpExit, PumpStep
<1>39. ASSUME NEW c \in Conns, PumpErase(c)
      PROVE  fconn' = conns'[r][j] /\ fpc' \in {"open", "fail"}
  BY <1>39 DEF PumpErase, PumpStep, Erase
<1>40. ASSUME NEW c \in Conns, PumpCloseBegin(c)
      PROVE  fconn' = conns'[r][j] /\ fpc' \in {"open", "fail"}
  BY <1>40 DEF PumpCloseBegin, PumpStep, SendEnters
<1>41. ASSUME NEW c \in Conns, PumpCloseRefused(c)
      PROVE  fconn' = conns'[r][j] /\ fpc' \in {"open", "fail"}
  BY <1>41 DEF PumpCloseRefused, PumpStep, SendRefused
<1>42. ASSUME NEW c \in Conns, PumpCloseEnd(c)
      PROVE  fconn' = conns'[r][j] /\ fpc' \in {"open", "fail"}
  BY <1>42 DEF PumpCloseEnd, PumpStep, SendLeaves
<1>43. CASE UNCHANGED <<handler, conns, fpc, fconn>>
  BY <1>43
<1> HIDE <1>0, <1>a, <1>b, <1>c, ServerAssumption DEF Ids, Reading
<1> QED
  BY <1>1, <1>2, <1>3, <1>4, <1>5, <1>6, <1>7, <1>8, <1>9, <1>10, <1>11,
     <1>12, <1>13, <1>14, <1>15, <1>16, <1>17, <1>18, <1>19, <1>20, <1>21,
     <1>22, <1>23, <1>24, <1>25, <1>26, <1>27, <1>28, <1>29, <1>30, <1>31,
     <1>32, <1>32f, <1>33, <1>34, <1>35, <1>36, <1>37, <1>38, <1>39, <1>40, <1>41,
     <1>42, <1>43
  DEF Next, Handler, HandlerRead, HandlerWork, Forwarder, ForwarderWork,
      PumpThread, PumpWork, StreamBreaks, AppCloses, AutoWaitFor

\* No served socket escapes its closers, whatever the teardown meets.
LEMMA CoveredStep ==
  TypeOK /\ HandlerInv /\ ForwarderInv /\ TableInv /\ TakenInv /\ CoveredInv /\ Next => CoveredInv'
<1> SUFFICES ASSUME TypeOK, HandlerInv, ForwarderInv, TableInv, TakenInv, CoveredInv, Next
             PROVE  CoveredInv'
  OBVIOUS
<1> SUFFICES ASSUME NEW d \in Conns, osess'[d] # NoSession, Served(d)'
             PROVE  Covered(d)'
  BY DEF CoveredInv
<1>a. osess[d] # NoSession /\ Served(d) => Covered(d)
  BY DEF CoveredInv
<1>b. /\ \A c \in Conns : pump[c] # "none" => osess[c] # NoSession
      /\ osess[d] # NoSession => oid[d] \in Ids /\ oid[d] < next_id[osess[d]]
      /\ \A c \in Conns :
            osess[c] # NoSession /\ osess[c] = osess[d] /\ oid[c] = oid[d] => c = d
  BY DEF TableInv
<1>c. \A s \in Sessions : taken[s] # {} => handler[s] = "shutall"
  BY DEF TakenInv
<1>d. \A s \in Sessions :
        handler[s] \in {"data", "cshut", "dshut"} => hconn[s] \in Conns
  BY DEF HandlerInv
<1>e. /\ fpc \in {"get", "add"} => fconn \in Conns /\ osess[fconn] = NoSession
      /\ fpc \notin {"accept", "get", "ended"} => fsess \in Sessions
      /\ fpc \in {"open", "opening", "fail", "fshut", "spawn"} =>
            /\ fconn \in Conns
            /\ osess[fconn] = fsess
            /\ oid[fconn] = fid
            /\ pump[fconn] = "none"
  BY DEF ForwarderInv
<1>0. /\ handler \in [Sessions -> HandlerPC]
      /\ hid \in [Sessions -> Ids \union {0}]
      /\ hconn \in [Sessions -> Conns \union {NoConn}]
      /\ taken \in [Sessions -> SUBSET Conns]
      /\ conns \in [Sessions -> [Ids -> Conns \union {NoConn}]]
      /\ next_id \in [Sessions -> 1..(MaxId + 1)]
      /\ fsess \in Sessions \union {NoSession}
      /\ fid \in Ids \union {0}
      /\ osess \in [Conns -> Sessions \union {NoSession}]
      /\ oid \in [Conns -> Ids \union {0}]
      /\ shut \in [Conns -> BOOLEAN]
      /\ pump \in [Conns -> PumpPC]
  BY DEF TypeOK
<1>f. osess[d] # NoSession => oid[d] # next_id[osess[d]]
  <2> SUFFICES ASSUME osess[d] # NoSession
               PROVE  oid[d] # next_id[osess[d]]
    OBVIOUS
  <2>1. oid[d] \in Ids /\ oid[d] < next_id[osess[d]]
    BY <1>b
  <2>2. osess[d] \in Sessions
    BY <1>0
  <2>3. next_id[osess[d]] \in 1..(MaxId + 1)
    BY <1>0, <2>2
  <2> QED
    BY <2>1, <2>3, ServerAssumption DEF Ids
<1> USE <1>0, <1>a, <1>b, <1>c, <1>d, <1>e, ServerAssumption DEF Ids, Served,
        Covered, handlerVars, fwdVars, sockVars, pumpVars, ownVars
<1>1. ASSUME NEW s \in Sessions, RegisterCalled(s)
      PROVE  Covered(d)'
  BY <1>1 DEF RegisterCalled, Step
<1>2. ASSUME NEW s \in Sessions, AddTarget(s)
      PROVE  Covered(d)'
  BY <1>2 DEF AddTarget, Step, RegistryAdd
<1>3. ASSUME NEW s \in Sessions, AckBegin(s)
      PROVE  Covered(d)'
  BY <1>3 DEF AckBegin, Step, SendEnters
<1>4. ASSUME NEW s \in Sessions, AckEnd(s)
      PROVE  Covered(d)'
  BY <1>4 DEF AckEnd, Step, SendLeaves
<1>5. ASSUME NEW s \in Sessions, DataWritten(s)
      PROVE  Covered(d)'
  BY <1>5 DEF DataWritten, Step
<1>6. ASSUME NEW s \in Sessions, DataFailed(s)
      PROVE  Covered(d)'
  BY <1>6 DEF DataFailed, Step
<1>7. ASSUME NEW s \in Sessions, DataConnGone(s)
      PROVE  Covered(d)'
  BY <1>7 DEF DataConnGone, Step
<1>8. ASSUME NEW s \in Sessions, DataCloseConn(s)
      PROVE  Covered(d)'
  BY <1>8 DEF DataCloseConn, Step, Erase
<1>9. ASSUME NEW s \in Sessions, CloseReplyBegin(s)
      PROVE  Covered(d)'
  BY <1>9 DEF CloseReplyBegin, Step, SendEnters
<1>10. ASSUME NEW s \in Sessions, CloseReplyEnd(s)
      PROVE  Covered(d)'
  BY <1>10 DEF CloseReplyEnd, Step, SendLeaves
<1>11. ASSUME NEW s \in Sessions, Unregister(s)
      PROVE  Covered(d)'
  BY <1>11 DEF Unregister, Step, RegistryRemove
<1>12. ASSUME NEW s \in Sessions, Shutdown(s)
      PROVE  Covered(d)'
  BY <1>12 DEF Shutdown, Step
<1>13. ASSUME NEW s \in Sessions, CloseAll(s)
      PROVE  Covered(d)'
  <2>1. taken'[s] = {conns[s][i] : i \in Ids} \ {NoConn}
    BY <1>13 DEF CloseAll
  <2>2. CASE osess[d] = s
    <3>1. Covered(d) /\ d \notin taken[s] /\ handler[s] = "closeall" /\ oid[d] \in Ids
      BY <1>13, <2>2 DEF CloseAll, Step
    <3>2. CASE conns[s][oid[d]] = d
      <4>1. d \in {conns[s][i] : i \in Ids}
        BY <3>1, <3>2
      <4>2. d \in taken'[s]
        BY <2>1, <4>1
      <4>3. osess'[d] = s
        BY <1>13, <2>2 DEF CloseAll
      <4> QED
        BY <4>2, <4>3
    <3>3. CASE shut[d]
      BY <1>13, <3>3 DEF CloseAll
    <3> QED
      BY <2>2, <3>1, <3>2, <3>3
  <2>3. CASE osess[d] # s
    BY <1>13, <2>3 DEF CloseAll, Step
  <2> QED
    BY <2>2, <2>3
<1>14. ASSUME NEW s \in Sessions, HandlerReturns(s)
      PROVE  Covered(d)'
  BY <1>14 DEF HandlerReturns, Step
<1>15. ASSUME NEW s \in Sessions, NEW t \in Names, RecvRegister(s, t)
      PROVE  Covered(d)'
  BY <1>15 DEF RecvRegister, Step, RegistryRemove
<1>16. ASSUME NEW s \in Sessions, NEW i \in Ids, RecvData(s, i)
      PROVE  Covered(d)'
  BY <1>16 DEF RecvData, Step
<1>17. ASSUME NEW s \in Sessions, NEW i \in Ids, RecvDataUnknown(s, i)
      PROVE  Covered(d)'
  BY <1>17 DEF RecvDataUnknown, Step
<1>18. ASSUME NEW s \in Sessions, NEW i \in Ids, RecvClose(s, i)
      PROVE  Covered(d)'
  BY <1>18 DEF RecvClose, Step, Erase
<1>19. ASSUME NEW s \in Sessions, CloseConnShuts(s, "cshut", "read")
      PROVE  Covered(d)'
  BY <1>19 DEF CloseConnShuts, Step, ShutConn
<1>20. ASSUME NEW s \in Sessions, CloseConnShuts(s, "dshut", "dclose")
      PROVE  Covered(d)'
  BY <1>20 DEF CloseConnShuts, Step, ShutConn
<1>21. ASSUME NEW s \in Sessions, NEW c \in Conns, CloseAllShuts(s, c)
      PROVE  Covered(d)'
  BY <1>21 DEF CloseAllShuts, ShutConn
<1>22. ASSUME Refuse
      PROVE  Covered(d)'
  BY <1>22 DEF Refuse
<1>23. ASSUME GetSession
      PROVE  Covered(d)'
  BY <1>23 DEF GetSession
<1>24. ASSUME AddConn
      PROVE  Covered(d)'
  <2> fconn \in Conns /\ fsess \in Sessions /\ next_id[fsess] \in Ids
    BY <1>24 DEF AddConn
  <2>1. CASE d = fconn
    <3>1. osess'[d] = fsess /\ oid'[d] = next_id[fsess]
      BY <1>24, <2>1 DEF AddConn
    <3>2. conns'[fsess][next_id[fsess]] = d
      BY <1>24, <2>1 DEF AddConn
    <3> QED
      BY <3>1, <3>2
  <2>2. CASE d # fconn
    <3>1. /\ osess'[d] = osess[d] /\ oid'[d] = oid[d]
          /\ shut' = shut /\ taken' = taken /\ hconn' = hconn
          /\ handler' = handler /\ pump' = pump
      BY <1>24, <2>2 DEF AddConn
    <3>2. Covered(d) /\ osess[d] \in Sessions /\ oid[d] \in Ids
      BY <1>24, <2>2, <3>1 DEF AddConn
    <3>3. ~(osess[d] = fsess /\ oid[d] = next_id[fsess])
      BY <1>f, <3>1, Zenon
    <3>4. conns'[osess[d]][oid[d]] = conns[osess[d]][oid[d]]
      BY <1>24, <3>2, <3>3 DEF AddConn
    <3> QED
      BY <3>1, <3>2, <3>4
  <2> QED
    BY <2>1, <2>2
<1>25. ASSUME OpenBegin
      PROVE  Covered(d)'
  BY <1>25 DEF OpenBegin, SendEnters
<1>26. ASSUME OpenRefused
      PROVE  Covered(d)'
  BY <1>26 DEF OpenRefused, SendRefused
<1>27. ASSUME OpenEnd
      PROVE  Covered(d)'
  BY <1>27 DEF OpenEnd, SendLeaves
<1>28. ASSUME OpenConnGone
      PROVE  Covered(d)'
  BY <1>28 DEF OpenConnGone, NextAccept
<1>29. ASSUME OpenCloseConn
      PROVE  Covered(d)'
  BY <1>29 DEF OpenCloseConn, Erase
<1>30. ASSUME OpenConnShuts
      PROVE  Covered(d)'
  BY <1>30 DEF OpenConnShuts, ShutConn, NextAccept
<1>31. ASSUME SpawnPump
      PROVE  Covered(d)'
  BY <1>31 DEF SpawnPump, NextAccept
<1>32. ASSUME NEW c \in Conns, Accept(c)
      PROVE  Covered(d)'
  BY <1>32 DEF Accept
<1>32f. ASSUME AcceptFails
      PROVE  Covered(d)'
  BY <1>32f DEF AcceptFails
<1>33. ASSUME NEW c \in Conns, PumpRecv(c)
      PROVE  Covered(d)'
  BY <1>33 DEF PumpRecv, PumpStep
<1>34. ASSUME NEW c \in Conns, PumpEof(c)
      PROVE  Covered(d)'
  BY <1>34 DEF PumpEof, PumpStep
<1>35. ASSUME NEW c \in Conns, PumpSendBegin(c)
      PROVE  Covered(d)'
  BY <1>35 DEF PumpSendBegin, PumpStep, SendEnters
<1>36. ASSUME NEW c \in Conns, PumpSendRefused(c)
      PROVE  Covered(d)'
  BY <1>36 DEF PumpSendRefused, PumpStep, SendRefused
<1>37. ASSUME NEW c \in Conns, PumpSendEnd(c)
      PROVE  Covered(d)'
  BY <1>37 DEF PumpSendEnd, PumpStep, SendLeaves
<1>38. ASSUME NEW c \in Conns, PumpExit(c)
      PROVE  Covered(d)'
  BY <1>38 DEF PumpExit, PumpStep
<1>39. ASSUME NEW c \in Conns, PumpErase(c)
      PROVE  Covered(d)'
  BY <1>39 DEF PumpErase, PumpStep, Erase
<1>40. ASSUME NEW c \in Conns, PumpCloseBegin(c)
      PROVE  Covered(d)'
  BY <1>40 DEF PumpCloseBegin, PumpStep, SendEnters
<1>41. ASSUME NEW c \in Conns, PumpCloseRefused(c)
      PROVE  Covered(d)'
  BY <1>41 DEF PumpCloseRefused, PumpStep, SendRefused
<1>42. ASSUME NEW c \in Conns, PumpCloseEnd(c)
      PROVE  Covered(d)'
  BY <1>42 DEF PumpCloseEnd, PumpStep, SendLeaves
<1>43. CASE UNCHANGED <<taken, handler, hconn, conns, fpc, fconn, osess, oid, shut, pump>>
  BY <1>43
<1> HIDE <1>0, <1>a, <1>b, <1>c, <1>d, <1>e, ServerAssumption DEF Ids, Served,
        Covered
<1> QED
  BY <1>1, <1>2, <1>3, <1>4, <1>5, <1>6, <1>7, <1>8, <1>9, <1>10, <1>11,
     <1>12, <1>13, <1>14, <1>15, <1>16, <1>17, <1>18, <1>19, <1>20, <1>21,
     <1>22, <1>23, <1>24, <1>25, <1>26, <1>27, <1>28, <1>29, <1>30, <1>31,
     <1>32, <1>32f, <1>33, <1>34, <1>35, <1>36, <1>37, <1>38, <1>39, <1>40, <1>41,
     <1>42, <1>43
  DEF Next, Handler, HandlerRead, HandlerWork, Forwarder, ForwarderWork,
      PumpThread, PumpWork, StreamBreaks, AppCloses, AutoWaitFor

\* Registering, replacing a name and unregistering keep the registry honest.
LEMMA RegistryStep ==
  TypeOK /\ RegistryHonest /\ Next => RegistryHonest'
<1> SUFFICES ASSUME TypeOK, RegistryHonest, Next
             PROVE  RegistryHonest'
  OBVIOUS
<1>0. /\ registry \in [Targets -> Sessions \union {NoSession}]
      /\ handler \in [Sessions -> HandlerPC]
      /\ target \in [Sessions -> Targets]
  BY DEF TypeOK
<1> USE <1>0, ServerAssumption DEF RegistryHonest, HonestEntry, Reading,
        Targets, handlerVars, fwdVars, sockVars, pumpVars, ownVars
<1>1. ASSUME NEW s \in Sessions, RegisterCalled(s)
      PROVE  RegistryHonest'
  BY <1>1 DEF RegisterCalled, Step
<1>2. ASSUME NEW s \in Sessions, AddTarget(s)
      PROVE  RegistryHonest'
  BY <1>2 DEF AddTarget, Step, RegistryAdd
<1>3. ASSUME NEW s \in Sessions, AckBegin(s)
      PROVE  RegistryHonest'
  BY <1>3 DEF AckBegin, Step, SendEnters
<1>4. ASSUME NEW s \in Sessions, AckEnd(s)
      PROVE  RegistryHonest'
  BY <1>4 DEF AckEnd, Step, SendLeaves
<1>5. ASSUME NEW s \in Sessions, DataWritten(s)
      PROVE  RegistryHonest'
  BY <1>5 DEF DataWritten, Step
<1>6. ASSUME NEW s \in Sessions, DataFailed(s)
      PROVE  RegistryHonest'
  BY <1>6 DEF DataFailed, Step
<1>7. ASSUME NEW s \in Sessions, DataConnGone(s)
      PROVE  RegistryHonest'
  BY <1>7 DEF DataConnGone, Step
<1>8. ASSUME NEW s \in Sessions, DataCloseConn(s)
      PROVE  RegistryHonest'
  BY <1>8 DEF DataCloseConn, Step, Erase
<1>9. ASSUME NEW s \in Sessions, CloseReplyBegin(s)
      PROVE  RegistryHonest'
  BY <1>9 DEF CloseReplyBegin, Step, SendEnters
<1>10. ASSUME NEW s \in Sessions, CloseReplyEnd(s)
      PROVE  RegistryHonest'
  BY <1>10 DEF CloseReplyEnd, Step, SendLeaves
<1>11. ASSUME NEW s \in Sessions, Unregister(s)
      PROVE  RegistryHonest'
  BY <1>11, SMTT(30) DEF Unregister, Step, RegistryRemove
<1>12. ASSUME NEW s \in Sessions, Shutdown(s)
      PROVE  RegistryHonest'
  BY <1>12 DEF Shutdown, Step
<1>13. ASSUME NEW s \in Sessions, CloseAll(s)
      PROVE  RegistryHonest'
  BY <1>13 DEF CloseAll, Step
<1>14. ASSUME NEW s \in Sessions, HandlerReturns(s)
      PROVE  RegistryHonest'
  BY <1>14 DEF HandlerReturns, Step
<1>15. ASSUME NEW s \in Sessions, NEW t \in Names, RecvRegister(s, t)
      PROVE  RegistryHonest'
  BY <1>15 DEF RecvRegister, Step, RegistryRemove
<1>16. ASSUME NEW s \in Sessions, NEW i \in Ids, RecvData(s, i)
      PROVE  RegistryHonest'
  BY <1>16 DEF RecvData, Step
<1>17. ASSUME NEW s \in Sessions, NEW i \in Ids, RecvDataUnknown(s, i)
      PROVE  RegistryHonest'
  BY <1>17 DEF RecvDataUnknown, Step
<1>18. ASSUME NEW s \in Sessions, NEW i \in Ids, RecvClose(s, i)
      PROVE  RegistryHonest'
  BY <1>18 DEF RecvClose, Step, Erase
<1>19. ASSUME NEW s \in Sessions, CloseConnShuts(s, "cshut", "read")
      PROVE  RegistryHonest'
  BY <1>19 DEF CloseConnShuts, Step, ShutConn
<1>20. ASSUME NEW s \in Sessions, CloseConnShuts(s, "dshut", "dclose")
      PROVE  RegistryHonest'
  BY <1>20 DEF CloseConnShuts, Step, ShutConn
<1>21. CASE UNCHANGED <<registry, handler, target>>
  BY <1>21
<1> HIDE <1>0, ServerAssumption DEF RegistryHonest, HonestEntry, Reading,
        Targets
<1> QED
  BY <1>1, <1>2, <1>3, <1>4, <1>5, <1>6, <1>7, <1>8, <1>9, <1>10, <1>11,
     <1>12, <1>13, <1>14, <1>15, <1>16, <1>17, <1>18, <1>19, <1>20, <1>21
  DEF Next, Handler, HandlerRead, HandlerWork, Forwarder, ForwarderWork,
      PumpThread, PumpWork, CloseAllShuts, StreamBreaks, Refuse, GetSession,
      AddConn, OpenBegin, OpenRefused, OpenEnd, OpenConnGone, OpenCloseConn,
      OpenConnShuts, SpawnPump, Accept, AcceptFails, PumpRecv, PumpEof, PumpSendBegin,
      PumpSendRefused, PumpSendEnd, PumpExit, PumpErase, PumpCloseBegin,
      PumpCloseRefused, PumpCloseEnd, AppCloses, AutoWaitFor

-----------------------------------------------------------------------------
\* IInv holds in every reachable state of the server.
THEOREM ServerInvariant == Spec => []IInv
<1>1. Init => IInv
  <2> SUFFICES ASSUME Init
               PROVE  IInv
    OBVIOUS
  <2> USE ServerAssumption DEF Init
  <2>1. TypeOK
    BY DEF TypeOK, Targets, Ids, Reading, HandlerPC, ForwarderPC, PumpPC
  <2>2. MutexInv
    BY DEF MutexInv, OneWriter, HandlerWrites, ForwarderWrites, PumpWrites, Reading
  <2>3. HandlerInv /\ ForwarderInv
    BY DEF HandlerInv, ForwarderInv
  <2>4. TableInv
    BY DEF TableInv
  <2>5. CoveredInv /\ TakenInv /\ EmptiedInv
    BY DEF CoveredInv, TakenInv, EmptiedInv
  <2>6. RegistryHonest
    BY DEF RegistryHonest, HonestEntry, Targets
  <2> QED
    BY <2>1, <2>2, <2>3, <2>4, <2>5, <2>6 DEF IInv
<1>2. IInv /\ [Next]_vars => IInv'
  <2>1. IInv /\ Next => IInv'
    BY TypeStep, HandlerStep, ForwarderStep, MutexStep, TableStep, TakenStep, EmptiedStep, CoveredStep,
       RegistryStep DEF IInv
  <2>2. IInv /\ UNCHANGED vars => IInv'
    <3> SUFFICES ASSUME IInv, UNCHANGED vars
                 PROVE  IInv'
      OBVIOUS
    <3>0. /\ TypeOK /\ MutexInv /\ HandlerInv /\ ForwarderInv
          /\ TableInv /\ CoveredInv /\ TakenInv /\ EmptiedInv /\ RegistryHonest
      BY DEF IInv
    <3> USE DEF vars, handlerVars, fwdVars, sockVars, pumpVars, ownVars
    <3>1. TypeOK'
      BY <3>0 DEF TypeOK
    <3>2. MutexInv'
      BY <3>0 DEF MutexInv, OneWriter, HandlerWrites, ForwarderWrites, PumpWrites
    <3>3. HandlerInv' /\ ForwarderInv' /\ TableInv'
      BY <3>0 DEF HandlerInv, ForwarderInv, TableInv
    <3>4. TakenInv' /\ EmptiedInv'
      BY <3>0 DEF TakenInv, EmptiedInv
    <3>6. CoveredInv'
      BY <3>0 DEF CoveredInv, Served, Covered
    <3>5. RegistryHonest'
      BY <3>0 DEF RegistryHonest, HonestEntry
    <3> QED
      BY <3>1, <3>2, <3>3, <3>4, <3>5, <3>6 DEF IInv
  <2> QED
    BY <2>1, <2>2
<1> QED
  BY <1>1, <1>2, PTL DEF Spec

\* Type correctness of the server.
THEOREM TypeCorrect == Spec => []TypeOK
<1>1. IInv => TypeOK
  BY DEF IInv
<1> QED
  BY <1>1, ServerInvariant, PTL

\* At most one Write is in flight on the stream of a session.
THEOREM WritesSerialised == Spec => []OneWriter
<1>1. IInv => OneWriter
  BY DEF IInv, MutexInv
<1> QED
  BY <1>1, ServerInvariant, PTL

\* Shutdown is a barrier: nobody writes once the handler has returned.
THEOREM ShutdownFences == Spec => []WriteFence
<1>1. IInv => WriteFence
  BY DEF IInv, TypeOK, MutexInv, WriteFence, Reading
<1> QED
  BY <1>1, ServerInvariant, PTL

\* The registry never points at a session whose handler is past its loop.
THEOREM RegistryIsHonest == Spec => []RegistryHonest
<1>1. IInv => RegistryHonest
  BY DEF IInv
<1> QED
  BY <1>1, ServerInvariant, PTL

\* After the handler has returned every pump of the session can wake up.
THEOREM StreamsReleased == Spec => []NoOrphanStream
<1>1. IInv => NoOrphanStream
  <2> SUFFICES ASSUME IInv, NEW c \in Conns, osess[c] # NoSession,
                      handler[osess[c]] = "returned", pump[c] \in {"recv", "send"}
               PROVE  shut[c]
    BY DEF NoOrphanStream
  <2>1. osess[c] \in Sessions /\ oid[c] \in Ids
    BY DEF IInv, TypeOK, TableInv
  <2>2. taken[osess[c]] = {}
    BY <2>1 DEF IInv, TakenInv
  <2>3. conns[osess[c]][oid[c]] # c
    BY <2>1, ServerAssumption DEF IInv, EmptiedInv, ForwarderInv
  <2> QED
    BY <2>1, <2>2, <2>3 DEF IInv, CoveredInv, Covered, Served
<1> QED
  BY <1>1, ServerInvariant, PTL

\* The erase by id at the end of Pump is an erase of the pump's own entry.
THEOREM EraseIsOwn == Spec => []PumpErasesOwnEntry
<1>1. IInv => PumpErasesOwnEntry
  BY DEF IInv, TypeOK, TableInv, PumpErasesOwnEntry
<1> QED
  BY <1>1, ServerInvariant, PTL

\* Only the handler of the session an entry points at can make it disappear.
THEOREM EntryRemovedByOwner == Spec => RemovedByOwner
<1> DEFINE Owned == \A t \in Targets :
              registry[t] # NoSession /\ registry'[t] = NoSession =>
                  handler'[registry[t]] # handler[registry[t]]
<1>1. TypeOK /\ [Next]_vars => [Owned]_vars
  <2> SUFFICES ASSUME TypeOK, Next
               PROVE  Owned
    OBVIOUS
  <2> USE ServerAssumption DEF TypeOK, Targets, HandlerPC, Reading
  <2>1. ASSUME NEW s \in Sessions, NEW t \in Names, RecvRegister(s, t)
        PROVE  Owned
    BY <2>1 DEF RecvRegister, Step, RegistryRemove
  <2>2. ASSUME NEW s \in Sessions, AddTarget(s)
        PROVE  Owned
    BY <2>2 DEF AddTarget, RegistryAdd
  <2>3. ASSUME NEW s \in Sessions, Unregister(s)
        PROVE  Owned
    BY <2>3 DEF Unregister, Step, RegistryRemove
  <2>4. CASE UNCHANGED registry
    BY <2>4
  <2> QED
    BY <2>1, <2>2, <2>3, <2>4
    DEF Next, Handler, HandlerRead, HandlerWork, Forwarder, ForwarderWork,
        PumpThread, PumpWork, RegisterCalled, AckBegin, AckEnd, DataWritten,
        DataFailed, DataConnGone, DataCloseConn, CloseReplyBegin,
        CloseReplyEnd, Shutdown, CloseAll, HandlerReturns, RecvData,
        RecvDataUnknown, RecvClose, CloseConnShuts, CloseAllShuts,
        StreamBreaks, Refuse, GetSession, AddConn, OpenBegin, OpenRefused,
        OpenEnd, OpenConnGone, OpenCloseConn, OpenConnShuts, SpawnPump,
        Accept, AcceptFails, PumpRecv, PumpEof, PumpSendBegin, PumpSendRefused,
        PumpSendEnd, PumpExit, PumpErase, PumpCloseBegin, PumpCloseRefused,
        PumpCloseEnd, AppCloses, AutoWaitFor
<1> QED
  BY <1>1, TypeCorrect, PTL DEF Spec, RemovedByOwner
=============================================================================
