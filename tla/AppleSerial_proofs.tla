------------------------- MODULE AppleSerial_proofs -------------------------
(***************************************************************************)
(* Theorems about AppleSerial: its invariants, for any number of writers   *)
(* and sessions.                                                           *)
(***************************************************************************)
EXTENDS AppleSerial, TLAPS

Opening == {"opening", "opened", "cleared", "published"}
Closing == {"closing", "join"}

\* A session: from the clearing of the error in open() to the join in close().
InSession == open \/ own \in {"cleared", "published"} \cup Closing

\* What each stretch of open() and close() finds.
Stages ==
    /\ own \in (Opening \ {"published"}) \cup Closing => ~open
    /\ own = "published" => open
    /\ own \in {"opened", "cleared"} => fd = "port"
    /\ own \in Closing => call \in {"open", "close", "dtor"}

\* The thread exists only in a session; what it reads is the port's.
ThreadInSession ==
    /\ ~open /\ own \notin Closing => bg \in {"none", "terminated"}
    /\ own \in Opening => bg \in {"none", "terminated"}
    /\ open /\ bg = "reading" => reads = "port"

\* Whatever can raise the flag in a session has counted as a fault of it.
FaultsCount ==
    /\ InSession /\ (error \/ broken \/ \E w \in Writers : wpc[w] = "failed") => fault
    /\ open /\ bg = "failed" => fault

LossKept ==
    /\ LossReported
    /\ own \in {"opening", "opened", "cleared"} => ~lost

IInv == TypeOK /\ Stages /\ ThreadInSession /\ FaultsCount /\ LossKept

\* A new object satisfies the inductive invariant.
LEMMA InitIInv == Init => IInv
<1> SUFFICES ASSUME Init PROVE IInv
  OBVIOUS
<1>1. TypeOK
  <2>1. /\ wpc \in [Writers -> {"idle", "failed"}] /\ opens \in 0..MaxOpens
        /\ fd \in Files
    BY OpensAssumption DEF Init, Files
  <2> QED  BY <2>1 DEF Init, TypeOK, BgStates, OwnStates, Calls
<1>2. Stages /\ ThreadInSession
  BY DEF Init, Stages, ThreadInSession, Opening, Closing
<1>3. FaultsCount /\ LossKept
  BY DEF Init, FaultsCount, LossKept, LossReported, InSession, Closing
<1> QED  BY <1>1, <1>2, <1>3 DEF IInv

\* A step keeps the types.
LEMMA TypeStep == IInv /\ [Next]_vars => TypeOK'
<1> SUFFICES ASSUME IInv, [Next]_vars PROVE TypeOK'
  OBVIOUS
<1> USE DEF IInv, threadVars, ownVars, TypeOK, Files, BgStates, OwnStates,
     Calls, Stages, Opening, Closing
<1>1. CASE CallOpen
  <2>1. (open \in BOOLEAN /\ error \in BOOLEAN /\ fault \in BOOLEAN
         /\ lost \in BOOLEAN)'
    BY <1>1 DEF CallOpen, EnterOpen, EnterClose
  <2>2. (own \in OwnStates /\ call \in Calls /\ bg \in BgStates
         /\ result \in {"ok", "threw"})'
    BY <1>1 DEF CallOpen, EnterOpen, EnterClose
  <2>3. (open => fd = "port")'
         /\ (own = "join" => call \in {"open", "close", "dtor"})'
    BY <1>1 DEF CallOpen, EnterOpen, EnterClose
  <2>4. (opens \in 0..MaxOpens)'
    BY <1>1, OpensAssumption DEF CallOpen, EnterOpen, EnterClose
  <2> QED  BY <1>1, <2>1, <2>2, <2>3, <2>4 DEF CallOpen, EnterOpen, EnterClose
<1>2. CASE CallClose
  <2>1. (open \in BOOLEAN /\ error \in BOOLEAN /\ fault \in BOOLEAN)'
    BY <1>2 DEF CallClose, EnterClose
  <2>2. (own \in OwnStates /\ call \in Calls /\ bg \in BgStates)'
    BY <1>2 DEF CallClose, EnterClose
  <2>3. (open => fd = "port")'
         /\ (own = "join" => call \in {"open", "close", "dtor"})'
    BY <1>2 DEF CallClose, EnterClose
  <2> QED  BY <1>2, <2>1, <2>2, <2>3 DEF CallClose, EnterClose
<1>3. CASE CallSwap
  BY <1>3 DEF CallSwap, SwapCallback
<1>4. CASE OpenDevice
  BY <1>4 DEF OpenDevice
<1>5. CASE OpenThrows
  BY <1>5 DEF OpenThrows, Return
<1>6. CASE OpenClearError
  <2>1. (open \in BOOLEAN /\ error \in BOOLEAN /\ fault \in BOOLEAN)'
    BY <1>6 DEF OpenClearError
  <2>2. (own \in OwnStates /\ call \in Calls /\ bg \in BgStates)'
    BY <1>6 DEF OpenClearError
  <2>3. (open => fd = "port")'
         /\ (own = "join" => call \in {"open", "close", "dtor"})'
    BY <1>6 DEF OpenClearError
  <2> QED  BY <1>6, <2>1, <2>2, <2>3 DEF OpenClearError
<1>7. CASE OpenPublish
  BY <1>7 DEF OpenPublish
<1>8. CASE StartThread
  BY <1>8 DEF StartThread, Return
<1>9. CASE CloseFd
  BY <1>9 DEF CloseFd
<1>10. CASE CloseJoin
  <2>1. (open \in BOOLEAN /\ error \in BOOLEAN /\ fault \in BOOLEAN
         /\ lost \in BOOLEAN)'
    BY <1>10 DEF CloseJoin, CloseEnds, EnterOpen, Return
  <2>2. (own \in OwnStates /\ call \in Calls /\ bg \in BgStates
         /\ result \in {"ok", "threw"})'
    BY <1>10 DEF CloseJoin, CloseEnds, EnterOpen, Return
  <2>3. (open => fd = "port")'
         /\ (own = "join" => call \in {"open", "close", "dtor"})'
    BY <1>10 DEF CloseJoin, CloseEnds, EnterOpen, Return
  <2>4. (opens \in 0..MaxOpens)'
    BY <1>10 DEF CloseJoin, CloseEnds, EnterOpen, Return
  <2> QED  BY <1>10, <2>1, <2>2, <2>3, <2>4 DEF CloseJoin, CloseEnds,
     EnterOpen, Return
<1>11. CASE SwapDone
  <2>1. (open \in BOOLEAN /\ error \in BOOLEAN /\ fault \in BOOLEAN
         /\ lost \in BOOLEAN)'
    BY <1>11 DEF SwapDone, Return, EnterClose
  <2>2. (own \in OwnStates /\ call \in Calls /\ bg \in BgStates
         /\ result \in {"ok", "threw"})'
    BY <1>11 DEF SwapDone, Return, EnterClose
  <2>3. (open => fd = "port")'
         /\ (own = "join" => call \in {"open", "close", "dtor"})'
    BY <1>11 DEF SwapDone, Return, EnterClose
  <2>4. (opens \in 0..MaxOpens)'
    BY <1>11 DEF SwapDone, Return, EnterClose
  <2> QED  BY <1>11, <2>1, <2>2, <2>3, <2>4 DEF SwapDone, Return, EnterClose
<1>12. CASE \E w \in Writers : WriteOk(w)
  BY <1>12 DEF WriteOk, vars
<1>13. CASE \E w \in Writers : WriteShort(w)
  BY <1>13 DEF WriteShort
<1>14. CASE \E w \in Writers : WriteFlags(w)
  BY <1>14 DEF WriteFlags
<1>15. CASE ReadCall
  BY <1>15 DEF ReadCall
<1>16. CASE ReadFails
  BY <1>16 DEF ReadFails, ReadReturns
<1>17. CASE ReadData
  BY <1>17 DEF ReadData, ReadReturns
<1>18. CASE ReadFailed
  <2>1. (open \in BOOLEAN /\ error \in BOOLEAN /\ fault \in BOOLEAN)'
    BY <1>18 DEF ReadFailed
  <2>2. (own \in OwnStates /\ call \in Calls /\ bg \in BgStates)'
    BY <1>18 DEF ReadFailed
  <2>3. (open => fd = "port")'
         /\ (own = "join" => call \in {"open", "close", "dtor"})'
    BY <1>18 DEF ReadFailed
  <2> QED  BY <1>18, <2>1, <2>2, <2>3 DEF ReadFailed
<1>19. CASE TestCallback
  BY <1>19 DEF TestCallback, Looks
<1>20. CASE InvokeCallback
  BY <1>20 DEF InvokeCallback, Looks
<1>21. CASE CallbackReturn
  BY <1>21 DEF CallbackReturn
<1>22. CASE Breaks
  BY <1>22 DEF Breaks
<1>23. CASE OtherOpens
  BY <1>23 DEF OtherOpens
<1>24. CASE Ended
  BY <1>24 DEF Ended, vars
<1>25. CASE UNCHANGED vars
  BY <1>25 DEF vars
<1> QED
  BY <1>1, <1>2, <1>3, <1>4, <1>5, <1>6, <1>7, <1>8, <1>9, <1>10, <1>11, <1>12,
     <1>13, <1>14, <1>15, <1>16, <1>17, <1>18, <1>19, <1>20, <1>21, <1>22,
     <1>23, <1>24, <1>25
     DEF Next, OwnerProceeds, Reader

\* A step keeps what each stretch of open() and close() finds.
LEMMA StagesStep == IInv /\ [Next]_vars => Stages'
<1> SUFFICES ASSUME IInv, [Next]_vars PROVE Stages'
  OBVIOUS
<1> USE DEF IInv, threadVars, ownVars, TypeOK, Stages, Opening, Closing,
     OwnStates, Calls
<1>1. CASE CallOpen
  BY <1>1 DEF CallOpen, EnterOpen, EnterClose
<1>2. CASE CallClose
  BY <1>2 DEF CallClose, EnterClose
<1>3. CASE CallSwap
  BY <1>3 DEF CallSwap, SwapCallback
<1>4. CASE OpenDevice
  BY <1>4 DEF OpenDevice
<1>5. CASE OpenThrows
  BY <1>5 DEF OpenThrows, Return
<1>6. CASE OpenClearError
  BY <1>6 DEF OpenClearError
<1>7. CASE OpenPublish
  BY <1>7 DEF OpenPublish
<1>8. CASE StartThread
  BY <1>8 DEF StartThread, Return
<1>9. CASE CloseFd
  BY <1>9 DEF CloseFd
<1>10. CASE CloseJoin
  BY <1>10 DEF CloseJoin, CloseEnds, EnterOpen, Return
<1>11. CASE SwapDone
  BY <1>11 DEF SwapDone, Return, EnterClose
<1>12. CASE \E w \in Writers : WriteOk(w)
  BY <1>12 DEF WriteOk, vars
<1>13. CASE \E w \in Writers : WriteShort(w)
  BY <1>13 DEF WriteShort
<1>14. CASE \E w \in Writers : WriteFlags(w)
  BY <1>14 DEF WriteFlags
<1>15. CASE ReadCall
  BY <1>15 DEF ReadCall
<1>16. CASE ReadFails
  BY <1>16 DEF ReadFails, ReadReturns
<1>17. CASE ReadData
  BY <1>17 DEF ReadData, ReadReturns
<1>18. CASE ReadFailed
  BY <1>18 DEF ReadFailed
<1>19. CASE TestCallback
  BY <1>19 DEF TestCallback, Looks
<1>20. CASE InvokeCallback
  BY <1>20 DEF InvokeCallback, Looks
<1>21. CASE CallbackReturn
  BY <1>21 DEF CallbackReturn
<1>22. CASE Breaks
  BY <1>22 DEF Breaks
<1>23. CASE OtherOpens
  BY <1>23 DEF OtherOpens
<1>24. CASE Ended
  BY <1>24 DEF Ended, vars
<1>25. CASE UNCHANGED vars
  BY <1>25 DEF vars
<1> QED
  BY <1>1, <1>2, <1>3, <1>4, <1>5, <1>6, <1>7, <1>8, <1>9, <1>10, <1>11, <1>12,
     <1>13, <1>14, <1>15, <1>16, <1>17, <1>18, <1>19, <1>20, <1>21, <1>22,
     <1>23, <1>24, <1>25
     DEF Next, OwnerProceeds, Reader

\* A step keeps the thread inside a session: close() joins before it returns.
LEMMA ThreadStep == IInv /\ [Next]_vars => ThreadInSession'
<1> SUFFICES ASSUME IInv, [Next]_vars PROVE ThreadInSession'
  OBVIOUS
<1> USE DEF IInv, threadVars, ownVars, TypeOK, Stages, ThreadInSession,
     Opening, Closing, OwnStates, BgStates
<1>1. CASE CallOpen
  BY <1>1 DEF CallOpen, EnterOpen, EnterClose
<1>2. CASE CallClose
  BY <1>2 DEF CallClose, EnterClose
<1>3. CASE CallSwap
  BY <1>3 DEF CallSwap, SwapCallback
<1>4. CASE OpenDevice
  BY <1>4 DEF OpenDevice
<1>5. CASE OpenThrows
  BY <1>5 DEF OpenThrows, Return
<1>6. CASE OpenClearError
  BY <1>6 DEF OpenClearError
<1>7. CASE OpenPublish
  BY <1>7 DEF OpenPublish
<1>8. CASE StartThread
  BY <1>8 DEF StartThread, Return
<1>9. CASE CloseFd
  BY <1>9 DEF CloseFd
<1>10. CASE CloseJoin
  BY <1>10 DEF CloseJoin, CloseEnds, EnterOpen, Return
<1>11. CASE SwapDone
  BY <1>11 DEF SwapDone, Return, EnterClose
<1>12. CASE \E w \in Writers : WriteOk(w)
  BY <1>12 DEF WriteOk, vars
<1>13. CASE \E w \in Writers : WriteShort(w)
  BY <1>13 DEF WriteShort
<1>14. CASE \E w \in Writers : WriteFlags(w)
  BY <1>14 DEF WriteFlags
<1>15. CASE ReadCall
  BY <1>15 DEF ReadCall
<1>16. CASE ReadFails
  BY <1>16 DEF ReadFails, ReadReturns
<1>17. CASE ReadData
  BY <1>17 DEF ReadData, ReadReturns
<1>18. CASE ReadFailed
  BY <1>18 DEF ReadFailed
<1>19. CASE TestCallback
  BY <1>19 DEF TestCallback, Looks
<1>20. CASE InvokeCallback
  BY <1>20 DEF InvokeCallback, Looks
<1>21. CASE CallbackReturn
  BY <1>21 DEF CallbackReturn
<1>22. CASE Breaks
  BY <1>22 DEF Breaks
<1>23. CASE OtherOpens
  BY <1>23 DEF OtherOpens
<1>24. CASE Ended
  BY <1>24 DEF Ended, vars
<1>25. CASE UNCHANGED vars
  BY <1>25 DEF vars
<1> QED
  BY <1>1, <1>2, <1>3, <1>4, <1>5, <1>6, <1>7, <1>8, <1>9, <1>10, <1>11, <1>12,
     <1>13, <1>14, <1>15, <1>16, <1>17, <1>18, <1>19, <1>20, <1>21, <1>22,
     <1>23, <1>24, <1>25
     DEF Next, OwnerProceeds, Reader

\* A step raises the flag of a session only for a fault of the session.
LEMMA FaultsStep == IInv /\ [Next]_vars => FaultsCount'
<1> SUFFICES ASSUME IInv, [Next]_vars PROVE FaultsCount'
  OBVIOUS
<1> USE DEF IInv, threadVars, ownVars, TypeOK, Stages, ThreadInSession,
     FaultsCount, InSession, Opening, Closing, OwnStates, BgStates, Files
<1>1. CASE CallOpen
  BY <1>1 DEF CallOpen, EnterOpen, EnterClose
<1>2. CASE CallClose
  BY <1>2 DEF CallClose, EnterClose
<1>3. CASE CallSwap
  BY <1>3 DEF CallSwap, SwapCallback
<1>4. CASE OpenDevice
  BY <1>4 DEF OpenDevice
<1>5. CASE OpenThrows
  BY <1>5 DEF OpenThrows, Return
<1>6. CASE OpenClearError
  BY <1>6 DEF OpenClearError
<1>7. CASE OpenPublish
  BY <1>7 DEF OpenPublish
<1>8. CASE StartThread
  BY <1>8 DEF StartThread, Return
<1>9. CASE CloseFd
  BY <1>9 DEF CloseFd
<1>10. CASE CloseJoin
  BY <1>10 DEF CloseJoin, CloseEnds, EnterOpen, Return
<1>11. CASE SwapDone
  BY <1>11 DEF SwapDone, Return, EnterClose
<1>12. CASE \E w \in Writers : WriteOk(w)
  BY <1>12 DEF WriteOk, vars
<1>13. CASE \E w \in Writers : WriteShort(w)
  BY <1>13 DEF WriteShort
<1>14. CASE \E w \in Writers : WriteFlags(w)
  BY <1>14 DEF WriteFlags
<1>15. CASE ReadCall
  BY <1>15 DEF ReadCall
<1>16. CASE ReadFails
  BY <1>16 DEF ReadFails, ReadReturns
<1>17. CASE ReadData
  BY <1>17 DEF ReadData, ReadReturns
<1>18. CASE ReadFailed
  BY <1>18 DEF ReadFailed
<1>19. CASE TestCallback
  BY <1>19 DEF TestCallback, Looks
<1>20. CASE InvokeCallback
  BY <1>20 DEF InvokeCallback, Looks
<1>21. CASE CallbackReturn
  BY <1>21 DEF CallbackReturn
<1>22. CASE Breaks
  BY <1>22 DEF Breaks
<1>23. CASE OtherOpens
  BY <1>23 DEF OtherOpens
<1>24. CASE Ended
  BY <1>24 DEF Ended, vars
<1>25. CASE UNCHANGED vars
  BY <1>25 DEF vars
<1> QED
  BY <1>1, <1>2, <1>3, <1>4, <1>5, <1>6, <1>7, <1>8, <1>9, <1>10, <1>11, <1>12,
     <1>13, <1>14, <1>15, <1>16, <1>17, <1>18, <1>19, <1>20, <1>21, <1>22,
     <1>23, <1>24, <1>25
     DEF Next, OwnerProceeds, Reader

\* A step keeps the loss of a write visible until the next open().
LEMMA LossStep == IInv /\ [Next]_vars => LossKept'
<1> SUFFICES ASSUME IInv, [Next]_vars PROVE LossKept'
  OBVIOUS
<1> USE DEF IInv, threadVars, ownVars, TypeOK, Stages, LossKept, LossReported,
     Opening, Closing, OwnStates
<1>1. CASE CallOpen
  BY <1>1 DEF CallOpen, EnterOpen, EnterClose
<1>2. CASE CallClose
  BY <1>2 DEF CallClose, EnterClose
<1>3. CASE CallSwap
  BY <1>3 DEF CallSwap, SwapCallback
<1>4. CASE OpenDevice
  BY <1>4 DEF OpenDevice
<1>5. CASE OpenThrows
  BY <1>5 DEF OpenThrows, Return
<1>6. CASE OpenClearError
  BY <1>6 DEF OpenClearError
<1>7. CASE OpenPublish
  BY <1>7 DEF OpenPublish
<1>8. CASE StartThread
  BY <1>8 DEF StartThread, Return
<1>9. CASE CloseFd
  BY <1>9 DEF CloseFd
<1>10. CASE CloseJoin
  BY <1>10 DEF CloseJoin, CloseEnds, EnterOpen, Return
<1>11. CASE SwapDone
  BY <1>11 DEF SwapDone, Return, EnterClose
<1>12. CASE \E w \in Writers : WriteOk(w)
  BY <1>12 DEF WriteOk, vars
<1>13. CASE \E w \in Writers : WriteShort(w)
  BY <1>13 DEF WriteShort
<1>14. CASE \E w \in Writers : WriteFlags(w)
  BY <1>14 DEF WriteFlags
<1>15. CASE ReadCall
  BY <1>15 DEF ReadCall
<1>16. CASE ReadFails
  BY <1>16 DEF ReadFails, ReadReturns
<1>17. CASE ReadData
  BY <1>17 DEF ReadData, ReadReturns
<1>18. CASE ReadFailed
  BY <1>18 DEF ReadFailed
<1>19. CASE TestCallback
  BY <1>19 DEF TestCallback, Looks
<1>20. CASE InvokeCallback
  BY <1>20 DEF InvokeCallback, Looks
<1>21. CASE CallbackReturn
  BY <1>21 DEF CallbackReturn
<1>22. CASE Breaks
  BY <1>22 DEF Breaks
<1>23. CASE OtherOpens
  BY <1>23 DEF OtherOpens
<1>24. CASE Ended
  BY <1>24 DEF Ended, vars
<1>25. CASE UNCHANGED vars
  BY <1>25 DEF vars
<1> QED
  BY <1>1, <1>2, <1>3, <1>4, <1>5, <1>6, <1>7, <1>8, <1>9, <1>10, <1>11, <1>12,
     <1>13, <1>14, <1>15, <1>16, <1>17, <1>18, <1>19, <1>20, <1>21, <1>22,
     <1>23, <1>24, <1>25
     DEF Next, OwnerProceeds, Reader

-----------------------------------------------------------------------------
\* The inductive invariant: every step keeps it.
LEMMA StepIInv == IInv /\ [Next]_vars => IInv'
  BY TypeStep, StagesStep, ThreadStep, FaultsStep, LossStep DEF IInv

\* The inductive invariant holds of every reachable state.
THEOREM Invariance == Spec => []IInv
  BY InitIInv, StepIInv, PTL DEF Spec

\* The variables stay in range, an open object has its device, and the owner
\* in close() is in a call that closes.
THEOREM TypeCorrect == Spec => []TypeOK
<1>1. IInv => TypeOK
  BY DEF IInv
<1> QED  BY <1>1, Invariance, PTL

\* The thread never takes the closing of the descriptor for an error: an error
\* of an object that is open or being closed is one that an operation has had.
THEOREM NoFalseAlarmCorrect == Spec => []NoFalseAlarm
<1>1. IInv => NoFalseAlarm
  BY DEF IInv, TypeOK, FaultsCount, InSession, Closing, NoFalseAlarm
<1> QED  BY <1>1, Invariance, PTL

\* A failed write to the open object shows in errorStatus() until the next
\* open(), whatever succeeds after it.
THEOREM LossReportedCorrect == Spec => []LossReported
<1>1. IInv => LossReported
  BY DEF IInv, LossKept
<1> QED  BY <1>1, Invariance, PTL

\* A closed object has no reading thread outside of open() and close().
THEOREM ThreadJoinedCorrect == Spec => []ThreadJoined
<1>1. IInv => ThreadJoined
  BY DEF IInv, ThreadInSession, ThreadJoined, Closing, Stages, Opening
<1> QED  BY <1>1, Invariance, PTL
=============================================================================
