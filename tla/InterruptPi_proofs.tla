------------------------- MODULE InterruptPi_proofs -------------------------
(***************************************************************************)
(* Theorems about InterruptPi: its invariants, for any number of calls of  *)
(* attachInterrupt and of edges that wait.                                 *)
(***************************************************************************)
EXTENDS InterruptPi, TLAPS

\* What the main thread finds in the stretches of its two calls.
Stages ==
    /\ mpc \in {"edge", "spawn"} => id < MaxAttaches /\ exported
    /\ mpc = "cancel" => id > 0 /\ ~exported

\* Only the last thread may live, and a pin without a directory has none but
\* in detachInterrupt.
Cancelled ==
    \A t \in Threads : tpc[t] # "none" =>
      /\ t # id => cancelled[t]
      /\ ~exported /\ mpc # "cancel" => cancelled[t]

\* A live thread has its file from the directory of today.
FilesOfToday ==
    \A t \in Threads :
      ~cancelled[t] /\ tpc[t] \in {"opened", "poll", "read", "call", "func"}
        => file[t] = gen

\* A thread about to call has an edge for it, and one more if its poll would
\* return again.
EdgesCounted ==
    \A t \in Threads :
      /\ credit[t] >= 0
      /\ tpc[t] \in {"poll", "read", "func"} /\ pend[t] => credit[t] >= 1
      /\ tpc[t] = "call" => credit[t] >= IF pend[t] THEN 2 ELSE 1
      /\ tpc[t] = "read" /\ Valid(t) => pend[t]

\* After a late call only a cancelled poll is left.
LateOnce ==
    \A t \in Threads :
      /\ late[t] <= 1
      /\ late[t] = 1 => cancelled[t] /\ tpc[t] \in {"func", "poll", "ended"}

IInv ==
    TypeOK /\ Stages /\ Cancelled /\ FilesOfToday /\ EdgesCounted /\ LateOnce

\* No thread, no directory: the invariant holds.
LEMMA InitIInv == Init => IInv
<1> SUFFICES ASSUME Init PROVE IInv
  OBVIOUS
<1>1. /\ tpc \in [Threads -> {"none", "new", "opened", "poll", "read", "call",
                              "func", "failing", "ended"}]
      /\ {cancelled, pend, owed} \subseteq [Threads -> BOOLEAN]
      /\ file \in [Threads -> 0..gen] /\ credit \in [Threads -> Int]
      /\ late \in [Threads -> Nat]
  BY DEF Init
<1>2. \A t \in Threads : credit[t] <= MaxEdges /\ (tpc[t] = "none" <=> t > id)
  BY InterruptAssumption DEF Init, Threads
<1>3. TypeOK
  <2>1. /\ mpc = "idle" /\ id = 0 /\ exported = FALSE /\ gen = 0 /\ exit = "none"
        /\ id \in 0..MaxAttaches
    BY InterruptAssumption DEF Init
  <2> QED  BY <1>1, <1>2, <2>1 DEF TypeOK
<1>4. Stages /\ Cancelled /\ FilesOfToday /\ EdgesCounted /\ LateOnce
  BY DEF Init, Stages, Cancelled, FilesOfToday, EdgesCounted, LateOnce
<1> QED  BY <1>3, <1>4 DEF IInv

\* The thread that attachInterrupt creates is the next one.
LEMMA SpawnNext ==
    ASSUME TypeOK, Stages, Spawn
    PROVE  /\ id + 1 \in Threads /\ tpc[id + 1] = "none" /\ id' = id + 1
           /\ tpc' = [tpc EXCEPT ![id + 1] = "new"]
           /\ \A t \in Threads : cancelled[t] => cancelled'[t]
<1>1. id \in 0..MaxAttaches /\ id < MaxAttaches
  BY DEF TypeOK, Stages, Spawn, Create
<1>2. id + 1 \in Threads /\ id + 1 > id
  BY <1>1, InterruptAssumption DEF Threads
<1>3. \A t \in Threads : tpc[t] = "none" <=> t > id
  BY DEF TypeOK
<1>4. id' = id + 1 /\ tpc' = [tpc EXCEPT ![id + 1] = "new"]
  BY DEF Spawn, Create
<1>5. \A t \in Threads : cancelled[t] => cancelled'[t]
  BY DEF TypeOK, Spawn, Create
<1> QED  BY <1>2, <1>3, <1>4, <1>5

\* Creating a thread keeps the types.
LEMMA SpawnTypes == ASSUME TypeOK, Stages, Spawn PROVE TypeOK'
<1>1. /\ id \in 0..MaxAttaches /\ id + 1 \in Threads /\ id' = id + 1
      /\ tpc' = [tpc EXCEPT ![id + 1] = "new"]
      /\ \A t \in Threads : tpc[t] = "none" <=> t > id
  BY SpawnNext DEF TypeOK
<1>2. /\ tpc \in [Threads -> {"none", "new", "opened", "poll", "read", "call",
                              "func", "failing", "ended"}]
      /\ cancelled \in [Threads -> BOOLEAN]
  BY DEF TypeOK
<1>3. /\ tpc' \in [Threads -> {"none", "new", "opened", "poll", "read", "call",
                               "func", "failing", "ended"}]
      /\ cancelled' \in [Threads -> BOOLEAN]
  BY <1>1, <1>2 DEF Spawn, Create
<1>4. \A t \in Threads : tpc'[t] = "none" <=> t > id'
  BY <1>1, <1>2, InterruptAssumption DEF Threads
<1>5. id' \in 0..MaxAttaches
  BY <1>1, InterruptAssumption DEF Threads
<1> QED  BY <1>3, <1>4, <1>5 DEF TypeOK, Spawn, Create, threadVars

\* A thread that begins to fail does nothing else.
LEMMA FailingOnly ==
    ASSUME NEW t \in Threads, ThreadFails(t)
    PROVE  /\ tpc[t] \in {"new", "opened", "read"} /\ ~cancelled[t]
           /\ tpc' = [tpc EXCEPT ![t] = "failing"]
           /\ UNCHANGED <<cancelled, mpc, id, exported, gen, file, pend, owed,
                          credit, late, exit>>
<1>1. \E a \in {"new", "opened", "read"} : ThreadGoes(t, a, "failing")
  BY DEF ThreadFails
<1>2. ~cancelled[t] /\ UNCHANGED <<file, pend, owed, credit, late, exit>>
  BY DEF ThreadFails
<1> QED  BY <1>1, <1>2 DEF ThreadGoes, mainVars

\* A thread that goes on is none of those that were not created.
LEMMA GoesTypes ==
    ASSUME TypeOK, NEW t \in Threads, tpc[t] # "none", NEW b,
           b \in {"func", "failing"}, tpc' = [tpc EXCEPT ![t] = b], id' = id
    PROVE  /\ tpc' \in [Threads -> {"none", "new", "opened", "poll", "read", "call",
                                    "func", "failing", "ended"}]
           /\ \A u \in Threads : tpc'[u] = "none" <=> u > id'
<1>1. tpc \in [Threads -> {"none", "new", "opened", "poll", "read", "call",
                           "func", "failing", "ended"}]
  BY DEF TypeOK
<1>2. tpc' \in [Threads -> {"none", "new", "opened", "poll", "read", "call",
                            "func", "failing", "ended"}]
  BY <1>1
<1>3. \A u \in Threads : tpc'[u] = "none" <=> tpc[u] = "none"
  BY <1>1
<1>4. \A u \in Threads : tpc[u] = "none" <=> u > id
  BY DEF TypeOK
<1> QED  BY <1>2, <1>3, <1>4

\* Calling the function keeps the types.
LEMMA CallTypes == ASSUME TypeOK, NEW t \in Threads, Call(t) PROVE TypeOK'
<1>1. /\ tpc[t] = "call" /\ tpc' = [tpc EXCEPT ![t] = "func"]
      /\ owed' = [owed EXCEPT ![t] = FALSE]
      /\ credit' = [credit EXCEPT ![t] = credit[t] - 1]
      /\ late' = [late EXCEPT ![t] = IF Replaced(t) THEN late[t] + 1 ELSE late[t]]
      /\ UNCHANGED <<cancelled, mpc, id, exported, gen, file, pend, exit>>
  BY DEF Call, ThreadGoes, mainVars
<1>2. /\ {cancelled, pend, owed} \subseteq [Threads -> BOOLEAN]
      /\ credit \in [Threads -> Int] /\ late \in [Threads -> Nat]
      /\ \A u \in Threads : credit[u] <= MaxEdges
  BY DEF TypeOK
<1>3. {cancelled', pend', owed'} \subseteq [Threads -> BOOLEAN]
  <2>1. owed \in [Threads -> BOOLEAN]
    BY <1>2
  <2>2. owed' \in [Threads -> BOOLEAN]
    BY <1>1, <2>1
  <2> QED  BY <1>1, <1>2, <2>2
<1>4. late' \in [Threads -> Nat]
  <2> DEFINE n == IF Replaced(t) THEN late[t] + 1 ELSE late[t]
  <2>1. n \in Nat
    BY <1>2
  <2>2. late' = [late EXCEPT ![t] = n]
    BY <1>1
  <2> HIDE DEF n
  <2> QED  BY <1>2, <2>1, <2>2
<1>5. credit' \in [Threads -> Int] /\ \A u \in Threads : credit'[u] <= MaxEdges
  BY <1>1, <1>2, InterruptAssumption
<1>6. /\ tpc' \in [Threads -> {"none", "new", "opened", "poll", "read", "call",
                               "func", "failing", "ended"}]
      /\ \A u \in Threads : tpc'[u] = "none" <=> u > id'
  <2>1. tpc[t] # "none" /\ id' = id
    BY <1>1
  <2> QED  BY <1>1, <2>1, GoesTypes
<1> QED  BY <1>1, <1>3, <1>4, <1>5, <1>6 DEF TypeOK

\* Beginning to fail keeps the types.
LEMMA FailTypes == ASSUME TypeOK, NEW t \in Threads, ThreadFails(t) PROVE TypeOK'
<1>1. /\ tpc[t] \in {"new", "opened", "read"}
      /\ tpc' = [tpc EXCEPT ![t] = "failing"]
      /\ UNCHANGED <<cancelled, mpc, id, exported, gen, file, pend, owed, credit,
                     late, exit>>
  BY FailingOnly
<1>2. /\ tpc' \in [Threads -> {"none", "new", "opened", "poll", "read", "call",
                               "func", "failing", "ended"}]
      /\ \A u \in Threads : tpc'[u] = "none" <=> u > id'
  <2>1. tpc[t] # "none" /\ id' = id
    BY <1>1
  <2> QED  BY <1>1, <2>1, GoesTypes
<1> QED  BY <1>1, <1>2 DEF TypeOK

\* A step keeps the types.
LEMMA TypeStep == IInv /\ [Next]_vars => TypeOK'
<1> SUFFICES ASSUME IInv, [Next]_vars PROVE TypeOK'
  OBVIOUS
<1> USE InterruptAssumption DEF IInv, TypeOK, mainVars, threadVars, Threads,
     Running, Valid, Stages
<1>1. CASE CallAttach
  BY <1>1 DEF CallAttach
<1>2. CASE CallDetach
  BY <1>2 DEF CallDetach
<1>3. CASE OpenEdge
  BY <1>3 DEF OpenEdge
<1>4. CASE Spawn
  BY <1>4, SpawnTypes
<1>5. CASE DetachCancel
  BY <1>5 DEF DetachCancel
<1>6. ASSUME NEW t \in Threads, ThreadOpen(t) PROVE TypeOK'
  BY <1>6 DEF ThreadOpen, ThreadGoes
<1>7. ASSUME NEW t \in Threads, FirstRead(t) PROVE TypeOK'
  BY <1>7 DEF FirstRead, ThreadGoes
<1>8. ASSUME NEW t \in Threads, Poll(t) PROVE TypeOK'
  BY <1>8 DEF Poll, ThreadGoes
<1>9. ASSUME NEW t \in Threads, Read(t) PROVE TypeOK'
  BY <1>9 DEF Read, ThreadGoes
<1>10. ASSUME NEW t \in Threads, Call(t) PROVE TypeOK'
  BY <1>10, CallTypes
<1>11. ASSUME NEW t \in Threads, Return(t) PROVE TypeOK'
  BY <1>11 DEF Return, ThreadGoes
<1>12. ASSUME NEW t \in Threads, Ends(t) PROVE TypeOK'
  BY <1>12 DEF Ends, ThreadGoes
<1>13. ASSUME NEW t \in Threads, ThreadExits(t) PROVE TypeOK'
  BY <1>13 DEF ThreadExits
<1>17. ASSUME NEW t \in Threads, ThreadFails(t) PROVE TypeOK'
  BY <1>17, FailTypes
<1>18. ASSUME NEW t \in Threads, PollFails(t) PROVE TypeOK'
  BY <1>18 DEF PollFails, ThreadGoes
<1>14. CASE Edge
  BY <1>14 DEF Edge
<1>15. CASE Ended
  BY <1>15 DEF Ended, vars
<1>16. CASE UNCHANGED vars
  BY <1>16 DEF vars
<1> QED
  BY <1>1, <1>2, <1>3, <1>4, <1>5, <1>6, <1>7, <1>8, <1>9, <1>10, <1>11, <1>12,
     <1>13, <1>14, <1>15, <1>16, <1>17, <1>18
     DEF Next, Main, Thread

\* A step keeps what the main thread finds in its calls.
LEMMA StagesStep == IInv /\ [Next]_vars => Stages'
<1> SUFFICES ASSUME IInv, [Next]_vars PROVE Stages'
  OBVIOUS
<1> USE InterruptAssumption DEF IInv, TypeOK, mainVars, threadVars, Threads,
     Running, Valid, Stages
<1>1. CASE CallAttach
  BY <1>1 DEF CallAttach
<1>2. CASE CallDetach
  BY <1>2 DEF CallDetach
<1>3. CASE OpenEdge
  BY <1>3 DEF OpenEdge
<1>4. CASE Spawn
  BY <1>4 DEF Spawn, Create
<1>5. CASE DetachCancel
  BY <1>5 DEF DetachCancel
<1>6. ASSUME NEW t \in Threads, ThreadOpen(t) PROVE Stages'
  BY <1>6 DEF ThreadOpen, ThreadGoes
<1>7. ASSUME NEW t \in Threads, FirstRead(t) PROVE Stages'
  BY <1>7 DEF FirstRead, ThreadGoes
<1>8. ASSUME NEW t \in Threads, Poll(t) PROVE Stages'
  BY <1>8 DEF Poll, ThreadGoes
<1>9. ASSUME NEW t \in Threads, Read(t) PROVE Stages'
  BY <1>9 DEF Read, ThreadGoes
<1>10. ASSUME NEW t \in Threads, Call(t) PROVE Stages'
  BY <1>10 DEF Call, ThreadGoes, Replaced
<1>11. ASSUME NEW t \in Threads, Return(t) PROVE Stages'
  BY <1>11 DEF Return, ThreadGoes
<1>12. ASSUME NEW t \in Threads, Ends(t) PROVE Stages'
  BY <1>12 DEF Ends, ThreadGoes
<1>13. ASSUME NEW t \in Threads, ThreadExits(t) PROVE Stages'
  BY <1>13 DEF ThreadExits
<1>17. ASSUME NEW t \in Threads, ThreadFails(t) PROVE Stages'
  BY <1>17, FailingOnly
<1>18. ASSUME NEW t \in Threads, PollFails(t) PROVE Stages'
  BY <1>18 DEF PollFails, ThreadGoes
<1>14. CASE Edge
  BY <1>14 DEF Edge
<1>15. CASE Ended
  BY <1>15 DEF Ended, vars
<1>16. CASE UNCHANGED vars
  BY <1>16 DEF vars
<1> QED
  BY <1>1, <1>2, <1>3, <1>4, <1>5, <1>6, <1>7, <1>8, <1>9, <1>10, <1>11, <1>12,
     <1>13, <1>14, <1>15, <1>16, <1>17, <1>18
     DEF Next, Main, Thread

\* A step keeps all threads but the last cancelled.
LEMMA CancelledStep == IInv /\ [Next]_vars => Cancelled'
<1> SUFFICES ASSUME IInv, [Next]_vars PROVE Cancelled'
  OBVIOUS
<1> USE InterruptAssumption DEF IInv, TypeOK, mainVars, threadVars, Threads,
     Running, Valid, Stages, Cancelled
<1>1. CASE CallAttach
  BY <1>1 DEF CallAttach
<1>2. CASE CallDetach
  BY <1>2 DEF CallDetach
<1>3. CASE OpenEdge
  BY <1>3 DEF OpenEdge
<1>4. CASE Spawn
  BY <1>4 DEF Spawn, Create
<1>5. CASE DetachCancel
  BY <1>5 DEF DetachCancel
<1>6. ASSUME NEW t \in Threads, ThreadOpen(t) PROVE Cancelled'
  BY <1>6 DEF ThreadOpen, ThreadGoes
<1>7. ASSUME NEW t \in Threads, FirstRead(t) PROVE Cancelled'
  BY <1>7 DEF FirstRead, ThreadGoes
<1>8. ASSUME NEW t \in Threads, Poll(t) PROVE Cancelled'
  BY <1>8 DEF Poll, ThreadGoes
<1>9. ASSUME NEW t \in Threads, Read(t) PROVE Cancelled'
  BY <1>9 DEF Read, ThreadGoes
<1>10. ASSUME NEW t \in Threads, Call(t) PROVE Cancelled'
  BY <1>10 DEF Call, ThreadGoes, Replaced
<1>11. ASSUME NEW t \in Threads, Return(t) PROVE Cancelled'
  BY <1>11 DEF Return, ThreadGoes
<1>12. ASSUME NEW t \in Threads, Ends(t) PROVE Cancelled'
  BY <1>12 DEF Ends, ThreadGoes
<1>13. ASSUME NEW t \in Threads, ThreadExits(t) PROVE Cancelled'
  BY <1>13 DEF ThreadExits
<1>17. ASSUME NEW t \in Threads, ThreadFails(t) PROVE Cancelled'
  BY <1>17, FailingOnly
<1>18. ASSUME NEW t \in Threads, PollFails(t) PROVE Cancelled'
  BY <1>18 DEF PollFails, ThreadGoes
<1>14. CASE Edge
  BY <1>14 DEF Edge
<1>15. CASE Ended
  BY <1>15 DEF Ended, vars
<1>16. CASE UNCHANGED vars
  BY <1>16 DEF vars
<1> QED
  BY <1>1, <1>2, <1>3, <1>4, <1>5, <1>6, <1>7, <1>8, <1>9, <1>10, <1>11, <1>12,
     <1>13, <1>14, <1>15, <1>16, <1>17, <1>18
     DEF Next, Main, Thread

\* A step keeps the live thread's file.
LEMMA FilesStep == IInv /\ [Next]_vars => FilesOfToday'
<1> SUFFICES ASSUME IInv, [Next]_vars PROVE FilesOfToday'
  OBVIOUS
<1> USE InterruptAssumption DEF IInv, TypeOK, mainVars, threadVars, Threads,
     Running, Valid, Stages, Cancelled, FilesOfToday
<1>1. CASE CallAttach
  BY <1>1 DEF CallAttach
<1>2. CASE CallDetach
  BY <1>2 DEF CallDetach
<1>3. CASE OpenEdge
  BY <1>3 DEF OpenEdge
<1>4. CASE Spawn
  BY <1>4 DEF Spawn, Create
<1>5. CASE DetachCancel
  BY <1>5 DEF DetachCancel
<1>6. ASSUME NEW t \in Threads, ThreadOpen(t) PROVE FilesOfToday'
  BY <1>6 DEF ThreadOpen, ThreadGoes
<1>7. ASSUME NEW t \in Threads, FirstRead(t) PROVE FilesOfToday'
  BY <1>7 DEF FirstRead, ThreadGoes
<1>8. ASSUME NEW t \in Threads, Poll(t) PROVE FilesOfToday'
  BY <1>8 DEF Poll, ThreadGoes
<1>9. ASSUME NEW t \in Threads, Read(t) PROVE FilesOfToday'
  BY <1>9 DEF Read, ThreadGoes
<1>10. ASSUME NEW t \in Threads, Call(t) PROVE FilesOfToday'
  BY <1>10 DEF Call, ThreadGoes, Replaced
<1>11. ASSUME NEW t \in Threads, Return(t) PROVE FilesOfToday'
  BY <1>11 DEF Return, ThreadGoes
<1>12. ASSUME NEW t \in Threads, Ends(t) PROVE FilesOfToday'
  BY <1>12 DEF Ends, ThreadGoes
<1>13. ASSUME NEW t \in Threads, ThreadExits(t) PROVE FilesOfToday'
  BY <1>13 DEF ThreadExits
<1>17. ASSUME NEW t \in Threads, ThreadFails(t) PROVE FilesOfToday'
  BY <1>17, FailingOnly
<1>18. ASSUME NEW t \in Threads, PollFails(t) PROVE FilesOfToday'
  BY <1>18 DEF PollFails, ThreadGoes
<1>14. CASE Edge
  BY <1>14 DEF Edge
<1>15. CASE Ended
  BY <1>15 DEF Ended, vars
<1>16. CASE UNCHANGED vars
  BY <1>16 DEF vars
<1> QED
  BY <1>1, <1>2, <1>3, <1>4, <1>5, <1>6, <1>7, <1>8, <1>9, <1>10, <1>11, <1>12,
     <1>13, <1>14, <1>15, <1>16, <1>17, <1>18
     DEF Next, Main, Thread

\* A step keeps an edge for every call.
LEMMA EdgesStep == IInv /\ [Next]_vars => EdgesCounted'
<1> SUFFICES ASSUME IInv, [Next]_vars PROVE EdgesCounted'
  OBVIOUS
<1> USE InterruptAssumption DEF IInv, TypeOK, mainVars, threadVars, Threads,
     Running, Valid, Stages, EdgesCounted
<1>1. CASE CallAttach
  BY <1>1 DEF CallAttach
<1>2. CASE CallDetach
  BY <1>2 DEF CallDetach
<1>3. CASE OpenEdge
  BY <1>3 DEF OpenEdge
<1>4. CASE Spawn
  BY <1>4 DEF Spawn, Create
<1>5. CASE DetachCancel
  BY <1>5 DEF DetachCancel
<1>6. ASSUME NEW t \in Threads, ThreadOpen(t) PROVE EdgesCounted'
  BY <1>6 DEF ThreadOpen, ThreadGoes
<1>7. ASSUME NEW t \in Threads, FirstRead(t) PROVE EdgesCounted'
  BY <1>7 DEF FirstRead, ThreadGoes
<1>8. ASSUME NEW t \in Threads, Poll(t) PROVE EdgesCounted'
  BY <1>8 DEF Poll, ThreadGoes
<1>9. ASSUME NEW t \in Threads, Read(t) PROVE EdgesCounted'
  BY <1>9 DEF Read, ThreadGoes
<1>10. ASSUME NEW t \in Threads, Call(t) PROVE EdgesCounted'
  BY <1>10 DEF Call, ThreadGoes, Replaced
<1>11. ASSUME NEW t \in Threads, Return(t) PROVE EdgesCounted'
  BY <1>11 DEF Return, ThreadGoes
<1>12. ASSUME NEW t \in Threads, Ends(t) PROVE EdgesCounted'
  BY <1>12 DEF Ends, ThreadGoes
<1>13. ASSUME NEW t \in Threads, ThreadExits(t) PROVE EdgesCounted'
  BY <1>13 DEF ThreadExits
<1>17. ASSUME NEW t \in Threads, ThreadFails(t) PROVE EdgesCounted'
  BY <1>17, FailingOnly
<1>18. ASSUME NEW t \in Threads, PollFails(t) PROVE EdgesCounted'
  BY <1>18 DEF PollFails, ThreadGoes
<1>14. CASE Edge
  BY <1>14 DEF Edge
<1>15. CASE Ended
  BY <1>15 DEF Ended, vars
<1>16. CASE UNCHANGED vars
  BY <1>16 DEF vars
<1> QED
  BY <1>1, <1>2, <1>3, <1>4, <1>5, <1>6, <1>7, <1>8, <1>9, <1>10, <1>11, <1>12,
     <1>13, <1>14, <1>15, <1>16, <1>17, <1>18
     DEF Next, Main, Thread

\* A call of a thread that was replaced or detached is its first late one.
LEMMA LateCall == ASSUME IInv, NEW t \in Threads, Call(t) PROVE LateOnce'
<1>1. /\ late \in [Threads -> Nat]
      /\ tpc \in [Threads -> {"none", "new", "opened", "poll", "read", "call",
                              "func", "failing", "ended"}]
  BY DEF IInv, TypeOK
<1>2. /\ tpc[t] = "call" /\ tpc' = [tpc EXCEPT ![t] = "func"]
      /\ UNCHANGED <<cancelled, mpc, id, exported>>
  BY DEF Call, ThreadGoes, mainVars
<1>3. late[t] = 0
  BY <1>1, <1>2 DEF IInv, LateOnce
<1>4. Replaced(t) => cancelled[t]
  BY <1>2 DEF IInv, Cancelled, Replaced
<1>5. late' = [late EXCEPT ![t] = IF Replaced(t) THEN late[t] + 1 ELSE late[t]]
  BY DEF Call
<1>6. late'[t] \in 0..1 /\ (late'[t] = 1 => cancelled'[t]) /\ tpc'[t] = "func"
  BY <1>1, <1>2, <1>3, <1>4, <1>5
<1>7. \A u \in Threads : u # t => /\ late'[u] = late[u] /\ tpc'[u] = tpc[u]
                                /\ cancelled'[u] = cancelled[u]
  BY <1>1, <1>2, <1>5
<1> QED  BY <1>6, <1>7 DEF IInv, LateOnce

\* A step makes no second late call.
LEMMA LateStep == IInv /\ [Next]_vars => LateOnce'
<1> SUFFICES ASSUME IInv, [Next]_vars PROVE LateOnce'
  OBVIOUS
<1> USE InterruptAssumption DEF IInv, TypeOK, mainVars, threadVars, Threads,
     Running, Valid, Stages, Cancelled, LateOnce
<1>1. CASE CallAttach
  BY <1>1 DEF CallAttach
<1>2. CASE CallDetach
  BY <1>2 DEF CallDetach
<1>3. CASE OpenEdge
  BY <1>3 DEF OpenEdge
<1>4. CASE Spawn
  <2>1. /\ id + 1 \in Threads /\ tpc[id + 1] = "none"
        /\ \A t \in Threads : cancelled[t] => cancelled'[t]
    BY <1>4, SpawnNext
  <2>2. late[id + 1] <= 1 /\ late[id + 1] # 1
    <3>1. "none" \notin {"func", "poll", "ended"}
      OBVIOUS
    <3> QED  BY <2>1, <3>1
  <2>3. \A t \in Threads : t # id + 1 => tpc'[t] = tpc[t]
    BY <1>4, SpawnNext
  <2>4. UNCHANGED late
    BY <1>4 DEF Spawn, Create
  <2> QED  BY <2>1, <2>2, <2>3, <2>4
<1>5. CASE DetachCancel
  BY <1>5 DEF DetachCancel
<1>6. ASSUME NEW t \in Threads, ThreadOpen(t) PROVE LateOnce'
  BY <1>6 DEF ThreadOpen, ThreadGoes
<1>7. ASSUME NEW t \in Threads, FirstRead(t) PROVE LateOnce'
  BY <1>7 DEF FirstRead, ThreadGoes
<1>8. ASSUME NEW t \in Threads, Poll(t) PROVE LateOnce'
  BY <1>8 DEF Poll, ThreadGoes
<1>9. ASSUME NEW t \in Threads, Read(t) PROVE LateOnce'
  BY <1>9 DEF Read, ThreadGoes
<1>10. ASSUME NEW t \in Threads, Call(t) PROVE LateOnce'
  BY <1>10, LateCall
<1>11. ASSUME NEW t \in Threads, Return(t) PROVE LateOnce'
  BY <1>11 DEF Return, ThreadGoes
<1>12. ASSUME NEW t \in Threads, Ends(t) PROVE LateOnce'
  BY <1>12 DEF Ends, ThreadGoes
<1>13. ASSUME NEW t \in Threads, ThreadExits(t) PROVE LateOnce'
  BY <1>13 DEF ThreadExits
<1>17. ASSUME NEW t \in Threads, ThreadFails(t) PROVE LateOnce'
  BY <1>17, FailingOnly
<1>18. ASSUME NEW t \in Threads, PollFails(t) PROVE LateOnce'
  BY <1>18 DEF PollFails, ThreadGoes
<1>14. CASE Edge
  BY <1>14 DEF Edge
<1>15. CASE Ended
  BY <1>15 DEF Ended, vars
<1>16. CASE UNCHANGED vars
  BY <1>16 DEF vars
<1> QED
  BY <1>1, <1>2, <1>3, <1>4, <1>5, <1>6, <1>7, <1>8, <1>9, <1>10, <1>11, <1>12,
     <1>13, <1>14, <1>15, <1>16, <1>17, <1>18
     DEF Next, Main, Thread

\* While a thread may still be working on its own files, nobody takes them away
\* but detachInterrupt, so that a thread that finds them gone finds it there.
LEMMA FailureStep ==
    ASSUME IInv, [Next]_vars, NEW t \in Threads,
           tpc[t] # "failing", tpc'[t] = "failing"
    PROVE  tpc[t] = "poll" \/ mpc = "cancel"
<1> USE DEF mainVars, threadVars
<1>1. tpc \in [Threads -> {"none", "new", "opened", "poll", "read", "call",
                           "func", "failing", "ended"}]
  BY DEF IInv, TypeOK
<1>2. ASSUME NEW u \in Threads, Thread(u) \/ PollFails(u)
      PROVE  u = t /\ (ThreadFails(t) \/ PollFails(t))
  BY <1>1, <1>2 DEF Thread, ThreadGoes, ThreadOpen, FirstRead, Poll, Read, Call,
     Return, Ends, ThreadFails, ThreadExits, PollFails
<1>3. ASSUME Spawn PROVE FALSE
  BY <1>1, <1>3 DEF Spawn, Create
<1>4. ThreadFails(t) \/ PollFails(t)
  BY <1>2, <1>3 DEF Next, Main, CallAttach, CallDetach, OpenEdge, DetachCancel,
     Edge, Ended, vars
<1>5. CASE PollFails(t)
  BY <1>5 DEF PollFails, ThreadGoes
<1>6. CASE ThreadFails(t)
  <2>1. ~cancelled[t] /\ tpc[t] \in {"new", "opened", "read"} /\ t \in Threads
    BY <1>6 DEF ThreadFails, ThreadGoes
  <2>2. CASE tpc[t] = "new"
    <3>1. ~exported
      BY <1>6, <2>2 DEF ThreadFails, ThreadGoes
    <3> QED  BY <2>1, <2>2, <3>1 DEF IInv, Cancelled
  <2>3. CASE tpc[t] \in {"opened", "read"}
    <3>1. ~exported \/ file[t] # gen
      BY <1>6, <2>3 DEF ThreadFails, ThreadGoes, Valid
    <3>2. file[t] = gen
      BY <2>1, <2>3 DEF IInv, FilesOfToday
    <3> QED  BY <2>1, <2>3, <3>1, <3>2 DEF IInv, Cancelled
  <2> QED  BY <2>1, <2>2, <2>3
<1> QED  BY <1>4, <1>5, <1>6

-----------------------------------------------------------------------------
\* The inductive invariant: every step keeps it.
LEMMA StepIInv == IInv /\ [Next]_vars => IInv'
  BY TypeStep, StagesStep, CancelledStep, FilesStep, EdgesStep, LateStep
     DEF IInv

\* The inductive invariant holds of every reachable state.
THEOREM Invariance == Spec => []IInv
  BY InitIInv, StepIInv, PTL DEF Spec

\* The variables stay in range, and the threads are those that were created.
THEOREM TypeCorrect == Spec => []TypeOK
<1>1. IInv => TypeOK
  BY DEF IInv
<1> QED  BY <1>1, Invariance, PTL

\* Between the calls of attachInterrupt and detachInterrupt at most one thread of
\* the pin is not cancelled: the last, and only while the pin is attached.
THEOREM LiveIsAttachedCorrect == Spec => []LiveIsAttached
<1>1. IInv => LiveIsAttached
  BY DEF IInv, TypeOK, Cancelled, LiveIsAttached
<1> QED  BY <1>1, Invariance, PTL

\* Each call of the user's function answers an edge that came after the file was
\* opened, and a thread that was replaced or detached makes one more at most.
THEOREM CallsAreDueCorrect == Spec => []CallsAreDue
<1>1. IInv => CallsAreDue
  BY DEF IInv, EdgesCounted, LateOnce, CallsAreDue
<1> QED  BY <1>1, Invariance, PTL

\* An interrupt thread begins to fail, poll's own failures apart, only between
\* the unexport and the cancel of detachInterrupt.
THEOREM FailureIsDetachCorrect == Spec => FailureIsDetach
<1>1. IInv /\ [Next]_vars
        => [\A t \in Threads : tpc[t] # "failing" /\ tpc'[t] = "failing"
                                  => tpc[t] = "poll" \/ mpc = "cancel"]_vars
  BY FailureStep
<1> QED  BY <1>1, Invariance, PTL DEF Spec, FailureIsDetach
=============================================================================
