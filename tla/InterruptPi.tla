---------------------------- MODULE InterruptPi ----------------------------
(***************************************************************************)
(* attachInterrupt, detachInterrupt and threadFunction of                  *)
(* serial/arduPi.cpp: threads that wait for the edges of a pin and call    *)
(* the user's function, and the main thread that starts and cancels them.  *)
(*                                                                         *)
(* One pin: the threads of two pins share nothing but the process.  The    *)
(* kernel's gpio files and POSIX's deferred cancellation are external.     *)
(***************************************************************************)
EXTENDS Integers

CONSTANTS
    MaxAttaches,    \* bound: calls of attachInterrupt
    MaxEdges        \* bound: edges counted that no call has answered

\* One edge can wait while another is being answered.
ASSUME InterruptAssumption == MaxAttaches \in Nat /\ MaxEdges \in Nat \ {0, 1}

Threads == 1..MaxAttaches

VARIABLES
    mpc,            \* where the main thread is
    id,             \* idThread of the pin, 0 when none was created
    exported,       \* the pin's directory exists
    gen,            \* how often it was made
    tpc,            \* where each interrupt thread is
    cancelled,      \* pthread_cancel was called for it
    file,           \* the directory that its file was opened in
    pend,           \* its poll would return
    owed,           \* history: an edge since its function was last called
    credit,         \* history: edges since its file was opened, less the calls
                    \* of its function
    late,           \* history: calls after it was replaced or detached
    exit            \* why the process has ended

mainVars   == <<mpc, id, exported, gen>>
threadVars == <<tpc, cancelled, file, pend, owed, credit, late>>
vars == <<mainVars, threadVars, exit>>

Init ==
    /\ mpc = "idle" /\ id = 0 /\ exported = FALSE /\ gen = 0
    /\ tpc = [t \in Threads |-> "none"] /\ cancelled = [t \in Threads |-> FALSE]
    /\ file = [t \in Threads |-> 0] /\ pend = [t \in Threads |-> FALSE]
    /\ owed = [t \in Threads |-> FALSE] /\ credit = [t \in Threads |-> 0]
    /\ late = [t \in Threads |-> 0]
    /\ exit = "none"

Running == exit = "none"

-----------------------------------------------------------------------------
(* attachInterrupt and detachInterrupt.                                    *)

\* An exported pin is made anew.
ReExport ==
    /\ Running /\ mpc = "idle" /\ id < MaxAttaches
    /\ mpc' = "edge" /\ exported' = TRUE /\ gen' = gen + 1
    /\ UNCHANGED <<id, threadVars, exit>>

\* Exporting a pin again changes nothing.
CallAttach ==
    /\ Running /\ mpc = "idle" /\ id < MaxAttaches
    /\ mpc' = "edge" /\ exported' = TRUE
    /\ gen' = IF exported THEN gen ELSE gen + 1
    /\ UNCHANGED <<id, threadVars, exit>>

\* The file may not be there, or not be ours, a millisecond later.
OpenEdge ==
    /\ Running /\ mpc = "edge"
    /\ \/ mpc' = "spawn" /\ UNCHANGED exit
       \/ exit' = "edge file" /\ UNCHANGED mpc
    /\ UNCHANGED <<id, exported, gen, threadVars>>

Create(c) ==
    /\ Running /\ mpc = "spawn" /\ mpc' = "idle"
    /\ id' = id + 1 /\ tpc' = [tpc EXCEPT ![id + 1] = "new"]
    /\ cancelled' = c
    /\ UNCHANGED <<exported, gen, file, pend, owed, credit, late, exit>>

\* The new id is not stored.
SpawnUnknown ==
    /\ Running /\ mpc = "spawn" /\ mpc' = "idle"
    /\ tpc' = [tpc EXCEPT ![id + 1] = "new"]
    /\ UNCHANGED <<id, exported, gen, cancelled, file, pend, owed, credit, late,
                   exit>>

Spawn ==
    Create(IF id = 0 THEN cancelled ELSE [cancelled EXCEPT ![id] = TRUE])

\* Only of a pin that was attached: the id of another is 0.
CallDetach ==
    /\ Running /\ mpc = "idle" /\ id > 0
    /\ mpc' = "cancel" /\ exported' = FALSE
    /\ UNCHANGED <<id, gen, threadVars, exit>>

DetachOnly ==
    /\ Running /\ mpc = "cancel" /\ mpc' = "idle"
    /\ UNCHANGED <<id, exported, gen, threadVars, exit>>

\* The id stays; cancelling the thread again does nothing.
DetachCancel ==
    /\ Running /\ mpc = "cancel" /\ mpc' = "idle"
    /\ cancelled' = [cancelled EXCEPT ![id] = TRUE]
    /\ UNCHANGED <<id, exported, gen, tpc, file, pend, owed, credit, late,
                   exit>>

-----------------------------------------------------------------------------
(* threadFunction, and the deferred cancellation in open, read and poll.   *)

Valid(t) == exported /\ file[t] = gen

ThreadGoes(t, a, b) ==
    /\ Running /\ tpc[t] = a /\ tpc' = [tpc EXCEPT ![t] = b]
    /\ UNCHANGED <<cancelled, mainVars>>

Ends(t) ==
    /\ cancelled[t]
    /\ \E a \in {"new", "opened", "poll", "read", "func", "failing"} :
          ThreadGoes(t, a, "ended")
    /\ pend' = [pend EXCEPT ![t] = FALSE] /\ owed' = [owed EXCEPT ![t] = FALSE]
    /\ credit' = [credit EXCEPT ![t] = 0] /\ file' = [file EXCEPT ![t] = 0]
    /\ UNCHANGED <<late, exit>>

\* open or read finds the file gone ...
ThreadFails(t) ==
    /\ ~cancelled[t]
    /\ \/ ~exported /\ ThreadGoes(t, "new", "failing")
       \/ /\ ~Valid(t)
          /\ ThreadGoes(t, "opened", "failing") \/ ThreadGoes(t, "read", "failing")
    /\ UNCHANGED <<file, pend, owed, credit, late, exit>>

\* ... or poll fails, of a signal that the thread was given to handle.
PollFails(t) ==
    /\ ~cancelled[t] /\ ThreadGoes(t, "poll", "failing")
    /\ UNCHANGED <<file, pend, owed, credit, late, exit>>

\* exit(1) may still come when the thread is cancelled meanwhile: on the way to
\* it there are points of cancellation, perror and close, or none.
ThreadExits(t) ==
    /\ Running /\ tpc[t] = "failing"
    /\ exit' = "thread" /\ UNCHANGED <<mainVars, threadVars>>

\* A file that was just opened is ready for poll until it is read.
ThreadOpen(t) ==
    /\ ~cancelled[t] /\ exported /\ ThreadGoes(t, "new", "opened")
    /\ file' = [file EXCEPT ![t] = gen] /\ pend' = [pend EXCEPT ![t] = TRUE]
    /\ UNCHANGED <<owed, credit, late, exit>>

\* The loop is entered without a read.
NoFirstRead(t) ==
    /\ ~cancelled[t] /\ Valid(t) /\ ThreadGoes(t, "opened", "poll")
    /\ UNCHANGED <<file, pend, owed, credit, late, exit>>

FirstRead(t) ==
    /\ ~cancelled[t] /\ Valid(t) /\ ThreadGoes(t, "opened", "poll")
    /\ pend' = [pend EXCEPT ![t] = FALSE] /\ owed' = [owed EXCEPT ![t] = FALSE]
    /\ UNCHANGED <<file, credit, late, exit>>

\* poll also returns for a file that is gone.
Poll(t) ==
    /\ ~cancelled[t] /\ (pend[t] \/ ~Valid(t)) /\ ThreadGoes(t, "poll", "read")
    /\ UNCHANGED <<file, pend, owed, credit, late, exit>>

Read(t) ==
    /\ ~cancelled[t] /\ Valid(t) /\ ThreadGoes(t, "read", "call")
    /\ pend' = [pend EXCEPT ![t] = FALSE]
    /\ UNCHANGED <<file, owed, credit, late, exit>>

Replaced(t) == mpc = "idle" /\ (t # id \/ ~exported)

Call(t) ==
    /\ ThreadGoes(t, "call", "func") /\ owed' = [owed EXCEPT ![t] = FALSE]
    /\ credit' = [credit EXCEPT ![t] = @ - 1]
    /\ late' = [late EXCEPT ![t] = IF Replaced(t) THEN @ + 1 ELSE @]
    /\ UNCHANGED <<file, pend, exit>>

\* The file is read when the function has returned.
ReadAfterCall(t) ==
    /\ ThreadGoes(t, "func", "poll")
    /\ pend' = [pend EXCEPT ![t] = FALSE]
    /\ UNCHANGED <<file, owed, credit, late, exit>>

Return(t) ==
    /\ ThreadGoes(t, "func", "poll")
    /\ UNCHANGED <<file, pend, owed, credit, late, exit>>

\* An edge makes every open file of the pin ready.
Edge ==
    /\ Running /\ exported
    /\ LET open == {t \in Threads : file[t] = gen}
           counted == {t \in open : credit[t] < MaxEdges} IN
         /\ open # {}
         /\ pend' = [t \in Threads |-> pend[t] \/ t \in open]
         /\ owed' = [t \in Threads |-> owed[t] \/ t \in open]
         /\ credit' = [t \in Threads |->
                          IF t \in counted THEN credit[t] + 1 ELSE credit[t]]
    /\ UNCHANGED <<mainVars, tpc, cancelled, file, late, exit>>

Ended == ~Running /\ UNCHANGED vars

Thread(t) ==
    \/ ThreadOpen(t) \/ FirstRead(t) \/ Poll(t) \/ Read(t) \/ Call(t)
    \/ Return(t) \/ Ends(t) \/ ThreadFails(t) \/ ThreadExits(t)

Main == OpenEdge \/ Spawn \/ DetachCancel

Next ==
    \/ CallAttach \/ CallDetach \/ Main
    \/ \E t \in Threads : Thread(t) \/ PollFails(t)
    \/ Edge
    \/ Ended

Spec == Init /\ [][Next]_vars

\* Every thread that can run does, and a function returns; no signal has to
\* come.
Fairness ==
    /\ WF_vars(Main) /\ \A t \in Threads : WF_vars(Thread(t))
FairSpec == Spec /\ Fairness

-----------------------------------------------------------------------------
(* Properties.                                                             *)

\* The variables stay in range, and the threads are those that were created.
TypeOK ==
    /\ mpc \in {"idle", "edge", "spawn", "cancel"} /\ id \in 0..MaxAttaches
    /\ exported \in BOOLEAN /\ gen \in Nat
    /\ tpc \in [Threads -> {"none", "new", "opened", "poll", "read", "call",
                            "func", "failing", "ended"}]
    /\ {cancelled, pend, owed} \subseteq [Threads -> BOOLEAN]
    /\ file \in [Threads -> 0..gen] /\ credit \in [Threads -> Int]
    /\ late \in [Threads -> Nat]
    /\ \A t \in Threads :
         credit[t] <= MaxEdges /\ (tpc[t] = "none" <=> t > id)
    /\ exit \in {"none", "edge file", "thread"}

\* attachInterrupt, detachInterrupt: between the calls at most one thread of the
\* pin is not cancelled: the last, and only while the pin is attached.
LiveIsAttached ==
    mpc = "idle" => \A t \in Threads :
        tpc[t] # "none" /\ ~cancelled[t] => t = id /\ exported

\* threadFunction: each call answers an edge that came after the file was
\* opened, and a thread that was replaced or detached makes one more at most.
CallsAreDue == \A t \in Threads : credit[t] >= 0 /\ late[t] <= 1

\* detachInterrupt takes the files away before it cancels the thread: poll's own
\* failures apart, only in between can a thread begin to fail, and so to end
\* the process (which may happen after detachInterrupt has returned).
FailureIsDetach ==
    [][\A t \in Threads : tpc[t] # "failing" /\ tpc'[t] = "failing"
                              => tpc[t] = "poll" \/ mpc = "cancel"]_vars

\* An edge that a thread waits for, or that comes while it is at work, is
\* followed by a call of its function.
EdgeServed ==
    \A t \in Threads :
      (owed[t] /\ tpc[t] \in {"poll", "read", "call", "func"})
         ~> (~owed[t] \/ cancelled[t] \/ ~Valid(t) \/ ~Running)
=============================================================================
