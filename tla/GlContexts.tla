----------------------------- MODULE GlContexts -----------------------------
(***************************************************************************)
(* The GL contexts of a graph, each with a dedicated thread, and the sync  *)
(* points they use where the driver has no fences (GlFinishSyncPoint): a   *)
(* token is the number of glFinish calls its context had made, and to wait *)
(* for it is to wait until the context has made another one.  A context    *)
(* that waits for another one is asked for a glFinish itself at the same   *)
(* time, by the one it waits for or by a third, and must answer while it   *)
(* waits, or everyone waits for everyone.                                  *)
(***************************************************************************)
EXTENDS Naturals, Sequences, FiniteSets

CONSTANTS
    Contexts,   \* the GlContext objects; each names its dedicated thread too
    Apps,       \* threads without a current GlContext that wait on the CPU
    None,       \* no context, no thread
    MaxDraws,   \* bound: how often tokens are created
    MaxWaits    \* bound: how often a token is waited for

ASSUME GlAssumption == /\ Contexts \cap Apps = {}
                       /\ None \notin Contexts \cup Apps
                       /\ MaxDraws \in Nat /\ MaxWaits \in Nat

Threads == Contexts \cup Apps

VARIABLES
    glFinishCount,        \* gl_finish_count_, changed by the context's thread only
    glFinishCountTarget,  \* gl_finish_count_target_
    contextWaitingOn,     \* context_waiting_on_
    mutex,                \* the holder of mutex_, across steps
    asleep,               \* threads in wait_for_gl_finish_cv_.Wait of a context
    jobs,                 \* the finish tasks in jobs_ of the dedicated thread
    pc,                   \* where a thread is
    token,                \* the token it waits for
    tokens,               \* the tokens that calculators may wait for
    issued,               \* GL commands given to each context
    done,                 \* how many of them the GPU is known to have executed
    waits                 \* waits begun, up to MaxWaits

vars == <<glFinishCount, glFinishCountTarget, contextWaitingOn, mutex, asleep,
          jobs, pc, token, tokens, issued, done, waits>>

glState == <<tokens, issued, waits>>

Token == [context : Contexts, count : Nat, work : Nat]

\* GlContext::GetCurrent: the dedicated thread has entered its context for good.
Current(t) == IF t \in Contexts THEN t ELSE None

IsCurrent(t, c) == Current(t) = c

Init ==
    /\ glFinishCount = [c \in Contexts |-> 0]
    /\ glFinishCountTarget = [c \in Contexts |-> 0]
    /\ contextWaitingOn = [c \in Contexts |-> None]
    /\ mutex = [c \in Contexts |-> None]
    /\ asleep = [c \in Contexts |-> {}]
    /\ jobs = [c \in Contexts |-> <<>>]
    /\ pc = [t \in Threads |-> "idle"]
    /\ token = [t \in Threads |-> None]
    /\ tokens = {}
    /\ issued = [c \in Contexts |-> 0]
    /\ done = [c \in Contexts |-> 0]
    /\ waits = 0

GoTo(t, label) == pc' = [pc EXCEPT ![t] = label]

SignalAll(cs) == asleep' = [c \in Contexts |-> IF c \in cs THEN {} ELSE asleep[c]]

\* glFinish() followed by GlFinishCalled().
Finish(c) ==
    /\ mutex[c] = None
    /\ done' = [done EXCEPT ![c] = issued[c]]
    /\ glFinishCount' = [glFinishCount EXCEPT ![c] = @ + 1]
    /\ SignalAll({c})

-----------------------------------------------------------------------------
(* Calculators: a job of the graph draws with its context and leaves a     *)
(* token with what it drew, or waits for somebody's token.                 *)

CreateSyncToken(c) ==
    /\ pc[c] = "idle"
    /\ Cardinality(tokens) < MaxDraws
    /\ issued' = [issued EXCEPT ![c] = @ + 1]
    /\ tokens' = tokens \cup {[context |-> c, count |-> glFinishCount[c],
                               work |-> issued[c] + 1]}
    /\ UNCHANGED <<glFinishCount, glFinishCountTarget, contextWaitingOn, mutex,
                   asleep, jobs, pc, token, done, waits>>

-----------------------------------------------------------------------------
(* WaitForGlFinishCountPast(count_to_pass), called by t on c.              *)

\* Mutant: the glFinish calls before the token count as one after it.
PassedAtOnce(tok) == glFinishCount[tok.context] >= tok.count

Passed(tok) == glFinishCount[tok.context] > tok.count

\* A wait for a token that was reached returns at once and changes nothing.
Wait(t) ==
    /\ pc[t] = "idle"
    /\ waits < MaxWaits
    /\ waits' = waits + 1
    /\ \E tok \in tokens : ~Passed(tok) /\ token' = [token EXCEPT ![t] = tok]
    /\ GoTo(t, "ask")
    /\ UNCHANGED <<glFinishCount, glFinishCountTarget, contextWaitingOn, mutex,
                   asleep, jobs, tokens, issued, done>>

\* The wait is over.
Return(t) ==
    /\ GoTo(t, "idle")
    /\ token' = [token EXCEPT ![t] = None]

\* The count to reach is noted, and c is woken wherever it waits.
Ask(t) ==
    LET c == token[t].context
        target == token[t].count + 1
    IN
    /\ pc[t] = "ask"
    /\ mutex[c] = None
    /\ glFinishCountTarget' = [glFinishCountTarget EXCEPT
                                 ![c] = IF @ < target THEN target ELSE @]
    /\ SignalAll({c, contextWaitingOn[c]})
    /\ GoTo(t, IF IsCurrent(t, c) THEN "finish"
               ELSE IF Current(t) # None THEN "mark" ELSE "post")
    /\ UNCHANGED <<glFinishCount, contextWaitingOn, mutex, jobs, token, done, glState>>

\* finish_task, when the waited context is the current one.
FinishHere(t) ==
    LET c == token[t].context IN
    /\ pc[t] = "finish"
    /\ IF glFinishCount[c] = token[t].count
       THEN Finish(c)
       ELSE UNCHANGED <<done, glFinishCount, asleep>>
    /\ Return(t)
    /\ UNCHANGED <<glFinishCountTarget, contextWaitingOn, mutex, jobs, glState>>

\* The current context notes which one it is blocked on.
Mark(t) ==
    LET other == Current(t) IN
    /\ pc[t] = "mark"
    /\ mutex[other] = None
    /\ contextWaitingOn' = [contextWaitingOn EXCEPT ![other] = token[t].context]
    /\ GoTo(t, "post")
    /\ UNCHANGED <<glFinishCount, glFinishCountTarget, mutex, asleep, jobs, token,
                   done, glState>>

\* RunWithoutWaiting(finish_task).
Post(t) ==
    LET c == token[t].context IN
    /\ pc[t] = "post"
    /\ jobs' = [jobs EXCEPT ![c] = Append(@, token[t].count)]
    /\ GoTo(t, "lock")
    /\ UNCHANGED <<glFinishCount, glFinishCountTarget, contextWaitingOn, mutex,
                   asleep, token, done, glState>>

\* Mutant: a context that waits does not look at what it was asked for.
IsNeverAsked(t) == FALSE

\* The current context was asked for a glFinish that it has not made.
IsAsked(t) == LET other == Current(t) IN
    other # None /\ glFinishCount[other] < glFinishCountTarget[other]

\* One round of the loop under the mutex of c.  Between the test and the wait
\* the mutex is held, but that of the current context is not.
Check(t) ==
    LET c == token[t].context IN
    /\ \/ pc[t] = "lock"
       \/ pc[t] = "asleep" /\ t \notin asleep[c]
    /\ mutex[c] = None
    /\ \/ /\ Passed(token[t])
          /\ IF Current(t) # None
             THEN GoTo(t, "unmark") /\ UNCHANGED token
             ELSE Return(t)
          /\ UNCHANGED mutex
       \/ /\ ~Passed(token[t]) /\ IsAsked(t)
          /\ GoTo(t, "serve")
          /\ UNCHANGED <<mutex, token>>
       \/ /\ ~Passed(token[t]) /\ ~IsAsked(t)
          /\ GoTo(t, "sleep")
          /\ mutex' = [mutex EXCEPT ![c] = t]
          /\ UNCHANGED token
    /\ UNCHANGED <<glFinishCount, glFinishCountTarget, contextWaitingOn, asleep,
                   jobs, done, glState>>

\* wait_for_gl_finish_cv_.Wait(&mutex_)
Sleep(t) ==
    LET c == token[t].context IN
    /\ pc[t] = "sleep"
    /\ mutex' = [mutex EXCEPT ![c] = None]
    /\ asleep' = [asleep EXCEPT ![c] = @ \cup {t}]
    /\ GoTo(t, "asleep")
    /\ UNCHANGED <<glFinishCount, glFinishCountTarget, contextWaitingOn, jobs, token,
                   done, glState>>

\* glFinish and other->GlFinishCalled(), without the mutex of c.
Serve(t) ==
    /\ pc[t] = "serve"
    /\ Finish(Current(t))
    /\ GoTo(t, "lock")
    /\ UNCHANGED <<glFinishCountTarget, contextWaitingOn, mutex, jobs, token, glState>>

\* Mutant: a wait ends and the context seems to wait on.
LeaveMarked(t) ==
    /\ pc[t] = "unmark"
    /\ Return(t)
    /\ UNCHANGED <<glFinishCount, glFinishCountTarget, contextWaitingOn, mutex, asleep,
                   jobs, done, glState>>

\* The current context is no longer blocked.
Unmark(t) ==
    LET other == Current(t) IN
    /\ pc[t] = "unmark"
    /\ mutex[other] = None
    /\ contextWaitingOn' = [contextWaitingOn EXCEPT ![other] = None]
    /\ Return(t)
    /\ UNCHANGED <<glFinishCount, glFinishCountTarget, mutex, asleep, jobs,
                   done, glState>>

-----------------------------------------------------------------------------
\* ThreadBody of the dedicated thread: GetJob and a finish task.
RunFinishTask(c) ==
    /\ pc[c] = "idle"
    /\ jobs[c] # <<>>
    /\ jobs' = [jobs EXCEPT ![c] = Tail(@)]
    /\ IF glFinishCount[c] = Head(jobs[c])
       THEN Finish(c)
       ELSE UNCHANGED <<done, glFinishCount, asleep>>
    /\ UNCHANGED <<glFinishCountTarget, contextWaitingOn, mutex, pc, token, glState>>

WaitStep(t) ==
    \/ Ask(t) \/ FinishHere(t) \/ Mark(t) \/ Post(t) \/ Check(t)
    \/ Sleep(t) \/ Serve(t) \/ Unmark(t)

Next ==
    \/ \E t \in Threads : Wait(t) \/ WaitStep(t)
    \/ \E c \in Contexts : CreateSyncToken(c) \/ RunFinishTask(c)

\* Threads go on with a wait and with their jobs; calculators need not start.
Fairness == /\ \A t \in Threads : WF_vars(WaitStep(t))
            /\ \A c \in Contexts : WF_vars(RunFinishTask(c))

Spec == Init /\ [][Next]_vars

FairSpec == Spec /\ Fairness

-----------------------------------------------------------------------------
Labels == {"idle", "ask", "finish", "mark", "post", "lock", "sleep", "asleep",
           "serve", "unmark"}

\* The types; and a dedicated thread has noted what its context is blocked on
\* exactly while it is between Mark and Unmark, as the DCHECK of Mark expects.
TypeOK ==
    /\ glFinishCount \in [Contexts -> Nat]
    /\ glFinishCountTarget \in [Contexts -> Nat]
    /\ mutex \in [Contexts -> Threads \cup {None}]
    /\ asleep \in [Contexts -> SUBSET Threads]
    /\ jobs \in [Contexts -> Seq(Nat)]
    /\ pc \in [Threads -> Labels]
    /\ token \in [Threads -> Token \cup {None}]
    /\ contextWaitingOn \in [Contexts -> Contexts \cup {None}]
    /\ \A t \in Threads : IF pc[t] = "idle" THEN token[t] = None ELSE token[t] \in tokens
    /\ tokens \subseteq Token
    /\ \A c \in Contexts :
         contextWaitingOn[c] =
            IF pc[c] \in {"post", "lock", "sleep", "asleep", "serve", "unmark"}
            THEN token[c].context ELSE None

\* A token is reached (IsReady), and a wait for it returns, only when the GPU has
\* executed everything that its context had been given when the token was made;
\* one more glFinish is enough for any token, and finish tasks and requests never
\* name a count that was not reached (the DCHECK of finish_task).
WaitsSound ==
    [][/\ \A tok \in tokens' : Passed(tok)' => done'[tok.context] >= tok.work
       /\ \A t \in Threads : pc[t] # "idle" /\ pc'[t] = "idle" =>
            glFinishCount'[token[t].context] > token[t].count
       /\ \A c \in Contexts :
            /\ glFinishCountTarget'[c] <= glFinishCount'[c] + 1
            /\ \A i \in 1..Len(jobs'[c]) : jobs'[c][i] <= glFinishCount'[c]]_vars

\* Contexts that wait for each other, in a cycle of any length and with others
\* that wait for them, answer each other: every wait ends.
WaitsEnd == \A t \in Threads : pc[t] # "idle" ~> pc[t] = "idle"
=============================================================================
