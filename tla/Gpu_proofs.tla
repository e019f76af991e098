----------------------------- MODULE Gpu_proofs -----------------------------
(***************************************************************************)
(* The safety properties of GlContexts and of TextureFrames: the two       *)
(* specifications of what the GPU is asked for, which have no variable in  *)
(* common and are proved one after the other.                              *)
(*                                                                         *)
(* GlContexts, for any contexts, application threads, tokens and waits: no *)
(* token, request or job names a count that was not reached when it was    *)
(* made (Reached, Requested), and counts only grow.  So the first glFinish *)
(* after a token was made takes the count past it, and that one comes      *)
(* after the commands that the token stands for.  A thread that leaves a   *)
(* wait has seen such a count, or makes it (Waiting).                      *)
(*                                                                         *)
(* TextureFrames, for any textures, contexts, surfaces and sizes of the    *)
(* pool, and however long the camera runs: a texture is in one place at a  *)
(* time, and it is counted while it is out (Placed, Counted).  What the    *)
(* GPU has still to read of a texture is known to the sync points of its   *)
(* consumers while a packet holds it, and to its release token from then   *)
(* on (ReadsKnown); so when the GL thread has waited for the token nothing *)
(* is left to be read.                                                     *)
(***************************************************************************)
EXTENDS GlContexts, TextureFrames, FiniteSetTheorems, SequenceTheorems,
        WellFoundedInduction, TLAPS

-----------------------------------------------------------------------------
(* GlContexts: the inductive invariant. *)

CountersTyped == issued \in [Contexts -> Nat] /\ done \in [Contexts -> Nat]

\* A token has a count that was reached and commands that were given.
Reached ==
  \A tok \in tokens :
    /\ tok.count <= glFinishCount[tok.context]
    /\ tok.work <= issued[tok.context]
    /\ Passed(tok) => done[tok.context] >= tok.work

Requested ==
  \A c \in Contexts :
    /\ glFinishCountTarget[c] <= glFinishCount[c] + 1
    /\ \A i \in 1..Len(jobs[c]) : jobs[c][i] <= glFinishCount[c]

\* What a thread knows of its wait.
Waiting ==
  \A t \in Threads :
    /\ pc[t] = "finish" => t \in Contexts /\ token[t].context = t
    /\ pc[t] \in {"mark", "serve", "unmark"} => t \in Contexts
    /\ pc[t] = "unmark" => Passed(token[t])

IInv == TypeOK /\ CountersTyped /\ Reached /\ Requested /\ Waiting

-----------------------------------------------------------------------------
(* Finish is the only thing that changes a count. *)

\* Either nobody finishes, or one context does.
Finishes(c) ==
  /\ glFinishCount' = [glFinishCount EXCEPT ![c] = @ + 1]
  /\ done' = [done EXCEPT ![c] = issued[c]]
Counts == UNCHANGED <<glFinishCount, done>> \/ \E c \in Contexts : Finishes(c)

LEMMA OnlyFinishCounts ==
  ASSUME TypeOK, Waiting, [Next]_vars
  PROVE  Counts
<1> USE DEF Counts, Finishes
<1>1. CASE UNCHANGED vars
  BY <1>1 DEF vars
<1>2. ASSUME NEW t \in Threads, Wait(t) PROVE Counts
  BY <1>2 DEF Wait
<1>3. ASSUME NEW t \in Threads, WaitStep(t) PROVE Counts
  <2>1. CASE Ask(t) BY <2>1 DEF Ask, glState
  <2>2. CASE FinishHere(t)
    BY <2>2 DEF FinishHere, Finish, Waiting
  <2>3. CASE Mark(t) BY <2>3 DEF Mark
  <2>4. CASE Post(t) BY <2>4 DEF Post
  <2>5. CASE Check(t) BY <2>5 DEF Check
  <2>6. CASE Sleep(t) BY <2>6 DEF Sleep
  <2>7. CASE Serve(t)
    BY <2>7 DEF Serve, Finish, Current, Waiting
  <2>8. CASE Unmark(t) BY <2>8 DEF Unmark
  <2> QED BY <1>3, <2>1, <2>2, <2>3, <2>4, <2>5, <2>6, <2>7, <2>8 DEF WaitStep
<1>4. ASSUME NEW c \in Contexts, CreateSyncToken(c) PROVE Counts
  BY <1>4 DEF CreateSyncToken
<1>5. ASSUME NEW c \in Contexts, RunFinishTask(c) PROVE Counts
  BY <1>5 DEF RunFinishTask, Finish
<1> QED
  BY <1>1, <1>2, <1>3, <1>4, <1>5 DEF Next

\* Counts only grow.
LEMMA CountsGrow ==
  ASSUME TypeOK, Counts
  PROVE  /\ glFinishCount' \in [Contexts -> Nat]
         /\ \A c \in Contexts : glFinishCount'[c] >= glFinishCount[c]
<1>1. glFinishCount \in [Contexts -> Nat]
  BY DEF TypeOK
<1>2. CASE UNCHANGED <<glFinishCount, done>>
  BY <1>1, <1>2
<1>3. ASSUME NEW c \in Contexts, Finishes(c)
      PROVE  /\ glFinishCount' \in [Contexts -> Nat]
             /\ \A d \in Contexts : glFinishCount'[d] >= glFinishCount[d]
  BY <1>1, <1>3 DEF Finishes
<1> QED
  BY <1>2, <1>3 DEF Counts

-----------------------------------------------------------------------------
(* Every step keeps each part of the invariant. *)

LEMMA InitEstablishes == Init => IInv
<1> SUFFICES ASSUME Init PROVE IInv
  OBVIOUS
<1>1. TypeOK
  BY DEF Init, TypeOK, Threads, Labels
<1>2. CountersTyped /\ Reached /\ Requested /\ Waiting
  BY DEF Init, CountersTyped, Reached, Requested, Waiting
<1> QED
  BY <1>1, <1>2 DEF IInv

(* TypeOK in three parts. *)
VariablesTyped ==
  /\ glFinishCount \in [Contexts -> Nat] /\ glFinishCountTarget \in [Contexts -> Nat]
  /\ mutex \in [Contexts -> Threads \cup {None}]
  /\ asleep \in [Contexts -> SUBSET Threads]
  /\ pc \in [Threads -> Labels]
  /\ tokens \subseteq Token
  /\ jobs \in [Contexts -> Seq(Nat)]
  /\ token \in [Threads -> Token \cup {None}]
  /\ contextWaitingOn \in [Contexts -> Contexts \cup {None}]
TokensNoted ==
  \A t \in Threads : IF pc[t] = "idle" THEN token[t] = None ELSE token[t] \in tokens
Blocked == {"post", "lock", "sleep", "asleep", "serve", "unmark"}
BlockedNoted ==
  \A c \in Contexts :
    contextWaitingOn[c] = IF pc[c] \in Blocked THEN token[c].context ELSE None

LEMMA TypeParts == TypeOK <=> VariablesTyped /\ TokensNoted /\ BlockedNoted
  BY DEF TypeOK, VariablesTyped, TokensNoted, BlockedNoted, Blocked

\* What the actions of a thread rely on.
LEMMA Names ==
  /\ Contexts \subseteq Threads /\ None \notin Threads
  /\ \A t \in Threads : t \in Contexts \/ t \notin Contexts
  BY GlAssumption DEF Threads

LEMMA TokenOfWaiter ==
  ASSUME TypeOK, NEW t \in Threads, pc[t] # "idle"
  PROVE  token[t].context \in Contexts /\ token[t].count \in Nat
  BY DEF TypeOK, Token

\* What Finish changes, in a step where it may be called.
LEMMA FinishTyped ==
  ASSUME TypeOK, CountersTyped, NEW c \in Contexts,
         Finish(c) \/ UNCHANGED <<done, glFinishCount, asleep>>
  PROVE  /\ glFinishCount' \in [Contexts -> Nat]
         /\ done' \in [Contexts -> Nat]
         /\ asleep' \in [Contexts -> SUBSET Threads]
<1> USE DEF TypeOK, CountersTyped
<1>1. CASE Finish(c)
  BY <1>1 DEF Finish, SignalAll
<1>2. CASE UNCHANGED <<done, glFinishCount, asleep>>
  BY <1>2
<1> QED
  BY <1>1, <1>2

(* The variables keep their types. *)
LEMMA VariablesKept ==
  ASSUME TypeOK, CountersTyped, Waiting, [Next]_vars
  PROVE  VariablesTyped' /\ CountersTyped'
<1> DEFINE Typed == VariablesTyped' /\ CountersTyped'
<1>0. VariablesTyped
  BY TypeParts
<1> USE <1>0, Names
    DEF VariablesTyped, CountersTyped, GoTo, SignalAll, Return, Current, Labels, glState
<1>1. CASE UNCHANGED vars
  BY <1>1 DEF vars
<1>2. ASSUME NEW t \in Threads, Wait(t) PROVE Typed
  BY <1>2 DEF Wait
<1>3. ASSUME NEW t \in Threads, Ask(t) PROVE Typed
  <2>1. token[t].context \in Contexts /\ token[t].count \in Nat
    BY <1>3, TokenOfWaiter DEF Ask
  <2> QED
    BY SMTT(30), <1>3, <2>1 DEF Ask, IsCurrent
<1>4. ASSUME NEW t \in Threads, FinishHere(t) PROVE Typed
  <2>1. token[t].context \in Contexts
    BY <1>4, TokenOfWaiter DEF FinishHere
  <2>2. Finish(token[t].context) \/ UNCHANGED <<done, glFinishCount, asleep>>
    BY <1>4 DEF FinishHere
  <2>3. /\ glFinishCount' \in [Contexts -> Nat]
        /\ done' \in [Contexts -> Nat]
        /\ asleep' \in [Contexts -> SUBSET Threads]
    BY <2>1, <2>2, FinishTyped
  <2> QED
    BY <1>4, <2>3 DEF FinishHere
<1>5. ASSUME NEW t \in Threads, Mark(t) PROVE Typed
  <2>1. t \in Contexts /\ token[t].context \in Contexts
    BY <1>5, TokenOfWaiter DEF Mark, Waiting
  <2> QED
    BY <1>5, <2>1 DEF Mark
<1>6. ASSUME NEW t \in Threads, Post(t) PROVE Typed
  <2>1. token[t].context \in Contexts /\ token[t].count \in Nat
    BY <1>6, TokenOfWaiter DEF Post
  <2>2. jobs' \in [Contexts -> Seq(Nat)]
    BY <1>6, <2>1 DEF Post
  <2> QED
    BY <1>6, <2>2 DEF Post
<1>7. ASSUME NEW t \in Threads, Check(t) PROVE Typed
  <2> DEFINE c == token[t].context
  <2>1. c \in Contexts /\ pc[t] # "idle"
    BY <1>7, TokenOfWaiter DEF Check
  <2>2. mutex' \in [Contexts -> Threads \cup {None}]
    <3>1. mutex' = mutex \/ mutex' = [mutex EXCEPT ![c] = t]
      BY <1>7 DEF Check
    <3> QED
      BY <2>1, <3>1
  <2>3. pc' \in [Threads -> Labels] /\ token' \in [Threads -> Token \cup {None}]
    BY ZenonT(30), <1>7 DEF Check
  <2> QED
    BY <1>7, <2>2, <2>3 DEF Check
<1>8. ASSUME NEW t \in Threads, Sleep(t) PROVE Typed
  BY <1>8 DEF Sleep
<1>9. ASSUME NEW t \in Threads, Serve(t) PROVE Typed
  <2>1. Current(t) \in Contexts /\ Finish(Current(t))
    BY <1>9 DEF Serve, Waiting
  <2>2. /\ glFinishCount' \in [Contexts -> Nat]
        /\ done' \in [Contexts -> Nat]
        /\ asleep' \in [Contexts -> SUBSET Threads]
    BY <2>1, FinishTyped
  <2> QED
    BY <1>9, <2>2 DEF Serve
<1>10. ASSUME NEW t \in Threads, Unmark(t) PROVE Typed
  BY <1>10 DEF Unmark
<1>11. ASSUME NEW c \in Contexts, CreateSyncToken(c) PROVE Typed
  BY SMTT(30), <1>11 DEF CreateSyncToken, Token
<1>12. ASSUME NEW c \in Contexts, RunFinishTask(c) PROVE Typed
  <2>1. jobs' \in [Contexts -> Seq(Nat)]
    BY <1>12 DEF RunFinishTask
  <2>2. Finish(c) \/ UNCHANGED <<done, glFinishCount, asleep>>
    BY <1>12 DEF RunFinishTask
  <2>3. /\ glFinishCount' \in [Contexts -> Nat]
        /\ done' \in [Contexts -> Nat]
        /\ asleep' \in [Contexts -> SUBSET Threads]
    BY <2>2, FinishTyped
  <2> QED
    BY <1>12, <2>1, <2>3 DEF RunFinishTask
<1> QED
  BY <1>1, <1>2, <1>3, <1>4, <1>5, <1>6, <1>7, <1>8, <1>9, <1>10, <1>11, <1>12
  DEF Next, WaitStep

(* A thread has a token while it waits, and its context says what it is blocked on. *)
LEMMA NotesKept ==
  ASSUME TypeOK, Waiting, [Next]_vars
  PROVE  TokensNoted' /\ BlockedNoted'
<1> DEFINE Noted == TokensNoted' /\ BlockedNoted'
<1>0. TokensNoted /\ BlockedNoted /\ VariablesTyped
  BY TypeParts
<1> USE <1>0, Names
    DEF VariablesTyped, TokensNoted, BlockedNoted, GoTo, Return, Current, Labels, Blocked, glState
<1>1. CASE UNCHANGED vars
  BY <1>1 DEF vars
<1>2. ASSUME NEW t \in Threads, Wait(t) PROVE Noted
  BY <1>2 DEF Wait
<1>3. ASSUME NEW t \in Threads, Ask(t) PROVE Noted
  BY <1>3 DEF Ask, IsCurrent
<1>4. ASSUME NEW t \in Threads, FinishHere(t) PROVE Noted
  BY <1>4 DEF FinishHere
<1>5. ASSUME NEW t \in Threads, Mark(t) PROVE Noted
  BY <1>5 DEF Mark, Waiting
<1>6. ASSUME NEW t \in Threads, Post(t) PROVE Noted
  BY <1>6 DEF Post
<1>7. ASSUME NEW t \in Threads, Check(t) PROVE Noted
  <2>1. CASE Passed(token[t]) /\ Current(t) # None
    BY ZenonT(30), <1>7, <2>1 DEF Check
  <2>2. CASE Passed(token[t]) /\ Current(t) = None
    <3>1. t \notin Contexts
      BY <2>2
    <3>2. pc' = [pc EXCEPT ![t] = "idle"] /\ token' = [token EXCEPT ![t] = None]
      BY <1>7, <2>2 DEF Check
    <3>3. tokens' = tokens /\ contextWaitingOn' = contextWaitingOn
      BY <1>7 DEF Check
    <3>4. \A c \in Contexts : pc'[c] = pc[c] /\ token'[c] = token[c]
      BY <3>1, <3>2
    <3>5. BlockedNoted'
      BY <3>3, <3>4
    <3>6. TokensNoted'
      BY <3>2, <3>3
    <3> QED
      BY <3>5, <3>6
  <2>3. CASE ~Passed(token[t]) /\ IsAsked(t)
    BY ZenonT(30), <1>7, <2>3 DEF Check
  <2>4. CASE ~Passed(token[t]) /\ ~IsAsked(t)
    <3>1. pc' = [pc EXCEPT ![t] = "sleep"] /\ pc[t] \in {"lock", "asleep"}
      BY <1>7, <2>4 DEF Check
    <3>2. UNCHANGED <<token, tokens, contextWaitingOn>>
      BY <1>7, <2>4 DEF Check
    <3> QED
      BY <3>1, <3>2
  <2> QED
    BY <2>1, <2>2, <2>3, <2>4
<1>8. ASSUME NEW t \in Threads, Sleep(t) PROVE Noted
  BY <1>8 DEF Sleep
<1>9. ASSUME NEW t \in Threads, Serve(t) PROVE Noted
  BY <1>9 DEF Serve
<1>10. ASSUME NEW t \in Threads, Unmark(t) PROVE Noted
  BY <1>10 DEF Unmark, Waiting
<1>11. ASSUME NEW c \in Contexts, CreateSyncToken(c) PROVE Noted
  BY <1>11 DEF CreateSyncToken
<1>12. ASSUME NEW c \in Contexts, RunFinishTask(c) PROVE Noted
  BY <1>12 DEF RunFinishTask, Finish
<1> QED
  BY <1>1, <1>2, <1>3, <1>4, <1>5, <1>6, <1>7, <1>8, <1>9, <1>10, <1>11, <1>12
  DEF Next, WaitStep

LEMMA TypesKept ==
  ASSUME TypeOK, CountersTyped, Waiting, [Next]_vars
  PROVE  TypeOK' /\ CountersTyped'
<1>1. TypeOK' <=> VariablesTyped' /\ TokensNoted' /\ BlockedNoted'
  BY DEF TypeOK, VariablesTyped, TokensNoted, BlockedNoted, Blocked
<1> QED
  BY <1>1, VariablesKept, NotesKept

\* Only CreateSyncToken gives commands and makes tokens.
LEMMA OnlyDrawsIssue ==
  ASSUME [Next]_vars
  PROVE  UNCHANGED <<tokens, issued>> \/ \E c \in Contexts : CreateSyncToken(c)
<1> DEFINE Same == UNCHANGED <<tokens, issued>>
<1>1. CASE UNCHANGED vars
  BY <1>1 DEF vars
<1>2. ASSUME NEW t \in Threads, Wait(t) PROVE Same
  BY <1>2 DEF Wait
<1>3. ASSUME NEW t \in Threads, WaitStep(t) PROVE Same
  BY <1>3 DEF WaitStep, Ask, FinishHere, Mark, Post, Check, Sleep, Serve, Unmark, glState
<1>4. ASSUME NEW c \in Contexts, RunFinishTask(c) PROVE Same
  BY <1>4 DEF RunFinishTask, glState
<1> QED
  BY <1>1, <1>2, <1>3, <1>4 DEF Next

\* A glFinish after a token comes after the commands of that token.
LEMMA ReachedKept ==
  ASSUME TypeOK, CountersTyped, Reached, Waiting, [Next]_vars
  PROVE  Reached'
<1> USE DEF Reached, Passed
<1>0. /\ glFinishCount \in [Contexts -> Nat] /\ tokens \subseteq Token
      /\ issued \in [Contexts -> Nat] /\ done \in [Contexts -> Nat]
  BY DEF TypeOK, CountersTyped
<1>1. ASSUME NEW c \in Contexts, CreateSyncToken(c) PROVE Reached'
  <2> DEFINE new == [context |-> c, count |-> glFinishCount[c], work |-> issued[c] + 1]
  <2>1. /\ UNCHANGED <<glFinishCount, done>>
        /\ tokens' = tokens \cup {new}
        /\ issued' = [issued EXCEPT ![c] = @ + 1]
    BY <1>1 DEF CreateSyncToken
  <2>2. ASSUME NEW tok \in tokens
        PROVE  /\ tok.count <= glFinishCount'[tok.context]
               /\ tok.work <= issued'[tok.context]
               /\ glFinishCount'[tok.context] > tok.count => done'[tok.context] >= tok.work
    BY <1>0, <2>1, <2>2 DEF Token
  <2>3. /\ new.count <= glFinishCount'[new.context]
        /\ new.work <= issued'[new.context]
        /\ ~(glFinishCount'[new.context] > new.count)
    BY <1>0, <2>1
  <2> QED
    BY <2>1, <2>2, <2>3
<1>2. CASE UNCHANGED <<tokens, issued>> /\ UNCHANGED <<glFinishCount, done>>
  BY <1>2
<1>3. ASSUME NEW c \in Contexts, Finishes(c), UNCHANGED <<tokens, issued>> PROVE Reached'
  <2> SUFFICES ASSUME NEW tok \in tokens
               PROVE  /\ tok.count <= glFinishCount'[tok.context]
                      /\ tok.work <= issued'[tok.context]
                      /\ glFinishCount'[tok.context] > tok.count => done'[tok.context] >= tok.work
    BY <1>3
  <2>1. CASE tok.context = c
    BY <1>0, <1>3, <2>1 DEF Finishes, Token
  <2>2. CASE tok.context # c
    BY <1>0, <1>3, <2>2 DEF Finishes, Token
  <2> QED
    BY <2>1, <2>2
<1>4. Counts
  BY OnlyFinishCounts
<1> QED
  BY <1>1, <1>2, <1>3, <1>4, OnlyDrawsIssue DEF Counts

\* Nobody is asked for more than one glFinish past what was reached.
LEMMA RequestedKept ==
  ASSUME TypeOK, CountersTyped, Reached, Requested, Waiting, [Next]_vars
  PROVE  Requested'
<1> DEFINE Jobs(c) == \A i \in 1..Len(jobs'[c]) : jobs'[c][i] <= glFinishCount[c]
           Asked(c) == glFinishCountTarget'[c] <= glFinishCount[c] + 1
           Same == UNCHANGED <<glFinishCountTarget, jobs>>
<1>0. /\ glFinishCount \in [Contexts -> Nat] /\ glFinishCountTarget \in [Contexts -> Nat]
      /\ jobs \in [Contexts -> Seq(Nat)]
  BY DEF TypeOK
<1>2. ASSUME NEW t \in Threads, pc[t] # "idle"
      PROVE  /\ token[t].context \in Contexts /\ token[t].count \in Nat
             /\ token[t].count <= glFinishCount[token[t].context]
  BY <1>2, TokenOfWaiter DEF TypeOK, Reached
<1>3. ASSUME NEW t \in Threads, Ask(t) PROVE \A c \in Contexts : Asked(c) /\ Jobs(c)
  <2> DEFINE d == token[t].context
             target == token[t].count + 1
  <2>1. d \in Contexts /\ token[t].count \in Nat /\ token[t].count <= glFinishCount[d]
    BY <1>2, <1>3 DEF Ask
  <2>2. /\ jobs' = jobs
        /\ glFinishCountTarget' = [glFinishCountTarget EXCEPT
                                    ![d] = IF @ < target THEN target ELSE @]
    BY <1>3 DEF Ask
  <2>3. target <= glFinishCount[d] + 1 /\ glFinishCount[d] \in Nat
    BY <1>0, <2>1
  <2> HIDE DEF d, target
  <2>4. \A c \in Contexts : Asked(c)
    BY <1>0, <2>2, <2>3 DEF Requested
  <2> QED
    BY <2>2, <2>4 DEF Requested
<1>4. ASSUME NEW t \in Threads, Post(t) PROVE \A c \in Contexts : Asked(c) /\ Jobs(c)
  <2> DEFINE d == token[t].context
             n == token[t].count
  <2>1. d \in Contexts /\ n \in Nat /\ n <= glFinishCount[d]
    BY <1>2, <1>4 DEF Post
  <2>2. glFinishCountTarget' = glFinishCountTarget /\ jobs' = [jobs EXCEPT ![d] = Append(@, n)]
    BY <1>4 DEF Post
  <2> HIDE DEF d, n
  <2>3. ASSUME NEW c \in Contexts PROVE Jobs(c)
    <3>1. CASE c = d
      <4>1. jobs[d] \in Seq(Nat) /\ jobs'[c] = Append(jobs[d], n)
        BY <1>0, <2>1, <2>2, <3>1
      <4>2. \A i \in 1..Len(jobs[d]) : jobs[d][i] <= glFinishCount[d]
        BY <2>1 DEF Requested
      <4> QED
        BY <2>1, <3>1, <4>1, <4>2
    <3>2. CASE c # d
      BY <1>0, <2>2, <3>2 DEF Requested
    <3> QED
      BY <3>1, <3>2
  <2> QED
    BY <2>2, <2>3 DEF Requested
<1>5. ASSUME NEW d \in Contexts, RunFinishTask(d) PROVE \A c \in Contexts : Asked(c) /\ Jobs(c)
  <2>1. /\ glFinishCountTarget' = glFinishCountTarget
        /\ jobs[d] # <<>> /\ jobs' = [jobs EXCEPT ![d] = Tail(@)]
    BY <1>5 DEF RunFinishTask
  <2>2. ASSUME NEW c \in Contexts PROVE Jobs(c)
    <3>1. CASE c = d
      <4>1. jobs[d] \in Seq(Nat) /\ jobs[d] # <<>> /\ jobs'[c] = Tail(jobs[d])
        BY <1>0, <2>1, <3>1
      <4>2. \A i \in 1..Len(jobs[d]) : jobs[d][i] <= glFinishCount[d]
        BY DEF Requested
      <4>3. Len(Tail(jobs[d])) = Len(jobs[d]) - 1 /\ Len(jobs[d]) \in Nat
        BY <4>1
      <4>4. \A i \in 1..Len(Tail(jobs[d])) : Tail(jobs[d])[i] = jobs[d][i + 1]
        BY <4>1
      <4> QED
        BY <3>1, <4>1, <4>2, <4>3, <4>4
    <3>2. CASE c # d
      BY <1>0, <2>1, <3>2 DEF Requested
    <3> QED
      BY <3>1, <3>2
  <2> QED
    BY <2>1, <2>2 DEF Requested
<1>6. Same \/ \A c \in Contexts : Asked(c) /\ Jobs(c)
  <2>1. CASE UNCHANGED vars
    BY <2>1 DEF vars
  <2>2. ASSUME NEW t \in Threads, Wait(t) PROVE Same
    BY <2>2 DEF Wait
  <2>3. ASSUME NEW t \in Threads, WaitStep(t) PROVE Ask(t) \/ Post(t) \/ Same
    BY <2>3 DEF WaitStep, FinishHere, Mark, Check, Sleep, Serve, Unmark
  <2>4. ASSUME NEW c \in Contexts, CreateSyncToken(c) PROVE Same
    BY <2>4 DEF CreateSyncToken
  <2> QED
    BY <1>3, <1>4, <1>5, <2>1, <2>2, <2>3, <2>4 DEF Next
<1>7. \A c \in Contexts : Asked(c) /\ Jobs(c)
  BY <1>6 DEF Requested
<1>8. /\ glFinishCount' \in [Contexts -> Nat]
      /\ \A c \in Contexts : glFinishCount'[c] >= glFinishCount[c]
  BY OnlyFinishCounts, CountsGrow
<1>9. glFinishCountTarget' \in [Contexts -> Nat] /\ jobs' \in [Contexts -> Seq(Nat)]
  BY VariablesKept DEF VariablesTyped
<1>10. ASSUME NEW c \in Contexts
       PROVE  /\ glFinishCountTarget'[c] <= glFinishCount'[c] + 1
              /\ \A i \in 1..Len(jobs'[c]) : jobs'[c][i] <= glFinishCount'[c]
  <2>1. Asked(c) /\ Jobs(c) /\ glFinishCount'[c] >= glFinishCount[c]
    BY <1>7, <1>8
  <2>2. /\ glFinishCount[c] \in Nat /\ glFinishCount'[c] \in Nat
        /\ glFinishCountTarget'[c] \in Nat /\ jobs'[c] \in Seq(Nat)
    BY <1>0, <1>8, <1>9
  <2> QED
    BY <2>1, <2>2
<1> QED
  BY <1>10 DEF Requested

\* What a thread knows of its wait stays true: its token is kept and counts grow.
KnownOf(t) ==
  /\ pc[t] = "finish" => t \in Contexts /\ token[t].context = t
  /\ pc[t] \in {"mark", "serve", "unmark"} => t \in Contexts
  /\ pc[t] = "unmark" => Passed(token[t])

LEMMA PassedStays ==
  ASSUME TypeOK, Waiting, [Next]_vars, NEW t \in Threads, pc[t] # "idle",
         Passed(token[t]), token'[t] = token[t]
  PROVE  Passed(token[t])'
<1>1. token[t].context \in Contexts /\ token[t].count \in Nat
  BY TokenOfWaiter
<1>2. /\ glFinishCount' \in [Contexts -> Nat]
      /\ \A c \in Contexts : glFinishCount'[c] >= glFinishCount[c]
  BY OnlyFinishCounts, CountsGrow
<1> QED
  BY <1>1, <1>2 DEF TypeOK, Passed

LEMMA WaitingKept ==
  ASSUME TypeOK, Waiting, [Next]_vars
  PROVE  Waiting'
<1> DEFINE Same(t) == pc'[t] = pc[t] /\ token'[t] = token[t]
<1>0. pc \in [Threads -> Labels] /\ token \in [Threads -> Token \cup {None}]
  BY DEF TypeOK
<1> USE DEF GoTo, Return, Current, glState
<1>1. ASSUME NEW t \in Threads, Same(t) PROVE KnownOf(t)'
  BY <1>1, PassedStays DEF KnownOf, Waiting
<1>2. ASSUME NEW t \in Threads, Wait(t) \/ WaitStep(t), NEW u \in Threads, u # t PROVE Same(u)
  <2>1. CASE Wait(t)
    BY <1>0, <1>2, <2>1 DEF Wait
  <2>2. CASE Ask(t) \/ FinishHere(t) \/ Mark(t) \/ Post(t) \/ Sleep(t) \/ Serve(t) \/ Unmark(t)
    BY <1>0, <1>2, <2>2 DEF Ask, FinishHere, Mark, Post, Sleep, Serve, Unmark
  <2>3. CASE Check(t)
    BY <1>0, <1>2, <2>3 DEF Check
  <2> QED
    BY <1>2, <2>1, <2>2, <2>3 DEF WaitStep
<1>3. ASSUME NEW t \in Threads, Wait(t) PROVE KnownOf(t)'
  BY <1>0, <1>3 DEF Wait, KnownOf
<1>4. ASSUME NEW t \in Threads, Ask(t) PROVE KnownOf(t)'
  <2>1. token[t].context \in Contexts /\ token' = token
    BY <1>4, TokenOfWaiter DEF Ask
  <2>2. pc'[t] = IF IsCurrent(t, token[t].context) THEN "finish"
                 ELSE IF Current(t) # None THEN "mark" ELSE "post"
    BY <1>0, <1>4 DEF Ask
  <2>3. pc'[t] = "finish" => t \in Contexts /\ token[t].context = t
    BY <2>1, <2>2, GlAssumption DEF IsCurrent
  <2>4. pc'[t] = "mark" => t \in Contexts
    BY <2>2
  <2>5. pc'[t] \in {"finish", "mark", "post"}
    BY <2>2
  <2> QED
    BY <2>1, <2>3, <2>4, <2>5 DEF KnownOf
<1>5. ASSUME NEW t \in Threads,
             FinishHere(t) \/ Mark(t) \/ Post(t) \/ Sleep(t) \/ Serve(t) \/ Unmark(t)
      PROVE  KnownOf(t)'
  <2>1. pc'[t] \in {"idle", "post", "lock", "asleep"}
    BY <1>0, <1>5 DEF FinishHere, Mark, Post, Sleep, Serve, Unmark
  <2> QED
    BY <2>1 DEF KnownOf
<1>6. ASSUME NEW t \in Threads, Check(t) PROVE KnownOf(t)'
  <2>0. pc[t] # "idle"
    BY <1>6 DEF Check
  <2>1. CASE Passed(token[t]) /\ Current(t) # None
    <3>1. pc'[t] = "unmark" /\ token' = token /\ t \in Contexts
      BY <1>0, <1>6, <2>1 DEF Check
    <3>2. Passed(token[t])'
      BY <2>0, <2>1, <3>1, PassedStays
    <3> QED
      BY <3>1, <3>2 DEF KnownOf
  <2>2. CASE Passed(token[t]) /\ Current(t) = None
    <3>1. pc'[t] = "idle"
      BY <1>0, <1>6, <2>2 DEF Check
    <3> QED
      BY <3>1 DEF KnownOf
  <2>3. CASE ~Passed(token[t]) /\ IsAsked(t)
    <3>1. pc'[t] = "serve" /\ t \in Contexts
      BY <1>0, <1>6, <2>3 DEF Check, IsAsked
    <3> QED
      BY <3>1 DEF KnownOf
  <2>4. CASE ~Passed(token[t]) /\ ~IsAsked(t)
    <3>1. pc'[t] = "sleep"
      BY <1>0, <1>6, <2>4 DEF Check
    <3> QED
      BY <3>1 DEF KnownOf
  <2> QED
    BY <2>1, <2>2, <2>3, <2>4
<1>7. ASSUME NEW t \in Threads, Wait(t) \/ WaitStep(t) PROVE \A u \in Threads : KnownOf(u)'
  <2>1. KnownOf(t)'
    BY <1>3, <1>4, <1>5, <1>6, <1>7 DEF WaitStep
  <2>2. ASSUME NEW u \in Threads, u # t PROVE KnownOf(u)'
    BY <1>1, <1>2, <1>7, <2>2
  <2> QED
    BY <2>1, <2>2
<1>8. CASE UNCHANGED <<pc, token>>
  BY <1>1, <1>8 DEF Waiting, KnownOf
<1>9. ASSUME NEW c \in Contexts, CreateSyncToken(c) \/ RunFinishTask(c)
      PROVE  UNCHANGED <<pc, token>>
  BY <1>9 DEF CreateSyncToken, RunFinishTask
<1>10. UNCHANGED vars => UNCHANGED <<pc, token>>
  BY DEF vars
<1>11. Waiting' <=> \A u \in Threads : KnownOf(u)'
  BY DEF Waiting, KnownOf
<1> QED
  BY <1>7, <1>8, <1>9, <1>10, <1>11 DEF Next

-----------------------------------------------------------------------------
(* The theorems. *)

LEMMA InvarianceStep == IInv /\ [Next]_vars => IInv'
  BY TypesKept, ReachedKept, RequestedKept, WaitingKept DEF IInv

LEMMA Invariance == Spec => []IInv
  BY InitEstablishes, InvarianceStep, PTL DEF Spec

\* The variables have their types, a thread that waits keeps the token it waits
\* for, and a context notes what it is blocked on exactly while it is
\* (WaitForGlFinishCountPast).
THEOREM TypeCorrect == Spec => []TypeOK
<1>1. IInv => TypeOK
  BY DEF IInv
<1> QED
  BY <1>1, Invariance, PTL

\* A wait returns only when the count is past its own.
LEMMA ReturnsPassed ==
  ASSUME IInv, [Next]_vars, NEW t \in Threads, pc[t] # "idle", pc'[t] = "idle"
  PROVE  glFinishCount'[token[t].context] > token[t].count
<1> DEFINE d == token[t].context
           n == token[t].count
<1>1. d \in Contexts /\ n \in Nat /\ n <= glFinishCount[d]
  BY TokenOfWaiter DEF IInv, TypeOK, Reached
<1>2. glFinishCount \in [Contexts -> Nat] /\ pc \in [Threads -> Labels]
  BY DEF IInv, TypeOK
<1>3. CASE Passed(token[t])
  <2>1. /\ glFinishCount' \in [Contexts -> Nat]
        /\ \A c \in Contexts : glFinishCount'[c] >= glFinishCount[c]
    BY OnlyFinishCounts, CountsGrow DEF IInv
  <2> QED
    BY <1>1, <1>2, <1>3, <2>1 DEF Passed
<1>4. CASE FinishHere(t)
  <2>1. CASE glFinishCount[d] = n
    <3>1. glFinishCount' = [glFinishCount EXCEPT ![d] = @ + 1]
      BY <1>4, <2>1 DEF FinishHere, Finish
    <3> QED
      BY <1>1, <1>2, <2>1, <3>1
  <2>2. CASE glFinishCount[d] # n
    <3>1. glFinishCount' = glFinishCount
      BY <1>4, <2>2 DEF FinishHere
    <3> QED
      BY <1>1, <1>2, <2>2, <3>1
  <2> QED
    BY <2>1, <2>2
<1>5. Passed(token[t]) \/ FinishHere(t)
  <2> USE <1>2 DEF GoTo, Return, glState
  <2>1. ASSUME NEW u \in Threads, Wait(u) PROVE FALSE
    BY <2>1 DEF Wait
  <2>2. ASSUME NEW u \in Threads, WaitStep(u) PROVE u = t
    <3>1. CASE Check(u)
      BY <3>1 DEF Check
    <3>2. CASE ~Check(u)
      BY <2>2, <3>2 DEF WaitStep, Ask, FinishHere, Mark, Post, Sleep, Serve, Unmark
    <3> QED
      BY <3>1, <3>2
  <2>3. ASSUME Ask(t) \/ Mark(t) \/ Post(t) \/ Sleep(t) \/ Serve(t) PROVE FALSE
    BY <2>3 DEF Ask, Mark, Post, Sleep, Serve
  <2>4. CASE Unmark(t)
    BY <2>4 DEF Unmark, IInv, Waiting
  <2>5. CASE Check(t)
    BY <2>5 DEF Check
  <2>6. ASSUME NEW c \in Contexts, CreateSyncToken(c) \/ RunFinishTask(c) PROVE FALSE
    BY <2>6 DEF CreateSyncToken, RunFinishTask
  <2>7. ~UNCHANGED vars
    BY DEF vars
  <2> QED
    BY <2>1, <2>2, <2>3, <2>4, <2>5, <2>6, <2>7 DEF Next, WaitStep
<1> QED
  BY <1>3, <1>4, <1>5

\* A sync token is reached, and a wait for it returns, only when the GPU has
\* executed what it stands for; no request or finish task names a count that was
\* not reached (GlFinishSyncPoint, WaitForGlFinishCountPast).
THEOREM WaitsAreSound == Spec => WaitsSound
<1> DEFINE Sound ==
      /\ \A tok \in tokens' : Passed(tok)' => done'[tok.context] >= tok.work
      /\ \A t \in Threads : pc[t] # "idle" /\ pc'[t] = "idle" =>
           glFinishCount'[token[t].context] > token[t].count
      /\ \A c \in Contexts :
           /\ glFinishCountTarget'[c] <= glFinishCount'[c] + 1
           /\ \A i \in 1..Len(jobs'[c]) : jobs'[c][i] <= glFinishCount'[c]
<1>1. ASSUME IInv, IInv', [Next]_vars PROVE Sound
  <2>1. \A tok \in tokens' : Passed(tok)' => done'[tok.context] >= tok.work
    BY <1>1 DEF IInv, Reached, Passed
  <2>2. \A t \in Threads : pc[t] # "idle" /\ pc'[t] = "idle" =>
          glFinishCount'[token[t].context] > token[t].count
    BY <1>1, ReturnsPassed
  <2>3. \A c \in Contexts :
          /\ glFinishCountTarget'[c] <= glFinishCount'[c] + 1
          /\ \A i \in 1..Len(jobs'[c]) : jobs'[c][i] <= glFinishCount'[c]
    BY <1>1 DEF IInv, Requested
  <2> QED
    BY <2>1, <2>2, <2>3
<1>2. IInv /\ IInv' /\ [Next]_vars => [Sound]_vars
  BY <1>1
<1> QED
  BY <1>2, Invariance, PTL DEF Spec, WaitsSound

-----------------------------------------------------------------------------
(* TextureFrames: the inductive invariant.                                 *)

Messages == [kind : {"renderNext", "setSurfaceTexture"}, of : Surfaces]
            \cup [kind : {"teardownFrame"}, of : Frames]
Tokens == {NoToken} \cup {TokenFor(s) : s \in SUBSET Readers}

Typed ==
  /\ TexturesTyped
  /\ posts \in Seq(Messages) /\ framesAvailable \in Seq(Frames)
  /\ bufferPoolSize \in PoolSizes \cup {FirstPoolSize}
  /\ bufferPoolMaxSize \in MaxSizes \cup {FirstMaxSize}
  /\ nextFrameTimestampOffset \in Int /\ (previousTimestamp = -1 => nextFrameTimestampOffset = 0)
  /\ releaseSyncToken \in [Frames -> Tokens]
  /\ consumerSync \in [Frames -> SUBSET Readers] /\ gpuReads \in [Frames -> SUBSET Readers]
  /\ (Rendering => todo # <<>>)
  /\ lost \subseteq exists /\ IsFiniteSet(exists)

\* A texture is in one place.
Once ==
  /\ \A i, j \in 1 .. Len(framesAvailable) : framesAvailable[i] = framesAvailable[j] => i = j
  /\ \A i, j \in 1 .. Len(posts) :
       posts[i] = posts[j] /\ posts[i].kind = "teardownFrame" => i = j
Out == held \cup releasing \cup lost \cup frame
Placed ==
  /\ held \cap releasing = {} /\ lost \cap (held \cup releasing) = {}
  /\ frame \cap (held \cup releasing \cup lost) = {}
  /\ Available \cap Out = {} /\ Doomed \cap (Out \cup Available) = {}
  /\ Available \cup Doomed \subseteq exists

\* framesInUse counts the textures that are out, within the sizes that were set.
Counted ==
  /\ framesInUse = Cardinality(Out)
  /\ framesAvailable # <<>> =>
       \E n \in PoolSizes \cup {FirstPoolSize} : Len(framesAvailable) + framesInUse <= n
  /\ 0 \notin MaxSizes \cup {FirstMaxSize} =>
       \E n \in PoolSizes \cup MaxSizes \cup {FirstPoolSize, FirstMaxSize} : framesInUse <= n

\* The release token of a texture stands for all reads that are still to be done.
TokenCovers(f) ==
  /\ releaseSyncToken[f] = NoToken => gpuReads[f] = {}
  /\ \A contexts \in releaseSyncToken[f] : gpuReads[f] \subseteq contexts
ReadsKnown ==
  /\ \A f \in held : gpuReads[f] \subseteq consumerSync[f]
  /\ \A f \in releasing : releaseSyncToken[f] # NoToken /\ TokenCovers(f)
  /\ \A f \in Available : TokenCovers(f) /\ (inUse[f] => releaseSyncToken[f] # NoToken)
  /\ \A f \in frame :
       /\ stage \in {"update", "give", "return"} => gpuReads[f] = {}
       /\ stage = "wait" => TokenCovers(f)
       /\ stage \in {"wait", "return"} => (inUse[f] => releaseSyncToken[f] # NoToken)

TextureIInv == Typed /\ Once /\ Placed /\ Counted /\ ReadsKnown

-----------------------------------------------------------------------------
(* Sequences of textures and of messages. *)

LEMMA Minimum ==
  ASSUME NEW S \in SUBSET Nat, S # {}
  PROVE  Min(S) \in S
<1> DEFINE Less == {ss \in Nat \X Nat : ss[1] < ss[2]}
<1>1. IsWellFoundedOn(Less, Nat)
  BY NatLessThanWellFounded DEF OpToRel
<1>2. PICK m \in S : \A y \in S : <<y, m>> \notin Less
  BY <1>1, WFMin
<1>3. ASSUME NEW y \in S PROVE m <= y
  <2>1. <<y, m>> \in Less <=> y < m
    OBVIOUS
  <2> QED
    BY <1>2, <2>1
<1> QED
  BY <1>2, <1>3 DEF Min

LEMMA RemovesFirst ==
  ASSUME NEW S, NEW s \in Seq(S), NEW e
  PROVE  RemoveFirst(s, e) \in Seq(S)
<1>1. CASE ~(\E i \in 1 .. Len(s) : s[i] = e)
  BY <1>1 DEF RemoveFirst
<1>2. CASE \E i \in 1 .. Len(s) : s[i] = e
  <2> DEFINE I == {i \in 1 .. Len(s) : s[i] = e}
             k == SelectInSeq(s, LAMBDA v : v = e)
  <2>1. Len(s) \in Nat
    BY LenProperties
  <2>2. I # {} /\ I \in SUBSET Nat
    BY <1>2
  <2>3. Min(I) \in I
    BY <2>2, Minimum
  <2>4. k = Min(I)
    BY <2>2 DEF SelectInSeq
  <2>5. k \in 1 .. Len(s)
    BY <2>3, <2>4
  <2> HIDE DEF k, I
  <2>6. SubSeq(s, 1, k - 1) \in Seq(S)
    <3>1. k - 1 \in Int /\ \A i \in 1 .. k - 1 : i \in 1 .. Len(s)
      BY <2>1, <2>5
    <3>2. \A i \in 1 .. k - 1 : s[i] \in S
      BY <3>1, ElementOfSeq
    <3> QED
      BY <3>1, <3>2, SubSeqProperties
  <2>7. SubSeq(s, k + 1, Len(s)) \in Seq(S)
    <3>1. k + 1 \in Int /\ \A i \in k + 1 .. Len(s) : i \in 1 .. Len(s)
      BY <2>1, <2>5
    <3>2. \A i \in k + 1 .. Len(s) : s[i] \in S
      BY <3>1, ElementOfSeq
    <3> QED
      BY <2>1, <3>1, <3>2, SubSeqProperties
  <2>8. RemoveFirst(s, e) = SubSeq(s, 1, k - 1) \o SubSeq(s, k + 1, Len(s))
    BY <1>2 DEF RemoveFirst, RemoveAt, k
  <2> QED
    BY <2>6, <2>7, <2>8, ConcatProperties
<1> QED
  BY <1>1, <1>2

\* A sequence without repetition is as long as its set is large.
LEMMA DistinctCounted ==
  ASSUME NEW S, NEW s \in Seq(S),
         \A i, j \in 1 .. Len(s) : s[i] = s[j] => i = j
  PROVE  /\ IsFiniteSet(ToSet(s))
         /\ Cardinality(ToSet(s)) = Len(s)
<1>1. Len(s) \in Nat /\ s \in [1 .. Len(s) -> S]
  BY LenProperties
<1>2. s \in Bijection(1 .. Len(s), ToSet(s))
  BY <1>1 DEF Bijection, Injection, Surjection, IsInjective, ToSet
<1>3. IsFiniteSet(1 .. Len(s)) /\ Cardinality(1 .. Len(s)) = Len(s)
  BY <1>1, FS_Interval
<1> QED
  BY <1>2, <1>3, FS_Bijection DEF ExistsBijection

LEMMA Members ==
  ASSUME NEW S, NEW s \in Seq(S)
  PROVE  /\ Len(s) \in Nat /\ ToSet(s) = {s[i] : i \in 1 .. Len(s)} /\ ToSet(s) \subseteq S
         /\ \A i \in 1 .. Len(s) : s[i] \in S /\ s[i] \in ToSet(s)
<1>1. Len(s) \in Nat /\ s \in [1 .. Len(s) -> S] /\ DOMAIN s = 1 .. Len(s)
  BY LenProperties
<1> QED
  BY <1>1 DEF ToSet

\* Messages posted at the end of those that wait.
Distinct(s) == \A i, j \in 1 .. Len(s) : s[i] = s[j] /\ s[i].kind = "teardownFrame" => i = j
ToTearDown(s) == {f \in Frames : \E i \in 1 .. Len(s) : s[i] = TeardownOf(f)}

LEMMA PostedAtEnd ==
  ASSUME NEW s \in Seq(Messages), NEW r \in Seq(Messages), Distinct(s), Distinct(r),
         ToTearDown(s) \cap ToTearDown(r) = {}
  PROVE  /\ s \o r \in Seq(Messages) /\ Distinct(s \o r)
         /\ ToTearDown(s \o r) = ToTearDown(s) \cup ToTearDown(r)
<1>1. Len(s) \in Nat /\ Len(r) \in Nat
  BY LenProperties
<1>2. /\ s \o r \in Seq(Messages) /\ Len(s \o r) = Len(s) + Len(r)
      /\ \A i \in 1 .. Len(s) + Len(r) : (s \o r)[i] = IF i <= Len(s) THEN s[i] ELSE r[i - Len(s)]
  BY ConcatProperties
<1> DEFINE u == s \o r
<1> HIDE DEF u
<1>3. /\ \A i \in 1 .. Len(s) : i \in 1 .. Len(u) /\ u[i] = s[i]
      /\ \A i \in 1 .. Len(r) : Len(s) + i \in 1 .. Len(u) /\ u[Len(s) + i] = r[i]
  BY <1>1, <1>2 DEF u
<1>4. ASSUME NEW i \in 1 .. Len(u)
      PROVE  \/ i \in 1 .. Len(s) /\ u[i] = s[i]
             \/ i - Len(s) \in 1 .. Len(r) /\ u[i] = r[i - Len(s)]
  BY <1>1, <1>2 DEF u
<1>5. ToTearDown(u) = ToTearDown(s) \cup ToTearDown(r)
  <2>1. ToTearDown(s) \subseteq ToTearDown(u)
    BY <1>3 DEF ToTearDown
  <2>2. ToTearDown(r) \subseteq ToTearDown(u)
    BY <1>3 DEF ToTearDown
  <2>3. ASSUME NEW f \in ToTearDown(u)
        PROVE  f \in ToTearDown(s) \cup ToTearDown(r)
    <3>1. PICK i \in 1 .. Len(u) : u[i] = TeardownOf(f)
      BY DEF ToTearDown
    <3> QED
      BY <1>4, <3>1 DEF ToTearDown
  <2> QED
    BY <2>1, <2>2, <2>3
<1>6. \A i \in 1 .. Len(s) : s[i].kind = "teardownFrame" =>
        s[i].of \in ToTearDown(s) /\ s[i] = TeardownOf(s[i].of)
  <2> TAKE i \in 1 .. Len(s)
  <2>1. s[i] \in Messages
    BY <1>1, ElementOfSeq
  <2> QED
    BY <2>1 DEF ToTearDown, Messages, TeardownOf
<1>7. \A i \in 1 .. Len(r) : r[i].kind = "teardownFrame" =>
        r[i].of \in ToTearDown(r) /\ r[i] = TeardownOf(r[i].of)
  <2> TAKE i \in 1 .. Len(r)
  <2>1. r[i] \in Messages
    BY <1>1, ElementOfSeq
  <2> QED
    BY <2>1 DEF ToTearDown, Messages, TeardownOf
<1>8. Distinct(u)
  <2>1. SUFFICES ASSUME NEW i \in 1 .. Len(u), NEW j \in 1 .. Len(u),
                        u[i] = u[j], u[i].kind = "teardownFrame"
                 PROVE  i = j
    BY DEF Distinct
  <2>2. CASE i \in 1 .. Len(s) /\ u[i] = s[i]
    <3>1. CASE j \in 1 .. Len(s) /\ u[j] = s[j]
      BY <2>1, <2>2, <3>1 DEF Distinct
    <3>2. CASE j - Len(s) \in 1 .. Len(r) /\ u[j] = r[j - Len(s)]
      BY <2>1, <2>2, <3>2, <1>6, <1>7
    <3> QED
      BY <1>4, <3>1, <3>2
  <2>3. CASE i - Len(s) \in 1 .. Len(r) /\ u[i] = r[i - Len(s)]
    <3>1. CASE j \in 1 .. Len(s) /\ u[j] = s[j]
      BY <2>1, <2>3, <3>1, <1>6, <1>7
    <3>2. CASE j - Len(s) \in 1 .. Len(r) /\ u[j] = r[j - Len(s)]
      <4>1. i - Len(s) = j - Len(s)
        BY <2>1, <2>3, <3>2 DEF Distinct
      <4>2. i \in Int /\ j \in Int /\ Len(s) \in Int
        BY <1>1, <1>2 DEF u
      <4> QED
        BY <4>1, <4>2
    <3> QED
      BY <1>4, <3>1, <3>2
  <2> QED
    BY <1>4, <2>2, <2>3
<1> QED
  BY <1>2, <1>5, <1>8 DEF u

\* The first message is taken.
LEMMA FirstTaken ==
  ASSUME NEW s \in Seq(Messages), s # <<>>, Distinct(s)
  PROVE  /\ Head(s) \in Messages /\ Tail(s) \in Seq(Messages) /\ Distinct(Tail(s))
         /\ Head(s).kind # "teardownFrame" => ToTearDown(Tail(s)) = ToTearDown(s)
         /\ \A f \in Frames : Head(s) = TeardownOf(f) =>
              f \in ToTearDown(s) /\ ToTearDown(Tail(s)) = ToTearDown(s) \ {f}
<1>1. Len(s) \in Nat \ {0} /\ Head(s) = s[1]
  BY EmptySeq
<1>2. /\ Head(s) \in Messages /\ Tail(s) \in Seq(Messages) /\ Len(Tail(s)) = Len(s) - 1
      /\ \A i \in 1 .. Len(Tail(s)) : Tail(s)[i] = s[i + 1]
  BY HeadTailProperties
<1> DEFINE r == Tail(s)
<1> HIDE DEF r
<1>3. \A i \in 1 .. Len(r) : i + 1 \in 1 .. Len(s) /\ r[i] = s[i + 1] /\ i + 1 # 1
  BY <1>1, <1>2 DEF r
<1>4. \A i \in 1 .. Len(s) : i = 1 \/ (i - 1 \in 1 .. Len(r) /\ r[i - 1] = s[i])
  BY <1>1, <1>2 DEF r
<1>5. Distinct(r)
  <2>1. SUFFICES ASSUME NEW i \in 1 .. Len(r), NEW j \in 1 .. Len(r),
                        r[i] = r[j], r[i].kind = "teardownFrame"
                 PROVE  i = j
    BY DEF Distinct
  <2>2. i + 1 = j + 1
    BY <1>3, <2>1 DEF Distinct
  <2> QED
    BY <2>2
<1>6. \A f \in Frames : f \in ToTearDown(s) <=> s[1] = TeardownOf(f) \/ f \in ToTearDown(r)
  <2> TAKE f \in Frames
  <2>1. f \in ToTearDown(r) => f \in ToTearDown(s)
    BY <1>3 DEF ToTearDown
  <2>2. s[1] = TeardownOf(f) => f \in ToTearDown(s)
    BY <1>1 DEF ToTearDown
  <2>3. f \in ToTearDown(s) => s[1] = TeardownOf(f) \/ f \in ToTearDown(r)
    BY <1>4 DEF ToTearDown
  <2> QED
    BY <2>1, <2>2, <2>3
<1>7. \A f, g \in Frames : /\ TeardownOf(f).kind = "teardownFrame"
                           /\ TeardownOf(f) = TeardownOf(g) => f = g
  BY DEF TeardownOf
<1>8. ASSUME NEW f \in Frames, s[1] = TeardownOf(f)
      PROVE  f \notin ToTearDown(r)
  <2>1. SUFFICES ASSUME NEW i \in 1 .. Len(r), r[i] = TeardownOf(f)
                 PROVE  FALSE
    BY DEF ToTearDown
  <2> QED
    BY <1>1, <1>3, <1>7, <1>8, <2>1 DEF Distinct
<1>9. ToTearDown(r) \subseteq Frames /\ ToTearDown(s) \subseteq Frames
  BY DEF ToTearDown
<1>10. s[1].kind # "teardownFrame" => ToTearDown(r) = ToTearDown(s)
  BY <1>6, <1>7, <1>9
<1>11. \A f \in Frames : s[1] = TeardownOf(f) =>
         f \in ToTearDown(s) /\ ToTearDown(r) = ToTearDown(s) \ {f}
  BY <1>6, <1>7, <1>8, <1>9
<1> QED
  BY <1>1, <1>2, <1>5, <1>10, <1>11 DEF r

-----------------------------------------------------------------------------
(* The pool: a texture that comes back is available, and what is too much is posted
   to be deleted, or left alone when the looper quits. *)

LEMMA Dropped ==
  ASSUME NEW r \in Seq(Frames), NEW k \in 0 .. Len(r),
         \A i, j \in 1 .. Len(r) : r[i] = r[j] => i = j
  PROVE  LET kept == SubSeq(r, k + 1, Len(r))
             told == [i \in 1 .. k |-> TeardownOf(r[i])]
         IN  /\ kept \in Seq(Frames) /\ Len(kept) = Len(r) - k
             /\ \A i, j \in 1 .. Len(kept) : kept[i] = kept[j] => i = j
             /\ told \in Seq(Messages) /\ Distinct(told)
             /\ ToSet(kept) \cup ToTearDown(told) \subseteq ToSet(r)
             /\ ToSet(kept) \cap ToTearDown(told) = {}
<1> DEFINE kept == SubSeq(r, k + 1, Len(r))
           told == [i \in 1 .. k |-> TeardownOf(r[i])]
<1>1. Len(r) \in Nat /\ k \in Nat /\ k <= Len(r)
  BY LenProperties
<1>2. \A i \in 1 .. Len(r) : r[i] \in Frames /\ r[i] \in ToSet(r)
  BY Members
<1>3. \A i \in k + 1 .. Len(r) : r[i] \in Frames
  BY <1>1, <1>2
<1>4. /\ kept \in Seq(Frames)
      /\ Len(kept) = IF k + 1 <= Len(r) THEN Len(r) - (k + 1) + 1 ELSE 0
      /\ \A i \in 1 .. Len(r) - (k + 1) + 1 : kept[i] = r[k + 1 + i - 1]
  BY <1>1, <1>3, SubSeqProperties
<1>5. /\ Len(kept) = Len(r) - k
      /\ \A i \in 1 .. Len(kept) : k + i \in k + 1 .. Len(r) /\ kept[i] = r[k + i]
  BY <1>1, <1>4
<1>6. \A i \in 1 .. k : TeardownOf(r[i]) \in Messages
  BY <1>1, <1>2 DEF Messages, TeardownOf
<1>7. told \in Seq(Messages) /\ Len(told) = k /\ \A i \in 1 .. k : told[i] = TeardownOf(r[i])
  BY <1>1, <1>6
<1> HIDE DEF kept, told
<1>8. \A i, j \in 1 .. Len(kept) : kept[i] = kept[j] => i = j
  <2> TAKE i, j \in 1 .. Len(kept)
  <2> HAVE kept[i] = kept[j]
  <2>1. k + i = k + j
    BY <1>1, <1>5
  <2> QED
    BY <1>1, <1>5, <2>1
<1>9. \A f, g : TeardownOf(f) = TeardownOf(g) => f = g
  BY DEF TeardownOf
<1>10. Distinct(told)
  <2>1. SUFFICES ASSUME NEW i \in 1 .. k, NEW j \in 1 .. k, told[i] = told[j]
                 PROVE  i = j
    BY <1>7 DEF Distinct
  <2>2. r[i] = r[j]
    BY <1>7, <1>9, <2>1
  <2> QED
    BY <1>1, <2>2
<1>11. \A f \in ToSet(kept) : \E i \in k + 1 .. Len(r) : f = r[i]
  BY <1>4, <1>5, Members
<1>12. \A f \in ToTearDown(told) : \E i \in 1 .. k : f = r[i]
  BY <1>7, <1>9 DEF ToTearDown
<1>13. ToSet(kept) \cup ToTearDown(told) \subseteq ToSet(r)
  BY <1>1, <1>2, <1>11, <1>12
<1>14. ToSet(kept) \cap ToTearDown(told) = {}
  <2>1. SUFFICES ASSUME NEW f \in ToSet(kept), f \in ToTearDown(told)
                 PROVE  FALSE
    OBVIOUS
  <2>2. PICK i \in k + 1 .. Len(r) : f = r[i]
    BY <1>11
  <2>3. PICK j \in 1 .. k : f = r[j]
    BY <1>12, <2>1
  <2>4. i \in 1 .. Len(r) /\ j \in 1 .. Len(r) /\ i # j
    BY <1>1, <2>2, <2>3
  <2>5. r[i] = r[j]
    BY <2>2, <2>3
  <2> QED
    BY <2>4, <2>5
<1> QED
  BY <1>4, <1>5, <1>7, <1>8, <1>10, <1>13, <1>14 DEF kept, told

LEMMA AppendsOne ==
  ASSUME NEW s \in Seq(Frames), NEW f \in Frames, f \notin ToSet(s),
         \A i, j \in 1 .. Len(s) : s[i] = s[j] => i = j
  PROVE  LET r == Append(s, f)
         IN  /\ r \in Seq(Frames) /\ Len(r) = Len(s) + 1
             /\ \A i, j \in 1 .. Len(r) : r[i] = r[j] => i = j
             /\ ToSet(r) = ToSet(s) \cup {f}
<1> DEFINE r == Append(s, f)
<1>1. Len(s) \in Nat /\ \A i \in 1 .. Len(s) : s[i] \in ToSet(s)
  BY Members
<1>2. /\ r \in Seq(Frames) /\ Len(r) = Len(s) + 1
      /\ \A i \in 1 .. Len(s) : r[i] = s[i]
      /\ r[Len(s) + 1] = f
  BY AppendProperties
<1> HIDE DEF r
<1>3. \A i \in 1 .. Len(r) : i \in 1 .. Len(s) \/ i = Len(s) + 1
  BY <1>1, <1>2
<1>4. \A i, j \in 1 .. Len(r) : r[i] = r[j] => i = j
  BY <1>1, <1>2, <1>3
<1>5. /\ ToSet(r) = {r[i] : i \in 1 .. Len(r)}
      /\ ToSet(s) = {s[i] : i \in 1 .. Len(s)}
  BY <1>2, Members
<1>6. ToSet(r) \subseteq ToSet(s) \cup {f}
  BY <1>1, <1>2, <1>3, <1>5
<1>7. ToSet(s) \cup {f} \subseteq ToSet(r)
  <2>1. \A i \in 1 .. Len(s) : i \in 1 .. Len(r)
    BY <1>1, <1>2
  <2>2. Len(s) + 1 \in 1 .. Len(r)
    BY <1>1, <1>2
  <2>3. \A i \in 1 .. Len(r) : r[i] \in ToSet(r)
    BY <1>5
  <2>4. f \in ToSet(r)
    BY <1>2, <2>2, <2>3
  <2>5. \A i \in 1 .. Len(s) : s[i] \in ToSet(r)
    BY <1>2, <2>1, <2>3
  <2> QED
    BY <1>5, <2>4, <2>5
<1> QED
  BY <1>2, <1>4, <1>6, <1>7 DEF r

LEMMA HeadTaken ==
  ASSUME NEW s \in Seq(Frames), s # <<>>,
         \A i, j \in 1 .. Len(s) : s[i] = s[j] => i = j
  PROVE  /\ Head(s) \in ToSet(s) /\ Head(s) \in Frames
         /\ Tail(s) \in Seq(Frames) /\ Len(Tail(s)) = Len(s) - 1
         /\ \A i, j \in 1 .. Len(Tail(s)) : Tail(s)[i] = Tail(s)[j] => i = j
         /\ ToSet(Tail(s)) = ToSet(s) \ {Head(s)}
<1> DEFINE r == Tail(s)
<1>1. Len(s) \in Nat \ {0} /\ Head(s) = s[1]
  BY EmptySeq
<1>2. /\ Head(s) \in Frames /\ r \in Seq(Frames) /\ Len(r) = Len(s) - 1
      /\ \A i \in 1 .. Len(r) : r[i] = s[i + 1]
  BY HeadTailProperties
<1> HIDE DEF r
<1>3. \A i \in 1 .. Len(r) : i + 1 \in 1 .. Len(s) /\ r[i] = s[i + 1] /\ i + 1 # 1
  BY <1>1, <1>2
<1>4. \A i \in 1 .. Len(s) : i = 1 \/ (i - 1 \in 1 .. Len(r) /\ r[i - 1] = s[i])
  BY <1>1, <1>2
<1>5. /\ ToSet(r) = {r[i] : i \in 1 .. Len(r)}
      /\ ToSet(s) = {s[i] : i \in 1 .. Len(s)}
  BY <1>2, Members
<1>6. \A i, j \in 1 .. Len(r) : r[i] = r[j] => i = j
  <2> TAKE i, j \in 1 .. Len(r)
  <2> HAVE r[i] = r[j]
  <2>1. i + 1 = j + 1
    BY <1>3
  <2> QED
    BY <2>1
<1>7. ToSet(r) \subseteq ToSet(s) \ {s[1]}
  <2>1. SUFFICES ASSUME NEW i \in 1 .. Len(r)
                 PROVE  r[i] \in ToSet(s) /\ r[i] # s[1]
    BY <1>5
  <2>2. 1 \in 1 .. Len(s)
    BY <1>1
  <2> QED
    BY <1>3, <1>5, <2>2
<1>8. ToSet(s) \ {s[1]} \subseteq ToSet(r)
  BY <1>4, <1>5
<1>9. s[1] \in ToSet(s)
  BY <1>1, <1>5
<1> QED
  BY <1>1, <1>2, <1>6, <1>7, <1>8, <1>9 DEF r

LEMMA ComesBack ==
  ASSUME Typed, Once, Placed, NEW f \in Frames, f \notin Available \cup Doomed,
         framesInUse >= 1, PoolFrameReleased(f)
  PROVE  /\ framesAvailable' \in Seq(Frames) /\ posts' \in Seq(Messages) /\ Once'
         /\ framesInUse' = framesInUse - 1
         /\ Available' \subseteq Available \cup {f}
         /\ Doomed' \subseteq Doomed \cup Available \cup {f}
         /\ Available' \cap Doomed' = {}
         /\ framesAvailable' # <<>> => Len(framesAvailable') + framesInUse' <= bufferPoolSize
<1> DEFINE r == Append(framesAvailable, f)
           keep == Larger(bufferPoolSize - (framesInUse - 1), 0)
           k == Larger(Len(r) - keep, 0)
           kept == SubSeq(r, k + 1, Len(r))
           told == [i \in 1 .. k |-> TeardownOf(r[i])]
<1>1. /\ framesAvailable \in Seq(Frames) /\ posts \in Seq(Messages)
      /\ framesInUse \in Nat /\ bufferPoolSize \in Nat
  BY TextureAssumption DEF Typed, TexturesTyped
<1>2. f \notin ToSet(framesAvailable)
  BY DEF Available
<1>3. /\ r \in Seq(Frames) /\ Len(r) = Len(framesAvailable) + 1
      /\ \A i, j \in 1 .. Len(r) : r[i] = r[j] => i = j
      /\ ToSet(r) = ToSet(framesAvailable) \cup {f}
  BY <1>1, <1>2, AppendsOne DEF Once
<1>4. framesInUse' = framesInUse - 1 /\ framesAvailable' = kept /\ posts' = Posted(told)
  BY DEF PoolFrameReleased
<1> HIDE DEF r
<1>5. Len(r) \in Nat
  BY <1>3, LenProperties
<1>6. /\ keep \in Nat /\ k \in 0 .. Len(r)
      /\ Len(r) - k <= keep /\ (keep > 0 => keep + (framesInUse - 1) <= bufferPoolSize)
  <2>1. keep \in Nat /\ (keep > 0 => keep + (framesInUse - 1) <= bufferPoolSize)
    BY <1>1 DEF Larger
  <2> HIDE DEF keep
  <2>2. k \in 0 .. Len(r) /\ Len(r) - k <= keep
    BY <1>5, <2>1 DEF Larger
  <2> QED
    BY <2>1, <2>2
<1> HIDE DEF k, keep
<1>7. /\ kept \in Seq(Frames) /\ Len(kept) = Len(r) - k
      /\ \A i, j \in 1 .. Len(kept) : kept[i] = kept[j] => i = j
      /\ told \in Seq(Messages) /\ Distinct(told)
      /\ ToSet(kept) \cup ToTearDown(told) \subseteq ToSet(r)
      /\ ToSet(kept) \cap ToTearDown(told) = {}
  BY <1>3, <1>6, Dropped
<1> HIDE DEF kept, told
<1>8. Available \cap Doomed = {} /\ Doomed = ToTearDown(posts)
  BY DEF Placed, Doomed, ToTearDown
<1>9. Distinct(posts)
  BY DEF Once, Distinct
<1>10. ToTearDown(posts) \cap ToTearDown(told) = {}
  BY <1>2, <1>3, <1>7, <1>8 DEF Available
<1>11. /\ posts' \in Seq(Messages) /\ Distinct(posts')
       /\ ToTearDown(posts') \subseteq ToTearDown(posts) \cup ToTearDown(told)
  <2>1. /\ posts \o told \in Seq(Messages) /\ Distinct(posts \o told)
        /\ ToTearDown(posts \o told) = ToTearDown(posts) \cup ToTearDown(told)
    BY <1>1, <1>7, <1>9, <1>10, PostedAtEnd
  <2>2. posts' = posts \/ posts' = posts \o told
    BY <1>4 DEF Posted
  <2> QED
    BY <1>1, <1>9, <2>1, <2>2
<1>12. Doomed' = ToTearDown(posts') /\ Available' = ToSet(kept)
  BY <1>4 DEF Doomed, ToTearDown, Available
<1>13. Once'
  BY <1>4, <1>7, <1>11 DEF Once, Distinct
<1>14. framesAvailable' # <<>> => Len(framesAvailable') + framesInUse' <= bufferPoolSize
  <2> SUFFICES ASSUME kept # <<>>
               PROVE  Len(kept) + (framesInUse - 1) <= bufferPoolSize
    BY <1>4
  <2>1. Len(kept) \in Nat \ {0}
    BY <1>7, EmptySeq
  <2> QED
    BY <1>1, <1>4, <1>5, <1>6, <1>7, <2>1
<1>15. /\ Available' \subseteq Available \cup {f} /\ Doomed' \subseteq Doomed \cup Available \cup {f}
       /\ Available' \cap Doomed' = {}
  <2>1. ToSet(r) = Available \cup {f}
    BY <1>3 DEF Available
  <2>2. /\ ToSet(kept) \subseteq Available \cup {f} /\ ToTearDown(told) \subseteq Available \cup {f}
    BY <1>7, <2>1
  <2>3. ToSet(kept) \cap ToTearDown(posts) = {}
    BY <1>8, <2>2
  <2> QED
    BY <1>7, <1>8, <1>11, <1>12, <2>2, <2>3
<1> QED
  BY <1>4, <1>7, <1>11, <1>13, <1>14, <1>15

-----------------------------------------------------------------------------
(* What the steps have in common. *)

LEMMA OutCounts ==
  ASSUME TextureIInv
  PROVE  /\ Out \subseteq exists /\ IsFiniteSet(Out) /\ framesInUse \in Nat
         /\ \A f : f \notin Out => Cardinality(Out \cup {f}) = framesInUse + 1
         /\ \A f \in Out : Cardinality(Out \ {f}) = framesInUse - 1 /\ framesInUse >= 1
<1>1. Out \subseteq exists /\ IsFiniteSet(exists) /\ framesInUse = Cardinality(Out)
  BY DEF TextureIInv, Typed, TexturesTyped, Counted, Out
<1>2. IsFiniteSet(Out) /\ Cardinality(Out) \in Nat
  BY <1>1, FS_Subset, FS_CardinalityType
<1>3. \A f : f \notin Out => Cardinality(Out \cup {f}) = framesInUse + 1
  BY <1>1, <1>2, FS_AddElement
<1>4. ASSUME NEW f \in Out
      PROVE  Cardinality(Out \ {f}) = framesInUse - 1 /\ framesInUse >= 1
  <2>1. Cardinality(Out \ {f}) = Cardinality(Out) - 1 /\ IsFiniteSet(Out \ {f})
    BY <1>2, FS_RemoveElement
  <2>2. Cardinality(Out \ {f}) \in Nat
    BY <2>1, FS_CardinalityType
  <2> QED
    BY <1>1, <1>2, <2>1, <2>2
<1> QED
  BY <1>1, <1>2, <1>3, <1>4

\* There is one output frame, or none.
LEMMA FrameIsOne ==
  ASSUME TextureIInv
  PROVE  /\ \A f, g \in frame : f = g
         /\ frame # {} => \E f \in frame : frame = {f}
         /\ frame # {} <=> stage \in {"wait", "update", "give", "return"}
<1>1. frame \subseteq exists /\ IsFiniteSet(exists) /\ Cardinality(frame) <= 1
  BY DEF TextureIInv, Typed, TexturesTyped
<1>2. IsFiniteSet(frame) /\ Cardinality(frame) \in Nat
  BY <1>1, FS_Subset, FS_CardinalityType
<1>3. Cardinality(frame) = 0 \/ Cardinality(frame) = 1
  BY <1>1, <1>2
<1>4. frame = {} \/ \E f : frame = {f}
  BY <1>2, <1>3, FS_EmptySet, FS_Singleton
<1>5. /\ stage \in {"loop", "next", "wait", "update", "give", "return", "releaseGl",
                 "remove", "ended", "threw"}
      /\ frame = {} <=> stage \in {"loop", "next", "releaseGl", "remove", "ended", "threw"}
  BY DEF TextureIInv, Typed, TexturesTyped
<1>6. frame # {} <=> stage \in {"wait", "update", "give", "return"}
  BY <1>5
<1> QED
  BY <1>4, <1>6

LEMMA One ==
  /\ Cardinality({}) = 0 /\ Cardinality({}) <= 1
  /\ \A f : Cardinality({f}) = 1 /\ Cardinality({f}) <= 1
<1>1. Cardinality({}) = 0 /\ \A f : Cardinality({f}) = 1
  BY FS_EmptySet, FS_Singleton
<1> QED
  BY <1>1

LEMMA DoomedIs == Doomed = ToTearDown(posts) /\ Doomed' = ToTearDown(posts')
  BY DEF Doomed, ToTearDown

LEMMA PoolUnchanged ==
  ASSUME TextureIInv
  PROVE  /\ posts' = posts => Doomed' = Doomed
         /\ framesAvailable' = framesAvailable => Available' = Available
         /\ posts' = posts /\ framesAvailable' = framesAvailable => Once'
  BY DEF Doomed, Available, TextureIInv, Once

\* A message other than to delete a texture.
LEMMA MessagePosted ==
  ASSUME TextureIInv, NEW m \in Messages, m.kind # "teardownFrame", posts' = Posted(<<m>>),
         framesAvailable' = framesAvailable
  PROVE  posts' \in Seq(Messages) /\ Doomed' = Doomed /\ Once'
<1> DEFINE one == <<m>>
<1>1. one \in Seq(Messages) /\ Len(one) = 1 /\ one[1] = m
  OBVIOUS
<1>2. posts \in Seq(Messages) /\ Distinct(posts)
  BY DEF TextureIInv, Typed, Once, Distinct
<1> HIDE DEF one
<1>3. Distinct(one) /\ ToTearDown(one) = {}
  BY <1>1 DEF Distinct, ToTearDown, TeardownOf
<1>4. /\ posts \o one \in Seq(Messages) /\ Distinct(posts \o one)
      /\ ToTearDown(posts \o one) = ToTearDown(posts)
  <2>1. ToTearDown(posts) \cap ToTearDown(one) = {}
    BY <1>3
  <2>2. /\ posts \o one \in Seq(Messages) /\ Distinct(posts \o one)
        /\ ToTearDown(posts \o one) = ToTearDown(posts) \cup ToTearDown(one)
    BY <1>1, <1>2, <1>3, <2>1, PostedAtEnd
  <2> QED
    BY <1>3, <2>2
<1>5. /\ posts' \in Seq(Messages) /\ Distinct(posts') /\ ToTearDown(posts') = ToTearDown(posts)
  BY <1>2, <1>4 DEF Posted, one
<1>6. Once'
  BY <1>5 DEF TextureIInv, Once, Distinct
<1> QED
  BY <1>5, <1>6, DoomedIs

LEMMA HandleMessageKeeps ==
  ASSUME TextureIInv, HandleMessage
  PROVE  TextureIInv'
<1>1. posts \in Seq(Messages) /\ posts # <<>> /\ Distinct(posts) /\ posts' = Tail(posts)
  BY DEF TextureIInv, Typed, Once, Distinct, HandleMessage
<1>2. PICK m : m = Head(posts)
  OBVIOUS
<1>3. /\ m \in Messages /\ posts' \in Seq(Messages) /\ Distinct(posts')
      /\ m.kind # "teardownFrame" => Doomed' = Doomed
      /\ \A f \in Frames : m = TeardownOf(f) => f \in Doomed /\ Doomed' = Doomed \ {f}
  BY <1>1, <1>2, FirstTaken, DoomedIs
<1>4. Once' /\ Available' = Available
  BY <1>3 DEF TextureIInv, Once, Distinct, Available, HandleMessage, poolVars
<1>5. \/ /\ m.kind # "teardownFrame" /\ exists' = exists
      \/ m = TeardownOf(m.of) /\ m.of \in Frames /\ exists' = exists \ {m.of}
  BY <1>2, <1>3 DEF HandleMessage, Messages, TeardownOf
<1>6. PICK gone \in SUBSET Doomed : Doomed' = Doomed \ gone /\ exists' = exists \ gone
  <2>1. CASE m.kind # "teardownFrame" /\ exists' = exists
    BY <1>3, <2>1
  <2>2. CASE m = TeardownOf(m.of) /\ m.of \in Frames /\ exists' = exists \ {m.of}
    BY <1>3, <2>2
  <2> QED
    BY <1>5, <2>1, <2>2
<1>7. /\ UNCHANGED <<frame, appVars, poolVars, timeVars, size, inUse, releaseSyncToken, graphVars>>
      /\ stage = "loop"
      /\ \/ stage' = "next" /\ todo' = consumers /\ consumers # <<>> /\ UNCHANGED cameraVars
         \/ UNCHANGED <<stage, todo, cameraVars>>
         \/ /\ UNCHANGED <<stage, todo>> /\ surfaceTexture' \in Surfaces /\ destination' \in Surfaces
  BY <1>2, <1>3 DEF HandleMessage, Messages
<1> USE DEF appVars, poolVars, timeVars, graphVars, cameraVars
<1>8. Placed' /\ Counted' /\ Out' = Out
  BY <1>4, <1>6, <1>7 DEF TextureIInv, Placed, Counted, Out
<1>9. ReadsKnown'
  BY <1>4, <1>7 DEF TextureIInv, ReadsKnown, TokenCovers
<1>10. held' \cup releasing' \cup lost' \cup frame' \subseteq exists' /\ IsFiniteSet(exists')
  <2>1. IsFiniteSet(exists) /\ exists' \subseteq exists
    BY <1>6 DEF TextureIInv, Typed
  <2>2. Out \subseteq exists'
    BY <1>6, OutCounts DEF TextureIInv, Placed
  <2> QED
    BY <1>7, <2>1, <2>2, FS_Subset DEF Out
<1>11. exists' \subseteq Frames
  BY <1>6 DEF TextureIInv, Typed, TexturesTyped
<1>12. Typed'
  BY <1>3, <1>7, <1>10, <1>11 DEF TextureIInv, Typed, TexturesTyped, Rendering
<1> QED
  BY <1>4, <1>8, <1>9, <1>12 DEF TextureIInv

\* Where the steps of the GL thread leave its place in the code and its consumers.
LEMMA NextConsumer ==
  ASSUME TextureIInv, ToNextConsumer, stage \in {"give", "return"}
  PROVE  /\ frame' = {} /\ todo' \in Seq({Processor, Null}) /\ stage' \in {"loop", "next"}
         /\ stage' = "next" => todo' # <<>>
<1>1. todo \in Seq({Processor, Null}) /\ todo # <<>>
  BY DEF TextureIInv, Typed, TexturesTyped, Rendering
<1>2. /\ Len(todo) \in Nat \ {0} /\ Tail(todo) \in Seq({Processor, Null})
      /\ Len(Tail(todo)) = Len(todo) - 1
  BY <1>1, EmptySeq, HeadTailProperties
<1>3. Len(todo) # 1 => Tail(todo) # <<>>
  <2>1. Len(<<>>) = 0
    BY EmptySeq
  <2> SUFFICES ASSUME Tail(todo) = <<>> PROVE Len(todo) - 1 = 0
    BY <1>2
  <2> QED
    BY <1>2, <2>1
<1> QED
  BY <1>2, <1>3 DEF ToNextConsumer

\* A new texture has a name that nobody has, and nothing is to be read of it.
LEMMA Created ==
  ASSUME TextureIInv, NEW others \in SUBSET exists, CreateFrame(others)
  PROVE  \E f \in Frames \ others :
           /\ frame' = {f} /\ exists' = others \cup {f} /\ gpuReads[f] = {}
           /\ size' \in [Frames -> Surfaces] /\ inUse' \in [Frames -> BOOLEAN]
           /\ releaseSyncToken' \in [Frames -> Tokens]
           /\ \A g \in Frames \ {f} :
                inUse'[g] = inUse[g] /\ releaseSyncToken'[g] = releaseSyncToken[g]
<1>1. /\ size \in [Frames -> Surfaces] /\ inUse \in [Frames -> BOOLEAN]
      /\ releaseSyncToken \in [Frames -> Tokens] /\ destination \in Surfaces
      /\ NoToken \in Tokens
  BY DEF TextureIInv, Typed, TexturesTyped, Tokens
<1>2. PICK f \in Frames \ others :
        /\ gpuReads[f] = {} /\ frame' = {f} /\ exists' = others \cup {f}
        /\ size' = [size EXCEPT ![f] = destination]
        /\ inUse' = [inUse EXCEPT ![f] = FALSE]
        /\ releaseSyncToken' = [releaseSyncToken EXCEPT ![f] = NoToken]
  BY DEF CreateFrame
<1> QED
  BY <1>1, <1>2

LEMMA NextOutputFrameKeeps ==
  ASSUME TextureIInv, NextOutputFrame
  PROVE  TextureIInv'
<1> USE DEF appVars, timeVars, graphVars, cameraVars
<1>1. /\ stage = "next" /\ UNCHANGED <<posts, cameraVars, appVars, timeVars, graphVars>>
      /\ frame = {} /\ Doomed' = Doomed /\ todo # <<>>
  BY FrameIsOne, PoolUnchanged DEF NextOutputFrame, TextureIInv, Typed, Rendering
<1>2. CASE /\ framesAvailable # <<>> /\ frame' = {Head(framesAvailable)}
           /\ framesAvailable' = Tail(framesAvailable) /\ framesInUse' = framesInUse + 1
           /\ stage' = "wait" /\ UNCHANGED <<todo, frameVars>>
  <2>1. framesAvailable \in Seq(Frames) /\ Once
    BY DEF TextureIInv, Typed
  <2>2. PICK f : f = Head(framesAvailable)
    OBVIOUS
  <2>3. /\ f \in Available /\ framesAvailable' \in Seq(Frames)
        /\ Len(framesAvailable') = Len(framesAvailable) - 1
        /\ Available' = Available \ {f} /\ f \in Frames
        /\ \A i, j \in 1 .. Len(framesAvailable') :
             framesAvailable'[i] = framesAvailable'[j] => i = j
    BY <1>2, <2>1, <2>2, HeadTaken DEF Once, Available
  <2>4. Once'
    BY <1>1, <2>1, <2>3 DEF Once
  <2>5. /\ f \notin Out /\ f \notin Doomed /\ f \in exists /\ frame' = {f} /\ Out' = Out \cup {f}
        /\ UNCHANGED <<exists, size, inUse, releaseSyncToken>>
    BY <1>1, <1>2, <2>2, <2>3 DEF TextureIInv, Placed, Out, frameVars
  <2>6. Placed'
    BY <1>1, <2>3, <2>5 DEF TextureIInv, Placed, Out
  <2>7. Counted'
    <3>1. framesInUse' = Cardinality(Out')
      BY <1>2, <2>5, OutCounts
    <3>2. PICK n \in PoolSizes \cup {FirstPoolSize} : Len(framesAvailable) + framesInUse <= n
      BY <1>2 DEF TextureIInv, Counted
    <3>3. Len(framesAvailable) \in Nat \ {0} /\ framesInUse \in Nat /\ n \in Nat
      BY <1>2, <2>1, EmptySeq, OutCounts, TextureAssumption
    <3>4. Len(framesAvailable') + framesInUse' <= n /\ framesInUse' <= n
      BY <1>2, <2>3, <3>2, <3>3
    <3> QED
      BY <3>1, <3>4 DEF Counted
  <2>8. ReadsKnown'
    BY <1>1, <1>2, <2>3, <2>5 DEF TextureIInv, ReadsKnown, TokenCovers
  <2>9. framesInUse' \in Nat /\ frame' \subseteq exists' /\ Cardinality(frame') <= 1
        /\ frame' # {}
    <3>1. framesInUse' \in Nat
      BY <1>2, OutCounts
    <3>2. Cardinality(frame') <= 1
      BY <2>5, One
    <3> QED
      BY <2>5, <3>1, <3>2
  <2>10. Typed'
    BY <1>1, <1>2, <2>3, <2>5, <2>9 DEF TextureIInv, Typed, TexturesTyped, Rendering
  <2> QED
    BY <2>4, <2>6, <2>7, <2>8, <2>10 DEF TextureIInv
<1>3. CASE /\ framesAvailable = <<>> /\ stage' = "loop" /\ todo' = <<>>
           /\ UNCHANGED <<frame, poolVars, frameVars>>
  <2>1. Once' /\ Available' = Available /\ Out' = Out
    BY <1>1, <1>3, PoolUnchanged DEF poolVars, Out
  <2>2. Placed' /\ Counted' /\ ReadsKnown'
    BY <1>1, <1>3, <2>1 DEF TextureIInv, Placed, Counted, ReadsKnown, TokenCovers, poolVars, frameVars, Out
  <2>3. Typed'
    BY <1>1, <1>3, EmptySeq DEF TextureIInv, Typed, TexturesTyped, Rendering, poolVars, frameVars
  <2> QED
    BY <2>1, <2>2, <2>3 DEF TextureIInv
<1>4. CASE /\ framesAvailable = <<>> /\ ~LimitReached /\ framesInUse' = framesInUse + 1
           /\ CreateFrame(exists) /\ stage' = "update" /\ UNCHANGED <<todo, framesAvailable>>
  <2>1. PICK f \in Frames \ exists :
          /\ frame' = {f} /\ exists' = exists \cup {f} /\ gpuReads[f] = {}
          /\ size' \in [Frames -> Surfaces] /\ inUse' \in [Frames -> BOOLEAN]
          /\ releaseSyncToken' \in [Frames -> Tokens]
          /\ \A g \in Frames \ {f} :
               inUse'[g] = inUse[g] /\ releaseSyncToken'[g] = releaseSyncToken[g]
    BY <1>4, Created
  <2>2. Once' /\ Available' = Available
    BY <1>1, <1>4, PoolUnchanged
  <2>3. f \notin Out /\ f \notin Doomed \cup Available /\ Out' = Out \cup {f}
    BY <1>1, <2>1, OutCounts DEF TextureIInv, Placed, Out
  <2>4. Placed'
    BY <1>1, <2>1, <2>2, <2>3 DEF TextureIInv, Placed, Out
  <2>5. Counted'
    <3>1. framesInUse' = Cardinality(Out')
      BY <1>4, <2>3, OutCounts
    <3>2. /\ bufferPoolSize \in PoolSizes \cup {FirstPoolSize} /\ framesInUse \in Nat
          /\ bufferPoolMaxSize \in MaxSizes \cup {FirstMaxSize}
          /\ bufferPoolSize \in Nat /\ bufferPoolMaxSize \in Nat
      BY OutCounts, TextureAssumption DEF TextureIInv, Typed
    <3>3. bufferPoolMaxSize > 0 =>
            framesInUse' <= bufferPoolSize \/ framesInUse' <= bufferPoolMaxSize
      BY <1>4, <3>2 DEF LimitReached, Larger
    <3> QED
      BY <1>4, <3>1, <3>2, <3>3 DEF Counted
  <2>6. ReadsKnown'
    <3>1. held \cup releasing \cup Available \subseteq Frames \ {f}
      BY <2>1, <2>3 DEF TextureIInv, Typed, TexturesTyped, Out, Placed
    <3> QED
      BY <1>1, <1>4, <2>1, <2>2, <3>1 DEF TextureIInv, ReadsKnown, TokenCovers
  <2>7. IsFiniteSet(exists') /\ framesInUse' \in Nat
    BY <1>4, <2>1, OutCounts, FS_AddElement DEF TextureIInv, Typed
  <2>8. exists' \subseteq Frames /\ \A g \in Frames : releaseSyncToken'[g] \in Tokens
    BY <2>1 DEF TextureIInv, Typed, TexturesTyped
  <2>9. Typed'
    BY <1>1, <1>4, <2>1, <2>7, <2>8, One DEF TextureIInv, Typed, TexturesTyped, Rendering, Tokens
  <2> QED
    BY <2>2, <2>4, <2>5, <2>6, <2>9 DEF TextureIInv
<1> QED
  BY <1>2, <1>3, <1>4 DEF NextOutputFrame

LEMMA WaitUntilReleasedKeeps ==
  ASSUME TextureIInv, WaitUntilReleased
  PROVE  TextureIInv'
<1> USE DEF appVars, timeVars, graphVars, cameraVars, poolVars
<1>1. /\ stage = "wait" /\ stage' = "update"
      /\ UNCHANGED <<posts, todo, cameraVars, appVars, poolVars, timeVars, graphVars>>
  BY DEF WaitUntilReleased
<1>2. Once' /\ Available' = Available /\ Doomed' = Doomed
  BY <1>1, PoolUnchanged
<1>3. PICK f \in frame :
        /\ CanGoOn(f)
        /\ \/ /\ inUse' = IF releaseSyncToken[f] = NoToken THEN inUse
                          ELSE [inUse EXCEPT ![f] = FALSE]
              /\ releaseSyncToken' = [releaseSyncToken EXCEPT ![f] = NoToken]
              /\ UNCHANGED <<frame, exists, size>>
           \/ CreateFrame(exists \ {f})
  BY DEF WaitUntilReleased
<1>4. frame = {f} /\ f \in Frames /\ f \in exists
  BY FrameIsOne DEF TextureIInv, Typed, TexturesTyped
<1>5. gpuReads[f] = {}
  <2>1. TokenCovers(f) /\ (inUse[f] => releaseSyncToken[f] # NoToken)
    BY <1>1, <1>3 DEF TextureIInv, ReadsKnown
  <2>2. releaseSyncToken[f] \in Tokens
    BY <1>4 DEF TextureIInv, Typed
  <2>3. CASE releaseSyncToken[f] = NoToken
    BY <2>1, <2>3 DEF TokenCovers
  <2>4. CASE releaseSyncToken[f] # NoToken
    <3>1. PICK s \in SUBSET Readers : releaseSyncToken[f] = {s}
      BY <2>2, <2>4 DEF Tokens, TokenFor
    <3>2. s \cap gpuReads[f] = {}
      BY <1>3, <3>1 DEF CanGoOn
    <3>3. gpuReads[f] \subseteq s
      BY <2>1, <3>1 DEF TokenCovers
    <3> QED
      BY <3>2, <3>3
  <2> QED
    BY <2>3, <2>4
<1>6. PICK g \in Frames :
        /\ g \notin exists \ {f} /\ frame' = {g} /\ exists' = (exists \ {f}) \cup {g}
        /\ gpuReads[g] = {}
        /\ size' \in [Frames -> Surfaces] /\ inUse' \in [Frames -> BOOLEAN]
        /\ releaseSyncToken' \in [Frames -> Tokens]
        /\ \A h \in Frames \ {f, g} :
             inUse'[h] = inUse[h] /\ releaseSyncToken'[h] = releaseSyncToken[h]
  <2>1. CASE CreateFrame(exists \ {f})
    <3>1. PICK g \in Frames \ (exists \ {f}) :
            /\ frame' = {g} /\ exists' = (exists \ {f}) \cup {g} /\ gpuReads[g] = {}
            /\ size' \in [Frames -> Surfaces] /\ inUse' \in [Frames -> BOOLEAN]
            /\ releaseSyncToken' \in [Frames -> Tokens]
            /\ \A h \in Frames \ {g} :
                 inUse'[h] = inUse[h] /\ releaseSyncToken'[h] = releaseSyncToken[h]
      BY <2>1, Created
    <3> QED
      BY <3>1
  <2>2. CASE /\ inUse' = IF releaseSyncToken[f] = NoToken THEN inUse
                         ELSE [inUse EXCEPT ![f] = FALSE]
             /\ releaseSyncToken' = [releaseSyncToken EXCEPT ![f] = NoToken]
             /\ UNCHANGED <<frame, exists, size>>
    <3>1. /\ size \in [Frames -> Surfaces] /\ inUse \in [Frames -> BOOLEAN]
          /\ releaseSyncToken \in [Frames -> Tokens] /\ NoToken \in Tokens
      BY DEF TextureIInv, Typed, TexturesTyped, Tokens
    <3>2. inUse' \in [Frames -> BOOLEAN] /\ \A h \in Frames \ {f} : inUse'[h] = inUse[h]
      BY <2>2, <3>1
    <3>3. /\ releaseSyncToken' \in [Frames -> Tokens]
          /\ \A h \in Frames \ {f} : releaseSyncToken'[h] = releaseSyncToken[h]
      BY <2>2, <3>1
    <3>4. exists' = (exists \ {f}) \cup {f} /\ size' \in [Frames -> Surfaces]
      BY <1>4, <2>2, <3>1
    <3> QED
      BY <1>4, <1>5, <2>2, <3>2, <3>3, <3>4
  <2> QED
    BY <1>3, <2>1, <2>2
<1>7. /\ f \notin held \cup releasing \cup lost \cup Available \cup Doomed
      /\ held \cup releasing \cup lost \cup Available \cup Doomed \subseteq exists \ {f}
  BY <1>3 DEF TextureIInv, Typed, TexturesTyped, Placed, Out
<1>8. Placed'
  BY <1>1, <1>2, <1>6, <1>7 DEF TextureIInv, Placed, Out
<1>9. Counted'
  <2>1. Cardinality(Out \ {f}) = framesInUse - 1 /\ framesInUse \in Nat /\ IsFiniteSet(Out)
    BY <1>3, OutCounts DEF Out
  <2>2. g \notin Out \ {f} /\ Out' = (Out \ {f}) \cup {g}
    BY <1>1, <1>4, <1>6, <1>7 DEF Out
  <2>3. IsFiniteSet(Out \ {f})
    BY <2>1, FS_RemoveElement
  <2>4. Cardinality((Out \ {f}) \cup {g}) = Cardinality(Out \ {f}) + 1
    BY <2>2, <2>3, FS_AddElement
  <2>5. Cardinality(Out') = framesInUse
    BY <2>1, <2>2, <2>4
  <2> QED
    BY <1>1, <2>5 DEF TextureIInv, Counted
<1>10. ReadsKnown'
  <2>1. held \cup releasing \cup Available \subseteq Frames \ {f, g}
    BY <1>6, <1>7 DEF TextureIInv, Typed, TexturesTyped
  <2> QED
    BY <1>1, <1>2, <1>6, <2>1 DEF TextureIInv, ReadsKnown, TokenCovers
<1>11. IsFiniteSet(exists')
  BY <1>6, FS_AddElement, FS_RemoveElement DEF TextureIInv, Typed
<1>12. /\ exists' \subseteq Frames /\ \A h \in Frames : releaseSyncToken'[h] \in Tokens
       /\ held \cup releasing \cup lost \subseteq exists'
  BY <1>6, <1>7 DEF TextureIInv, Typed, TexturesTyped
<1>13. Typed'
  BY <1>1, <1>6, <1>11, <1>12, One DEF TextureIInv, Typed, TexturesTyped, Rendering, Tokens
<1> QED
  BY <1>2, <1>8, <1>9, <1>10, <1>13 DEF TextureIInv

LEMMA UpdateOutputFrameKeeps ==
  ASSUME TextureIInv, UpdateOutputFrame
  PROVE  TextureIInv' /\ previousTimestamp' > previousTimestamp
<1> USE DEF appVars, graphVars, cameraVars, poolVars, frameVars
<1>1. /\ stage = "update" /\ stage' = "give"
      /\ UNCHANGED <<posts, todo, frame, cameraVars, appVars, poolVars, frameVars, graphVars>>
  BY DEF UpdateOutputFrame
<1>2. Once' /\ Available' = Available /\ Doomed' = Doomed
  BY <1>1, PoolUnchanged
<1>3. /\ nextFrameTimestampOffset' \in Int /\ previousTimestamp' \in Nat
      /\ previousTimestamp' > previousTimestamp
  <2>1. /\ previousTimestamp \in Nat \cup {-1} /\ nextFrameTimestampOffset \in Int
        /\ previousTimestamp = -1 => nextFrameTimestampOffset = 0
    BY DEF TextureIInv, Typed, TexturesTyped
  <2>2. PICK t \in 0 .. MaxTimestamp :
          /\ nextFrameTimestampOffset'
               = IF IsLate(t + nextFrameTimestampOffset) THEN previousTimestamp + 1 - t
                 ELSE nextFrameTimestampOffset
          /\ previousTimestamp' = t + nextFrameTimestampOffset'
    BY DEF UpdateOutputFrame
  <2>3. CASE IsLate(t + nextFrameTimestampOffset)
    BY <2>1, <2>2, <2>3 DEF IsLate
  <2>4. CASE ~IsLate(t + nextFrameTimestampOffset)
    BY <2>1, <2>2, <2>4 DEF IsLate
  <2> QED
    BY <2>3, <2>4
<1>4. Placed' /\ Counted' /\ ReadsKnown'
  BY <1>1, <1>2 DEF TextureIInv, Placed, Counted, ReadsKnown, TokenCovers, Out
<1>5. Typed'
  BY <1>1, <1>3 DEF TextureIInv, Typed, TexturesTyped, Rendering
<1> QED
  BY <1>2, <1>3, <1>4, <1>5 DEF TextureIInv

LEMMA GiveKeeps ==
  ASSUME TextureIInv, Give
  PROVE  TextureIInv'
<1> USE DEF appVars, timeVars, cameraVars, poolVars
<1>1. /\ stage = "give" /\ todo # <<>>
      /\ UNCHANGED <<posts, cameraVars, appVars, poolVars, timeVars, exists, size, gpuReads>>
  BY DEF Give, TextureIInv, Typed, Rendering
<1>2. Once' /\ Available' = Available /\ Doomed' = Doomed
  BY <1>1, PoolUnchanged
<1>3. PICK f \in frame : Accept(f) \/ Refuse(f) \/ GiveToNobody(f)
  BY DEF Give
<1>4. frame = {f} /\ f \in Frames /\ f \in exists /\ gpuReads[f] = {}
  BY <1>1, FrameIsOne DEF TextureIInv, Typed, TexturesTyped, ReadsKnown
<1>5. f \notin held \cup releasing \cup lost \cup Available \cup Doomed
  BY <1>3 DEF TextureIInv, Placed, Out
<1>6. /\ inUse \in [Frames -> BOOLEAN] /\ releaseSyncToken \in [Frames -> Tokens]
      /\ consumerSync \in [Frames -> SUBSET Readers]
      /\ NoToken \in Tokens /\ TokenFor({}) \in Tokens /\ TokenFor({}) # NoToken
  BY DEF TextureIInv, Typed, TexturesTyped, Tokens, NoToken, TokenFor
<1>7. CASE Accept(f)
  <2>1. /\ inUse' \in [Frames -> BOOLEAN] /\ releaseSyncToken' \in [Frames -> Tokens]
        /\ consumerSync' \in [Frames -> SUBSET Readers]
        /\ \A g \in Frames \ {f} : /\ inUse'[g] = inUse[g]
                                   /\ releaseSyncToken'[g] = releaseSyncToken[g]
                                   /\ consumerSync'[g] = consumerSync[g]
        /\ held' = held \cup {f} /\ UNCHANGED <<releasing, lost>>
    BY <1>4, <1>6, <1>7 DEF Accept
  <2>2. /\ frame' = {} /\ todo' \in Seq({Processor, Null}) /\ stage' \in {"loop", "next"}
        /\ stage' = "next" => todo' # <<>>
    BY <1>1, <1>7, NextConsumer DEF Accept
  <2>3. Out' = Out
    BY <1>4, <2>1, <2>2 DEF Out
  <2>4. Placed' /\ Counted'
    BY <1>1, <1>2, <1>5, <2>1, <2>2, <2>3 DEF TextureIInv, Placed, Counted
  <2>5. ReadsKnown'
    <3>1. held \cup releasing \cup Available \subseteq Frames \ {f}
      BY <1>5 DEF TextureIInv, Typed, TexturesTyped, Placed
    <3> QED
      BY <1>1, <1>2, <1>4, <2>1, <2>2, <3>1 DEF TextureIInv, ReadsKnown, TokenCovers
  <2>6. \A g \in Frames : releaseSyncToken'[g] \in Tokens
    BY <2>1
  <2>7. Typed'
    BY <1>1, <1>4, <2>1, <2>2, <2>6, One DEF TextureIInv, Typed, TexturesTyped, Rendering, Tokens
  <2> QED
    BY <1>2, <2>4, <2>5, <2>7 DEF TextureIInv
<1>8. CASE Refuse(f)
  <2>1. /\ inUse' \in [Frames -> BOOLEAN] /\ releaseSyncToken' \in [Frames -> Tokens]
        /\ \A g \in Frames \ {f} : /\ inUse'[g] = inUse[g]
                                   /\ releaseSyncToken'[g] = releaseSyncToken[g]
        /\ inUse'[f] => releaseSyncToken'[f] # NoToken
        /\ stage' = "return" /\ UNCHANGED <<todo, frame, held, consumerSync, releasing, lost>>
    <3>1. CASE inUse' = [inUse EXCEPT ![f] = FALSE]
               /\ releaseSyncToken' = [releaseSyncToken EXCEPT ![f] = NoToken]
      BY <1>4, <1>6, <1>8, <3>1 DEF Refuse
    <3>2. CASE inUse' = [inUse EXCEPT ![f] = TRUE]
               /\ releaseSyncToken' = [releaseSyncToken EXCEPT ![f] = TokenFor({})]
      BY <1>4, <1>6, <1>8, <3>2 DEF Refuse
    <3> QED
      BY <1>8, <3>1, <3>2 DEF Refuse
  <2>2. Placed' /\ Counted'
    BY <1>1, <1>2, <2>1 DEF TextureIInv, Placed, Counted, Out
  <2>3. ReadsKnown'
    <3>1. held \cup releasing \cup Available \subseteq Frames \ {f}
      BY <1>5 DEF TextureIInv, Typed, TexturesTyped, Placed
    <3> QED
      BY <1>1, <1>2, <1>4, <2>1, <3>1 DEF TextureIInv, ReadsKnown, TokenCovers
  <2>4. \A g \in Frames : releaseSyncToken'[g] \in Tokens
    BY <2>1
  <2>5. Typed'
    BY <1>1, <2>1, <2>4 DEF TextureIInv, Typed, TexturesTyped, Rendering, Tokens
  <2> QED
    BY <1>2, <2>2, <2>3, <2>5 DEF TextureIInv
<1>9. CASE GiveToNobody(f)
  <2>1. /\ lost' = lost \cup {f}
        /\ UNCHANGED <<inUse, releaseSyncToken, held, consumerSync, releasing>>
    BY <1>9 DEF GiveToNobody
  <2>2. /\ frame' = {} /\ todo' \in Seq({Processor, Null}) /\ stage' \in {"loop", "next"}
        /\ stage' = "next" => todo' # <<>>
    BY <1>1, <1>9, NextConsumer DEF GiveToNobody
  <2>3. Out' = Out
    BY <1>4, <2>1, <2>2 DEF Out
  <2>4. Placed' /\ Counted'
    BY <1>1, <1>2, <1>5, <2>1, <2>2, <2>3 DEF TextureIInv, Placed, Counted
  <2>5. ReadsKnown'
    BY <1>1, <1>2, <2>1, <2>2 DEF TextureIInv, ReadsKnown, TokenCovers
  <2>6. Typed'
    BY <1>1, <1>4, <2>1, <2>2, One DEF TextureIInv, Typed, TexturesTyped, Rendering
  <2> QED
    BY <1>2, <2>4, <2>5, <2>6 DEF TextureIInv
<1> QED
  BY <1>3, <1>7, <1>8, <1>9

\* A texture that comes back leaves those that are out.
LEMMA BackInPool ==
  ASSUME TextureIInv, NEW f \in Out, PoolFrameReleased(f), Out' = Out \ {f}
  PROVE  /\ Once' /\ Counted'
         /\ framesAvailable' \in Seq(Frames) /\ posts' \in Seq(Messages) /\ framesInUse' \in Nat
         /\ Available' \subseteq Available \cup {f}
         /\ Doomed' \subseteq Doomed \cup Available \cup {f}
         /\ Available' \cap Doomed' = {}
         /\ f \in Frames /\ f \notin Available
<1>1. f \in Frames /\ f \notin Available \cup Doomed
  BY OutCounts DEF TextureIInv, Typed, TexturesTyped, Placed
<1>2. /\ framesInUse \in Nat /\ framesInUse >= 1
      /\ Cardinality(Out \ {f}) = framesInUse - 1
  BY OutCounts
<1>3. /\ framesAvailable' \in Seq(Frames) /\ posts' \in Seq(Messages) /\ Once'
      /\ framesInUse' = framesInUse - 1
      /\ Available' \subseteq Available \cup {f}
      /\ Doomed' \subseteq Doomed \cup Available \cup {f}
      /\ Available' \cap Doomed' = {}
      /\ framesAvailable' # <<>> => Len(framesAvailable') + framesInUse' <= bufferPoolSize
  BY <1>1, <1>2, ComesBack DEF TextureIInv
<1>4. Counted'
  <2>1. bufferPoolSize \in PoolSizes \cup {FirstPoolSize}
    BY DEF TextureIInv, Typed
  <2>2. ASSUME NEW n \in PoolSizes \cup MaxSizes \cup {FirstPoolSize, FirstMaxSize},
               framesInUse <= n
        PROVE  framesInUse' <= n
    <3>1. n \in Nat
      BY TextureAssumption
    <3> QED
      BY <1>2, <1>3, <2>2, <3>1
  <2>3. framesInUse' = Cardinality(Out')
    BY <1>2, <1>3
  <2> QED
    BY <1>3, <2>1, <2>2, <2>3 DEF TextureIInv, Counted
<1> QED
  BY <1>1, <1>2, <1>3, <1>4

LEMMA ReturnFrameKeeps ==
  ASSUME TextureIInv, ReturnFrame
  PROVE  TextureIInv'
<1> USE DEF appVars, timeVars, cameraVars, graphVars, frameVars
<1>1. /\ stage = "return" /\ UNCHANGED <<cameraVars, appVars, timeVars, frameVars, graphVars>>
  BY DEF ReturnFrame
<1>2. PICK f \in frame : PoolFrameReleased(f)
  BY DEF ReturnFrame
<1>3. /\ frame' = {} /\ todo' \in Seq({Processor, Null}) /\ stage' \in {"loop", "next"}
      /\ stage' = "next" => todo' # <<>>
  BY <1>1, NextConsumer DEF ReturnFrame
<1>4. /\ frame = {f} /\ f \in Out /\ f \in exists
      /\ gpuReads[f] = {} /\ (inUse[f] => releaseSyncToken[f] # NoToken)
  BY <1>1, FrameIsOne DEF TextureIInv, Typed, TexturesTyped, Out, ReadsKnown
<1>5. f \notin held \cup releasing \cup lost
  BY <1>2 DEF TextureIInv, Placed
<1>6. Out' = Out \ {f}
  BY <1>1, <1>3, <1>4, <1>5 DEF Out
<1>7. /\ Once' /\ Counted'
      /\ framesAvailable' \in Seq(Frames) /\ posts' \in Seq(Messages) /\ framesInUse' \in Nat
      /\ Available' \subseteq Available \cup {f}
      /\ Doomed' \subseteq Doomed \cup Available \cup {f}
      /\ Available' \cap Doomed' = {}
  BY <1>2, <1>4, <1>6, BackInPool
<1>8. Placed'
  BY <1>1, <1>3, <1>4, <1>6, <1>7 DEF TextureIInv, Placed
<1>9. ReadsKnown'
  BY <1>1, <1>3, <1>4, <1>7 DEF TextureIInv, ReadsKnown, TokenCovers
<1>10. Typed'
  BY <1>1, <1>3, <1>7, One DEF TextureIInv, Typed, TexturesTyped, Rendering
<1> QED
  BY <1>7, <1>8, <1>9, <1>10 DEF TextureIInv

LEMMA GiveBackKeeps ==
  ASSUME TextureIInv, NEW f \in Frames, GiveBack(f)
  PROVE  TextureIInv'
<1> USE DEF appVars, timeVars, cameraVars, glVars, frameVars
<1>1. /\ f \in releasing /\ releasing' = releasing \ {f} /\ PoolFrameReleased(f)
      /\ UNCHANGED <<glVars, cameraVars, appVars, timeVars, frameVars, held, consumerSync,
                     gpuReads, lost>>
  BY DEF GiveBack
<1>2. f \in Out /\ f \in exists /\ f \notin held \cup lost \cup frame
  BY <1>1 DEF TextureIInv, Typed, TexturesTyped, Out, Placed
<1>3. Out' = Out \ {f}
  BY <1>1, <1>2 DEF Out
<1>4. /\ Once' /\ Counted'
      /\ framesAvailable' \in Seq(Frames) /\ posts' \in Seq(Messages) /\ framesInUse' \in Nat
      /\ Available' \subseteq Available \cup {f}
      /\ Doomed' \subseteq Doomed \cup Available \cup {f}
      /\ Available' \cap Doomed' = {}
  BY <1>1, <1>2, <1>3, BackInPool
<1>5. Placed'
  BY <1>1, <1>2, <1>3, <1>4 DEF TextureIInv, Placed
<1>6. ReadsKnown'
  BY <1>1, <1>4 DEF TextureIInv, ReadsKnown, TokenCovers
<1>7. Typed'
  BY <1>1, <1>4 DEF TextureIInv, Typed, TexturesTyped, Rendering
<1> QED
  BY <1>4, <1>5, <1>6, <1>7 DEF TextureIInv

LEMMA ReleaseGlKeeps ==
  ASSUME TextureIInv, ReleaseGl
  PROVE  TextureIInv'
<1> USE DEF appVars, timeVars, cameraVars, poolVars, graphVars, frameVars
<1>1. /\ stage \in {"loop", "releaseGl"} /\ stage' \in {"ended", "remove"}
      /\ UNCHANGED <<posts, todo, frame, cameraVars, appVars, poolVars, timeVars, frameVars,
                     graphVars>>
  BY DEF ReleaseGl
<1>2. Once' /\ Available' = Available /\ Doomed' = Doomed /\ frame = {}
  BY <1>1, PoolUnchanged, FrameIsOne
<1>3. Placed' /\ Counted' /\ ReadsKnown'
  BY <1>1, <1>2 DEF TextureIInv, Placed, Counted, ReadsKnown, TokenCovers, Out
<1>4. Typed'
  BY <1>1, <1>2 DEF TextureIInv, Typed, TexturesTyped, Rendering
<1> QED
  BY <1>2, <1>3, <1>4 DEF TextureIInv

LEMMA RemoveFrameKeeps ==
  ASSUME TextureIInv, RemoveFrame
  PROVE  TextureIInv'
<1> USE DEF appVars, timeVars, cameraVars, graphVars
<1>1. /\ stage = "remove"
      /\ UNCHANGED <<posts, todo, frame, cameraVars, appVars, framesInUse, timeVars, size, inUse,
                     releaseSyncToken, graphVars>>
      /\ frame = {} /\ Doomed' = Doomed
  BY FrameIsOne, PoolUnchanged DEF RemoveFrame
<1>2. CASE /\ framesAvailable # <<>> /\ exists' = exists \ {Head(framesAvailable)}
           /\ framesAvailable' = Tail(framesAvailable) /\ stage' = "releaseGl"
  <2>1. framesAvailable \in Seq(Frames) /\ Once
    BY DEF TextureIInv, Typed
  <2>2. PICK f : f = Head(framesAvailable)
    OBVIOUS
  <2>3. /\ f \in Available /\ framesAvailable' \in Seq(Frames)
        /\ Len(framesAvailable') = Len(framesAvailable) - 1
        /\ Available' = Available \ {f}
        /\ \A i, j \in 1 .. Len(framesAvailable') :
             framesAvailable'[i] = framesAvailable'[j] => i = j
    BY <1>2, <2>1, <2>2, HeadTaken DEF Once, Available
  <2>4. Once'
    BY <1>1, <2>1, <2>3 DEF Once
  <2>5. f \notin Out /\ f \notin Doomed /\ Out' = Out /\ exists' = exists \ {f}
    BY <1>1, <1>2, <2>2, <2>3 DEF TextureIInv, Placed, Out
  <2>6. Placed' /\ held' \cup releasing' \cup lost' \cup frame' \subseteq exists'
    BY <1>1, <2>3, <2>5, OutCounts DEF TextureIInv, Placed, Out
  <2>7. Counted'
    <3>1. framesInUse' = Cardinality(Out')
      BY <1>1, <2>5 DEF TextureIInv, Counted
    <3>2. PICK n \in PoolSizes \cup {FirstPoolSize} : Len(framesAvailable) + framesInUse <= n
      BY <1>2 DEF TextureIInv, Counted
    <3>3. Len(framesAvailable) \in Nat \ {0} /\ framesInUse \in Nat /\ n \in Nat
      BY <1>2, <2>1, EmptySeq, OutCounts, TextureAssumption
    <3>4. Len(framesAvailable') + framesInUse' <= n /\ framesInUse' <= n
      BY <1>1, <2>3, <3>2, <3>3
    <3> QED
      BY <3>1, <3>4 DEF Counted
  <2>8. ReadsKnown'
    BY <1>1, <1>2, <2>3, <2>5 DEF TextureIInv, ReadsKnown, TokenCovers
  <2>9. IsFiniteSet(exists')
    BY <2>5, FS_RemoveElement DEF TextureIInv, Typed
  <2>10. Typed'
    BY <1>1, <1>2, <2>3, <2>5, <2>6, <2>9 DEF TextureIInv, Typed, TexturesTyped, Rendering
  <2> QED
    BY <2>4, <2>6, <2>7, <2>8, <2>10 DEF TextureIInv
<1>3. CASE stage' = "threw" /\ UNCHANGED <<exists, framesAvailable>>
  <2>1. Once' /\ Available' = Available
    BY <1>1, <1>3, PoolUnchanged
  <2>2. Placed' /\ Counted' /\ ReadsKnown'
    BY <1>1, <1>3, <2>1 DEF TextureIInv, Placed, Counted, ReadsKnown, TokenCovers, Out
  <2>3. Typed'
    BY <1>1, <1>3 DEF TextureIInv, Typed, TexturesTyped, Rendering
  <2> QED
    BY <2>1, <2>2, <2>3 DEF TextureIInv
<1> QED
  BY <1>2, <1>3 DEF RemoveFrame

LEMMA GpuKeeps ==
  ASSUME TextureIInv, NEW f \in Frames, NEW c \in Readers, Read(f, c) \/ GpuExecutes(f, c)
  PROVE  TextureIInv'
<1> USE DEF appVars, timeVars, cameraVars, glVars, poolVars, frameVars
<1>1. UNCHANGED <<posts, glVars, cameraVars, appVars, poolVars, timeVars, frameVars, held,
                  releasing, lost>>
  BY DEF Read, GpuExecutes
<1>2. Once' /\ Available' = Available /\ Doomed' = Doomed
  BY <1>1, PoolUnchanged
<1>3. /\ consumerSync \in [Frames -> SUBSET Readers] /\ gpuReads \in [Frames -> SUBSET Readers]
  BY DEF TextureIInv, Typed
<1>4. /\ consumerSync' \in [Frames -> SUBSET Readers] /\ gpuReads' \in [Frames -> SUBSET Readers]
      /\ \A g \in Frames : g \notin held => gpuReads'[g] \subseteq gpuReads[g]
      /\ \A g \in held : gpuReads'[g] \subseteq consumerSync'[g]
  <2>1. CASE Read(f, c)
    BY <1>3, <2>1 DEF Read, TextureIInv, ReadsKnown
  <2>2. CASE GpuExecutes(f, c)
    BY <1>3, <2>2 DEF GpuExecutes, TextureIInv, ReadsKnown
  <2> QED
    BY <2>1, <2>2
<1>5. Placed' /\ Counted'
  BY <1>1, <1>2 DEF TextureIInv, Placed, Counted, Out
<1>6. ReadsKnown'
  <2>1. /\ releasing \cup Available \cup frame \subseteq Frames
        /\ held \cap (releasing \cup Available \cup frame) = {}
    BY DEF TextureIInv, Typed, TexturesTyped, Placed, Out
  <2>2. \A g \in releasing \cup Available \cup frame :
          gpuReads'[g] \subseteq gpuReads[g] /\ (TokenCovers(g) => TokenCovers(g)')
    BY <1>1, <1>4, <2>1 DEF TokenCovers
  <2> QED
    BY <1>1, <1>2, <1>4, <2>2 DEF TextureIInv, ReadsKnown
<1>7. Typed'
  BY <1>1, <1>4 DEF TextureIInv, Typed, TexturesTyped, Rendering
<1> QED
  BY <1>2, <1>5, <1>6, <1>7 DEF TextureIInv

LEMMA ReleaseKeeps ==
  ASSUME TextureIInv, NEW f \in Frames, Release(f)
  PROVE  TextureIInv'
<1> USE DEF appVars, timeVars, cameraVars, glVars, poolVars
<1>1. /\ f \in held /\ held' = held \ {f} /\ releasing' = releasing \cup {f}
      /\ releaseSyncToken' = [releaseSyncToken EXCEPT ![f] = TokenFor(consumerSync[f])]
      /\ UNCHANGED <<posts, glVars, cameraVars, appVars, poolVars, timeVars, exists, size, inUse,
                     consumerSync, gpuReads, lost>>
  BY DEF Release
<1>2. Once' /\ Available' = Available /\ Doomed' = Doomed
  BY <1>1, PoolUnchanged
<1>3. /\ releaseSyncToken' \in [Frames -> Tokens] /\ releaseSyncToken'[f] = {consumerSync[f]}
      /\ \A g \in Frames \ {f} : releaseSyncToken'[g] = releaseSyncToken[g]
  <2>1. releaseSyncToken \in [Frames -> Tokens] /\ consumerSync[f] \in SUBSET Readers
    BY DEF TextureIInv, Typed
  <2>2. TokenFor(consumerSync[f]) \in Tokens
    BY <2>1 DEF Tokens
  <2> QED
    BY <1>1, <2>1, <2>2 DEF TokenFor
<1>4. f \notin Available \cup Doomed \cup releasing \cup lost \cup frame /\ Out' = Out
  BY <1>1 DEF TextureIInv, Placed, Out
<1>5. Placed' /\ Counted'
  BY <1>1, <1>2, <1>4 DEF TextureIInv, Placed, Counted
<1>6. ReadsKnown'
  <2>1. releasing \cup Available \cup frame \subseteq Frames \ {f}
    BY <1>4 DEF TextureIInv, Typed, TexturesTyped, Placed
  <2>2. releaseSyncToken'[f] # NoToken /\ TokenCovers(f)'
    BY <1>1, <1>3 DEF TextureIInv, ReadsKnown, TokenCovers, NoToken
  <2>3. \A g \in releasing \cup Available \cup frame :
          /\ TokenCovers(g) => TokenCovers(g)'
          /\ releaseSyncToken'[g] = releaseSyncToken[g]
    BY <1>1, <1>3, <2>1 DEF TokenCovers
  <2> QED
    BY <1>1, <1>2, <2>2, <2>3 DEF TextureIInv, ReadsKnown
<1>7. \A g \in Frames : releaseSyncToken'[g] \in Tokens
  BY <1>3
<1>8. Typed'
  BY <1>1, <1>3, <1>7 DEF TextureIInv, Typed, TexturesTyped, Rendering, Tokens
<1> QED
  BY <1>2, <1>5, <1>6, <1>8 DEF TextureIInv

\* What the camera and the application call changes neither textures nor reads.
Outside == UNCHANGED <<glVars, surfaceTexture, poolVars, timeVars, frameVars, graphVars>>

LEMMA OutsideKeeps ==
  ASSUME TextureIInv, Outside, posts' \in Seq(Messages), Doomed' = Doomed, Once',
         consumers' \in Seq({Processor, Null}), destination' \in Surfaces,
         bufferPoolSize' \in PoolSizes \cup {FirstPoolSize},
         bufferPoolMaxSize' \in MaxSizes \cup {FirstMaxSize}
  PROVE  TextureIInv'
<1> USE DEF Outside, glVars, poolVars, timeVars, frameVars, graphVars
<1>1. Available' = Available
  BY PoolUnchanged
<1>2. Placed' /\ Counted' /\ ReadsKnown'
  BY <1>1 DEF TextureIInv, Placed, Counted, ReadsKnown, TokenCovers, Out
<1>3. Typed'
  BY DEF TextureIInv, Typed, TexturesTyped, Rendering
<1> QED
  BY <1>2, <1>3 DEF TextureIInv

LEMMA OnFrameAvailableKeeps ==
  ASSUME TextureIInv, NEW s \in Surfaces, OnFrameAvailable(s)
  PROVE  TextureIInv'
<1>1. RenderOf(s) \in Messages /\ RenderOf(s).kind # "teardownFrame"
  BY DEF RenderOf, Messages
<1>2. /\ Outside /\ posts' = Posted(<<RenderOf(s)>>)
      /\ UNCHANGED <<consumers, destination, bufferPoolSize, bufferPoolMaxSize, framesAvailable>>
  BY DEF OnFrameAvailable, Outside, cameraVars, poolVars
<1>3. posts' \in Seq(Messages) /\ Doomed' = Doomed /\ Once'
  BY <1>1, <1>2, MessagePosted
<1> QED
  BY <1>2, <1>3, OutsideKeeps DEF TextureIInv, Typed, TexturesTyped

LEMMA ApplicationCallKeeps ==
  ASSUME TextureIInv, ApplicationCall
  PROVE  TextureIInv'
<1>1. /\ Outside /\ framesAvailable' = framesAvailable
      /\ consumers \in Seq({Processor, Null}) /\ destination \in Surfaces
      /\ bufferPoolSize \in PoolSizes \cup {FirstPoolSize}
      /\ bufferPoolMaxSize \in MaxSizes \cup {FirstMaxSize} /\ posts \in Seq(Messages)
  BY DEF ApplicationCall, Outside, poolVars, TextureIInv, Typed, TexturesTyped
<1>2. CASE posts' = posts
  <2>1. posts' \in Seq(Messages) /\ Doomed' = Doomed /\ Once'
    BY <1>1, <1>2, PoolUnchanged
  <2>2. /\ destination' \in Surfaces /\ bufferPoolSize' \in PoolSizes \cup {FirstPoolSize}
        /\ bufferPoolMaxSize' \in MaxSizes \cup {FirstMaxSize}
    BY <1>1 DEF ApplicationCall
  <2>3. \/ consumers' = consumers
        \/ \E c \in {Processor, Null} :
             consumers' \in {<<c>>, Append(consumers, c), RemoveFirst(consumers, c)}
    BY DEF ApplicationCall
  <2>4. consumers' \in Seq({Processor, Null})
    <3>1. ASSUME NEW c \in {Processor, Null}
          PROVE  /\ <<c>> \in Seq({Processor, Null})
                 /\ Append(consumers, c) \in Seq({Processor, Null})
                 /\ RemoveFirst(consumers, c) \in Seq({Processor, Null})
      BY <1>1, AppendProperties, RemovesFirst
    <3> QED
      BY <1>1, <2>3, <3>1
  <2> QED
    BY <1>1, <2>1, <2>2, <2>4, OutsideKeeps
<1>3. CASE \E s \in Surfaces : posts' = Posted(<<SurfaceOf(s)>>) /\
             UNCHANGED <<bufferPoolSize, bufferPoolMaxSize, consumers, destination>>
  <2>1. PICK s \in Surfaces : posts' = Posted(<<SurfaceOf(s)>>) /\
               UNCHANGED <<bufferPoolSize, bufferPoolMaxSize, consumers, destination>>
    BY <1>3
  <2>2. SurfaceOf(s) \in Messages /\ SurfaceOf(s).kind # "teardownFrame"
    BY DEF SurfaceOf, Messages
  <2>3. posts' \in Seq(Messages) /\ Doomed' = Doomed /\ Once'
    BY <1>1, <2>1, <2>2, MessagePosted
  <2> QED
    BY <1>1, <2>1, <2>3, OutsideKeeps
<1> QED
  BY <1>2, <1>3 DEF ApplicationCall

LEMMA CloseKeeps ==
  ASSUME TextureIInv, Close
  PROVE  TextureIInv'
<1>1. /\ Outside /\ UNCHANGED <<posts, consumers, destination, bufferPoolSize, bufferPoolMaxSize,
                                framesAvailable>>
  BY DEF Close, Outside, cameraVars, poolVars
<1>2. posts' \in Seq(Messages) /\ Doomed' = Doomed /\ Once'
  BY <1>1, PoolUnchanged DEF TextureIInv, Typed
<1> QED
  BY <1>1, <1>2, OutsideKeeps DEF TextureIInv, Typed, TexturesTyped

LEMMA StutterKeeps ==
  ASSUME TextureIInv, UNCHANGED textureVars
  PROVE  TextureIInv'
<1>1. /\ Outside /\ UNCHANGED <<posts, consumers, destination, bufferPoolSize, bufferPoolMaxSize,
                                framesAvailable>>
  BY DEF textureVars, Outside, cameraVars, poolVars, appVars
<1>2. posts' \in Seq(Messages) /\ Doomed' = Doomed /\ Once'
  BY <1>1, PoolUnchanged DEF TextureIInv, Typed
<1> QED
  BY <1>1, <1>2, OutsideKeeps DEF TextureIInv, Typed, TexturesTyped

-----------------------------------------------------------------------------
(* The invariant, and what it says of every run. *)

LEMMA TextureInitIInv ==
  ASSUME TextureInit
  PROVE  TextureIInv
<1>1. /\ posts \in Seq(Messages) /\ framesAvailable \in Seq(Frames) /\ todo \in Seq({Processor, Null})
      /\ consumers \in Seq({Processor, Null}) /\ Len(posts) = 0 /\ Len(framesAvailable) = 0
  <2>1. <<Processor>> \in Seq({Processor, Null}) /\ <<Processor, Processor>> \in Seq({Processor, Null})
    OBVIOUS
  <2>2. consumers \in Seq({Processor, Null})
    BY <2>1 DEF TextureInit
  <2> QED
    BY <2>2, EmptySeq DEF TextureInit
<1>2. Out = {} /\ Available = {} /\ Doomed = {}
  BY <1>1 DEF TextureInit, Out, Available, ToSet, Doomed
<1>3. IsFiniteSet({}) /\ Cardinality({}) = 0
  BY FS_EmptySet
<1>4. Once
  BY <1>1 DEF Once
<1>5. Placed /\ ReadsKnown
  BY <1>2 DEF TextureInit, Placed, ReadsKnown
<1>6. Counted
  <2>1. framesInUse = Cardinality(Out) /\ framesAvailable = <<>>
    BY <1>2, <1>3 DEF TextureInit
  <2>2. framesInUse <= FirstMaxSize
    BY TextureAssumption DEF TextureInit
  <2> QED
    BY <2>1, <2>2 DEF Counted
<1>7. releaseSyncToken \in [Frames -> Tokens] /\ \A f \in Frames : releaseSyncToken[f] \in Tokens
  BY DEF TextureInit, Tokens
<1>8. TexturesTyped
  BY <1>1, <1>3, <1>7, TextureAssumption DEF TextureInit, TexturesTyped, Tokens
<1>9. Typed
  BY <1>1, <1>3, <1>7, <1>8 DEF TextureInit, Typed, Rendering
<1> QED
  BY <1>4, <1>5, <1>6, <1>9 DEF TextureIInv

LEMMA TextureInvariance == TextureSpec => []TextureIInv
<1>1. TextureInit => TextureIInv
  BY TextureInitIInv
<1>2. TextureIInv /\ [TextureNext]_textureVars => TextureIInv'
  <2>1. SUFFICES ASSUME TextureIInv, [TextureNext]_textureVars PROVE TextureIInv'
    OBVIOUS
  <2>2. CASE GlThread
    BY <2>1, <2>2, HandleMessageKeeps, NextOutputFrameKeeps, WaitUntilReleasedKeeps,
       UpdateOutputFrameKeeps, GiveKeeps, ReturnFrameKeeps, ReleaseGlKeeps, RemoveFrameKeeps
       DEF GlThread
  <2>3. CASE Graph
    BY <2>1, <2>3, ReleaseKeeps, GiveBackKeeps, GpuKeeps DEF Graph
  <2>4. CASE ApplicationCall
    BY <2>1, <2>4, ApplicationCallKeeps
  <2>5. CASE Close
    BY <2>1, <2>5, CloseKeeps
  <2>6. CASE \E s \in Surfaces : OnFrameAvailable(s)
    BY <2>1, <2>6, OnFrameAvailableKeeps
  <2>7. CASE UNCHANGED textureVars
    BY <2>1, <2>7, StutterKeeps
  <2> QED
    BY <2>1, <2>2, <2>3, <2>4, <2>5, <2>6, <2>7 DEF TextureNext
<1> QED
  BY <1>1, <1>2, PTL DEF TextureSpec

\* The GL thread is always at one of its places, with an output frame exactly where it
\* has one, and every texture that somebody has exists.
THEOREM TexturesTypeCorrect == TextureSpec => []TexturesTyped
<1>1. TextureIInv => TexturesTyped
  BY DEF TextureIInv, Typed
<1> QED
  BY <1>1, TextureInvariance, PTL

\* A texture of the pool is in one place, framesInUse counts those that are out, the
\* pool keeps to its sizes, and what leaves it has been released.
THEOREM FramesAreAccounted == TextureSpec => []FramesAccounted
<1>1. ASSUME TextureIInv
      PROVE  FramesAccounted
  <2>1. framesInUse = Cardinality(held \cup releasing \cup lost \cup frame)
    BY <1>1 DEF TextureIInv, Counted, Out
  <2>2. Cardinality(Available) = Len(framesAvailable)
    BY <1>1, DistinctCounted DEF TextureIInv, Typed, Once, Available
  <2>3. /\ Available \cup Out \cup Doomed \subseteq exists
        /\ Available \cap (Out \cup Doomed) = {} /\ Doomed \cap Out = {}
    BY <1>1, OutCounts DEF TextureIInv, Placed
  <2>4. \A f \in Available \cup (IF stage = "wait" THEN frame ELSE {}) :
          inUse[f] => releaseSyncToken[f] # NoToken
    BY <1>1 DEF TextureIInv, ReadsKnown
  <2> QED
    BY <1>1, <2>1, <2>2, <2>3, <2>4 DEF FramesAccounted, TextureIInv, Counted, Out
<1> QED
  BY <1>1, TextureInvariance, PTL

\* Nobody holds the texture that the GL thread renders into, and the GPU has executed
\* all reads of it.
THEOREM NoFrameIsOverwritten == TextureSpec => NeverOverwritten
<1>1. ASSUME TextureIInv, [TextureNext]_textureVars, stage = "update", stage' # "update", NEW f \in frame
      PROVE  f \notin held \cup releasing /\ gpuReads[f] = {}
  BY <1>1 DEF TextureIInv, Placed, ReadsKnown
<1>2. TextureIInv /\ [TextureNext]_textureVars =>
        [stage = "update" /\ stage' # "update" =>
           \A f \in frame : f \notin held \cup releasing /\ gpuReads[f] = {}]_textureVars
  BY <1>1
<1> QED
  BY <1>2, TextureInvariance, PTL DEF TextureSpec, NeverOverwritten

\* The frames that leave the GL thread have timestamps that increase.
THEOREM TimestampsAlwaysIncrease == TextureSpec => TimestampsIncrease
<1>1. ASSUME TextureIInv, [TextureNext]_textureVars, stage = "update", stage' # "update"
      PROVE  previousTimestamp' > previousTimestamp
  <2>1. UpdateOutputFrame
    BY <1>1 DEF TextureNext, textureVars, glVars, GlThread, HandleMessage, NextOutputFrame, WaitUntilReleased,
       Give, ReturnFrame, ReleaseGl, RemoveFrame, Graph, Release, GiveBack, Read, GpuExecutes,
       ApplicationCall, Close, OnFrameAvailable
  <2> QED
    BY <1>1, <2>1, UpdateOutputFrameKeeps
<1>2. TextureIInv /\ [TextureNext]_textureVars =>
        [stage = "update" /\ stage' # "update" => previousTimestamp' > previousTimestamp]_textureVars
  BY <1>1
<1> QED
  BY <1>2, TextureInvariance, PTL DEF TextureSpec, TimestampsIncrease
=============================================================================
