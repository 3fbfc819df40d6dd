--------------------------- MODULE ScaffoldProofs ---------------------------
(***************************************************************************)
(* Theorems about Scaffold: what an invocation finds is kept, what it made *)
(* does not outlive its failure, and what it calls created is whole, for   *)
(* any number of invocations, parts and attempts.                          *)
(***************************************************************************)
EXTENDS Scaffold, TLAPS

Owners == Runs \cup {User, None}

\* The shapes of the directory and of the invocations; a copy is not retried.
Typed ==
    /\ maker \in Owners
    /\ content \in [Names -> Owners]
    /\ initial \subseteq Names
    /\ run \in [Runs -> Run]
    /\ \A r \in Runs \ Downloads : run[r].attempt = 1

LEMMA InitTyped == Init => Typed
BY RunsAssumption, AttemptsAssumption DEF Init, Typed, Owners, Empty, Present, Run

LEMMA GoTyped ==
    ASSUME Typed, NEW r \in Runs,
           NEW pc \in {"resolving", "reading", "making", "filling", "rewriting", "cleaning",
                       "git", "summary", "done", "threw", "threwLate"},
           Go(r, pc)
    PROVE  /\ run' \in [Runs -> Run]
           /\ run'[r] = [run[r] EXCEPT !.pc = pc]
           /\ run'[r].attempt = run[r].attempt
           /\ \A s \in Runs \ {r} : run'[s] = run[s]
BY DEF Typed, Go, Run

\* A step that only moves one invocation on.
LEMMA GoKeeps ==
    ASSUME Typed, NEW r \in Runs,
           NEW pc \in {"resolving", "reading", "making", "filling", "rewriting", "cleaning",
                       "git", "summary", "done", "threw", "threwLate"},
           Go(r, pc), maker' \in Owners, content' \in [Names -> Owners], initial' = initial
    PROVE  Typed'
<1>1. /\ run' \in [Runs -> Run]
      /\ \A s \in Runs : run'[s].attempt = run[s].attempt
  BY GoTyped
<1> QED
  BY <1>1 DEF Typed

LEMMA AbandonTyped ==
    ASSUME Typed, NEW r \in Runs, Abandon(r)
    PROVE  /\ run' \in [Runs -> Run]
           /\ run'[r] = [run[r] EXCEPT !.pc = IF run[r].existed THEN "threw" ELSE "cleaning"]
           /\ run'[r].attempt = run[r].attempt
           /\ \A s \in Runs \ {r} : run'[s] = run[s]
BY GoTyped DEF Abandon

LEMMA HandledTyped ==
    ASSUME Typed, NEW r \in Runs, NEW part \in Parts, NEW S \in SUBSET Parts,
           Handled(r, part, S)
    PROVE  /\ run' \in [Runs -> Run]
           /\ run[r].pc = "filling"
           /\ run'[r].filled = run[r].filled \cup {part}
           /\ run'[r].skipped = run[r].skipped \cup S
           /\ run'[r].pc = IF run'[r].filled = Parts THEN "rewriting" ELSE "filling"
           /\ run'[r].existed = run[r].existed /\ run'[r].leftover = run[r].leftover
           /\ run'[r].attempt = run[r].attempt
           /\ \A s \in Runs \ {r} : run'[s] = run[s]
<1> DEFINE filled == run[r].filled \cup {part}
           skipped == run[r].skipped \cup S
           pc == IF filled = Parts THEN "rewriting" ELSE run[r].pc
           handled == [run[r] EXCEPT !.filled = filled, !.skipped = skipped, !.pc = pc]
<1>1. run[r] \in Run /\ run \in [Runs -> Run] /\ run[r].pc = "filling"
  BY DEF Typed, Handled
<1>2. run' = [run EXCEPT ![r] = handled]
  BY DEF Handled
<1>3. filled \in SUBSET Parts /\ skipped \in SUBSET Parts
  BY <1>1 DEF Run
<1>4. pc \in {"rewriting", "filling"}
  BY <1>1
<1>5. handled \in Run
  <2> HIDE DEF filled, skipped, pc
  <2> QED
    BY <1>1, <1>3, <1>4 DEF Run
<1>6. run'[r] = handled /\ run' \in [Runs -> Run] /\ \A s \in Runs \ {r} : run'[s] = run[s]
  <2> HIDE DEF handled
  <2> QED
    BY <1>1, <1>2, <1>5
<1>7. /\ handled.filled = filled /\ handled.skipped = skipped /\ handled.pc = pc
      /\ handled.existed = run[r].existed /\ handled.leftover = run[r].leftover
      /\ handled.attempt = run[r].attempt
  <2> HIDE DEF filled, skipped, pc
  <2> QED
    BY <1>1 DEF Run
<1> QED
  BY <1>1, <1>6, <1>7

\* What handling a part may do: write it, or pass it over, whole or cut short.
LEMMA HandleStep ==
    ASSUME Typed, NEW r \in Runs, NEW part \in Parts,
           Extract(r, part) \/ PassOver(r, part) \/ Copy(r, part)
    PROVE  /\ \E S \in SUBSET Parts :
                 /\ Handled(r, part, S)
                 /\ part \in S \/ content' = [content EXCEPT ![part] = r]
           /\ maker' \in {maker, r} /\ (Exists => maker' = maker) /\ initial' = initial
           /\ content' \in {content, [content EXCEPT ![part] = r]}
           /\ content' \in [Names -> Owners]
<1>1. part \in Names /\ [content EXCEPT ![part] = r] \in [Names -> Owners]
  BY DEF Typed, Names, Owners
<1>2. CASE Extract(r, part) \/ Copy(r, part)
  <2>1. Handled(r, part, {}) /\ content' = [content EXCEPT ![part] = r]
    BY <1>2 DEF Extract, Copy, Fill
  <2> QED
    BY <1>1, <1>2, <2>1 DEF Extract, Copy
<1>3. CASE PassOver(r, part)
  BY <1>1, <1>3 DEF PassOver, Typed
<1> QED
  BY <1>2, <1>3

LEMMA NextTyped == Typed /\ [Next]_vars => Typed'
<1> SUFFICES ASSUME Typed, [Next]_vars PROVE Typed'
  OBVIOUS
<1> USE DEF Typed
<1>1. ASSUME NEW r \in Runs, Resolve(r) PROVE Typed'
  <2>1. UNCHANGED <<maker, content, initial>>
    BY <1>1 DEF Resolve
  <2>2. CASE run' = [run EXCEPT ![r].pc = "reading", ![r].existed = Exists]
    BY <2>1, <2>2 DEF Run, Exists
  <2> QED
    BY <1>1, <2>1, <2>2, GoKeeps DEF Resolve
<1>2. ASSUME NEW r \in Runs, ReadTarget(r) PROVE Typed'
  BY <1>2, GoTyped DEF ReadTarget
<1>3. ASSUME NEW r \in Runs, MakeTarget(r) PROVE Typed'
  <2>1. /\ Go(r, "filling") \/ Go(r, "threw")
        /\ maker' \in Owners /\ content' = content /\ initial' = initial
    BY <1>3 DEF MakeTarget, Owners
  <2> QED
    BY <2>1, GoKeeps
<1>4. ASSUME NEW r \in Runs, NEW part \in Parts,
             Extract(r, part) \/ PassOver(r, part) \/ Copy(r, part)
      PROVE  Typed'
  <2>1. /\ \E S \in SUBSET Parts : Handled(r, part, S)
        /\ maker' \in Owners /\ initial' = initial /\ content' \in [Names -> Owners]
    BY <1>4, HandleStep DEF Owners
  <2> QED
    BY <2>1, HandledTyped
<1>5. ASSUME NEW r \in Runs, FillFails(r) PROVE Typed'
  <2>1. CASE ~LastAttempt(r)
    <3>1. r \in Downloads /\ run[r].attempt < Attempts
      BY <2>1, <1>5, AttemptsAssumption DEF LastAttempt, Run
    <3>2. /\ run' = [run EXCEPT ![r].attempt = @ + 1, ![r].filled = {},
                             ![r].skipped = {}]
          /\ UNCHANGED <<maker, content, initial>>
      BY <1>5, <2>1 DEF FillFails
    <3>3. run[r].attempt + 1 \in 1 .. Attempts
      BY <3>1, AttemptsAssumption DEF Run
    <3> DEFINE again == [run[r] EXCEPT !.attempt = run[r].attempt + 1, !.filled = {},
                                       !.skipped = {}]
    <3>4. again \in Run
      BY <3>3 DEF Run
    <3>5. run' = [run EXCEPT ![r] = again]
      BY <3>2
    <3> QED
      BY <3>1, <3>2, <3>4, <3>5
  <2>2. CASE LastAttempt(r)
    BY <1>5, <2>2, AbandonTyped DEF FillFails
  <2> QED
    BY <2>1, <2>2
<1>6. ASSUME NEW r \in Runs, Rewrite(r) PROVE Typed'
  <2>1. maker' = maker /\ content' \in [Names -> Owners] /\ initial' = initial
    BY <1>6 DEF Rewrite, Owners
  <2>2. CASE Go(r, "git")
    BY <2>1, <2>2, GoKeeps
  <2>3. CASE Abandon(r)
    BY <2>1, <2>3, GoKeeps DEF Abandon
  <2> QED
    BY <1>6, <2>2, <2>3 DEF Rewrite
<1>7. ASSUME NEW r \in Runs, Clean(r) PROVE Typed'
  <2>1. maker' \in Owners /\ content' \in [Names -> Owners] /\ initial' = initial
    BY <1>7 DEF Clean, Owners, Empty
  <2>2. \/ Go(r, "threw")
        \/ run' = [run EXCEPT ![r].pc = "threw", ![r].leftover = TRUE]
    BY <1>7 DEF Clean
  <2>3. CASE Go(r, "threw")
    BY <2>1, <2>3, GoKeeps
  <2>4. CASE run' = [run EXCEPT ![r].pc = "threw", ![r].leftover = TRUE]
    BY <2>1, <2>4 DEF Run
  <2> QED
    BY <2>2, <2>3, <2>4
<1>8. ASSUME NEW r \in Runs, InitGit(r) PROVE Typed'
  BY <1>8, GoKeeps DEF InitGit, Owners
<1>9. ASSUME NEW r \in Runs, Summarize(r) PROVE Typed'
  BY <1>9, GoTyped DEF Summarize
<1>10. CASE UserWrites
  BY <1>10 DEF UserWrites, Owners
<1>11. CASE UNCHANGED vars
  BY <1>11 DEF vars
<1> QED
  BY <1>1, <1>2, <1>3, <1>4, <1>5, <1>6, <1>7, <1>8, <1>9, <1>10, <1>11 DEF Next, Step

-----------------------------------------------------------------------------
(* What was there.                                                         *)

\* Where something was there, the directory stays, no invocation takes it for its
\* own, and none gets past the look into a directory that was in use.
InitialInv ==
    /\ InitialKept
    /\ initial # {} =>
          /\ Exists
          /\ \A r \in Runs :
                /\ run[r].pc \notin {"making", "cleaning"}
                /\ run[r].pc \notin {"resolving", "threw"} => run[r].existed
                /\ ~(initial \subseteq {".git"})
                      => run[r].pc \in {"resolving", "reading", "threw"}

LEMMA InitInitialInv == Init => InitialInv
BY RunsAssumption DEF Init, InitialInv, InitialKept, Present, Empty, Exists

LEMMA InitialFixed == [Next]_vars => initial' = initial
<1>1. ASSUME NEW r \in Runs, Step(r) PROVE initial' = initial
  BY <1>1 DEF Step, Resolve, ReadTarget, MakeTarget, Extract, PassOver, Copy, FillFails,
              Rewrite, Clean, InitGit, Summarize
<1>2. UserWrites => initial' = initial
  BY DEF UserWrites
<1> QED
  BY <1>1, <1>2 DEF Next, vars

LEMMA NextInitialInv == Typed /\ Typed' /\ InitialInv /\ [Next]_vars => InitialInv'
<1> SUFFICES ASSUME Typed, Typed', InitialInv, [Next]_vars PROVE InitialInv'
  OBVIOUS
<1> SUFFICES ASSUME initial # {} PROVE InitialInv'
  BY InitialFixed DEF InitialInv, InitialKept
<1> USE DEF InitialInv, InitialKept
<1>0. /\ run \in [Runs -> Run] /\ content \in [Names -> Owners] /\ initial \subseteq Names
      /\ Exists
      /\ \A n \in initial : n \in Present
  BY RunsAssumption DEF Typed, Present
<1>1. ASSUME NEW r \in Runs, Resolve(r) PROVE InitialInv'
  BY <1>0, <1>1 DEF Resolve, Go, Exists, Run
<1>2. ASSUME NEW r \in Runs, ReadTarget(r) PROVE InitialInv'
  BY <1>0, <1>2 DEF ReadTarget, Go, Exists, Run
<1>3. ASSUME NEW r \in Runs, NEW part \in Parts,
             Extract(r, part) \/ PassOver(r, part) \/ Copy(r, part)
      PROVE  InitialInv'
  <2>1. PICK S \in SUBSET Parts : Handled(r, part, S)
    BY <1>3, HandleStep
  <2>2. /\ maker' = maker /\ initial' = initial
        /\ content' \in {content, [content EXCEPT ![part] = r]}
    BY <1>0, <1>3, HandleStep
  <2>3. /\ run'[r].pc \in {"filling", "rewriting"} /\ run'[r].existed = run[r].existed
        /\ run[r].pc = "filling"
        /\ \A s \in Runs \ {r} : run'[s] = run[s]
    BY <2>1, HandledTyped
  <2>4. part \notin initial
    BY <2>3, PartsAssumption
  <2>5. \A n \in initial : content'[n] = content[n]
    BY <1>0, <2>2, <2>4
  <2> QED
    BY <2>2, <2>3, <2>5 DEF Exists
<1>4. ASSUME NEW r \in Runs, FillFails(r) PROVE InitialInv'
  BY <1>0, <1>4 DEF FillFails, Abandon, Go, Exists, Run
<1>5. ASSUME NEW r \in Runs, Rewrite(r) PROVE InitialInv'
  <2>1. Manifest \notin initial
    BY <1>5, PartsAssumption DEF Rewrite
  <2>2. \A n \in initial : content'[n] = content[n]
    BY <1>0, <1>5, <2>1 DEF Rewrite
  <2> QED
    BY <1>0, <1>5, <2>2 DEF Rewrite, Abandon, Go, Exists, Run
<1>6. ASSUME NEW r \in Runs, Clean(r) PROVE FALSE
  BY <1>6 DEF Clean
<1>7. ASSUME NEW r \in Runs, InitGit(r) PROVE InitialInv'
  BY <1>0, <1>7, RunsAssumption DEF InitGit, Go, Exists, Run
<1>8. ASSUME NEW r \in Runs, Summarize(r) PROVE InitialInv'
  BY <1>0, <1>8 DEF Summarize, Go, Exists, Run
<1>9. ASSUME NEW r \in Runs, MakeTarget(r) PROVE FALSE
  BY <1>9 DEF MakeTarget
<1>10. CASE UserWrites
  BY <1>0, <1>10 DEF UserWrites, Exists
<1>11. CASE UNCHANGED vars
  BY <1>11 DEF vars, Exists
<1> QED
  BY <1>1, <1>2, <1>3, <1>4, <1>5, <1>6, <1>7, <1>8, <1>9, <1>10, <1>11 DEF Next, Step

\* What was in the directory when the program was started is still the user's
\* (run.ts: the checks of prepareTarget and the catch that only removes a
\* directory that was not there).
THEOREM InitialKeptHolds == Spec => []InitialKept
<1>1. Typed /\ InitialInv /\ [Next]_vars => Typed' /\ InitialInv'
  BY NextTyped, NextInitialInv
<1>2. InitialInv => InitialKept
  BY DEF InitialInv
<1> QED
  BY <1>1, <1>2, InitTyped, InitInitialInv, PTL DEF Spec

-----------------------------------------------------------------------------
(* Failure.                                                                *)

\* No other invocation has begun to work.
Alone(r) == \A s \in Runs \ {r} : run[s].pc = "resolving"

\* The maker of a directory has got as far as making it.  When one that is alone has
\* failed and removed what it made, the directory is not its own any more.
FailureInv ==
    /\ \A r \in Runs : maker = r => run[r].pc \notin {"resolving", "reading", "making"}
    /\ \A r \in Runs :
          (Alone(r) /\ run[r].pc = "threw" /\ ~run[r].existed /\ ~run[r].leftover) => maker # r

LEMMA InitFailureInv == Init => FailureInv
BY RunsAssumption DEF Init, FailureInv

LEMMA NextFailureInv == Typed /\ Typed' /\ FailureInv /\ [Next]_vars => FailureInv'
<1> SUFFICES ASSUME Typed, Typed', FailureInv, [Next]_vars PROVE FailureInv'
  OBVIOUS
<1> USE DEF FailureInv
<1>0. /\ run \in [Runs -> Run] /\ content \in [Names -> Owners] /\ maker \in Owners
      /\ Manifest \in Names /\ Manifest # ".git"
      /\ \A r \in Runs : r # None /\ r # User
  BY RunsAssumption, PartsAssumption DEF Typed, Names
<1>1. ASSUME NEW r \in Runs, Resolve(r) PROVE FailureInv'
  BY <1>0, <1>1 DEF Resolve, Go, Run, Alone
<1>2. ASSUME NEW r \in Runs, ReadTarget(r) PROVE FailureInv'
  BY <1>0, <1>2 DEF ReadTarget, Go, Run, Alone
<1>3. ASSUME NEW r \in Runs, MakeTarget(r) PROVE FailureInv'
  BY <1>0, <1>3 DEF MakeTarget, Go, Run, Alone
<1>4. ASSUME NEW r \in Runs, NEW part \in Parts,
             Extract(r, part) \/ PassOver(r, part) \/ Copy(r, part)
      PROVE  FailureInv'
  <2>1. PICK S \in SUBSET Parts : Handled(r, part, S)
    BY <1>4, HandleStep
  <2>2. /\ run'[r].pc \in {"filling", "rewriting"} /\ run[r].pc = "filling"
        /\ \A s \in Runs \ {r} : run'[s] = run[s]
    BY <2>1, HandledTyped
  <2>3. maker' = maker \/ maker' = r
    BY <1>4, HandleStep
  <2> QED
    BY <1>0, <2>2, <2>3 DEF Alone
<1>5. ASSUME NEW r \in Runs, FillFails(r) PROVE FailureInv'
  BY <1>0, <1>5 DEF FillFails, Abandon, Go, Run, Alone
<1>6. ASSUME NEW r \in Runs, Rewrite(r) PROVE FailureInv'
  BY <1>0, <1>6 DEF Rewrite, Abandon, Go, Run, Alone
<1>7. ASSUME NEW r \in Runs, Clean(r) PROVE FailureInv'
  BY <1>0, <1>7 DEF Clean, Go, Run, Alone
<1>8. ASSUME NEW r \in Runs, InitGit(r) PROVE FailureInv'
  BY <1>0, <1>8 DEF InitGit, Go, Run, Alone
<1>9. ASSUME NEW r \in Runs, Summarize(r) PROVE FailureInv'
  BY <1>0, <1>9 DEF Summarize, Go, Run, Alone
<1>10. CASE UserWrites
  BY <1>0, <1>10, RunsAssumption DEF UserWrites, Alone
<1>11. CASE UNCHANGED vars
  BY <1>11 DEF vars, Alone
<1> QED
  BY <1>1, <1>2, <1>3, <1>4, <1>5, <1>6, <1>7, <1>8, <1>9, <1>10, <1>11 DEF Next, Step

\* Where nobody else worked on its directory, an invocation that fails before it says
\* "created", and whose cleanup does not fail too, leaves nothing behind that was not
\* there (the catch of run()).
THEOREM FailureLeavesNothingHolds == Spec => []FailureLeavesNothing
<1>1. Typed /\ FailureInv => FailureLeavesNothing
  BY DEF Typed, FailureInv, FailureLeavesNothing, Alone, Owners, Exists
<1>2. Typed /\ FailureInv /\ [Next]_vars => Typed' /\ FailureInv'
  BY NextTyped, NextFailureInv
<1> QED
  BY <1>1, <1>2, InitTyped, InitFailureInv, PTL DEF Spec

-----------------------------------------------------------------------------
(* Success.                                                                *)

\* As long as no invocation has failed, what any is through with, and did not pass
\* over, is there; past the filling that is everything, and past the rewriting so
\* is package.json.
Rest(r) == Parts \ run[r].skipped

WholeInv ==
    (\A s \in Runs : run[s].pc # "threw") =>
       \A r \in Runs :
          /\ run[r].filled \ run[r].skipped \subseteq Present
          /\ run[r].pc \in {"rewriting", "git", "summary", "done", "threwLate"}
                => Rest(r) \subseteq Present
          /\ run[r].pc \in {"git", "summary", "done", "threwLate"} => Manifest \in Present

LEMMA InitWholeInv == Init => WholeInv
BY DEF Init, WholeInv

LEMMA NextWholeInv == Typed /\ Typed' /\ WholeInv /\ [Next]_vars => WholeInv'
<1> SUFFICES ASSUME Typed, Typed', WholeInv, [Next]_vars,
                    \A s \in Runs : run'[s].pc # "threw"
             PROVE  WholeInv'
  BY DEF WholeInv
<1> USE DEF WholeInv
<1>0. /\ run \in [Runs -> Run] /\ content \in [Names -> Owners] /\ Manifest \in Parts
      /\ \A r \in Runs : r # None
      /\ User # None
  BY RunsAssumption, PartsAssumption DEF Typed
\* Nothing is removed, and an invocation claims more only when it is there.
<1>a. ASSUME NEW r \in Runs, Present \subseteq Present',
             \A s \in Runs \ {r} : run'[s] = run[s],
             run[r].pc # "threw",
             run'[r].filled \ run'[r].skipped
                \subseteq (run[r].filled \ run[r].skipped) \cup Present',
             run'[r].pc \in {"rewriting", "git", "summary", "done", "threwLate"} =>
                \/ /\ run[r].pc \in {"rewriting", "git", "summary", "done", "threwLate"}
                   /\ run'[r].skipped = run[r].skipped
                \/ run'[r].filled = Parts,
             run'[r].pc \in {"git", "summary", "done", "threwLate"} =>
                \/ run[r].pc \in {"git", "summary", "done", "threwLate"}
                \/ Manifest \in Present'
      PROVE  WholeInv'
  <2>1. \A s \in Runs : run[s].pc # "threw"
    BY <1>a
  <2>2. /\ run'[r].filled \ run'[r].skipped \subseteq Present'
        /\ run'[r].pc \in {"rewriting", "git", "summary", "done", "threwLate"}
              => Parts \ run'[r].skipped \subseteq Present'
        /\ run'[r].pc \in {"git", "summary", "done", "threwLate"} => Manifest \in Present'
    BY <1>a, <2>1 DEF Rest
  <2>3. \A s \in Runs \ {r} :
           /\ run'[s].filled \ run'[s].skipped \subseteq Present'
           /\ run'[s].pc \in {"rewriting", "git", "summary", "done", "threwLate"}
                 => Parts \ run'[s].skipped \subseteq Present'
           /\ run'[s].pc \in {"git", "summary", "done", "threwLate"} => Manifest \in Present'
    BY <1>a, <2>1 DEF Rest
  <2> QED
    BY <2>2, <2>3 DEF Rest
<1>1. ASSUME NEW r \in Runs, Resolve(r) PROVE WholeInv'
  <2>1. Present' = Present
    BY <1>1 DEF Resolve, Present
  <2> QED
    BY <1>0, <1>1, <2>1, <1>a DEF Resolve, Go, Run
<1>2. ASSUME NEW r \in Runs, ReadTarget(r) PROVE WholeInv'
  <2>1. Present' = Present
    BY <1>2 DEF ReadTarget, Present
  <2> QED
    BY <1>0, <1>2, <2>1, <1>a DEF ReadTarget, Go, Run
<1>3. ASSUME NEW r \in Runs, MakeTarget(r) PROVE WholeInv'
  <2>1. Present' = Present
    BY <1>3 DEF MakeTarget, Present
  <2> QED
    BY <1>0, <1>3, <2>1, <1>a DEF MakeTarget, Go, Run
<1>4. ASSUME NEW r \in Runs, NEW part \in Parts,
             Extract(r, part) \/ PassOver(r, part) \/ Copy(r, part)
      PROVE  WholeInv'
  <2>1. PICK S \in SUBSET Parts :
           /\ Handled(r, part, S)
           /\ part \in S \/ content' = [content EXCEPT ![part] = r]
    BY <1>4, HandleStep
  <2>2. content' \in {content, [content EXCEPT ![part] = r]}
    BY <1>4, HandleStep
  <2>3. Present \subseteq Present' /\ (part \in S \/ part \in Present')
    BY <1>0, <2>1, <2>2 DEF Present, Names
  <2> QED
    BY <2>1, <2>3, <1>a, HandledTyped
<1>5. ASSUME NEW r \in Runs, FillFails(r) PROVE WholeInv'
  <2>1. Present' = Present
    BY <1>5 DEF FillFails, Present
  <2> QED
    BY <1>0, <1>5, <2>1, <1>a DEF FillFails, Abandon, Go, Run
<1>6. ASSUME NEW r \in Runs, Rewrite(r) PROVE WholeInv'
  <2>1. Present \subseteq Present' /\ (content[Manifest] # None => Manifest \in Present')
    BY <1>0, <1>6 DEF Rewrite, Present, Names
  <2> QED
    BY <1>0, <1>6, <2>1, <1>a DEF Rewrite, Abandon, Go, Run
<1>7. ASSUME NEW r \in Runs, Clean(r) PROVE FALSE
  BY <1>0, <1>7 DEF Clean, Go, Run
<1>8. ASSUME NEW r \in Runs, InitGit(r) PROVE WholeInv'
  <2>1. Present \subseteq Present'
    BY <1>0, <1>8 DEF InitGit, Present
  <2> QED
    BY <1>0, <1>8, <2>1, <1>a DEF InitGit, Go, Run
<1>9. ASSUME NEW r \in Runs, Summarize(r) PROVE WholeInv'
  <2>1. Present' = Present
    BY <1>9 DEF Summarize, Present
  <2> QED
    BY <1>0, <1>9, <2>1, <1>a DEF Summarize, Go, Run
<1>10. CASE UserWrites
  <2>1. Present \subseteq Present' /\ run' = run
    BY <1>0, <1>10 DEF UserWrites, Present
  <2> QED
    BY <2>1 DEF Rest
<1>11. CASE UNCHANGED vars
  BY <1>11 DEF vars, Present, Rest
<1> QED
  BY <1>1, <1>2, <1>3, <1>4, <1>5, <1>6, <1>7, <1>8, <1>9, <1>10, <1>11 DEF Next, Step

\* As long as nobody failed in the directory, an invocation that says "created" has
\* its package.json and every part it did not pass over with a warning, however many
\* attempts broke off and whoever else works there (run.ts, after the `try`).
THEOREM CreatedIsThereHolds == Spec => []CreatedIsThere
<1>1. WholeInv => CreatedIsThere
  BY DEF WholeInv, CreatedIsThere, Rest
<1>2. Typed /\ WholeInv /\ [Next]_vars => Typed' /\ WholeInv'
  BY NextTyped, NextWholeInv
<1> QED
  BY <1>1, <1>2, InitTyped, InitWholeInv, PTL DEF Spec
=============================================================================
