------------------------------ MODULE Scaffold ------------------------------
(***************************************************************************)
(* run() of create-shopify-mcp: it resolves an example, looks whether the  *)
(* target directory exists, prepares it, fills it by download (with        *)
(* retries) or copy, rewrites package.json, and, if that fails, removes a  *)
(* directory it takes to be its own.  Several invocations, and a user,     *)
(* work on the same path; a step ends at an `await`.                       *)
(***************************************************************************)
EXTENDS Integers, FiniteSets

CONSTANTS
    Runs,           \* invocations
    Downloads,      \* those given an --example to download; the others copy the bundled template
    Parts,          \* files of the template
    Manifest,       \* the part that is package.json
    Attempts,       \* what retry() allows
    UserActs,       \* TRUE: the user may work on the directory meanwhile
    User, None

ASSUME RunsAssumption == Downloads \subseteq Runs /\ {User, None} \cap Runs = {} /\ User # None
ASSUME PartsAssumption == Manifest \in Parts /\ ".git" \notin Parts
ASSUME AttemptsAssumption == Attempts \in Nat \ {0} /\ UserActs \in BOOLEAN

Names == Parts \cup {".git"}

VARIABLES
    maker,      \* who made the directory; None if it does not exist
    content,    \* who wrote each name last; None if it is not there
    initial,    \* history: what was there when the program was started
    run         \* where each invocation is

vars == <<maker, content, initial, run>>

Exists == maker # None
Present == {n \in Names : content[n] # None}
Empty == [n \in Names |-> None]

\* `existed` is targetExisted, `filled` the parts this attempt is through with,
\* `skipped` those it only warned about, and `leftover` says that the cleanup failed.
\* From "summary" on, "created" has been said: "threwLate" is a failure after that.
Run == [pc : {"resolving", "reading", "making", "filling", "rewriting", "cleaning",
              "git", "summary", "done", "threw", "threwLate"},
        existed : BOOLEAN, attempt : 1 .. Attempts,
        filled : SUBSET Parts, skipped : SUBSET Parts, leftover : BOOLEAN]

Ended == {"done", "threw", "threwLate"}

Go(r, pc) == run' = [run EXCEPT ![r].pc = pc]

\* The catch of run(): "only a directory we created ourselves is ours to remove".
Abandon(r) == IF run[r].existed THEN Go(r, "threw") ELSE Go(r, "cleaning")

LastAttempt(r) == run[r].attempt = IF r \in Downloads THEN Attempts ELSE 1

Init ==
    /\ \/ maker = None /\ content = Empty
       \/ maker = User /\ content \in [Names -> {User, None}]
    /\ initial = Present
    /\ run = [r \in Runs |-> [pc |-> "resolving", existed |-> FALSE, attempt |-> 1,
                              filled |-> {}, skipped |-> {}, leftover |-> FALSE]]

-----------------------------------------------------------------------------
\* Fault: the directory is looked for once it has been prepared, when a run that
\* found it there cannot be told from one that made it.
Resolve_NotLooked(r) ==
    /\ run[r].pc = "resolving"
    /\ Go(r, "reading")
    /\ UNCHANGED <<maker, content, initial>>

\* Arguments, resolveRef and exampleExists: an error ends the run before
\* anything is created; otherwise existsSync looks at the target.
Resolve(r) ==
    /\ run[r].pc = "resolving"
    /\ \/ run' = [run EXCEPT ![r].pc = "reading", ![r].existed = Exists]
       \/ Go(r, "threw")
    /\ UNCHANGED <<maker, content, initial>>

\* prepareTarget's readdir: no directory, one to use, or one that is in use or
\* cannot be read.
ReadTarget(r) ==
    /\ run[r].pc = "reading"
    /\ \/ ~Exists /\ Go(r, "making")
       \/ Exists /\ Present \subseteq {".git"} /\ Go(r, "filling")
       \/ Exists /\ Go(r, "threw")
    /\ UNCHANGED <<maker, content, initial>>

\* mkdir, recursive: no error if somebody made the directory meanwhile.
MakeTarget(r) ==
    /\ run[r].pc = "making"
    /\ \/ maker' = (IF Exists THEN maker ELSE r) /\ Go(r, "filling")
       \/ UNCHANGED maker /\ Go(r, "threw")
    /\ UNCHANGED <<content, initial>>

\* The attempt is through with one more part; with the last, it succeeds.
Handled(r, part, skipped) ==
    /\ run[r].pc = "filling"
    /\ part \notin run[r].filled
    /\ LET filled == run[r].filled \cup {part} IN
       run' = [run EXCEPT ![r].filled = filled,
                          ![r].skipped = @ \cup skipped,
                          ![r].pc = IF filled = Parts THEN "rewriting" ELSE @]

Fill(r, part) ==
    /\ Handled(r, part, {})
    /\ content' = [content EXCEPT ![part] = r]

\* downloadAndExtract: tar writes into a directory that must be there.
Extract(r, part) ==
    /\ r \in Downloads
    /\ Exists
    /\ Fill(r, part)
    /\ UNCHANGED <<maker, initial>>

\* `x` is not strict: an entry that cannot be written, or not to its end, is a
\* warning nobody listens to, and the extraction goes on.
PassOver(r, part) ==
    /\ r \in Downloads
    /\ Handled(r, part, {part})
    /\ \/ UNCHANGED content
       \/ Exists /\ content' = [content EXCEPT ![part] = r]
    /\ UNCHANGED <<maker, initial>>

\* copyTemplate: cp makes a directory that is gone when the copying begins.
Copy(r, part) ==
    /\ r \notin Downloads
    /\ Exists \/ run[r].filled = {}
    /\ maker' = IF Exists THEN maker ELSE r
    /\ Fill(r, part)
    /\ UNCHANGED initial

\* Fault: a download that breaks off resolves.
FillFails_Swallowed(r) ==
    /\ run[r].pc = "filling"
    /\ Go(r, "rewriting")
    /\ UNCHANGED <<maker, content, initial>>

\* Fault: the attempt is not counted.
FillFails_Uncounted(r) ==
    /\ run[r].pc = "filling"
    /\ \/ run' = [run EXCEPT ![r].filled = {}, ![r].skipped = {}]
       \/ Abandon(r)
    /\ UNCHANGED <<maker, content, initial>>

\* The attempt fails, leaving what it wrote: GitHub does not answer, the download
\* breaks off, it is no archive, or the directory is gone.  It is tried again from
\* its start, up to Attempts times; a copy, which fails at any file, is not.
FillFails(r) ==
    /\ run[r].pc = "filling"
    /\ IF LastAttempt(r)
       THEN Abandon(r)
       ELSE run' = [run EXCEPT ![r].attempt = @ + 1, ![r].filled = {}, ![r].skipped = {}]
    /\ UNCHANGED <<maker, content, initial>>

\* Fault: package.json is rewritten after the `try`, so nothing is cleaned up.
Rewrite_OutsideTry(r) ==
    /\ run[r].pc = "rewriting"
    /\ \/ /\ content[Manifest] # None
          /\ content' = [content EXCEPT ![Manifest] = r]
          /\ Go(r, "git")
       \/ Go(r, "threw") /\ UNCHANGED content
    /\ UNCHANGED <<maker, initial>>

\* rewritePackageJson: reads package.json and writes it back, or throws (it is
\* gone, not JSON, or pins a workspace version).
Rewrite(r) ==
    /\ run[r].pc = "rewriting"
    /\ \/ /\ content[Manifest] # None
          /\ content' = [content EXCEPT ![Manifest] = r]
          /\ Go(r, "git")
       \/ Abandon(r) /\ UNCHANGED content
    /\ UNCHANGED <<maker, initial>>

\* rm of the target, recursively: all or, when it fails, only some of it goes;
\* the error that stopped the scaffold is rethrown either way.
Clean(r) ==
    /\ run[r].pc = "cleaning"
    /\ \/ /\ maker' = None
          /\ content' = Empty
          /\ Go(r, "threw")
       \/ /\ \E kept \in SUBSET Present :
                content' = [n \in Names |-> IF n \in kept THEN content[n] ELSE None]
          /\ UNCHANGED maker
          /\ run' = [run EXCEPT ![r].pc = "threw", ![r].leftover = TRUE]
    /\ UNCHANGED initial

\* initGit, unless it is declined: `git init` may fail, which is no error.  Then
\* "created" is said.
InitGit(r) ==
    /\ run[r].pc = "git"
    /\ \/ Exists /\ content' = [content EXCEPT ![".git"] = IF @ = None THEN r ELSE @]
       \/ UNCHANGED content
    /\ Go(r, "summary")
    /\ UNCHANGED <<maker, initial>>

\* The summary reads and parses package.json once more, outside of the `try`: a
\* failure rejects, and nothing is cleaned up.
Summarize(r) ==
    /\ run[r].pc = "summary"
    /\ \/ content[Manifest] # None /\ Go(r, "done")
       \/ Go(r, "threwLate")
    /\ UNCHANGED <<maker, content, initial>>

\* The user makes the directory, or adds to it.
UserWrites ==
    /\ UserActs
    /\ maker' = IF Exists THEN maker ELSE User
    /\ \/ UNCHANGED content
       \/ \E n \in Names : content[n] = None /\ content' = [content EXCEPT ![n] = User]
    /\ UNCHANGED <<initial, run>>

Step(r) ==
    \/ Resolve(r) \/ ReadTarget(r) \/ MakeTarget(r)
    \/ \E part \in Parts : Extract(r, part) \/ PassOver(r, part) \/ Copy(r, part)
    \/ FillFails(r) \/ Rewrite(r) \/ Clean(r) \/ InitGit(r) \/ Summarize(r)

Next == (\E r \in Runs : Step(r)) \/ UserWrites

Spec == Init /\ [][Next]_vars

\* Files and network calls settle.
FairSpec == Spec /\ \A r \in Runs : WF_vars(Step(r))

-----------------------------------------------------------------------------
\* What was in the directory when the program was started is never removed or
\* overwritten, however many invocations fail in it and whatever the user adds
\* meanwhile.
InitialKept == \A n \in initial : content[n] = User

\* An invocation that fails before it says "created" leaves nothing behind where
\* there was nothing, unless the cleanup itself failed: "so a typo never leaves an
\* empty directory behind" (run.ts), said of an invocation whose directory nobody
\* else worked on.  (The read of package.json after "created" may fail too; it
\* leaves the project that was announced.)
FailureLeavesNothing ==
    \A r \in Runs :
       (/\ run[r].pc = "threw" /\ ~run[r].existed /\ ~run[r].leftover
        /\ maker # User
        /\ \A s \in Runs \ {r} : run[s].pc = "resolving")
          => ~Exists

\* What has been called "created" has a package.json and every part that its last
\* attempt did not pass over with a warning, after any number of broken attempts and
\* beside any number of invocations that still work on the same directory; one
\* that has failed may have removed parts of it (OnlyOwnRemoved).
CreatedIsThere ==
    (\A s \in Runs : run[s].pc # "threw") =>
       \A r \in Runs : run[r].pc \in {"summary", "done", "threwLate"}
                          => {Manifest} \cup (Parts \ run[r].skipped) \subseteq Present

\* Every invocation comes to an end.
EveryRunEnds == \A r \in Runs : <>(run[r].pc \in Ended)

-----------------------------------------------------------------------------
(* What the repository says of this code, and the code does not do.        *)

\* "Only a directory we created ourselves is ours to remove if the scaffold
\* fails" (run.ts).
OnlyOwnRemoved ==
    [][\A r \in Runs : (run[r].pc = "cleaning" /\ run'[r].pc # "cleaning")
          => maker \in {r, None}]_vars
=============================================================================
