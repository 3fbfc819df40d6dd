--------------------------- MODULE ExampleTarget ---------------------------
(***************************************************************************)
(* parseExampleTarget and resolveRef of create-shopify-mcp: from what was  *)
(* written after --example and --example-path, and what GitHub answers, to *)
(* the path and the commit-ish that are downloaded.                        *)
(*                                                                         *)
(* A text with slashes is the sequence of its parts between them: "a/b/"   *)
(* is <<"a", "b", "">> and "" is <<"">>.  NoPath is a flag not given.      *)
(***************************************************************************)
EXTENDS Integers, Sequences, FiniteSets, FiniteSetsExt, SequencesExt

NoPath == <<>>
Root == <<"">>
FallbackRef == <<"main">>
Refused == [refused |-> TRUE]

\* path.replace(/^\/+|\/+$/g, "")
Stripped(path) ==
    LET parts == {i \in DOMAIN path : path[i] # ""} IN
    IF parts = {} THEN Root ELSE SubSeq(path, Min(parts), Max(parts))

\* Fault: the path is cut off at its first occurrence.
CutOff_First(combined, subpath) ==
    LET starts == {i \in 2 .. Len(combined) :
                      IsPrefix(subpath, SubSeq(combined, i, Len(combined)))} IN
    IF starts = {} THEN combined ELSE SubSeq(combined, 1, Min(starts) - 1)

\* combined without "/" and the path at its end, if it ends with them.
CutOff(combined, subpath) ==
    IF Len(subpath) < Len(combined) /\ IsSuffix(subpath, combined)
    THEN SubSeq(combined, 1, Len(combined) - Len(subpath))
    ELSE combined

\* `value` is a name, or the URL of a repository with what follows it there.
ParseTarget(value, examplePath) ==
    CASE value.kind = "name" ->
            [subpath |-> <<"examples">> \o value.parts, ref |-> "latest-release"]
      [] value.kind = "elsewhere" -> Refused
      [] value.kind = "github" /\ value.parts \in {<<>>, Root} ->
            [subpath |-> IF examplePath = NoPath THEN Root ELSE Stripped(examplePath),
             ref |-> "default-branch"]
      [] value.kind = "github" /\ value.parts \notin {<<>>, Root} ->
            IF value.parts[1] # "tree" \/ Len(value.parts) < 2 \/ value.parts[2] = "" THEN Refused
            ELSE
            LET combined == Tail(value.parts)
                rest     == Tail(combined)
                trimmed  == IF Last(combined) = "" THEN Front(combined) ELSE combined IN
            IF examplePath = NoPath
            THEN [subpath |-> IF rest = <<>> THEN Root ELSE rest,
                  ref |-> "explicit", name |-> <<Head(combined)>>]
            ELSE [subpath |-> Stripped(examplePath),
                  ref |-> "explicit", name |-> CutOff(trimmed, Stripped(examplePath))]

\* Fault: whatever is not a release is no release.
LatestRelease_AnyFailure(target, answer) ==
    [subpath |-> target.subpath,
     ref |-> IF answer.status = 200 /\ answer.name # NoPath THEN answer.name ELSE FallbackRef]

\* No release yet is an ordinary state; anything else is an error.
LatestRelease(target, answer) ==
    CASE answer.status = 404 -> [subpath |-> target.subpath, ref |-> FallbackRef]
      [] answer.status = 200 -> [subpath |-> target.subpath,
                                 ref |-> IF answer.name = NoPath THEN FallbackRef ELSE answer.name]
      [] OTHER               -> Refused

\* resolveRef.  `answer` is GitHub's: its status, 0 for none, and the name of the
\* release or branch in it.
ResolveRef(target, answer) ==
    CASE target = Refused                -> Refused
      [] target # Refused /\ target.ref = "explicit" ->
            [subpath |-> target.subpath, ref |-> target.name]
      [] target # Refused /\ target.ref = "latest-release" -> LatestRelease(target, answer)
      [] target # Refused /\ target.ref = "default-branch" ->
            IF answer.status = 200 /\ answer.name # NoPath
            THEN [subpath |-> target.subpath, ref |-> answer.name]
            ELSE Refused

-----------------------------------------------------------------------------
(* What the user means, and how it is written down.                        *)

\* A branch, a path or a tag.
Name == {name \in Seq(STRING \ {""}) : name # <<>>}

\* `named`: an example of this repository.  `root`: a repository that is an
\* example, or has one at `path`.  `tree`: `path` at `branch`; the URL may go on
\* with the path, and the flag may say it, in slashes or not.
Want ==
         [kind : {"named"}, path : Name, flagged : BOOLEAN, slashed : BOOLEAN]
    \cup [kind : {"root"}, path : Name, slash : BOOLEAN, flagged : BOOLEAN, slashed : BOOLEAN]
    \cup [kind : {"tree"}, branch : Name, path : Name, inUrl : BOOLEAN, slash : BOOLEAN,
          flagged : BOOLEAN, slashed : BOOLEAN]

\* The release that a repository has, if any, and its default branch.
Truth == [release : Name \cup {NoPath}, branch : Name]

TextOf(want) ==
    CASE want.kind = "named" -> [kind |-> "name", parts |-> want.path]
      [] want.kind = "root"  -> [kind |-> "github", parts |-> IF want.slash THEN Root ELSE <<>>]
      [] want.kind = "tree"  ->
            [kind |-> "github",
             parts |-> <<"tree">> \o want.branch \o (IF want.inUrl THEN want.path ELSE <<>>)
                          \o (IF want.slash THEN Root ELSE <<>>)]

ExamplePath(want) ==
    CASE ~want.flagged                  -> NoPath
      [] want.flagged /\ ~want.slashed  -> want.path
      [] want.flagged /\ want.slashed   -> Root \o want.path \o Root

\* A request that says what is meant: without the flag, a branch is one part and
\* the URL has no slash at its end; with it, a branch that ends like the path is
\* written together with it.
Clear(want) ==
    want.kind = "tree" =>
       IF want.flagged
       THEN want.inUrl \/ ~(Len(want.path) < Len(want.branch) /\ IsSuffix(want.path, want.branch))
       ELSE Len(want.branch) = 1 /\ want.inUrl /\ ~want.slash

\* What GitHub may answer; 403 is its rate limit.
Answers(want, truth) ==
    {[status |-> 0, name |-> NoPath], [status |-> 403, name |-> NoPath]}
       \cup (IF want.kind = "named"
             THEN {[status |-> IF truth.release = NoPath THEN 404 ELSE 200, name |-> truth.release]}
             ELSE {[status |-> 200, name |-> truth.branch], [status |-> 404, name |-> NoPath]})

\* What is to be downloaded.
MeantSource(want, truth) ==
    CASE want.kind = "named" ->
            [subpath |-> <<"examples">> \o want.path,
             ref |-> IF truth.release = NoPath THEN FallbackRef ELSE truth.release]
      [] want.kind = "root" ->
            [subpath |-> IF want.flagged THEN want.path ELSE Root, ref |-> truth.branch]
      [] want.kind = "tree" -> [subpath |-> want.path, ref |-> want.branch]

\* The source is the one that is meant, or there is none, and GitHub is to blame:
\* a rate limit or a broken connection is never taken for "no release" or for a
\* branch that is guessed.
SourceMeant(want, truth, answer, source) ==
    IF want.kind = "tree" \/ answer.status = 200 \/ (want.kind = "named" /\ answer.status = 404)
    THEN source = MeantSource(want, truth)
    ELSE source = Refused
=============================================================================
