------------------------------- MODULE Inputs -------------------------------
(***************************************************************************)
(* The algorithms that decide about one input each, run on every input of  *)
(* a bounded set: a command line, an example and GitHub's answer, a        *)
(* callback's query, the address of a client metadata host.                *)
(***************************************************************************)
EXTENDS CliArgs, ExampleTarget, CallbackQuery, PrivateAddress

CONSTANTS
    CommandLines,   \* sequences of arguments
    Wants, Truths,  \* examples that are asked for; what GitHub has
    Queries,        \* queries of callbacks
    Texts,          \* texts that Shopify signs
    Addresses4, Addresses6      \* addresses, by their groups

ASSUME CommandLineAssumption == CommandLines \subseteq Seq(Argument)
ASSUME QueryAssumption ==
    /\ KeyOrder \in Seq(STRING)
    /\ \A i, j \in DOMAIN KeyOrder : KeyOrder[i] = KeyOrder[j] => i = j
    /\ Queries \subseteq Seq({pair \in Pair : \E i \in DOMAIN KeyOrder : KeyOrder[i] = pair.key})
    /\ Texts \subseteq Signable
ASSUME ExampleAssumption == Wants \subseteq Want /\ Truths \subseteq Truth
ASSUME AddressAssumption == Addresses4 \subseteq Address4 /\ Addresses6 \subseteq Address6

VARIABLES
    input,      \* what is decided about
    output      \* what was decided

vars == <<input, output>>

NotYet == [kind |-> "none"]

CommandLineInputs == [kind : {"argv"}, argv : CommandLines]

\* An example that is asked for, and all that GitHub may answer.
AskedFor(want) ==
    UNION {[kind : {"example"}, want : {want}, truth : {truth}, answer : Answers(want, truth)] :
              truth \in Truths}

ExampleInputs == UNION {AskedFor(want) : want \in {w \in Wants : Clear(w)}}

QueryInputs == [kind : {"query"}, query : Queries, signed : Texts]

AddressInputs4 == [kind : {"address"}, version : {4}, groups : Addresses4]

AddressInputs6 ==
    UNION {[kind : {"address"}, version : {6}, groups : {groups}, spelling : Spellings(groups)] :
              groups \in Addresses6}

Inputs ==
    CommandLineInputs \cup ExampleInputs \cup QueryInputs \cup AddressInputs4 \cup AddressInputs6

Init == input \in Inputs /\ output = NotYet

Decided(kind, result) ==
    /\ output = NotYet
    /\ output' = [kind |-> kind, result |-> result]
    /\ UNCHANGED input

ReadCommandLine ==
    input.kind = "argv" /\ Decided("argv", ParseArgs(input.argv))

FindExample ==
    /\ input.kind = "example"
    /\ Decided("example", ResolveRef(ParseTarget(TextOf(input.want), ExamplePath(input.want)),
                                     input.answer))

CheckQuery ==
    input.kind = "query" /\ Decided("query", Verified(input.query, input.signed))

JudgeAddress ==
    input.kind = "address" /\ Decided("address", IsPrivateOrLoopback(input))

Next == ReadCommandLine \/ FindExample \/ CheckQuery \/ JudgeAddress

Spec == Init /\ [][Next]_vars

-----------------------------------------------------------------------------
\* A command line means what its flags say wherever they stand: every value goes
\* with its flag, nothing is dropped or taken for something else, and whatever
\* means nothing is refused (args.test.ts: "names an unknown flag rather than
\* ignoring it").
CommandLinesUnderstood ==
    output.kind = "argv" => Understood(input.argv, output.result)

\* The example that is downloaded is the one that was asked for, at the newest
\* release, the default branch or the branch that the URL and the flag name
\* between them; or none is, because GitHub did not say.
ExamplesFound ==
    output.kind = "example" =>
       SourceMeant(input.want, input.truth, input.answer, output.result)

\* A callback's query passes exactly if it says of every parameter what Shopify
\* signed, in whatever order the parameters came ("sort explicitly rather than
\* trust received order"), and bears one hmac.
QueriesGenuine ==
    output.kind = "query" => (output.result <=> Genuine(input.query, input.signed))

\* An address is judged as the address blocks say, and alike in every spelling
\* and every notation that carries it (cimd.ts: "extract the embedded IPv4 and
\* reclassify that through the one set of ipv4 rules").
AddressesJudged ==
    output.kind = "address" => (output.result <=> Reserved(input))
=============================================================================
