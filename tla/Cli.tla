-------------------------------- MODULE Cli --------------------------------
(***************************************************************************)
(* One invocation of codex-unlock: src/src/cli.ts with the option rules of *)
(* src/src/options.ts and the update advisory of src/src/update.ts.  The   *)
(* list command awaits the worker pool (ListWorkers), check-update and the *)
(* detached refresh await the registry (FetchLatest); what inspect and     *)
(* unlock do is in the modules Unlock and Termination.                     *)
(***************************************************************************)
EXTENDS ListWorkers, FetchLatest, Sequences, FiniteSets

CONSTANTS
  Launches,   \* the invocations: [argv, ctx]
  Numbers,    \* Numbers[t]: the value of the arguments /^\d+$/ accepts
  ThreadIds,  \* the arguments that THREAD_ID_PATTERN accepts
  Dashed,     \* the arguments that begin with "-"
  Parts       \* more than any part of a version: MAX_VERSION_LENGTH bounds them

Commands == {"list", "inspect", "unlock", "check-update"}
ValueOptions == {"--codex-home", "--stability-ms", "--timeout-ms"}
RefreshArg == "--_refresh-update-cache"

ASSUME LaunchAssumption ==
  /\ ValueOptions \cup {"--help", "--version", "--json", "--no-update-notice",
                        RefreshArg} \subseteq Dashed
  /\ (ThreadIds \cup Commands \cup DOMAIN Numbers) \cap Dashed = {}
  /\ ThreadIds \cap Commands = {}
  /\ "" \notin Dashed /\ Parts \in Nat \ {0}
  /\ \A l \in Launches :
       /\ l.argv \in Seq(STRING)
       /\ l.ctx.current \in Seq(0..(Parts - 1)) /\ l.ctx.cached \in [1..3 -> 0..(Parts - 1)]

VARIABLES
  launch,     \* this invocation
  step,       \* where main is
  parsed,     \* what parseArguments returned
  advisory,   \* the PreparedUpdateAdvisory
  cacheRead,  \* whether it read the cache
  stdout,     \* what was written to stdout, in order
  stderr,     \* likewise
  lease,      \* of check-update and refresh: "unasked", or acquireUpdateRefreshLease
  children,   \* detached refreshes that were spawned
  verdict,    \* what main returns; None before
  exitCode,   \* process.exitCode; Unset before
  broken      \* an error event of stdout: "no", "EPIPE" or "other"

cliVars == <<launch, step, parsed, advisory, cacheRead, stdout, stderr, lease,
             children, verdict, exitCode, broken>>
allVars == <<cliVars, vars, fetchVars>>

Unset == -1
argv == launch.argv
ctx == launch.ctx

-----------------------------------------------------------------------------
(* parseArguments and requestedCommand.                                    *)

Defaults == [json |-> FALSE, quiet |-> FALSE, lock |-> FALSE, home |-> "default",
             stability |-> 1000, timeout |-> 5000]

\* The loop's locals: the option whose value comes next, the positional
\* arguments, the first of --help and --version, whether an error was thrown.
Scan == [awaiting |-> "", words |-> <<>>, standalone |-> "", failed |-> FALSE,
         options |-> Defaults]

\* What integerOption is called with for --stability-ms and for --timeout-ms.
Stabilities == 250..30000
Timeouts == 100..60000

\* A faulty integerOption that accepts every number.
AnyNumber(value, range) == value \in DOMAIN Numbers

\* integerOption
InRange(value, range) == value \in DOMAIN Numbers /\ Numbers[value] \in range

ScanValue(s, value) ==
  CASE s.awaiting = "--codex-home" /\ value \notin Dashed /\ value # "" ->
         [s EXCEPT !.awaiting = "", !.options.home = value]
    [] s.awaiting = "--stability-ms" /\ InRange(value, Stabilities) ->
         [s EXCEPT !.awaiting = "", !.options.stability = Numbers[value]]
    [] s.awaiting = "--timeout-ms" /\ InRange(value, Timeouts) ->
         [s EXCEPT !.awaiting = "", !.options.timeout = Numbers[value]]
    [] OTHER -> [s EXCEPT !.failed = TRUE]

\* standalone ??= ...
FirstStandalone(s, which) == IF s.standalone = "" THEN which ELSE s.standalone

ScanArgument(s, argument) ==
  IF s.failed THEN s
  ELSE IF s.awaiting # "" THEN ScanValue(s, argument)
  ELSE IF argument = "--help" THEN [s EXCEPT !.standalone = FirstStandalone(s, "help")]
  ELSE IF argument = "--version" THEN [s EXCEPT !.standalone = FirstStandalone(s, "version")]
  ELSE IF argument = "--json" THEN [s EXCEPT !.options.json = TRUE]
  ELSE IF argument = "--no-update-notice" THEN [s EXCEPT !.options.quiet = TRUE]
  ELSE IF argument \in ValueOptions
  THEN [s EXCEPT !.awaiting = argument, !.options.lock = TRUE]
  ELSE IF argument \in Dashed THEN [s EXCEPT !.failed = TRUE]
  ELSE [s EXCEPT !.words = Append(@, argument)]

\* What follows the loop: one command, and what it accepts.
AcceptsWords(words, options) ==
  /\ words # <<>>
  /\ \/ words = <<"list">>
     \/ words = <<"check-update">> /\ ~options.lock
     \/ /\ Len(words) = 2
        /\ words[1] \in {"inspect", "unlock"}
        /\ words[2] \in ThreadIds

Parse(what, options) == [what |-> what, options |-> options]
Unparsed == Parse("unparsed", Defaults)

\* The loop over argv.
Scanned(arguments) ==
  LET after[n \in 0..Len(arguments)] ==
        IF n = 0 THEN Scan ELSE ScanArgument(after[n - 1], arguments[n])
  IN  after[Len(arguments)]

ParseArguments(arguments) ==
  LET s == Scanned(arguments)
      ok == ~s.failed /\ s.awaiting = ""
  IN  CASE ok /\ s.standalone # "" /\ ~s.options.json -> Parse(s.standalone, s.options)
        [] ok /\ s.standalone = "" /\ AcceptsWords(s.words, s.options) ->
             Parse(s.words[1], s.options)
        [] OTHER -> Parse("usage_error", s.options)

\* requestedCommand: the loop returns at the first argument that is neither an
\* option nor a value.
Look(s, argument) ==
  IF s.found # <<>> THEN s
  ELSE IF s.skip THEN [s EXCEPT !.skip = FALSE]
  ELSE IF argument \in ValueOptions THEN [s EXCEPT !.skip = TRUE]
  ELSE IF argument \in Dashed THEN s
  ELSE [s EXCEPT !.found = <<argument>>]
Unseen == [skip |-> FALSE, found |-> <<>>]

FirstWord(arguments) ==
  LET after[n \in 0..Len(arguments)] ==
        IF n = 0 THEN Unseen ELSE Look(after[n - 1], arguments[n])
  IN  after[Len(arguments)].found

RequestedCommand(arguments) ==
  LET found == FirstWord(arguments)
  IN  IF found # <<>> /\ found[1] \in Commands THEN found[1] ELSE "null"

-----------------------------------------------------------------------------
(* The update advisory.                                                    *)

\* compareStableVersions: three numbers, the first that differs decides.
Older(left, right) ==
  \E i \in 1..3 : left[i] < right[i] /\ \A j \in 1..(i-1) : left[j] = right[j]

\* stableVersion: a prerelease is none.
Stable(version) == Len(version) = 3

\* A faulty policy that forgets the environment.
DisabledByOption(quiet) == quiet

\* updateAutomationPolicy
Disabled(quiet) == quiet \/ ctx.noticeOff
ReadsCache(json) == json \/ (~ctx.ci /\ ctx.stderrTTY)
ShowsNotice(json) == ~json /\ ~ctx.ci /\ ctx.stderrTTY
Refreshes == ~ctx.ci /\ ctx.stdoutTTY /\ ctx.stderrTTY

Advisory(client, notice, refresh) ==
  [client |-> client, notice |-> notice, refresh |-> refresh]
NoAdvisory == Advisory(FALSE, FALSE, FALSE)

\* cacheBoundaryError, or no user id: asked for only if the cache is read.
Foreign(json) == ReadsCache(json) /\ ctx.cacheRoot # "ours"
LooksAtCache(json) == ReadsCache(json) /\ ~Foreign(json)
Fresh(json) == LooksAtCache(json) /\ ctx.cache = "fresh"
ProvesNewer(json) ==
  Fresh(json) /\ Stable(ctx.current) /\ Older(ctx.current, ctx.cached)

\* prepareUpdateAdvisory
PrepareAdvisory(json, quiet) ==
  IF Disabled(quiet) THEN NoAdvisory
  ELSE Advisory(ProvesNewer(json) /\ json,
                ProvesNewer(json) /\ ShowsNotice(json),
                Refreshes /\ ~Foreign(json) /\ ~Fresh(json))

-----------------------------------------------------------------------------
CliTypeOK ==
  /\ TypeOK /\ FetchTypeOK
  /\ launch \in Launches
  /\ step \in {"parse", "advise", "run", "finish", "return", "refresh", "done"}
  /\ parsed.what \in {"unparsed", "help", "version", "usage_error"} \cup Commands
  /\ parsed.options.stability \in Stabilities /\ parsed.options.timeout \in Timeouts
  /\ advisory \in [client : BOOLEAN, notice : BOOLEAN, refresh : BOOLEAN]
  /\ cacheRead \in BOOLEAN
  /\ lease \in {"unasked", "acquired", "contended", "unavailable"}
  /\ children \in 0..1
  /\ verdict \in {Unset, 0, 1, 2, 3, 64} /\ exitCode \in {Unset, 0, 1, 2, 3, 64}
  /\ broken \in {"no", "EPIPE", "other"}

CliInit ==
  /\ Init /\ FetchInit
  /\ launch \in Launches
  /\ step = "parse" /\ parsed = Unparsed
  /\ advisory = NoAdvisory /\ cacheRead = FALSE
  /\ stdout = <<>> /\ stderr = <<>> /\ lease = "unasked" /\ children = 0
  /\ verdict = Unset /\ exitCode = Unset /\ broken = "no"

json == parsed.options.json

\* withClientUpdate adds the advisory's block; in check-update's result client
\* stands for updateAvailable.
Document(command, kind, code, client) ==
  [json |-> TRUE, command |-> command, kind |-> kind, code |-> code, client |-> client]
Text(kind) == [json |-> FALSE, kind |-> kind]

Silent == UNCHANGED <<stdout, stderr, verdict>>
Emit(onStdout, onStderr) == stdout' = stdout \o onStdout /\ stderr' = stderr \o onStderr

\* Human text is one entry; on failure it is on stderr.
Report(command, kind, code) ==
  /\ verdict' = code
  /\ IF json THEN Emit(<<Document(command, kind, code, advisory.client)>>, <<>>)
     ELSE IF kind \in {"invalid_usage", "command_failed"}
     THEN Emit(<<>>, <<Text(kind)>>) ELSE Emit(<<Text(kind)>>, <<>>)

\* parseArguments; an argument list that is RefreshArg alone is not parsed.
ParseArgv ==
  /\ step = "parse" /\ argv # <<RefreshArg>>
  /\ parsed' = ParseArguments(argv)
  /\ CASE parsed'.what = "help" ->
            /\ Emit(<<Text("help")>>, <<>>)
            /\ verdict' = 0 /\ step' = "return"
       [] parsed'.what = "version" ->
            /\ IF ctx.manifest THEN Emit(<<Text("version")>>, <<>>) /\ verdict' = 0
               ELSE Emit(<<>>, <<Text("uncaught")>>) /\ verdict' = 1
            /\ step' = "return"
       [] parsed'.what = "check-update" -> step' = "run" /\ Silent
       [] OTHER -> step' = "advise" /\ Silent
  /\ UNCHANGED <<launch, advisory, cacheRead, lease, children, exitCode, broken, vars, fetchVars>>

\* After a usage error the flags are looked for anywhere in argv.
Mentions(flag) == \E i \in 1..Len(argv) : argv[i] = flag

UsageError ==
  /\ verdict' = 64
  /\ step' = "finish"
  /\ IF Mentions("--json")
     THEN Emit(<<Document(RequestedCommand(argv), "invalid_usage", 64,
                        advisory'.client)>>, <<>>)
     ELSE Emit(<<>>, <<Text("invalid_usage")>>)

\* prepareAutomaticAdvisory, before the command runs.  Without a readable
\* package.json it throws where nobody catches it.
Advise ==
  LET usageError == parsed.what = "usage_error"
      asJson == IF usageError THEN Mentions("--json") ELSE json
      quiet == IF usageError THEN Mentions("--no-update-notice") ELSE parsed.options.quiet
  IN  /\ step = "advise"
      /\ \/ /\ ~ctx.manifest
            /\ Emit(<<>>, <<Text("uncaught")>>) /\ verdict' = 1 /\ step' = "return"
            /\ UNCHANGED <<advisory, cacheRead>>
         \/ /\ ctx.manifest
            /\ advisory' = PrepareAdvisory(asJson, quiet)
            /\ cacheRead' = (~Disabled(quiet) /\ LooksAtCache(asJson))
            /\ IF usageError THEN UsageError
               ELSE step' = "run" /\ Silent
      /\ UNCHANGED <<launch, parsed, lease, children, exitCode, broken, vars, fetchVars>>

Finishing == step' = "finish"
Kept == UNCHANGED <<launch, parsed, advisory, cacheRead, lease, children, exitCode, broken>>

Running(command) == step = "run" /\ parsed.what = command

\* await listThreads: the workers, and the promise that settles after them.
ListRuns ==
  /\ Running("list")
  /\ Settle \/ \E w \in Workers : Worker(w)
  /\ UNCHANGED <<cliVars, fetchVars>>

\* The Codex home cannot be resolved or its lock directory not be read.
ListFails ==
  /\ Running("list") /\ nextIndex = 0 /\ outcome = "pending"
  /\ Report("list", "command_failed", 3) /\ Finishing
  /\ Kept /\ UNCHANGED <<vars, fetchVars>>

ListEnds ==
  /\ Running("list") /\ outcome # "pending"
  /\ IF outcome = "listed" THEN Report("list", "sessions", 0)
     ELSE Report("list", "command_failed", 3)
  /\ Finishing /\ Kept /\ UNCHANGED <<vars, fetchVars>>

InspectEnds ==
  /\ Running("inspect")
  /\ Report("inspect", "inspection", 0) \/ Report("inspect", "command_failed", 3)
  /\ Finishing /\ Kept /\ UNCHANGED <<vars, fetchVars>>

\* A faulty exit code: whatever did not fail is a success.
CodeUnlessFailed(result) == IF result = "failed" THEN 3 ELSE 0

\* The exit code of an unlock's outcome.
CodeOf(result) ==
  CASE result \in {"unlocked", "not_locked"} -> 0 [] result = "refused" -> 2 [] OTHER -> 3

\* "failed" stands for the other outcomes: still_locked, verification_failed
\* and their like.
UnlockEnds ==
  /\ Running("unlock")
  /\ \/ \E result \in {"unlocked", "not_locked", "refused", "failed"} :
          Report("unlock", result, CodeOf(result))
     \/ Report("unlock", "command_failed", 3)
  /\ Finishing /\ Kept /\ UNCHANGED <<vars, fetchVars>>

-----------------------------------------------------------------------------
(* check-update and the detached refresh.                                  *)

Updating == Running("check-update") \/ step = "refresh"

\* Only a process started with RefreshArg alone refreshes.
BeginRefresh ==
  /\ step = "parse" /\ argv = <<RefreshArg>>
  /\ step' = "refresh"
  /\ UNCHANGED <<launch, parsed, advisory, cacheRead, stdout, stderr, lease, children,
                 verdict, exitCode, broken, vars, fetchVars>>

\* acquireUpdateRefreshLease never touches a cache root that is not ours.
AskLease ==
  /\ Updating /\ lease = "unasked"
  /\ lease' \in IF ctx.cacheRoot = "ours" THEN {"acquired", "contended", "unavailable"}
               ELSE {"unavailable"}
  /\ UNCHANGED <<launch, step, parsed, advisory, cacheRead, stdout, stderr, children,
                 verdict, exitCode, broken, vars, fetchVars>>

\* The two go on without a lease, or do not.
MayFetch == lease = "acquired" \/ (lease = "unavailable" /\ step = "run")

SendRequest ==
  /\ Updating /\ MayFetch
  /\ StartFetch
  /\ UNCHANGED <<cliVars, vars>>

AwaitRegistry ==
  /\ Updating /\ Fetching
  /\ FetchStep
  /\ UNCHANGED <<cliVars, vars>>

\* A faulty check that takes any cached record when the lease is held.
AnyCache == ctx.cache # "missing"

\* Whoever has the lease may have just written the cache.
FreshCache == ctx.cache = "fresh"

\* checkUpdate: a prerelease cannot be compared with what was found.
ReportUpdate(latest) ==
  IF ctx.manifest /\ Stable(ctx.current)
  THEN \E warned \in IF lease = "acquired" THEN BOOLEAN ELSE {TRUE} :
         /\ verdict' = 0
         /\ IF json
            THEN Emit(<<Document("check-update", "update", 0, Older(ctx.current, latest))>>,
                      <<>>)
            ELSE Emit(<<Text("update")>>,
                      IF warned THEN <<Text("cache_warning")>> ELSE <<>>)
  ELSE Report("check-update", "command_failed", 3)

CheckEnds ==
  /\ Running("check-update")
  /\ \/ /\ lease = "contended"
        /\ IF FreshCache THEN ReportUpdate(ctx.cached)
           ELSE Report("check-update", "command_failed", 3)
     \/ /\ fetched = "ok" /\ ReportUpdate(ctx.published)
     \/ /\ fetched \in Reasons /\ Report("check-update", "command_failed", 3)
  /\ step' = "return"
  /\ Kept /\ UNCHANGED <<vars, fetchVars>>

\* refreshUpdateCache().catch(() => undefined): silent, and exit code 0.
RefreshEnds ==
  /\ step = "refresh"
  /\ lease \in {"contended", "unavailable"} \/ fetched # "none"
  /\ step' = "return" /\ verdict' = 0
  /\ UNCHANGED <<stdout, stderr>> /\ Kept /\ UNCHANGED <<vars, fetchVars>>

-----------------------------------------------------------------------------
(* The end.                                                                *)

\* scheduleUpdateRefresh swallows a failure to spawn.
SpawnRefresh ==
  /\ children' \in IF advisory.refresh THEN {0, 1} ELSE {0}
  /\ exitCode' = verdict

\* finishAutomaticAdvisory, then process.exitCode = await main().  A write of
\* the notice that throws is swallowed, too.
Finish ==
  /\ step = "finish"
  /\ step' = "done"
  /\ stderr' \in {stderr, stderr \o IF advisory.notice THEN <<Text("notice")>> ELSE <<>>}
  /\ SpawnRefresh
  /\ UNCHANGED <<launch, parsed, advisory, cacheRead, stdout, lease, verdict, broken,
                 vars, fetchVars>>

Return ==
  /\ step = "return"
  /\ step' = "done" /\ exitCode' = verdict
  /\ UNCHANGED <<launch, parsed, advisory, cacheRead, stdout, stderr, lease, children,
                 verdict, broken, vars, fetchVars>>

\* The error event of stdout comes from the event loop, after the microtasks
\* in which main returned.
StdoutFails ==
  /\ step = "done" /\ broken = "no" /\ stdout # <<>>
  /\ broken' \in {"EPIPE", "other"}
  /\ exitCode' = IF broken' = "EPIPE" THEN exitCode ELSE 3
  /\ UNCHANGED <<launch, step, parsed, advisory, cacheRead, stdout, stderr, lease,
                 children, verdict, vars, fetchVars>>

CliStep ==
  \/ ParseArgv \/ Advise \/ ListRuns \/ ListEnds \/ InspectEnds \/ UnlockEnds
  \/ BeginRefresh \/ AskLease \/ SendRequest \/ CheckEnds \/ RefreshEnds
  \/ Finish \/ Return

CliNext == CliStep \/ ListFails \/ AwaitRegistry \/ StdoutFails

CliSpec == CliInit /\ [][CliNext]_allVars

\* The event loop runs what is due, the timer of the request included;
\* inspections and unlocks end (module Termination).  Nothing is assumed of
\* the registry.
CliFairSpec ==
  /\ CliSpec
  /\ WF_allVars(CliStep)
  /\ WF_allVars(FetchTimeout /\ AwaitRegistry)

-----------------------------------------------------------------------------
\* How cli-reference.md and the help text describe an argument list: each
\* argument has a role, and the roles decide whether it is accepted.
Roles(arguments) ==
  {role \in [1..Len(arguments) -> {"option", "value", "flag", "word"}] :
     \A i \in 1..Len(arguments) :
       /\ (role[i] = "value") = (i > 1 /\ role[i-1] = "option")
       /\ role[i] = "option" => arguments[i] \in ValueOptions
       /\ role[i] = "flag" => arguments[i] \in Dashed \ ValueOptions
       /\ role[i] = "word" => arguments[i] \notin Dashed}

Valid(option, value) ==
  CASE option = "--codex-home" -> value \notin Dashed /\ value # ""
    [] option = "--stability-ms" -> value \in DOMAIN Numbers /\ Numbers[value] \in Stabilities
    [] option = "--timeout-ms" -> value \in DOMAIN Numbers /\ Numbers[value] \in Timeouts

Runs(arguments, command) ==
  \E role \in Roles(arguments) :
    LET At(kind) == {i \in 1..Len(arguments) : role[i] = kind}
        args(kind) == {arguments[i] : i \in At(kind)}
    IN  /\ args("flag") \subseteq {"--json", "--no-update-notice"}
        /\ \A i \in At("option") : i + 1 \in At("value") /\ Valid(arguments[i], arguments[i+1])
        /\ \E i \in At("word") :
             /\ arguments[i] = command /\ \A k \in At("word") : k >= i
             /\ \A k \in At("word") \ {i} : arguments[k] \in ThreadIds
             /\ Cardinality(At("word")) = IF command \in {"inspect", "unlock"} THEN 2 ELSE 1
        /\ command = "check-update" => At("option") = {}

\* Usage validation comes before everything else (json-v1.md): a command runs
\* only if the whole argument list describes it, with its values in range, and
\* the JSON of a usage error names the command that is the first argument that
\* is not an option or the value of one.
UsageFirst == step = "done" =>
  /\ \A c \in Commands : Runs(argv, c) => parsed.what = c
  /\ parsed.what \in Commands => Runs(argv, parsed.what)
  /\ \A i \in 1..Len(stdout) : stdout[i].json /\ stdout[i].kind = "invalid_usage" =>
       \A role \in Roles(argv), k \in 1..Len(argv) :
         (role[k] = "word" /\ \A j \in 1..(k-1) : role[j] # "word") =>
           stdout[i].command = IF argv[k] \in Commands THEN argv[k] ELSE "null"

\* Usage comes first, and then: a caller that asked for JSON gets exactly one
\* document, and nothing on stderr; the document's code is the exit code.
\* Otherwise stdout has no document.  The exit code tells how the command
\* ended, whatever the advisory, the notice and the spawned refresh do.
OneVerdict ==
  /\ UsageFirst
  /\ (step = "done" /\ verdict # 1 /\ argv # <<RefreshArg>>) =>
      /\ exitCode = IF broken = "other" THEN 3 ELSE verdict
      /\ IF Mentions("--json")
         THEN /\ Len(stdout) = 1 /\ stdout[1].json /\ stdout[1].code = verdict
              /\ stderr = <<>>
         ELSE \A i \in 1..Len(stdout) : ~stdout[i].json
      /\ parsed.what = "list" => (verdict = 0) = (outcome = "listed")
      /\ (verdict = 0) = (stdout # <<>> /\ stdout[1].kind \notin
           {"invalid_usage", "command_failed", "refused", "failed"})

\* Where a version stands among all of them.
Ordinal(version) == Parts * (Parts * version[1] + version[2]) + version[3]

\* update-security.md: switched off means no cache read, no notice and no
\* child; CI and commands that are not interactive start none; a refresh and
\* an explicit check start none and read no advisory; and a notice or a client
\* block says that the cached version is newer, which it is.
AdvisoryKeepsToPolicy ==
  /\ (Mentions("--no-update-notice") \/ ctx.noticeOff) =>
       ~cacheRead /\ children = 0 /\ ~advisory.client /\ ~advisory.notice
  /\ (ctx.ci \/ ~ctx.stdoutTTY \/ ~ctx.stderrTTY) => children = 0
  /\ (argv = <<RefreshArg>> \/ parsed.what \in {"check-update", "help", "version"}) =>
       children = 0 /\ ~cacheRead
  /\ ctx.cacheRoot # "ours" => ~cacheRead
  /\ children = 1 => ctx.cache # "fresh"
  /\ (advisory.client \/ advisory.notice) =>
       Stable(ctx.current) /\ Ordinal(ctx.current) < Ordinal(ctx.cached)

\* check-update reports a version only if a fresh cache had it while another
\* process held the lease, or if a JSON answer with status 2xx, from the
\* registry itself, was read to its end within both limits.
VersionIsVouched ==
  (parsed.what = "check-update" /\ verdict = 0) =>
    \/ lease = "contended" /\ ctx.cache = "fresh"
    \/ /\ fetched = "ok" /\ deadline # "fired"
       /\ response.status = "2xx" /\ ~response.redirected /\ response.json
       /\ kept = sent /\ sent <= MaximumBytes

\* The process ends although the registry never answers, or sends for ever.
Exits == <>(step = "done")
=============================================================================
