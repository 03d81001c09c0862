-------------------------- MODULE ProcessEvidence --------------------------
(***************************************************************************)
(* src/src/process.ts: what the program concludes from ps, lsof and /proc  *)
(* about lock openers, a process's identity and exit, its arguments, its   *)
(* open lock files and the process table, while the processes and files    *)
(* change between one diagnostic and the next.                             *)
(*                                                                         *)
(* runCommand is here what RunCommand's CleanIsWhole says of it: a result  *)
(* without a failure has all that the tool wrote.                          *)
(***************************************************************************)
EXTENDS Naturals, Sequences, FiniteSets, SequencesExt, FiniteSetsExt, Functions

CONSTANTS
  MaxArguments,  \* arguments of a process after the executable
  MaxOpens,      \* files that a process has open
  Pids           \* PIDs of the process table, 1..Pids

ASSUME EvidenceAssumption ==
  MaxArguments \in Nat /\ MaxOpens \in Nat /\ Pids \in Nat \ {0}

VARIABLES
  query,    \* the function that runs, and its parameters
  machine,  \* the processes and files that it is about
  seen,     \* what its diagnostics have said
  answer    \* what it returned, or Unanswered

evidenceVars == <<query, machine, seen, answer>>

Unanswered == [done |-> FALSE]
Answers(value) == answer' = [done |-> TRUE, value |-> value]
Answered(kind) == query.kind = kind /\ answer.done

-----------------------------------------------------------------------------
(* runDiagnostic: a failure, a tool killed within its output, a warning    *)
(* over a part of it, or all of it.                                        *)

Says(status, text) ==
  [failure |-> FALSE, warned |-> FALSE, garbled |-> FALSE, status |-> status, text |-> text]

Diagnostic(status, text) ==
  {Says(status, text)}
  \cup {[Says("killed", part) EXCEPT !.failure = failed] :
          part \in Prefixes(text), failed \in BOOLEAN}
  \cup {[Says(s, part) EXCEPT !.warned = TRUE] :
          s \in {"zero", "one"}, part \in Prefixes(text)}

\* ps also gives up with status 1 and says nothing, or says what is no value.
Ps(exists, value) ==
  LET text == IF exists THEN <<value>> ELSE <<>>
  IN Diagnostic(IF exists THEN "zero" ELSE "one", text)
     \cup {Says("one", <<>>), [Says("zero", text) EXCEPT !.garbled = TRUE]}

-----------------------------------------------------------------------------
(* findLockOpeners, parseLsofProcesses, processTable.                      *)

\* lsof -F0pcu: a p field for each process, then what it says of it.
OpenerFields(pids) == FlattenSeq([i \in 1..Cardinality(pids) |->
  LET p == SetToSeq(pids)[i] IN << <<"p", p>>, <<"c", p>>, <<"u", p>> >>])

ParseLsofProcesses(text) == {text[i][2] : i \in {j \in DOMAIN text : text[j][1] = "p"}}

LockOpeners(result) ==
  LET found == IF result.failure THEN {} ELSE ParseLsofProcesses(result.text)
  IN [pids |-> found,
      error |-> \/ result.failure \/ result.warned
                \/ ~(result.status = "zero" \/ (result.status = "one" /\ found = {}))]

FindLockOpeners ==
  /\ query.kind = "openers"
  /\ \E result \in Diagnostic(IF machine.openers = {} THEN "one" ELSE "zero",
                              OpenerFields(machine.openers)) :
       Answers(LockOpeners(result))
  /\ UNCHANGED <<query, machine, seen>>

\* Its rows, none when it failed.  A warning with status zero is overlooked.
ProcessTables(table) ==
  LET rows == SetToSeq(DOMAIN table)
  IN {[whole |-> r.text = rows,
       rows |-> IF r.failure \/ r.status # "zero" THEN {} ELSE Range(r.text)] :
      r \in Diagnostic("zero", rows)}

\* descendantPids: breadth first from the children of pid.
DescendantPids(table, pid) ==
  LET children(p) == {c \in DOMAIN table : table[c] = p}
      size == Cardinality(DOMAIN table)
      found[n \in 0..size] ==
        IF n = 0 THEN children(pid)
        ELSE found[n - 1] \cup UNION {children(p) : p \in found[n - 1]}
  IN found[size]

\* currentProcessFamily: up the parents, until 0 or a process seen before.
CurrentProcessFamily(table, self) ==
  LET up(p) == IF p \in DOMAIN table THEN table[p] ELSE 0
      size == Cardinality(DOMAIN table)
      family[n \in 0..size] ==
        IF n = 0 THEN <<self>>
        ELSE LET f == family[n - 1] p == up(Last(f))
             IN IF p = 0 \/ p \in Range(f) THEN f ELSE Append(f, p)
  IN Range(family[size])

ReadProcessTable ==
  /\ query.kind = "table"
  /\ \E t \in ProcessTables(machine.parents) :
       LET table == Restrict(machine.parents, t.rows)
       IN Answers([known |-> t.rows # {}, whole |-> t.whole,
                   below |-> DescendantPids(table, query.pid),
                   above |-> CurrentProcessFamily(table, query.pid)])
  /\ UNCHANGED <<query, machine, seen>>

-----------------------------------------------------------------------------
(* psField, processStartTimeFromCommand, processExitObservationFromCommand, *)
(* confirmAbsence, originalProcessExited.                                   *)

\* An observation: its status and the value, in a sequence.
Unknown == [status |-> "unknown", value |-> <<>>]
Absent == [status |-> "absent", value |-> <<>>]

PsField(result) ==
  IF result.failure THEN Unknown
  ELSE IF result.status = "zero" /\ result.text # <<>>
  THEN [status |-> "present", value |-> result.text]
  ELSE IF result.status = "one" /\ result.text = <<>> THEN Absent
  ELSE Unknown

\* A start time, alone or after a state, must be a date.
StartTime(result) ==
  IF result.garbled THEN Unknown ELSE PsField(result)

\* What ps -o stat=,lstart= has of it.
Gone == [start |-> 0, zombie |-> FALSE]
Sample == [start |-> machine.starts[machine.who], zombie |-> machine.zombie]

\* confirmAbsence: kill(pid, 0) finds nobody, somebody, or may not tell.
ConfirmAbsence(exists) == {Unknown} \cup (IF exists THEN {} ELSE {Absent})

OriginalProcessExited(observation, start) ==
  CASE observation.status = "unknown" -> "unknown"
    [] observation.status = "absent" -> "exited"
    [] OTHER -> IF observation.value[1].start # start \/ observation.value[1].zombie
                THEN "exited" ELSE "running"

ReadExit ==
  /\ query.kind = "exit" /\ seen = <<>>
  /\ \E result \in Ps(machine.who # 0, IF machine.who = 0 THEN Gone ELSE Sample) :
       seen' = <<StartTime(result), machine>>
  /\ UNCHANGED <<query, machine, answer>>

ConfirmExit ==
  /\ query.kind = "exit" /\ seen # <<>> /\ ~answer.done
  /\ \E o \in IF seen[1].status = "absent" THEN ConfirmAbsence(machine.who # 0) ELSE {seen[1]} :
       Answers(OriginalProcessExited(o, machine.starts[1]))
  /\ UNCHANGED <<query, machine, seen>>

-----------------------------------------------------------------------------
(* reconcileArguments, classifyCodexMode.                                   *)

RootValueOptions == {"--model"}
RootFlags == {"--oss"}
ExecValueOptions == {"--color", "--cyber"}
ExecFlags == {"--json"}
ResumeFlags == {"--last"}
RemoteOptions == {"--remote"}
SharedModes == {"app-server"}
OtherModes == {"review", "login"}
\* Words that match SHARED_SERVICE_PATTERN; the last one is a prompt.
ServiceWords == {"app-server", "my-daemon", "ask the daemon"}
Prompts == {"ask the daemon", "word", "standard", "-"}
\* An option with its value attached.
Attached == [t \in {"--model=v", "--cyber=standard"} |->
  IF t = "--model=v" THEN <<"--model", "v">> ELSE <<"--cyber", "standard">>]

Options == RootValueOptions \cup RootFlags \cup ExecValueOptions \cup ExecFlags
  \cup ResumeFlags \cup RemoteOptions \cup {"--image"} \cup DOMAIN Attached
Words == Options \cup SharedModes \cup OtherModes \cup ServiceWords \cup Prompts
  \cup {"--", "exec", "resume"}

Dashed(t) == t \in Options \cup {"--", "-"}

ValueOptions(mode) == RootValueOptions \cup (IF mode = "exec" THEN ExecValueOptions ELSE {})
Flags(mode) == RootFlags \cup (IF mode = "exec" THEN ExecFlags ELSE {})
  \cup (IF mode = "resume" THEN ResumeFlags ELSE {})

Decided(s, verdict) == [s EXCEPT !.verdict = verdict]

\* The value of an option.
TakeValue(s, option, v) ==
  IF Dashed(v) \/ (option = "--cyber" /\ (s.cyber \/ v # "standard"))
  THEN Decided([s EXCEPT !.wants = "none"], "error")
  ELSE [s EXCEPT !.wants = "none", !.cyber = @ \/ option = "--cyber"]

TakeOption(s, t) ==
  LET option == IF t \in DOMAIN Attached THEN Attached[t][1] ELSE t
  IN IF option \in RemoteOptions THEN Decided(s, "shared")
     ELSE IF option \in ValueOptions(s.mode)
     THEN IF t \in DOMAIN Attached THEN TakeValue(s, option, Attached[t][2])
          ELSE [s EXCEPT !.wants = option]
     ELSE IF t \in Flags(s.mode) THEN s
     ELSE Decided(s, "error")

OperandLimit(mode) == IF mode = "resume" THEN 2 ELSE 1

TakePrompt(s, t) ==
  IF \/ s.mode = "exec" /\ s.operands = 0 /\ t \in {"resume", "review"}
     \/ s.operands = OperandLimit(s.mode)
  THEN Decided(s, "error") ELSE [s EXCEPT !.operands = @ + 1]

\* A faulty first operand: a service is looked for among the options only.
AnyOperand(s, t) == TakePrompt([s EXCEPT !.chosen = TRUE], t)

\* The first operand that is not an option's value is the mode or the prompt.
FirstOperand(s, t) ==
  IF t \in SharedModes THEN Decided(s, "shared")
  ELSE IF t \in OtherModes \/ t \in ServiceWords \ Prompts THEN Decided(s, "error")
  ELSE IF t \in {"exec", "resume"} /\ ~s.literal THEN [s EXCEPT !.chosen = TRUE, !.mode = t]
  ELSE TakePrompt([s EXCEPT !.chosen = TRUE], t)

TakeToken(s, t) ==
  IF s.verdict # "unshared" THEN s
  ELSE IF s.wants # "none" THEN TakeValue(s, s.wants, t)
  ELSE IF t = "--" /\ ~s.literal THEN [s EXCEPT !.literal = TRUE]
  ELSE IF t \in Options /\ ~s.literal THEN TakeOption(s, t)
  ELSE IF s.chosen THEN TakePrompt(s, t) ELSE FirstOperand(s, t)

NoToken == [mode |-> "interactive", chosen |-> FALSE, literal |-> FALSE,
            operands |-> 0, cyber |-> FALSE, wants |-> "none", verdict |-> "unshared"]

TakeTokens(words) ==
  LET after[n \in 0..Len(words)] ==
        IF n = 0 THEN NoToken ELSE TakeToken(after[n - 1], words[n])
  IN after[Len(words)]

ClassifyCodexMode(argv) ==
  LET end == TakeTokens(argv.words)
  IN CASE argv.run = "other" -> "error"
       [] argv.run = "codex-daemon" -> "shared"
       [] OTHER -> IF end.verdict = "unshared" /\ end.wants # "none" THEN "error" ELSE end.verdict

\* Flattened text: a service word or a remote option anywhere.
FlattenedSharedService(argv) ==
  \/ argv.run = "codex-daemon"
  \/ Range(argv.words) \cap (ServiceWords \cup RemoteOptions) # {}

Nobody == [run |-> "none", words |-> <<>>]

\* ps's arguments (Nobody: none) and the kernel's (a status, and argv).  Off
\* Linux there is no kernel argv.
ReconcileArguments(ps, kernel) ==
  LET flat == FlattenedSharedService(ps) \/ FlattenedSharedService(kernel.argv)
      mode == ClassifyCodexMode(kernel.argv)
  IN IF ps = Nobody \/ kernel.status = "none"
     THEN [arguments |-> ps # Nobody, shared |-> flat]
     ELSE IF kernel.status = "unknown" \/ ps # kernel.argv \/ mode = "error"
     THEN [arguments |-> FALSE, shared |-> flat]
     ELSE [arguments |-> TRUE, shared |-> mode = "shared"]

\* What ps prints of argv: on Linux it may be cut.
PsArguments(argv, linux) ==
  {Nobody, argv}
  \cup {[argv EXCEPT !.words = part] : part \in IF linux THEN Prefixes(argv.words) ELSE {}}
KernelArguments(argv, linux) ==
  IF linux THEN {[status |-> "present", argv |-> argv], [status |-> "unknown", argv |-> Nobody]}
  ELSE {[status |-> "none", argv |-> Nobody]}

JudgeArguments ==
  /\ query.kind = "arguments"
  /\ \E ps \in PsArguments(machine.argv, query.linux), kernel \in KernelArguments(machine.argv, query.linux) :
       LET evidence == ReconcileArguments(ps, kernel)
       IN Answers([arguments |-> evidence.arguments, shared |-> evidence.shared,
                   cut |-> ps # machine.argv, whole |-> kernel.status = "present"])
  /\ UNCHANGED <<query, machine, seen>>

-----------------------------------------------------------------------------
(* inspectProcess: eight observations in parallel.  ppid stands for uid,   *)
(* tty and cwd too.                                                        *)

Fields == {"ppid", "start", "comm", "args"} \cup (IF query.linux THEN {"kernel"} ELSE {})

\* A zombie's command line is empty for the kernel and "defunct" for ps.
Truth(field) ==
  CASE field = "args" -> IF machine.zombie THEN [run |-> "other", words |-> <<>>] ELSE machine.argv
    [] field = "start" -> machine.starts[machine.who]
    [] OTHER -> machine.who

FieldAnswers(field) ==
  IF field = "kernel"
  THEN {[status |-> "unknown", argv |-> Nobody]} \cup
       IF machine.who = 0 THEN {}
            ELSE {[status |-> "present", argv |-> IF machine.zombie THEN Nobody ELSE machine.argv]}
  ELSE {StartTime(r) : r \in Ps(machine.who # 0, IF machine.who = 0 THEN 0 ELSE Truth(field))}

\* The absence that ps reports is confirmed with the start time.
ObserveField(field) ==
  /\ query.kind = "inspect" /\ field \in Fields \ DOMAIN seen
  /\ \E said \in FieldAnswers(field) :
       \E o \in IF field = "start" /\ said.status = "absent" THEN ConfirmAbsence(machine.who # 0) ELSE {said} :
         seen' = [f \in DOMAIN seen \cup {field} |-> IF f = field THEN o ELSE seen[f]]
  /\ machine' = [machine EXCEPT !.changed = @ /\ DOMAIN seen # {}]
  /\ UNCHANGED <<query, answer>>

InspectProcess ==
  /\ query.kind = "inspect" /\ ~answer.done /\ DOMAIN seen = Fields
  /\ LET ps == IF seen["args"].status = "present" THEN seen["args"].value[1] ELSE Nobody
         kernel == IF query.linux THEN seen["kernel"] ELSE [status |-> "none", argv |-> Nobody]
         evidence == ReconcileArguments(ps, kernel)
     IN Answers([complete |-> /\ \A f \in {"ppid", "start", "comm"} : seen[f].status = "present"
                              /\ evidence.arguments,
                 shared |-> evidence.shared,
                 who |-> {seen[f].value : f \in {"ppid", "comm"}}])
  /\ UNCHANGED <<query, machine, seen>>

-----------------------------------------------------------------------------
(* parseLsofFiles, lockFilesOpenedByProcess.                                *)

\* Names of open files: the intended lock's, as it is, escaped, or relative;
\* another thread's; something else; and what unlinking makes of the first.
Names == {"intended", "escaped", "relative", "other", "unrelated", "deleted"}
ThreadLockNames == Names \ {"unrelated"}

\* An open file: its inode, and whether lsof prints its device and inode.
Opens == [name : Names, inode : {1, 2, 3}, identified : BOOLEAN]

\* lsof -F0fDin; Linux may leave f out.
FileFields(open, marked) ==
  (IF marked THEN << <<"f", 0>> >> ELSE <<>>)
  \o (IF open.identified THEN << <<"D", 1>>, <<"i", open.inode>> >> ELSE <<>>)
  \o << <<"n", open.name>> >>

NoFile == [name |-> "", device |-> 0, inode |-> 0]

\* A faulty parser that begins a file with f alone.
NeverRepeats(file, field) == FALSE

\* A repeated field begins the next file.
Repeats(file, field) ==
  CASE field = "D" -> file.name # "" \/ file.device # 0 \/ file.inode # 0
    [] field = "i" -> file.name # "" \/ file.inode # 0
    [] field = "n" -> file.name # ""
    [] OTHER -> TRUE

TakeField(parsed, token) ==
  LET new == parsed.file = NoFile \/ Repeats(parsed.file, token[1])
      file == IF new THEN NoFile ELSE parsed.file
  IN [files |-> IF new /\ parsed.file.name # "" THEN Append(parsed.files, parsed.file)
                ELSE parsed.files,
      file |-> CASE token[1] = "D" -> [file EXCEPT !.device = token[2]]
                 [] token[1] = "i" -> [file EXCEPT !.inode = token[2]]
                 [] token[1] = "n" -> [file EXCEPT !.name = token[2]]
                 [] OTHER -> file]

TakeFields(text) ==
  LET after[n \in 0..Len(text)] ==
        IF n = 0 THEN [files |-> <<>>, file |-> NoFile] ELSE TakeField(after[n - 1], text[n])
  IN after[Len(text)]

ParseLsofFiles(text) ==
  LET end == TakeFields(text)
  IN IF end.file.name = "" THEN end.files ELSE Append(end.files, end.file)

\* One candidate against the intended lock (its inode, 0: unresolved).  The
\* named file is looked up again: "other" may have gone or become a symlink.
LockOf(file, intended, otherSound) ==
  IF file.name = "deleted" THEN "error"
  ELSE IF file.device = 1 /\ file.inode = intended THEN "intended"
  ELSE IF file.name = "other" /\ otherSound THEN "other"
  ELSE "error"

OpenedLocks(result, intended, otherSound) ==
  LET candidates == {f \in Range(ParseLsofFiles(result.text)) : f.name \in ThreadLockNames}
      locks == {LockOf(f, intended, otherSound) : f \in candidates}
  IN IF \/ result.failure \/ result.status # "zero" \/ result.warned
        \/ intended = 0 \/ "error" \in locks
     THEN [error |-> TRUE, paths |-> {}] ELSE [error |-> FALSE, paths |-> locks]

ReadOpenFiles ==
  /\ query.kind = "locks" /\ seen = <<>>
  /\ \E result \in Diagnostic("zero",
         FlattenSeq([i \in DOMAIN machine.opens |-> FileFields(machine.opens[i], query.marked)])) :
       seen' = <<result>>
  /\ UNCHANGED <<query, machine, answer>>

\* The intended lock is unlinked or replaced, the other one is removed.
FilesChange ==
  /\ query.kind = "locks" /\ ~answer.done
  /\ \E inode \in {0, 1, 2}, sound \in BOOLEAN :
       machine' = [machine EXCEPT !.intended = inode, !.sound = sound]
  /\ UNCHANGED <<query, seen, answer>>

LockFilesOpenedByProcess ==
  /\ query.kind = "locks" /\ seen # <<>> /\ ~answer.done
  /\ Answers(OpenedLocks(seen[1], machine.intended, machine.sound))
  /\ UNCHANGED <<query, machine, seen>>

-----------------------------------------------------------------------------
(* The process: it may replace its image, exit, be reaped, and its PID be   *)
(* taken by another.                                                        *)

Interactive == [run |-> "codex", words |-> <<"word">>]
Service == [run |-> "codex", words |-> <<"app-server">>]

Lives == query.kind \in {"exit", "inspect"} /\ UNCHANGED <<query, seen, answer>>
Becomes(m) == machine' = [m EXCEPT !.changed = TRUE]

Execs ==
  /\ Lives /\ machine.who # 0 /\ ~machine.zombie /\ machine.argv = Interactive
  /\ Becomes([machine EXCEPT !.argv = Service])
Exits ==
  /\ Lives /\ machine.who # 0 /\ ~machine.zombie
  /\ Becomes([machine EXCEPT !.zombie = TRUE])
Reaped ==
  /\ Lives /\ machine.zombie
  /\ Becomes([machine EXCEPT !.zombie = FALSE, !.who = 0])
PidReused ==
  /\ Lives /\ machine.who = 0 /\ ~machine.reused
  /\ \E argv \in {Interactive, Service} :
       Becomes([machine EXCEPT !.who = 2, !.reused = TRUE, !.argv = argv])

World == Execs \/ Exits \/ Reaped \/ PidReused \/ FilesChange

Process == [who : {1}, zombie : {FALSE}, reused : {FALSE}, changed : {FALSE},
            argv : {Interactive, Service}, starts : {<<1, 2>>, <<1, 1>>}]

Argvs ==
  {[run |-> r, words |-> w] : r \in {"codex"}, w \in BoundedSeq(Words, MaxArguments)}
  \cup {[run |-> r, words |-> w] : r \in {"codex-daemon", "other"}, w \in BoundedSeq(Words, 1)}

Cases ==
  {<<[kind |-> "openers"], [openers |-> o]>> : o \in SUBSET (1..2)}
  \cup {<<[kind |-> "exit"], m>> : m \in Process}
  \cup {<<[kind |-> "inspect", linux |-> l], m>> : l \in BOOLEAN, m \in Process}
  \cup {<<[kind |-> "arguments", linux |-> l], [argv |-> a]>> : l \in BOOLEAN, a \in Argvs}
  \cup {<<[kind |-> "table", pid |-> 1], [parents |-> t]>> :
          t \in [1..Pids -> 0..Pids]}
  \cup {<<[kind |-> "locks", marked |-> f], [opens |-> o, intended |-> 1, sound |-> TRUE]>> :
          f \in BOOLEAN, o \in BoundedSeq(Opens, MaxOpens)}

EvidenceInit ==
  /\ \E c \in Cases : query = c[1] /\ machine = c[2]
  /\ seen = <<>> /\ answer = Unanswered

Concludes ==
  \/ FindLockOpeners \/ ReadProcessTable \/ ReadExit \/ ConfirmExit \/ JudgeArguments
  \/ (\E f \in {"ppid", "start", "comm", "args", "kernel"} : ObserveField(f))
  \/ InspectProcess \/ ReadOpenFiles \/ LockFilesOpenedByProcess

EvidenceStep == ~answer.done /\ (Concludes \/ World)

-----------------------------------------------------------------------------
EvidenceTypeOK ==
  /\ query.kind \in {"openers", "table", "exit", "arguments", "inspect", "locks"}
  /\ answer.done \in BOOLEAN
  /\ query.kind = "exit" => machine.who \in 0..2 /\ (answer.done =>
       answer.value \in {"unknown", "exited", "running"})
  /\ query.kind = "inspect" => DOMAIN seen \subseteq Fields

\* originalProcessExited is true only of a process that has exited, although ps
\* may fail like a ps that finds nobody, the process may stay a zombie, or its
\* PID may be taken within the second that a start time resolves.  It is false
\* only when ps has seen the process alive, or another of the same second.
ExitIsReal ==
  Answered("exit") =>
    /\ answer.value = "exited" => machine.who # 1 \/ machine.zombie
    /\ answer.value = "running" => /\ ~seen[2].zombie
                                   /\ machine.starts[seen[2].who] = machine.starts[1]

\* What the reviewed grammar allows, as a condition on the whole of argv: each
\* option in its scope and with its value, at most the operands of the mode,
\* and a first operand that is neither a service nor another mode.
Accepted(w) ==
  LET end == Len(w) + 1
      literal == Min({i \in DOMAIN w : w[i] = "--"} \cup {end})
      options == {i \in DOMAIN w : i < literal /\ w[i] \in Options}
      name(i) == IF w[i] \in DOMAIN Attached THEN Attached[w[i]][1] ELSE w[i]
      values == {i + 1 : i \in {j \in options : w[j] \in RootValueOptions \cup ExecValueOptions}}
      operands == DOMAIN w \ (options \cup values \cup {literal})
      first == Min(operands \cup {end})
      mode == IF first < literal /\ first < end /\ w[first] \in {"exec", "resume"}
              THEN w[first] ELSE "interactive"
      scope(i) == IF i > first THEN mode ELSE "interactive"
      prompts == IF mode = "interactive" THEN operands ELSE operands \ {first}
      cyber == {i \in options : name(i) = "--cyber"}
  IN /\ \A i \in options : name(i) \in ValueOptions(scope(i)) \/ w[i] \in Flags(scope(i))
     /\ \A i \in values : i \in DOMAIN w /\ ~Dashed(w[i])
     /\ Cardinality(cyber) <= 1
     /\ \A i \in cyber : w[i] = "--cyber" => w[i + 1] = "standard"
     /\ first = end \/ w[first] \notin SharedModes \cup OtherModes \cup (ServiceWords \ Prompts)
     /\ mode = "exec" /\ prompts # {} => w[Min(prompts)] \notin {"resume", "review"}
     /\ Cardinality(prompts) <= IF mode = "resume" THEN 2 ELSE 1

\* Arguments that are complete and not of a shared service are, on Linux, those
\* that the reviewed grammar accepts, and all of those when both sources could
\* be read; elsewhere they have no service word.  A process inspected while it
\* stayed what it was is identified as one process, and a service that still
\* runs is never taken for an owner, whatever the order of the observations.
NoServicePasses ==
  /\ Answered("arguments") =>
       LET v == answer.value
           unshared == v.arguments /\ ~v.shared
           accepted == machine.argv.run = "codex" /\ Accepted(machine.argv.words)
       IN /\ query.linux => (unshared => accepted)
          /\ (query.linux /\ ~v.cut /\ v.whole /\ accepted) => unshared
          /\ (~query.linux /\ unshared) => ~FlattenedSharedService(machine.argv)
  /\ (Answered("inspect") /\ answer.value.complete /\ ~machine.changed) =>
       /\ answer.value.who = {<<machine.who>>}
       /\ ~machine.zombie => answer.value.shared = (machine.argv = Service)

\* An answer without an error hides nothing: every opener that lsof saw is in
\* it; every open thread lock is, the intended one by its inode as it is when
\* the answer is given, whatever lsof leaves out or calls it; and a process
\* table that ps printed whole gives all descendants and ancestors, the least
\* sets that are closed under children and under parents, with cycles too.
NothingHidden ==
  /\ Answered("openers") =>
       answer.value.error \/ answer.value.pids = machine.openers
  /\ (Answered("locks") /\ ~answer.value.error) =>
       answer.value.paths =
         {IF o.identified /\ o.inode = machine.intended THEN "intended" ELSE o.name :
            o \in {p \in Range(machine.opens) : p.name \in ThreadLockNames}}
       /\ \A o \in Range(machine.opens) : o.name # "deleted"
  /\ (Answered("table") /\ answer.value.known /\ answer.value.whole) =>
       LET people == 1..Pids
           parents == machine.parents
           ofChildren(S) == \A p \in people : parents[p] \in S \cup {query.pid} => p \in S
           ofParents(S) ==
             /\ query.pid \in S
             /\ \A p \in S : parents[p] # 0 => parents[p] \in S
       IN /\ answer.value.below =
               {p \in people : \A S \in SUBSET people : ofChildren(S) => p \in S}
          /\ answer.value.above =
               {p \in people : \A S \in SUBSET people : ofParents(S) => p \in S}

\* What ps and lsof are taken to say is so: an exit is real, and an answer that
\* is given for whole leaves nothing out.
AnswersAreTrue == ExitIsReal /\ NothingHidden
=============================================================================
