-------------------------- MODULE CommandLineProofs --------------------------
(* Theorems about CommandLine: that what was loaded is in the files, and what  *)
(* was found in the database, as long as a command runs. The invariant is      *)
(* about one process and what it shares with the others; a step of a process   *)
(* leaves the files and the clock alone, or moves the clock of the files on.   *)
EXTENDS CommandLineProperties, MappingTextProofs

Runs == TypeOK /\ \A p \in Process : Run(processes[p])

Fields == {"todo", "at", "command", "before", "configuration", "text", "rules", "remaining", "facts", "found", "tables",
           "relations", "pending", "wrote", "exit", "failed", "since", "until", "changesBefore", "changesUntil"}

(* The state of a process that has not begun.                                  *)
LEMMA ShellFields ==
    ASSUME NEW todo
    PROVE LET s == Shell(todo)
          IN  /\ DOMAIN s = Fields
              /\ s.todo = todo /\ s.at = "shell" /\ s.command = [name |-> None] /\ s.before = NoCommand /\ s.configuration = Nothing
              /\ s.text = <<>> /\ s.rules = {} /\ s.remaining = {} /\ s.facts = {} /\ s.found = {} /\ s.tables = <<>>
              /\ s.relations = <<>> /\ s.pending = <<>> /\ s.wrote = <<>> /\ s.exit = 0 /\ s.failed = None
              /\ s.since = 1 /\ s.until = 1 /\ s.changesBefore = 0 /\ s.changesUntil = 0
    BY DEF Shell, Fields

(* The fields of a state are those of a shell.                                 *)
LEMMA StateFields ==
    ASSUME NEW s, StateOK(s)
    PROVE DOMAIN s = Fields
    BY ShellFields DEF StateOK

(* A command that ends keeps everything but its end.                           *)
LEMMA EndedFields ==
    ASSUME NEW s, DOMAIN s = Fields, NEW code
    PROVE LET t == Ended(s, code)
          IN  /\ DOMAIN t = Fields
              /\ t.at = "exited" /\ t.exit = code /\ t.until = version /\ t.changesUntil = changes
              /\ t.todo = s.todo /\ t.command = s.command /\ t.before = s.before /\ t.configuration = s.configuration
              /\ t.rules = s.rules /\ t.remaining = s.remaining /\ t.facts = s.facts /\ t.found = s.found
              /\ t.relations = s.relations /\ t.pending = s.pending /\ t.wrote = s.wrote /\ t.failed = s.failed
              /\ t.since = s.since /\ t.changesBefore = s.changesBefore
    BY DEF Ended, Fields

(* A command that fails ends with 2 and says where.                            *)
LEMMA FailingFields ==
    ASSUME NEW s, DOMAIN s = Fields
    PROVE LET t == Failing(s)
          IN  /\ DOMAIN t = Fields
              /\ t.at = "exited" /\ t.exit = 2 /\ t.until = version /\ t.changesUntil = changes
              /\ t.todo = s.todo /\ t.command = s.command /\ t.before = s.before /\ t.configuration = s.configuration
              /\ t.rules = s.rules /\ t.remaining = s.remaining /\ t.facts = s.facts /\ t.found = s.found
              /\ t.relations = s.relations /\ t.pending = s.pending /\ t.wrote = s.wrote /\ t.failed = s.at
              /\ t.since = s.since /\ t.changesBefore = s.changesBefore
<1> DEFINE e == Ended(s, 2)
<1>1. DOMAIN e = Fields
    BY EndedFields
<1>2. Failing(s) = [e EXCEPT !.failed = s.at]
    BY DEF Failing
<1> HIDE DEF e
<1>3. LET t == [e EXCEPT !.failed = s.at]
      IN  /\ DOMAIN t = Fields
          /\ t.at = e.at /\ t.exit = e.exit /\ t.until = e.until /\ t.changesUntil = e.changesUntil
          /\ t.todo = e.todo /\ t.command = e.command /\ t.before = e.before /\ t.configuration = e.configuration
          /\ t.rules = e.rules /\ t.remaining = e.remaining /\ t.facts = e.facts /\ t.found = e.found
          /\ t.relations = e.relations /\ t.pending = e.pending /\ t.wrote = e.wrote /\ t.failed = s.at
          /\ t.since = e.since /\ t.changesBefore = e.changesBefore
    BY <1>1 DEF Fields
<1>4. /\ e.at = "exited" /\ e.exit = 2 /\ e.until = version /\ e.changesUntil = changes
      /\ e.todo = s.todo /\ e.command = s.command /\ e.before = s.before /\ e.configuration = s.configuration
      /\ e.rules = s.rules /\ e.remaining = s.remaining /\ e.facts = s.facts /\ e.found = s.found
      /\ e.relations = s.relations /\ e.pending = s.pending /\ e.wrote = s.wrote /\ e.failed = s.failed
      /\ e.since = s.since /\ e.changesBefore = s.changesBefore
    BY EndedFields DEF e
<1>. QED
    BY <1>2, <1>3, <1>4

-----------------------------------------------------------------------------
(* What a step does to the other processes.                                  *)

(* Only the process of a step changes, and keeps the fields it has.            *)
LEMMA OneProcess ==
    ASSUME NEW p \in Process, NEW t, Becomes(p, t)
    PROVE /\ Process' = Process
          /\ processes'[p] = t
          /\ \A q \in Process : q # p => processes'[q] = processes[q]
    BY DEF Becomes, Process

(* With the same files, the same can be loaded.                                *)
LEMMA SameFiles ==
    ASSUME files' = files, NEW state, NEW config
    PROVE /\ Accepted(config)' <=> Accepted(config)
          /\ LoadedFromFiles(state)' <=> LoadedFromFiles(state)
<1>0. \A path : FileAt(path)' = FileAt(path)
    BY DEF FileAt
<1>1. \A text : ConfigurationFails(text)' <=> ConfigurationFails(text)
    BY <1>0 DEF ConfigurationFails
<1>2. \A path : MappingFails(path)' <=> MappingFails(path)
    BY <1>0 DEF MappingFails
<1>3. \A c : FactsFail(c)' <=> FactsFail(c)
    BY <1>0 DEF FactsFail
<1>4. \A c : FactsOf(c)' = FactsOf(c)
    BY <1>0 DEF FactsOf
<1>5. \A path, facts : OntologyFails(path, facts)' <=> OntologyFails(path, facts)
    BY <1>0 DEF OntologyFails
<1>6. \A c : Accepted(c)' <=> Accepted(c)
    BY <1>0, <1>1, <1>2, <1>3, <1>4, <1>5 DEF Accepted
<1>7. LoadedFromFiles(state)' <=> LoadedFromFiles(state)
    BY <1>0, <1>1, <1>2, <1>3, <1>4, <1>6 DEF LoadedFromFiles
<1>. QED
    BY <1>6, <1>7

(* A step that changes neither files nor database is a matter of its process.  *)
LEMMA QuietStep ==
    ASSUME Runs, NEW p \in Process, NEW t, Becomes(p, t), Run(t),
           UNCHANGED <<files, databases, version, changes>>, DOMAIN disturbed' = Process, troubles' \subseteq troubles
    PROVE Runs'
<1>1. Process' = Process /\ processes'[p] = t /\ \A q \in Process : q # p => processes'[q] = processes[q]
    BY OneProcess
<1>2. ASSUME NEW q \in Process
      PROVE Run(processes'[q])
    BY <1>1 DEF Runs
<1>3. ASSUME NEW s, Run(s)
      PROVE Run(s)'
    BY <1>3, SameFiles DEF Run
<1>4. \A q \in Process' : Run(processes[q])'
    BY <1>1, <1>2, <1>3
<1>5. TypeOK'
    BY <1>1, <1>2 DEF Runs, TypeOK, Run
<1>. QED
    BY <1>4, <1>5 DEF Runs

(* A step that changes a file moves the clock of the files on: what was loaded *)
(* before does not count any more.                                             *)
LEMMA ChangeStep ==
    ASSUME Runs, NEW p \in Process, NEW t, Becomes(p, t), changes' = changes + 1,
           UNCHANGED <<databases, version, troubles>>, DOMAIN disturbed' = Process,
           StateOK(t), StepOfCommand(t), FoundSoFar(t, Moments(t, databases, version)), t.at \in {"open", "write"},
           t.since = processes[p].since, t.before = processes[p].before,
           t.changesBefore = processes[p].changesBefore, t.changesUntil = processes[p].changesUntil
    PROVE Runs'
<1>1. Process' = Process /\ processes'[p] = t /\ \A q \in Process : q # p => processes'[q] = processes[q]
    BY OneProcess
<1>2. changes \in Nat /\ changes' \in Nat /\ changes' > changes
    BY DEF Runs, TypeOK
<1>3. \A q \in Process : MomentsPast(processes[q], version, changes)
    BY DEF Runs, Run
<1>4. MomentsPast(t, version, changes')
    BY <1>2, <1>3 DEF MomentsPast
<1>5. LoadsWhatWasValidated(t)
    BY DEF LoadsWhatWasValidated
<1>6. ASSUME NEW s, StateOK(s), StepOfCommand(s), MomentsPast(s, version, changes'), FoundSoFar(s, Moments(s, databases, version)),
             LoadsWhatWasValidated(s), s.changesBefore # changes', s.before.changesBefore # changes'
      PROVE Run(s)'
    BY <1>6 DEF Run
<1>7. t.changesBefore # changes' /\ t.before.changesBefore # changes'
    BY <1>2, <1>3 DEF MomentsPast
<1>8. ASSUME NEW q \in Process
      PROVE Run(processes[q])'
    <2>1. CASE q = p
        BY <1>1, <1>4, <1>5, <1>6, <1>7, <2>1
    <2>2. CASE q # p
        <3>1. Run(processes[q])
            BY DEF Runs
        <3>2. MomentsPast(processes[q], version, changes')
            BY <1>2, <1>3 DEF MomentsPast
        <3>3. processes[q].changesBefore # changes' /\ processes[q].before.changesBefore # changes'
            BY <1>2, <1>3 DEF MomentsPast
        <3>4. \A s : s = processes[q] => StateOK(s) /\ StepOfCommand(s) /\ FoundSoFar(s, Moments(s, databases, version)) /\ LoadsWhatWasValidated(s)
            BY <3>1 DEF Run
        <3>. QED
            BY <1>1, <1>6, <2>2, <3>2, <3>3, <3>4
    <2>. QED
        BY <2>1, <2>2
<1>9. TypeOK'
    <2>1. \A q \in Process : StateOK(processes'[q])
        BY <1>1 DEF Runs, TypeOK
    <2>. QED
        BY <1>1, <1>2, <2>1 DEF Runs, TypeOK
<1>. QED
    BY <1>1, <1>8, <1>9 DEF Runs

(* The longer a command runs, the less was there all the while and the more    *)
(* was there at some moment.                                                   *)
LEMMA MoreMoments ==
    ASSUME NEW few, NEW many, few \subseteq many, few # {}, NEW rule
    PROVE /\ SomeRows(few, rule) \subseteq SomeRows(many, rule)
          /\ StableRows(many, rule) \subseteq StableRows(few, rule)
<1>1. SomeRows(few, rule) \subseteq SomeRows(many, rule)
    BY DEF SomeRows
<1>2. \A row \in StableRows(many, rule) : \A database \in few : row \in RowsOf(database, rule)
    BY DEF StableRows
<1>3. StableRows(many, rule) \subseteq StableRows(few, rule)
    BY <1>2 DEF StableRows, SomeRows
<1>. QED
    BY <1>1, <1>3

(* So what is found stays right when the database changes.                     *)
LEMMA FoundLater ==
    ASSUME NEW state, NEW rules, NEW few, NEW many, few \subseteq many, few # {}, FoundOf(state, rules, few)
    PROVE FoundOf(state, rules, many)
<1>1. \A rule : TriplesOf(rule, StableRows(many, rule)) \subseteq TriplesOf(rule, StableRows(few, rule))
    BY MoreMoments DEF TriplesOf
<1>2. \A rule : TriplesOf(rule, SomeRows(few, rule)) \subseteq TriplesOf(rule, SomeRows(many, rule))
    BY MoreMoments DEF TriplesOf
<1>3. UNION {TriplesOf(rule, SomeRows(few, rule)) : rule \in AskedRules(state)} \subseteq UNION {TriplesOf(rule, SomeRows(many, rule)) : rule \in AskedRules(state)}
    BY <1>2
<1>. QED
    BY <1>1, <1>3 DEF FoundOf

(* Another client changes the database.                                        *)
LEMMA AlterKeeps ==
    ASSUME Runs, Alter
    PROVE Runs'
<1>1. /\ UNCHANGED <<files, databases, troubles, processes, changes, disturbed>> /\ version' = version + 1
      /\ version \in 1..Len(databases) /\ version < Len(databases) /\ Len(databases) \in Nat
    BY DEF Alter, Runs, TypeOK
<1>2. ASSUME NEW s, Run(s)
      PROVE Run(s)'
    <2>1. MomentsPast(s, version, changes)
        BY <1>2 DEF Run
    <2>2. MomentsPast(s, version', changes)
        BY <1>1, <2>1 DEF MomentsPast
    <2>3. FoundSoFar(s, Moments(s, databases, version'))
        <3> DEFINE few == Moments(s, databases, version)
                   many == Moments(s, databases, version')
        <3>1. few \subseteq many /\ few # {}
            BY <1>1, <2>1 DEF MomentsPast, Moments
        <3>2. FoundSoFar(s, few)
            BY <1>2 DEF Run
        <3> HIDE DEF few, many
        <3>3. FoundSoFar(s, many)
            BY <3>1, <3>2, FoundLater DEF FoundSoFar
        <3>. QED
            BY <3>3 DEF many
    <2>. QED
        BY <1>1, <1>2, <2>2, <2>3, SameFiles DEF Run
<1>3. Process' = Process
    BY <1>1 DEF Process
<1>4. \A q \in Process' : Run(processes[q])'
    BY <1>1, <1>2, <1>3 DEF Runs
<1>5. TypeOK'
    BY <1>1, <1>3 DEF Runs, TypeOK
<1>. QED
    BY <1>4, <1>5 DEF Runs

-----------------------------------------------------------------------------
(* What a step does to its process.                                          *)

(* A command goes on: what it has loaded and found is what a step must get     *)
(* right.                                                                      *)
LEMMA GoesOn ==
    ASSUME NEW s, Run(s), NEW t,
           t.command = s.command, t.before = s.before, t.since = s.since,
           t.changesBefore = s.changesBefore, t.changesUntil = s.changesUntil, t.at # "exited",
           StateOK(t), StepOfCommand(t), FoundSoFar(t, Moments(t, databases, version)),
           t.changesBefore = changes => LoadedFromFiles(t)
    PROVE Run(t)
<1>1. MomentsPast(t, version, changes)
    BY DEF Run, MomentsPast
<1>2. Validated(t) /\ t.before.changesBefore = changes => Accepted(t.before.command.config)
    BY DEF Run, Validated
<1>3. LoadsWhatWasValidated(t)
    BY DEF LoadsWhatWasValidated
<1>. QED
    BY <1>1, <1>2, <1>3 DEF Run

(* A command ends: when it was being loaded, or has loaded or found something, *)
(* more is to be shown.                                                        *)
LEMMA Ends ==
    ASSUME Runs, NEW s, Run(s), NEW t, DOMAIN t = Fields,
           t.command = s.command, t.before = s.before, t.since = s.since,
           t.changesBefore = s.changesBefore, t.changesUntil = changes, t.at = "exited", t.until = version, t.exit \in {0, 2, 137},
           FoundSoFar(t, Moments(t, databases, version)),
           t.exit = 0 /\ t.command.name = "validate" /\ t.changesBefore = changes => Accepted(t.command.config),
           t.exit = 2 /\ t.failed \in {"configuration", "mapping", "facts", "ontology"} /\ t.changesBefore = changes
                => ~Accepted(t.command.config)
    PROVE Run(t)
<1>1. version \in Nat /\ changes \in Nat
    BY DEF Runs, TypeOK
<1>2. MomentsPast(s, version, changes)
    BY DEF Run
<1>3. MomentsPast(t, version, changes)
    BY <1>1, <1>2 DEF MomentsPast
<1>4. Validated(t) /\ t.before.changesBefore = changes => Accepted(t.before.command.config)
    BY DEF Run, Validated
<1>5. t.before.changesBefore = changes => t.changesBefore = changes
    BY <1>1, <1>2 DEF MomentsPast
<1>6. LoadsWhatWasValidated(t)
    <2> SUFFICES ASSUME t.exit = 2, t.failed \in {"configuration", "mapping", "facts", "ontology"},
                        t.before.command.name = "validate", t.before.command.config = t.command.config,
                        t.before.changesBefore = t.changesUntil, t.before.exit = 0
                 PROVE FALSE
        BY DEF LoadsWhatWasValidated
    <2>1. Accepted(t.command.config)
        BY <1>4 DEF Validated
    <2>. QED
        BY <1>5, <2>1
<1>7. StateOK(t)
    BY ShellFields DEF StateOK, Steps
<1>8. StepOfCommand(t)
    BY DEF StepOfCommand
<1>9. LoadedFromFiles(t) \/ t.changesBefore # changes
    BY DEF LoadedFromFiles
<1>. QED
    BY <1>3, <1>4, <1>6, <1>7, <1>8, <1>9 DEF Run

(* A command fails, or is killed: it has found nothing that is claimed.        *)
LEMMA FailsWell ==
    ASSUME Runs, NEW s, Run(s),
           s.at \in {"configuration", "mapping", "facts", "ontology"} /\ s.changesBefore = changes => ~Accepted(s.command.config)
    PROVE Run(Failing(s))
<1> DEFINE t == Failing(s)
<1>1. DOMAIN s = Fields
    BY StateFields DEF Run
<1>2. /\ DOMAIN t = Fields
      /\ t.at = "exited" /\ t.exit = 2 /\ t.until = version /\ t.changesUntil = changes
      /\ t.command = s.command /\ t.before = s.before /\ t.failed = s.at
      /\ t.since = s.since /\ t.changesBefore = s.changesBefore
    BY <1>1, FailingFields
<1> HIDE DEF t
<1>3. FoundSoFar(t, Moments(t, databases, version))
    BY <1>2 DEF FoundSoFar
<1>4. Run(t)
    BY <1>2, <1>3, Ends
<1>. QED
    BY <1>4 DEF t

(* A crash changes neither files nor what was found.                           *)
LEMMA Killed ==
    ASSUME Runs, NEW s, Run(s)
    PROVE Run(Ended(s, 137))
<1> DEFINE t == Ended(s, 137)
<1>1. DOMAIN s = Fields
    BY StateFields DEF Run
<1>2. /\ DOMAIN t = Fields
      /\ t.at = "exited" /\ t.exit = 137 /\ t.until = version /\ t.changesUntil = changes
      /\ t.command = s.command /\ t.before = s.before
      /\ t.since = s.since /\ t.changesBefore = s.changesBefore
    BY <1>1, EndedFields
<1> HIDE DEF t
<1>3. FoundSoFar(t, Moments(t, databases, version))
    BY <1>2 DEF FoundSoFar
<1>4. Run(t)
    BY <1>2, <1>3, Ends
<1>. QED
    BY <1>4 DEF t

-----------------------------------------------------------------------------
(* Each action keeps the invariant.                                          *)

(* The initial states.                                                         *)
LEMMA Begins == Init => Runs
<1> SUFFICES ASSUME Init PROVE Runs
    OBVIOUS
<1>1. PICK world \in Worlds :
        /\ files = world.files
        /\ databases = world.databases
        /\ version = 1
        /\ troubles = world.troubles
        /\ processes = [p \in DOMAIN world.todo |-> Shell(world.todo[p])]
        /\ changes = 0
        /\ disturbed = [p \in DOMAIN world.todo |-> {}]
    BY DEF Init
<1>2. databases \in Seq(ToSet(databases)) /\ databases # <<>> /\ troubles \subseteq {"crash", "disk", "network"}
    BY <1>1, WorldAssumption
<1>3. Len(databases) \in Nat /\ Len(databases) # 0 /\ DOMAIN databases = 1..Len(databases)
    BY <1>2
<1>4. ASSUME NEW todo
      PROVE Run(Shell(todo))
    <2> DEFINE s == Shell(todo)
    <2>1. /\ DOMAIN s = Fields
          /\ s.at = "shell" /\ s.command = [name |-> None] /\ s.before = NoCommand /\ s.exit = 0
          /\ s.since = 1 /\ s.changesBefore = 0 /\ s.changesUntil = 0
        BY ShellFields
    <2> HIDE DEF s
    <2>2. StateOK(s)
        BY <2>1, ShellFields DEF StateOK, Steps
    <2>3. StepOfCommand(s) /\ MomentsPast(s, version, changes) /\ FoundSoFar(s, Moments(s, databases, version))
        BY <1>1, <2>1 DEF StepOfCommand, MomentsPast, FoundSoFar, NoCommand
    <2>4. LoadedFromFiles(s) /\ ~Validated(s) /\ LoadsWhatWasValidated(s)
        BY <2>1 DEF LoadedFromFiles, Validated, LoadsWhatWasValidated, NoCommand, None
    <2>5. Run(s)
        BY <2>2, <2>3, <2>4 DEF Run
    <2>. QED
        BY <2>5 DEF s
<1>5. \A p \in Process : Run(processes[p])
    BY <1>1, <1>4 DEF Process
<1>6. version \in 1..Len(databases) /\ changes \in Nat
    BY <1>1, <1>3
<1>7. DOMAIN disturbed = Process
    BY <1>1 DEF Process
<1>8. \A p \in Process : StateOK(processes[p])
    BY <1>5 DEF Run
<1>9. TypeOK
    BY <1>2, <1>6, <1>7, <1>8 DEF TypeOK
<1>. QED
    BY <1>5, <1>9 DEF Runs

(* Beginning a command keeps the invariant: what validate did is remembered.   *)
LEMMA StartKeeps ==
    ASSUME Runs, NEW p \in Process, Start(p)
    PROVE Runs'
<1> DEFINE s == processes[p]
           t == [Shell(Tail(s.todo)) EXCEPT
                    !.command = Head(s.todo),
                    !.before = [command |-> s.command, exit |-> s.exit, changesBefore |-> s.changesBefore],
                    !.since = version, !.changesBefore = changes,
                    !.at = IF Head(s.todo).name \in MappingCommands THEN "input" ELSE "configuration"]
<1>1. Becomes(p, t) /\ UNCHANGED <<files, databases, version, troubles, changes>> /\ disturbed' = [disturbed EXCEPT ![p] = {}]
      /\ s.at \in {"shell", "exited"}
    BY DEF Start
<1>2. Run(s) /\ version \in Nat /\ changes \in Nat /\ version >= 1
    BY DEF Runs, TypeOK
<1>3. /\ DOMAIN t = Fields
      /\ t.command = Head(s.todo) /\ t.since = version /\ t.changesBefore = changes
      /\ t.before = [command |-> s.command, exit |-> s.exit, changesBefore |-> s.changesBefore]
      /\ t.at = IF Head(s.todo).name \in MappingCommands THEN "input" ELSE "configuration"
      /\ t.exit = 0 /\ t.changesUntil = 0
    BY ShellFields DEF Fields
<1> HIDE DEF t
<1>4. StateOK(t)
    BY <1>3, ShellFields DEF StateOK, Steps
<1>5. StepOfCommand(t)
    BY <1>3 DEF StepOfCommand
<1>6. MomentsPast(t, version, changes)
    BY <1>2, <1>3 DEF MomentsPast, Run
<1>7. FoundSoFar(t, Moments(t, databases, version)) /\ LoadedFromFiles(t) /\ LoadsWhatWasValidated(t)
    BY <1>3 DEF FoundSoFar, LoadedFromFiles, LoadsWhatWasValidated
<1>8. Validated(t) /\ t.before.changesBefore = changes => Accepted(t.before.command.config)
    <2> SUFFICES ASSUME Validated(t), t.before.changesBefore = changes
                 PROVE Accepted(t.before.command.config)
        OBVIOUS
    <2>1. s.command.name = "validate" /\ s.exit = 0 /\ s.changesBefore = changes /\ t.before.command = s.command
        BY <1>3 DEF Validated
    <2>2. s.at = "exited"
        BY <1>1, <1>2, <2>1 DEF Run, StepOfCommand, None
    <2>3. LoadedFromFiles(s)
        BY <1>2, <2>1 DEF Run
    <2>. QED
        BY <2>1, <2>2, <2>3 DEF LoadedFromFiles
<1>9. Run(t)
    BY <1>4, <1>5, <1>6, <1>7, <1>8 DEF Run
<1>10. DOMAIN disturbed' = Process
    BY <1>1 DEF Runs, TypeOK
<1>. QED
    BY <1>1, <1>9, <1>10, QuietStep

(* What most actions do: one process moves, on its own.                        *)
LEMMA MovesQuietly ==
    ASSUME Runs, NEW p \in Process, NEW t, Becomes(p, t), Run(t), Untouched
    PROVE Runs'
<1>1. UNCHANGED <<files, databases, version, changes>> /\ disturbed' = disturbed /\ troubles' = troubles
    BY DEF Untouched
<1>2. DOMAIN disturbed' = Process
    BY <1>1 DEF Runs, TypeOK
<1>. QED
    BY <1>1, <1>2, QuietStep

(* A fault takes effect in one process.                                        *)
LEMMA FaultQuietly ==
    ASSUME Runs, NEW p \in Process, NEW t, Becomes(p, t), Run(t), troubles' \subseteq troubles,
           UNCHANGED <<files, databases, version, changes, disturbed>>
    PROVE Runs'
<1>1. DOMAIN disturbed' = Process
    BY DEF Runs, TypeOK
<1>. QED
    BY <1>1, QuietStep

(* So does reading the input of a mapping command.                             *)
LEMMA ReadInputKeeps ==
    ASSUME Runs, NEW p \in Process, ReadInput(p)
    PROVE Runs'
<1> DEFINE s == processes[p]
           text == FileAt(s.command.input)
           documents == Documents(s.command, text)
           t == [s EXCEPT !.at = "open", !.text = text, !.pending = documents]
<1>1. Untouched /\ s.at = "input" /\ Run(s) /\ DOMAIN s = Fields
    BY StateFields DEF ReadInput, At, Runs, Run
<1>2. Run(Failing(s))
    BY <1>1, FailsWell
<1>3. CASE documents # <<>>
    <2>1. /\ DOMAIN t = Fields /\ t.at = "open" /\ t.pending = documents /\ t.exit = s.exit
          /\ t.command = s.command /\ t.before = s.before /\ t.since = s.since
          /\ t.changesBefore = s.changesBefore /\ t.changesUntil = s.changesUntil
        BY <1>1 DEF Fields
    <2> HIDE DEF t, documents
    <2>2. StateOK(t) /\ LoadedFromFiles(t)
        BY <1>1, <1>3, <2>1, ShellFields DEF StateOK, Steps, LoadedFromFiles, Run
    <2>3. s.command.name \in MappingCommands /\ s.command.name # "validate"
        BY <1>1 DEF Run, StepOfCommand, MappingCommands
    <2>4. StepOfCommand(t)
        BY <2>1, <2>3 DEF StepOfCommand
    <2>5. FoundSoFar(t, Moments(t, databases, version))
        BY <2>1, <2>3 DEF FoundSoFar, MappingCommands
    <2>6. Run(t)
        BY <1>1, <2>1, <2>2, <2>4, <2>5, GoesOn
    <2>7. Becomes(p, t) \/ Becomes(p, Failing(s))
        BY <1>3 DEF ReadInput, Writing, t, documents
    <2>. QED
        BY <1>1, <1>2, <2>6, <2>7, MovesQuietly
<1>4. CASE documents = <<>>
    <2>1. Becomes(p, Failing(s))
        BY <1>4 DEF ReadInput, Writing
    <2>. QED
        BY <1>1, <1>2, <2>1, MovesQuietly
<1>. QED
    BY <1>3, <1>4

(* So does reading the configuration, as long as files are unchanged.          *)
LEMMA ConfigureKeeps ==
    ASSUME Runs, NEW p \in Process, Configure(p)
    PROVE Runs'
<1> DEFINE s == processes[p]
           text == FileAt(s.command.config)
           u == [s EXCEPT !.configuration = text[1]]
           e == Ended(u, 0)
           t == [s EXCEPT !.at = IF s.command.name = "validate" THEN "mapping" ELSE "connect", !.configuration = text[1]]
<1>1. Untouched /\ s.at = "configuration" /\ Run(s) /\ DOMAIN s = Fields
    BY StateFields DEF Configure, At, Runs, Run
<1>2. CASE ConfigurationFails(text)
    <2>1. Run(Failing(s))
        BY <1>1, <1>2, FailsWell DEF Accepted
    <2>2. Becomes(p, Failing(s))
        BY <1>2 DEF Configure
    <2>. QED
        BY <1>1, <2>1, <2>2, MovesQuietly
<1>3. CASE ~ConfigurationFails(text) /\ s.command.name = "validate" /\ text[1].direct
    <2>1. DOMAIN u = Fields /\ u.command = s.command /\ u.before = s.before /\ u.since = s.since /\ u.changesBefore = s.changesBefore
        BY <1>1 DEF Fields
    <2>2. Becomes(p, e)
        BY <1>3 DEF Configure
    <2> HIDE DEF u
    <2>3. /\ DOMAIN e = Fields /\ e.command = s.command /\ e.before = s.before /\ e.since = s.since /\ e.changesBefore = s.changesBefore
          /\ e.at = "exited" /\ e.exit = 0 /\ e.until = version /\ e.changesUntil = changes
        BY <2>1, EndedFields
    <2> HIDE DEF e
    <2>4. FoundSoFar(e, Moments(e, databases, version))
        BY <1>3, <2>3 DEF FoundSoFar
    <2>5. Accepted(e.command.config)
        BY <1>3, <2>3 DEF Accepted
    <2>6. Run(e)
        BY <1>1, <2>3, <2>4, <2>5, Ends
    <2>. QED
        BY <1>1, <2>2, <2>6, MovesQuietly
<1>4. CASE ~ConfigurationFails(text) /\ ~(s.command.name = "validate" /\ text[1].direct)
    <2>1. /\ DOMAIN t = Fields /\ t.at = (IF s.command.name = "validate" THEN "mapping" ELSE "connect") /\ t.configuration = text[1]
          /\ t.exit = s.exit /\ t.command = s.command /\ t.before = s.before /\ t.since = s.since
          /\ t.changesBefore = s.changesBefore /\ t.changesUntil = s.changesUntil
        BY <1>1 DEF Fields
    <2>2. Becomes(p, t)
        BY <1>4 DEF Configure
    <2> HIDE DEF t
    <2>3. StateOK(t)
        BY <1>1, <2>1, ShellFields DEF StateOK, Steps, Run
    <2>4. StepOfCommand(t)
        BY <1>4, <2>1 DEF StepOfCommand, Loading
    <2>5. LoadedFromFiles(t) /\ FoundSoFar(t, Moments(t, databases, version))
        BY <1>4, <2>1 DEF LoadedFromFiles, FoundSoFar
    <2>6. Run(t)
        BY <1>1, <2>1, <2>3, <2>4, <2>5, GoesOn
    <2>. QED
        BY <1>1, <2>2, <2>6, MovesQuietly
<1>. QED
    BY <1>2, <1>3, <1>4

(* So does connecting to PostgreSQL.                                           *)
LEMMA ConnectKeeps ==
    ASSUME Runs, NEW p \in Process, Connect(p)
    PROVE Runs'
<1> DEFINE s == processes[p]
           next == IF s.command.name \in Loading
                   THEN IF s.configuration.direct THEN "direct mapping" ELSE "mapping"
                   ELSE "tables"
           t == [s EXCEPT !.at = next]
<1>1. s.at = "connect" /\ Run(s) /\ DOMAIN s = Fields
    BY StateFields DEF Connect, At, Runs, Run
<1>2. CASE Becomes(p, t) /\ Untouched
    <2>1. /\ DOMAIN t = Fields /\ t.at = next /\ t.configuration = s.configuration
          /\ t.exit = s.exit /\ t.command = s.command /\ t.before = s.before /\ t.since = s.since
          /\ t.changesBefore = s.changesBefore /\ t.changesUntil = s.changesUntil
        BY <1>1 DEF Fields
    <2> HIDE DEF t
    <2>2. StateOK(t)
        BY <1>1, <2>1, ShellFields DEF StateOK, Steps, Run
    <2>3. StepOfCommand(t)
        BY <2>1 DEF StepOfCommand, Loading
    <2>4. FoundSoFar(t, Moments(t, databases, version))
        BY <2>1 DEF FoundSoFar
    <2>5. t.changesBefore = changes => LoadedFromFiles(t)
        BY <1>1, <2>1 DEF LoadedFromFiles, Run
    <2>6. Run(t)
        BY <1>1, <2>1, <2>2, <2>3, <2>4, <2>5, GoesOn
    <2>. QED
        BY <1>2, <2>6, MovesQuietly
<1>3. CASE /\ troubles' = troubles \ {"network"}
           /\ Becomes(p, Failing(s))
           /\ UNCHANGED <<files, databases, version, changes, disturbed>>
    <2>1. Run(Failing(s))
        BY <1>1, FailsWell
    <2>. QED
        BY <1>3, <2>1, FaultQuietly
<1>. QED
    BY <1>2, <1>3 DEF Connect

(* So does loading the mapping, which fails where MappingFails says so.        *)
LEMMA LoadMappingKeeps ==
    ASSUME Runs, NEW p \in Process, LoadMapping(p)
    PROVE Runs'
<1> DEFINE s == processes[p]
           path == s.configuration.mapping
           text == FileAt(path)
           rules == IF IsR2rml(path) THEN R2rmlRules(text) ELSE NativeRules(text)
           t == [s EXCEPT !.at = "facts", !.text = text, !.rules = rules]
<1>1. Untouched /\ s.at = "mapping" /\ Run(s) /\ DOMAIN s = Fields
    BY StateFields DEF LoadMapping, At, Runs, Run
<1>2. s.changesBefore = changes => LoadedFromFiles(s)
    BY <1>1 DEF Run
<1>3. ~s.configuration.direct
    BY <1>1 DEF Run, StepOfCommand
<1>4. CASE MappingFails(path)
    <2>1. s.changesBefore = changes => ~Accepted(s.command.config)
        BY <1>1, <1>2, <1>3, <1>4 DEF LoadedFromFiles, Accepted
    <2>2. Run(Failing(s))
        BY <1>1, <2>1, FailsWell
    <2>3. Becomes(p, Failing(s))
        BY <1>4 DEF LoadMapping
    <2>. QED
        BY <1>1, <2>2, <2>3, MovesQuietly
<1>5. CASE ~MappingFails(path)
    <2>1. /\ DOMAIN t = Fields /\ t.at = "facts" /\ t.configuration = s.configuration
          /\ t.exit = s.exit /\ t.command = s.command /\ t.before = s.before /\ t.since = s.since
          /\ t.changesBefore = s.changesBefore /\ t.changesUntil = s.changesUntil
        BY <1>1 DEF Fields
    <2>2. Becomes(p, t)
        BY <1>5 DEF LoadMapping
    <2> HIDE DEF t
    <2>3. StateOK(t) /\ StepOfCommand(t)
        BY <1>1, <2>1, ShellFields DEF StateOK, StepOfCommand, Steps, Run
    <2>4. FoundSoFar(t, Moments(t, databases, version))
        BY <2>1 DEF FoundSoFar
    <2>5. t.changesBefore = changes => LoadedFromFiles(t)
        BY <1>1, <1>2, <1>5, <2>1 DEF LoadedFromFiles
    <2>6. Run(t)
        BY <1>1, <2>1, <2>3, <2>4, <2>5, GoesOn
    <2>. QED
        BY <1>1, <2>2, <2>6, MovesQuietly
<1>. QED
    BY <1>4, <1>5

(* So does loading the facts, which fails where FactsFail says so.             *)
LEMMA LoadFactsKeeps ==
    ASSUME Runs, NEW p \in Process, LoadFacts(p)
    PROVE Runs'
<1> DEFINE s == processes[p]
           t == [s EXCEPT !.at = "ontology", !.facts = FactsOf(s.configuration)]
<1>1. Untouched /\ s.at = "facts" /\ Run(s) /\ DOMAIN s = Fields
    BY StateFields DEF LoadFacts, At, Runs, Run
<1>2. s.changesBefore = changes => LoadedFromFiles(s)
    BY <1>1 DEF Run
<1>3. ~s.configuration.direct
    BY <1>1 DEF Run, StepOfCommand
<1>4. CASE FactsFail(s.configuration)
    <2>1. s.changesBefore = changes => ~Accepted(s.command.config)
        BY <1>1, <1>2, <1>3, <1>4 DEF LoadedFromFiles, Accepted
    <2>2. Run(Failing(s))
        BY <1>1, <2>1, FailsWell
    <2>3. Becomes(p, Failing(s))
        BY <1>4 DEF LoadFacts
    <2>. QED
        BY <1>1, <2>2, <2>3, MovesQuietly
<1>5. CASE ~FactsFail(s.configuration)
    <2>1. /\ DOMAIN t = Fields /\ t.at = "ontology" /\ t.configuration = s.configuration /\ t.facts = FactsOf(s.configuration)
          /\ t.exit = s.exit /\ t.command = s.command /\ t.before = s.before /\ t.since = s.since
          /\ t.changesBefore = s.changesBefore /\ t.changesUntil = s.changesUntil
        BY <1>1 DEF Fields
    <2>2. Becomes(p, t)
        BY <1>5 DEF LoadFacts
    <2> HIDE DEF t
    <2>3. StateOK(t) /\ StepOfCommand(t)
        BY <1>1, <2>1, ShellFields DEF StateOK, StepOfCommand, Steps, Run
    <2>4. FoundSoFar(t, Moments(t, databases, version))
        BY <2>1 DEF FoundSoFar
    <2>5. t.changesBefore = changes => LoadedFromFiles(t)
        BY <1>1, <1>2, <1>5, <2>1 DEF LoadedFromFiles
    <2>6. Run(t)
        BY <1>1, <2>1, <2>3, <2>4, <2>5, GoesOn
    <2>. QED
        BY <1>1, <2>2, <2>6, MovesQuietly
<1>. QED
    BY <1>4, <1>5

(* So does loading the ontology, which fails where OntologyFails says so.      *)
LEMMA LoadOntologyKeeps ==
    ASSUME Runs, NEW p \in Process, LoadOntology(p)
    PROVE Runs'
<1> DEFINE s == processes[p]
           facts == s.facts \cup OntologyFacts(s.configuration.ontology)
           t == [s EXCEPT !.at = "default graph", !.facts = facts, !.remaining = s.rules, !.found = Stated(s.command, facts)]
<1>1. Untouched /\ s.at = "ontology" /\ Run(s) /\ DOMAIN s = Fields
    BY StateFields DEF LoadOntology, At, Runs, Run
<1>2. s.changesBefore = changes => LoadedFromFiles(s)
    BY <1>1 DEF Run
<1>3. ~s.configuration.direct /\ s.command.name \in Loading
    BY <1>1 DEF Run, StepOfCommand
<1>4. CASE OntologyFails(s.configuration.ontology, s.facts)
    <2>1. s.changesBefore = changes => ~Accepted(s.command.config)
        BY <1>1, <1>2, <1>3, <1>4 DEF LoadedFromFiles, Accepted
    <2>2. Run(Failing(s))
        BY <1>1, <2>1, FailsWell
    <2>3. Becomes(p, Failing(s))
        BY <1>4 DEF LoadOntology
    <2>. QED
        BY <1>1, <2>2, <2>3, MovesQuietly
<1>5. CASE ~OntologyFails(s.configuration.ontology, s.facts) /\ s.command.name = "validate"
    <2> DEFINE e == Ended(s, 0)
    <2>1. /\ DOMAIN e = Fields /\ e.command = s.command /\ e.before = s.before /\ e.since = s.since /\ e.changesBefore = s.changesBefore
          /\ e.at = "exited" /\ e.exit = 0 /\ e.until = version /\ e.changesUntil = changes
        BY <1>1, EndedFields
    <2>2. Becomes(p, e)
        BY <1>5 DEF LoadOntology, Loaded
    <2> HIDE DEF e
    <2>3. FoundSoFar(e, Moments(e, databases, version))
        BY <1>5, <2>1 DEF FoundSoFar
    <2>4. e.changesBefore = changes => Accepted(e.command.config)
        BY <1>1, <1>2, <1>5, <2>1 DEF LoadedFromFiles, Accepted
    <2>5. Run(e)
        BY <1>1, <2>1, <2>3, <2>4, Ends
    <2>. QED
        BY <1>1, <2>2, <2>5, MovesQuietly
<1>6. CASE ~OntologyFails(s.configuration.ontology, s.facts) /\ s.command.name # "validate"
    <2>1. /\ DOMAIN t = Fields /\ t.at = "default graph" /\ t.rules = s.rules /\ t.remaining = s.rules
          /\ t.facts = facts /\ t.found = Stated(t.command, t.facts)
          /\ t.exit = s.exit /\ t.command = s.command /\ t.before = s.before /\ t.since = s.since
          /\ t.changesBefore = s.changesBefore /\ t.changesUntil = s.changesUntil
        BY <1>1 DEF Fields
    <2>2. Becomes(p, t)
        BY <1>6 DEF LoadOntology, Loaded
    <2> HIDE DEF t, facts
    <2>3. StateOK(t) /\ StepOfCommand(t)
        BY <1>1, <1>3, <1>6, <2>1, ShellFields DEF StateOK, StepOfCommand, Steps, Run, Loading
    <2>4. FoundSoFar(t, Moments(t, databases, version))
        BY <2>1 DEF FoundSoFar, FoundOf
    <2>5. LoadedFromFiles(t)
        BY <2>1 DEF LoadedFromFiles
    <2>6. Run(t)
        BY <1>1, <2>1, <2>3, <2>4, <2>5, GoesOn
    <2>. QED
        BY <1>1, <2>2, <2>6, MovesQuietly
<1>. QED
    BY <1>4, <1>5, <1>6

(* What is found is a matter of the command, its rules, its facts and what it  *)
(* has found.                                                                  *)
LEMMA SameFinds ==
    ASSUME NEW s, NEW t, t.command = s.command, t.rules = s.rules, t.facts = s.facts, t.found = s.found, NEW rules, NEW moments
    PROVE /\ AskedRules(t) = AskedRules(s)
          /\ FoundOf(s, rules, moments) => FoundOf(t, rules, moments)
    BY DEF AskedRules, FoundOf

(* A rule that is asked finds what it has at that moment, and no more.         *)
LEMMA AskKeeps ==
    ASSUME Runs, NEW p \in Process, Ask(p)
    PROVE Runs'
<1> DEFINE s == processes[p]
<1>1. Untouched /\ s.at \in {"default graph", "named graphs"} /\ Run(s) /\ DOMAIN s = Fields
    BY StateFields DEF Ask, Asking, Runs, Run
<1>2. PICK rule \in Remaining(s) :
        Becomes(p, IF ~Known(Head(rule.source.tables)) THEN Failing(s)
                   ELSE [s EXCEPT !.found = s.found \cup TriplesOf(rule, RowsIn(Database, Head(rule.source.tables))),
                                  !.remaining = s.remaining \ {rule}])
    BY DEF Ask, Asking
<1>3. CASE ~Known(Head(rule.source.tables))
    <2>1. Run(Failing(s))
        BY <1>1, FailsWell
    <2>. QED
        BY <1>1, <1>2, <1>3, <2>1, MovesQuietly
<1>4. CASE Known(Head(rule.source.tables))
    <2> DEFINE triples == TriplesOf(rule, RowsOf(Database, rule))
               t == [s EXCEPT !.found = s.found \cup triples, !.remaining = s.remaining \ {rule}]
               moments == Moments(s, databases, version)
    <2>1. Becomes(p, t)
        BY <1>2, <1>4 DEF RowsOf
    <2>2. /\ DOMAIN t = Fields /\ t.at = s.at /\ t.rules = s.rules /\ t.remaining = s.remaining \ {rule}
          /\ t.facts = s.facts /\ t.found = s.found \cup triples
          /\ t.exit = s.exit /\ t.command = s.command /\ t.before = s.before /\ t.since = s.since
          /\ t.changesBefore = s.changesBefore /\ t.changesUntil = s.changesUntil
        BY <1>1 DEF Fields
    <2>3. Database \in moments
        <3>1. version \in Nat
            BY DEF Runs, TypeOK
        <3>2. s.since \in 1..version
            BY DEF Runs, Run, MomentsPast
        <3>3. version \in s.since..version
            BY <3>1, <3>2
        <3>4. moments = {databases[v] : v \in s.since..version}
            BY <1>1 DEF Moments
        <3> HIDE DEF moments
        <3>. QED
            BY <3>3, <3>4 DEF Database
    <2>4. Moments(t, databases, version) = moments
        BY <1>1, <2>2 DEF Moments
    <2>5. FoundSoFar(s, moments) /\ StepOfCommand(s)
        BY <1>1 DEF Run
    <2> HIDE DEF t, moments
    <2>6. triples \subseteq TriplesOf(rule, SomeRows(moments, rule)) /\ TriplesOf(rule, StableRows(moments, rule)) \subseteq triples
        BY <2>3 DEF SomeRows, StableRows, TriplesOf
    <2> HIDE DEF triples
    <2>7. /\ s.command.name \in {"query", "materialize"} /\ (s.at = "named graphs" => s.command.name = "materialize")
          /\ s.remaining \subseteq s.rules /\ FoundOf(s, s.rules \ s.remaining, moments)
          /\ (s.at = "default graph" => \A r \in s.rules \ s.remaining : r.graph = <<>>)
          /\ (s.at # "default graph" => AskedRules(s) \cap s.remaining \subseteq {r \in s.rules : r.graph # <<>>})
        BY <1>1, <2>5 DEF FoundSoFar, StepOfCommand
    <2>8. rule \in s.remaining /\ (s.at = "default graph" => rule.graph = <<>>)
        BY DEF Remaining
    <2>9. rule \in AskedRules(s) /\ AskedRules(t) = AskedRules(s)
        BY <1>1, <2>2, <2>7, <2>8 DEF AskedRules
    <2>10. FoundOf(t, t.rules \ t.remaining, moments)
        <3>1. \A r \in t.rules \ t.remaining : TriplesOf(r, StableRows(moments, r)) \subseteq t.found
            BY <2>2, <2>6, <2>7 DEF FoundOf
        <3>2. t.found \subseteq Stated(t.command, t.facts) \cup UNION {TriplesOf(r, SomeRows(moments, r)) : r \in AskedRules(t)}
            <4>1. triples \subseteq UNION {TriplesOf(r, SomeRows(moments, r)) : r \in AskedRules(s)}
                BY <2>6, <2>9
            <4>2. s.found \subseteq Stated(s.command, s.facts) \cup UNION {TriplesOf(r, SomeRows(moments, r)) : r \in AskedRules(s)}
                BY <2>7 DEF FoundOf
            <4>. QED
                BY <2>2, <2>9, <4>1, <4>2
        <3>3. Stated(t.command, t.facts) \subseteq t.found
            BY <2>2, <2>7 DEF FoundOf
        <3>. QED
            BY <3>1, <3>2, <3>3 DEF FoundOf
    <2>11. FoundSoFar(t, moments)
        BY <1>1, <2>2, <2>7, <2>8, <2>9, <2>10 DEF FoundSoFar
    <2>12. StateOK(t) /\ StepOfCommand(t) /\ LoadedFromFiles(t)
        BY <1>1, <2>2, <2>7, ShellFields DEF StateOK, Run, StepOfCommand, LoadedFromFiles
    <2>13. Run(t)
        BY <1>1, <2>2, <2>4, <2>11, <2>12, GoesOn
    <2>. QED
        BY <1>1, <2>1, <2>13, MovesQuietly
<1>. QED
    BY <1>3, <1>4

(* A command that has asked everything it asks, and ends with 0.               *)
MayEnd(s) ==
    /\ s.at # "exited" /\ s.command.name # "validate"
    /\ s.command.name \in {"query", "materialize"}
       => AskedRules(s) \cap s.remaining = {} /\ s.at \in {"default graph", "named graphs", "write"}

(* A command that ends with what it found keeps it.                            *)
LEMMA EndsWithFinds ==
    ASSUME Runs, NEW s, Run(s), MayEnd(s)
    PROVE Run(Ended(s, 0))
<1> DEFINE e == Ended(s, 0)
<1>1. DOMAIN s = Fields
    BY StateFields DEF Run
<1>2. /\ DOMAIN e = Fields /\ e.command = s.command /\ e.before = s.before /\ e.since = s.since /\ e.changesBefore = s.changesBefore
      /\ e.at = "exited" /\ e.exit = 0 /\ e.until = version /\ e.changesUntil = changes
    BY <1>1, EndedFields
<1>3. e.rules = s.rules /\ e.remaining = s.remaining /\ e.facts = s.facts /\ e.found = s.found
    BY <1>1, EndedFields
<1> HIDE DEF e
<1>4. Moments(e, databases, version) = Moments(s, databases, version)
    BY <1>2 DEF Moments, MayEnd
<1>5. FoundSoFar(e, Moments(s, databases, version))
    BY <1>2, <1>3, SameFinds DEF FoundSoFar, Run, MayEnd
<1>6. FoundSoFar(e, Moments(e, databases, version))
    BY <1>4, <1>5
<1>7. e.command.name # "validate"
    BY <1>2 DEF MayEnd
<1>8. Run(e)
    BY <1>2, <1>6, <1>7, Ends
<1>. QED
    BY <1>8 DEF e

(* When every rule is asked, materialize goes on to write, and query ends.     *)
LEMMA AskedKeeps ==
    ASSUME Runs, NEW p \in Process, Asked(p)
    PROVE Runs'
<1> DEFINE s == processes[p]
           moments == Moments(s, databases, version)
<1>1. Untouched /\ s.at \in {"default graph", "named graphs"} /\ Remaining(s) = {} /\ Run(s) /\ DOMAIN s = Fields
    BY StateFields DEF Asked, Runs, Run
<1>2. FoundSoFar(s, moments) /\ StepOfCommand(s)
    BY <1>1 DEF Run
<1>3. /\ s.command.name \in {"query", "materialize"} /\ (s.at = "named graphs" => s.command.name = "materialize")
      /\ s.remaining \subseteq s.rules /\ FoundOf(s, s.rules \ s.remaining, moments)
      /\ (s.at # "default graph" => AskedRules(s) \cap s.remaining \subseteq {r \in s.rules : r.graph # <<>>})
    BY <1>1, <1>2 DEF FoundSoFar, StepOfCommand
<1>4. s.at = "default graph" => \A rule \in s.remaining : rule.graph # <<>>
    BY <1>1 DEF Remaining
<1>5. s.at = "named graphs" => \A rule \in s.remaining : rule.graph = <<>>
    BY <1>1 DEF Remaining
<1>6. CASE s.command.name = "query"
    <2>1. MayEnd(s)
        BY <1>1, <1>3, <1>4, <1>6 DEF MayEnd, AskedRules
    <2>2. CASE IsUnmatched(s)
        <3>1. Becomes(p, Failing(s))
            BY <1>6, <2>2 DEF Asked
        <3>2. Run(Failing(s))
            BY <1>1, <1>6, FailsWell
        <3>. QED
            BY <1>1, <3>1, <3>2, MovesQuietly
    <2>3. CASE ~IsUnmatched(s)
        <3>1. Becomes(p, Ended(s, 0))
            BY <1>6, <2>3 DEF Asked
        <3>. QED
            BY <1>1, <2>1, <3>1, EndsWithFinds, MovesQuietly
    <2>. QED
        BY <2>2, <2>3
<1>7. CASE s.command.name # "query" /\ s.at = "default graph"
    <2> DEFINE t == [s EXCEPT !.at = "named graphs"]
    <2>1. /\ DOMAIN t = Fields /\ t.at = "named graphs" /\ t.rules = s.rules /\ t.remaining = s.remaining
          /\ t.facts = s.facts /\ t.found = s.found
          /\ t.exit = s.exit /\ t.command = s.command /\ t.before = s.before /\ t.since = s.since
          /\ t.changesBefore = s.changesBefore /\ t.changesUntil = s.changesUntil
        BY <1>1 DEF Fields
    <2>2. Becomes(p, t)
        BY <1>7 DEF Asked, At
    <2>3. Moments(t, databases, version) = moments
        BY <1>7, <2>1 DEF Moments
    <2> HIDE DEF t, moments
    <2>4. StateOK(t) /\ StepOfCommand(t) /\ LoadedFromFiles(t)
        BY <1>1, <1>3, <1>7, <2>1, ShellFields DEF StateOK, Steps, Run, StepOfCommand, LoadedFromFiles
    <2>5. FoundOf(t, t.rules \ t.remaining, moments) /\ AskedRules(t) = AskedRules(s)
        BY <1>3, <2>1, SameFinds
    <2>6. AskedRules(t) \cap t.remaining \subseteq {r \in t.rules : r.graph # <<>>}
        BY <1>3, <1>4, <1>7, <2>1
    <2>7. FoundSoFar(t, moments)
        BY <1>3, <2>1, <2>5, <2>6 DEF FoundSoFar
    <2>8. Run(t)
        BY <1>1, <2>1, <2>3, <2>4, <2>7, GoesOn
    <2>. QED
        BY <1>1, <2>2, <2>8, MovesQuietly
<1>8. CASE s.command.name # "query" /\ s.at = "named graphs"
    <2>1. AskedRules(s) \cap s.remaining = {}
        BY <1>3, <1>5, <1>8
    <2>2. CASE s.command.format \notin {"turtle", "ttl", "nquads", "nq"}
        <3>1. Becomes(p, Failing(s))
            BY <1>8, <2>2 DEF Asked, At
        <3>2. Run(Failing(s))
            BY <1>1, <1>8, FailsWell
        <3>. QED
            BY <1>1, <3>1, <3>2, MovesQuietly
    <2>3. CASE s.command.format \in {"turtle", "ttl", "nquads", "nq"} /\ s.command.output = NoPath
        <3>1. Becomes(p, Ended(s, 0))
            BY <1>8, <2>3 DEF Asked, At
        <3>2. MayEnd(s)
            BY <1>3, <1>8, <2>1 DEF MayEnd
        <3>. QED
            BY <1>1, <3>1, <3>2, EndsWithFinds, MovesQuietly
    <2>4. CASE s.command.format \in {"turtle", "ttl", "nquads", "nq"} /\ s.command.output # NoPath
        <3> DEFINE documents == <<[path |-> s.command.output, text |-> Written(s.command, s.found)]>>
                   t == [s EXCEPT !.at = "open", !.pending = documents]
        <3>1. Becomes(p, t)
            BY <1>8, <2>4 DEF Asked, At
        <3>2. documents # <<>>
            OBVIOUS
        <3> HIDE DEF documents
        <3>3. /\ DOMAIN t = Fields /\ t.at = "open" /\ t.pending = documents /\ t.rules = s.rules /\ t.remaining = s.remaining
              /\ t.facts = s.facts /\ t.found = s.found
              /\ t.exit = s.exit /\ t.command = s.command /\ t.before = s.before /\ t.since = s.since
              /\ t.changesBefore = s.changesBefore /\ t.changesUntil = s.changesUntil
            BY <1>1 DEF Fields
        <3>4. Moments(t, databases, version) = moments
            BY <1>8, <3>3 DEF Moments
        <3> HIDE DEF t, moments
        <3>5. StateOK(t) /\ StepOfCommand(t) /\ LoadedFromFiles(t)
            BY <1>1, <3>2, <3>3, ShellFields DEF StateOK, Steps, Run, StepOfCommand, LoadedFromFiles
        <3>6. FoundOf(t, t.rules \ t.remaining, moments) /\ AskedRules(t) = AskedRules(s)
            BY <1>3, <3>3, SameFinds
        <3>7. FoundSoFar(t, moments)
            BY <1>3, <2>1, <3>3, <3>6 DEF FoundSoFar
        <3>8. Run(t)
            BY <1>1, <3>3, <3>4, <3>5, <3>7, GoesOn
        <3>. QED
            BY <1>1, <3>1, <3>8, MovesQuietly
    <2>. QED
        BY <2>2, <2>3, <2>4
<1>. QED
    BY <1>1, <1>6, <1>7, <1>8

(* A command that reads the catalog, or has read it, has nothing to find.      *)
LEMMA Reads ==
    ASSUME NEW s, Run(s), s.command.name \notin Loading, NEW t, DOMAIN t = Fields,
           t.command = s.command, t.before = s.before, t.since = s.since, t.exit = s.exit,
           t.changesBefore = s.changesBefore, t.changesUntil = s.changesUntil,
           t.at \in {"columns", "keys", "open"}, t.at = "open" => t.pending # <<>>
    PROVE Run(t)
<1>1. StateOK(t)
    BY ShellFields DEF StateOK, Steps, Run
<1>2. StepOfCommand(t) /\ LoadedFromFiles(t)
    BY DEF StepOfCommand, LoadedFromFiles, Loading
<1>3. FoundSoFar(t, Moments(t, databases, version))
    BY DEF FoundSoFar, Loading
<1>. QED
    BY <1>1, <1>2, <1>3, GoesOn

(* The three questions to the catalog keep the invariant.                      *)
LEMMA CatalogStepsKeep ==
    ASSUME Runs, NEW p \in Process, Tables(p) \/ Columns(p) \/ Keys(p)
    PROVE Runs'
<1> DEFINE s == processes[p]
<1>1. Untouched /\ Run(s) /\ DOMAIN s = Fields /\ s.at \in {"tables", "columns", "keys"}
    BY StateFields DEF Tables, Columns, Keys, At, Runs, Run
<1>2. s.command.name \notin Loading
    BY <1>1 DEF Run, StepOfCommand
<1>3. CASE Tables(p)
    <2> DEFINE names == [i \in DOMAIN Database.relations |-> Database.relations[i].name]
               t == [s EXCEPT !.at = "columns", !.tables = names]
    <2>1. Becomes(p, t)
        BY <1>3 DEF Tables
    <2> HIDE DEF names
    <2>2. /\ DOMAIN t = Fields /\ t.at = "columns" /\ t.exit = s.exit /\ t.command = s.command /\ t.before = s.before /\ t.since = s.since
          /\ t.changesBefore = s.changesBefore /\ t.changesUntil = s.changesUntil
        BY <1>1 DEF Fields
    <2> HIDE DEF t
    <2>3. Run(t)
        BY <1>1, <1>2, <2>2, Reads
    <2>. QED
        BY <1>1, <2>1, <2>3, MovesQuietly
<1>4. CASE Columns(p)
    <2> DEFINE name == Head(s.tables)
               columns == IF Found(name) = {} THEN <<>> ELSE (CHOOSE relation \in Found(name) : TRUE).columns
               relations == Append(s.relations, Relation(name, columns, <<>>, {}))
               t == [s EXCEPT !.at = "keys", !.relations = relations]
    <2>1. Becomes(p, t)
        BY <1>4 DEF Columns
    <2> HIDE DEF relations
    <2>2. /\ DOMAIN t = Fields /\ t.at = "keys" /\ t.exit = s.exit /\ t.command = s.command /\ t.before = s.before /\ t.since = s.since
          /\ t.changesBefore = s.changesBefore /\ t.changesUntil = s.changesUntil
        BY <1>1 DEF Fields
    <2> HIDE DEF t
    <2>3. Run(t)
        BY <1>1, <1>2, <2>2, Reads
    <2>. QED
        BY <1>1, <2>1, <2>3, MovesQuietly
<1>5. CASE Keys(p)
    <2> DEFINE name == Head(s.tables)
               key == IF Found(name) = {} THEN <<>> ELSE (CHOOSE relation \in Found(name) : TRUE).key
               t == [s EXCEPT !.at = "columns", !.tables = Tail(s.tables), !.relations[Len(s.relations)].key = key]
    <2>1. Becomes(p, t)
        BY <1>5 DEF Keys
    <2> HIDE DEF key
    <2>2. /\ DOMAIN t = Fields /\ t.at = "columns" /\ t.exit = s.exit /\ t.command = s.command /\ t.before = s.before /\ t.since = s.since
          /\ t.changesBefore = s.changesBefore /\ t.changesUntil = s.changesUntil
        BY <1>1 DEF Fields
    <2> HIDE DEF t
    <2>3. Run(t)
        BY <1>1, <1>2, <2>2, Reads
    <2>. QED
        BY <1>1, <2>1, <2>3, MovesQuietly
<1>. QED
    BY <1>3, <1>4, <1>5

(* So does going on to write what the catalog says.                            *)
LEMMA CatalogKeeps ==
    ASSUME Runs, NEW p \in Process, Catalog(p)
    PROVE Runs'
<1> DEFINE s == processes[p]
           documents == IF s.command.name = "bootstrap" THEN BootstrapDocuments(s.command, s.relations)
                        ELSE <<[path |-> s.command.output, text |-> s.relations]>>
           t == [s EXCEPT !.at = "open", !.pending = documents]
<1>1. Untouched /\ Run(s) /\ DOMAIN s = Fields /\ s.at = "columns"
    BY StateFields DEF Catalog, At, Runs, Run
<1>2. s.command.name \notin Loading
    BY <1>1 DEF Run, StepOfCommand
<1>3. Becomes(p, Ended(s, 0)) \/ Becomes(p, t)
    BY DEF Catalog
<1>4. documents # <<>>
    BY DEF BootstrapDocuments
<1> HIDE DEF documents
<1>5. CASE Becomes(p, Ended(s, 0))
    <2>1. MayEnd(s)
        BY <1>1, <1>2 DEF MayEnd, Loading
    <2>. QED
        BY <1>1, <1>5, <2>1, EndsWithFinds, MovesQuietly
<1>6. CASE Becomes(p, t)
    <2>1. /\ DOMAIN t = Fields /\ t.at = "open" /\ t.pending = documents /\ t.exit = s.exit /\ t.command = s.command
          /\ t.before = s.before /\ t.since = s.since /\ t.changesBefore = s.changesBefore /\ t.changesUntil = s.changesUntil
        BY <1>1 DEF Fields
    <2> HIDE DEF t
    <2>2. Run(t)
        BY <1>1, <1>2, <1>4, <2>1, Reads
    <2>. QED
        BY <1>1, <1>6, <2>2, MovesQuietly
<1>. QED
    BY <1>3, <1>5, <1>6

(* So does opening, and truncating, a document.                                *)
LEMMA OpenKeeps ==
    ASSUME Runs, NEW p \in Process, Open(p)
    PROVE Runs'
<1> DEFINE s == processes[p]
           wrote == Append(s.wrote, Head(s.pending))
           t == [s EXCEPT !.at = "write", !.wrote = wrote]
<1>1. Run(s) /\ DOMAIN s = Fields /\ s.at = "open"
    BY StateFields DEF Open, Opening, At, Runs, Run
<1>2. Becomes(p, t) /\ changes' = changes + 1 /\ UNCHANGED <<databases, version, troubles>> /\ DOMAIN disturbed' = Process
    BY DEF Open, Opening, Changed
<1> HIDE DEF wrote
<1>3. /\ DOMAIN t = Fields /\ t.at = "write" /\ t.pending = s.pending /\ t.exit = s.exit /\ t.command = s.command
      /\ t.before = s.before /\ t.since = s.since /\ t.changesBefore = s.changesBefore /\ t.changesUntil = s.changesUntil
      /\ t.rules = s.rules /\ t.remaining = s.remaining /\ t.facts = s.facts /\ t.found = s.found
    BY <1>1 DEF Fields
<1>4. Moments(t, databases, version) = Moments(s, databases, version)
    BY <1>1, <1>3 DEF Moments
<1>5. FoundSoFar(s, Moments(s, databases, version)) /\ StateOK(s) /\ StepOfCommand(s)
    BY <1>1 DEF Run
<1> HIDE DEF t
<1>6. FoundSoFar(t, Moments(t, databases, version))
    BY <1>1, <1>3, <1>4, <1>5, SameFinds DEF FoundSoFar
<1>7. StateOK(t) /\ StepOfCommand(t)
    BY <1>1, <1>3, <1>5, ShellFields DEF StateOK, Steps, StepOfCommand
<1>. QED
    BY <1>2, <1>3, <1>6, <1>7, ChangeStep

(* So does writing a line.                                                     *)
LEMMA WriteLineKeeps ==
    ASSUME Runs, NEW p \in Process, WriteLine(p)
    PROVE Runs'
<1> DEFINE s == processes[p]
<1>1. Run(s) /\ s.at = "write"
    BY DEF WriteLine, At, Runs
<1>2. Becomes(p, s) /\ changes' = changes + 1 /\ UNCHANGED <<databases, version, troubles>> /\ DOMAIN disturbed' = Process
    BY DEF WriteLine, Changed
<1>3. FoundSoFar(s, Moments(s, databases, version)) /\ StateOK(s) /\ StepOfCommand(s)
    BY <1>1 DEF Run
<1>. QED
    BY <1>1, <1>2, <1>3, ChangeStep

(* So does closing a document.                                                 *)
LEMMA CloseKeeps ==
    ASSUME Runs, NEW p \in Process, Close(p)
    PROVE Runs'
<1> DEFINE s == processes[p]
           t == [s EXCEPT !.at = "open", !.pending = Tail(s.pending)]
<1>1. Untouched /\ Run(s) /\ DOMAIN s = Fields /\ s.at = "write"
    BY StateFields DEF Close, At, Runs, Run
<1>2. FoundSoFar(s, Moments(s, databases, version)) /\ StateOK(s) /\ StepOfCommand(s)
    BY <1>1 DEF Run
<1>3. Becomes(p, IF Tail(s.pending) = <<>> THEN Ended(s, 0) ELSE t)
    BY DEF Close
<1>4. CASE Tail(s.pending) = <<>>
    <2>1. MayEnd(s)
        BY <1>1, <1>2 DEF MayEnd, FoundSoFar, StepOfCommand
    <2>. QED
        BY <1>1, <1>3, <1>4, <2>1, EndsWithFinds, MovesQuietly
<1>5. CASE Tail(s.pending) # <<>>
    <2>1. /\ DOMAIN t = Fields /\ t.at = "open" /\ t.pending = Tail(s.pending) /\ t.exit = s.exit /\ t.command = s.command
          /\ t.before = s.before /\ t.since = s.since /\ t.changesBefore = s.changesBefore /\ t.changesUntil = s.changesUntil
          /\ t.rules = s.rules /\ t.remaining = s.remaining /\ t.facts = s.facts /\ t.found = s.found
        BY <1>1 DEF Fields
    <2>2. Moments(t, databases, version) = Moments(s, databases, version)
        BY <1>1, <2>1 DEF Moments
    <2> HIDE DEF t
    <2>3. FoundSoFar(t, Moments(t, databases, version))
        BY <1>1, <1>2, <2>1, <2>2, SameFinds DEF FoundSoFar
    <2>4. StateOK(t) /\ StepOfCommand(t) /\ LoadedFromFiles(t)
        BY <1>1, <1>2, <1>5, <2>1, ShellFields DEF StateOK, Steps, StepOfCommand, LoadedFromFiles
    <2>5. Run(t)
        BY <1>1, <2>1, <2>3, <2>4, GoesOn
    <2>. QED
        BY <1>1, <1>3, <1>5, <2>5, MovesQuietly
<1>. QED
    BY <1>4, <1>5

(* So do a full disk and a crash, at any step.                                 *)
LEMMA FaultsKeep ==
    ASSUME Runs, NEW p \in Process, DiskFull(p) \/ Crash(p)
    PROVE Runs'
<1>1. Run(processes[p])
    BY DEF Runs
<1>2. CASE DiskFull(p)
    <2>1. Run(Failing(processes[p]))
        BY <1>1, <1>2, FailsWell DEF DiskFull
    <2>. QED
        BY <1>2, <2>1, FaultQuietly DEF DiskFull
<1>3. CASE Crash(p)
    <2>1. Run(Ended(processes[p], 137))
        BY <1>1, Killed
    <2>. QED
        BY <1>3, <2>1, FaultQuietly DEF Crash
<1>. QED
    BY <1>2, <1>3

(* Nothing happens.                                                            *)
LEMMA StutterKeeps ==
    ASSUME Runs, UNCHANGED vars
    PROVE Runs'
<1>1. UNCHANGED <<files, databases, version, troubles, processes, changes, disturbed>>
    BY DEF vars
<1>2. Process' = Process
    BY <1>1 DEF Process
<1>3. ASSUME NEW s, Run(s)
      PROVE Run(s)'
    BY <1>1, <1>3, SameFiles DEF Run
<1>4. \A q \in Process' : Run(processes[q])'
    BY <1>1, <1>2, <1>3 DEF Runs
<1>5. TypeOK'
    BY <1>1, <1>2 DEF Runs, TypeOK
<1>. QED
    BY <1>4, <1>5 DEF Runs

-----------------------------------------------------------------------------
(* The theorems.                                                             *)

(* In every execution every step belongs to the command that is run, what is   *)
(* found is what the rules asked so far have, and what was loaded is in the    *)
(* files as long as they do not change (Runs).                                 *)
THEOREM RunsHold == Spec => []Runs
<1>1. Init => Runs
    BY Begins
<1>2. Runs /\ [Next]_vars => Runs'
    <2> SUFFICES ASSUME Runs, [Next]_vars
                 PROVE Runs'
        OBVIOUS
    <2>1. ASSUME NEW p \in Process,
                 \/ Start(p) \/ ReadInput(p)
                 \/ Configure(p) \/ Connect(p) \/ LoadMapping(p) \/ LoadFacts(p) \/ LoadOntology(p)
                 \/ Ask(p) \/ Asked(p)
                 \/ Tables(p) \/ Columns(p) \/ Keys(p) \/ Catalog(p)
                 \/ Open(p) \/ WriteLine(p) \/ Close(p)
                 \/ DiskFull(p) \/ Crash(p)
          PROVE Runs'
        BY <2>1, StartKeeps, ReadInputKeeps, ConfigureKeeps, ConnectKeeps, LoadMappingKeeps, LoadFactsKeeps, LoadOntologyKeeps,
           AskKeeps, AskedKeeps, CatalogStepsKeep, CatalogKeeps, OpenKeeps, WriteLineKeeps, CloseKeeps, FaultsKeep
    <2>. QED
        BY <2>1, AlterKeeps, StutterKeeps DEF Next
<1>. QED
    BY <1>1, <1>2, PTL DEF Spec

(* In every execution a command that ends with 0 has found what its rules had  *)
(* all the while it ran, and nothing that none of them had at some moment,     *)
(* whatever other processes and other clients of the database do.              *)
THEOREM FindsHold == Spec => []FindsWhatIsThere
<1>1. Runs => FindsWhatIsThere
    <2> SUFFICES ASSUME Runs, NEW p \in Process, Exited(p, 0), processes[p].command.name \in {"query", "materialize"}
                 PROVE FoundOf(processes[p], AskedRules(processes[p]), Versions(p))
        BY DEF FindsWhatIsThere
    <2> DEFINE s == processes[p]
    <2>1. FoundSoFar(s, Versions(p)) /\ s.at = "exited" /\ s.exit = 0
        BY DEF Runs, Run, Versions, Exited, At
    <2> HIDE DEF s
    <2>2. FoundOf(s, s.rules \ s.remaining, Versions(p)) /\ AskedRules(s) \cap s.remaining = {}
        BY <2>1 DEF FoundSoFar, s
    <2>3. AskedRules(s) \subseteq s.rules \ s.remaining
        BY <2>2 DEF AskedRules
    <2>. QED
        BY <2>2, <2>3 DEF FoundOf, s
<1>. QED
    BY <1>1, RunsHold, PTL

(* In every execution, what validate accepted does not fail to load later, as  *)
(* long as no file changed.                                                    *)
THEOREM ValidatedHolds == Spec => []ValidatedLoads
<1>1. Runs => ValidatedLoads
    BY DEF Runs, Run, ValidatedLoads
<1>. QED
    BY <1>1, RunsHold, PTL

-----------------------------------------------------------------------------
(* What is written. What a process holds can be written, and what it has       *)
(* written is in the files.                                                    *)

Writes ==
    /\ \A path \in DOMAIN files : IsText(files[path])
    /\ \A v \in DOMAIN databases : DatabaseOK(databases[v])
    /\ \A p \in Process : Holds(processes[p]) /\ SavedSoFar(processes[p], disturbed[p])

(* What a process holds is a matter of these fields.                           *)
LEMMA SameHolds ==
    ASSUME NEW s, Holds(s), NEW t, t.rules = s.rules, t.facts = s.facts, t.found = s.found, t.relations = s.relations,
           t.pending = s.pending, t.wrote = s.wrote
    PROVE Holds(t)
    BY DEF Holds

(* A step that leaves files and database alone is a matter of its process.     *)
LEMMA QuietOutputs ==
    ASSUME Runs, Writes, NEW p \in Process, NEW t, Becomes(p, t), Holds(t), SavedSoFar(t, disturbed'[p]),
           files' = files, databases' = databases, \A q \in Process : q # p => disturbed'[q] = disturbed[q]
    PROVE Writes'
<1>1. Process' = Process /\ processes'[p] = t /\ \A q \in Process : q # p => processes'[q] = processes[q]
    BY OneProcess
<1>2. ASSUME NEW q \in Process
      PROVE Holds(processes'[q]) /\ SavedSoFar(processes'[q], disturbed'[q])
    BY <1>1 DEF Writes
<1>3. ASSUME NEW s, NEW touched, SavedSoFar(s, touched)
      PROVE SavedSoFar(s, touched)'
    BY <1>3 DEF SavedSoFar, Stands, Begun, FileAt
<1>4. ASSUME NEW s, Holds(s)
      PROVE Holds(s)'
    BY <1>4
<1>5. \A q \in Process' : Holds(processes[q])' /\ SavedSoFar(processes[q], disturbed[q])'
    BY <1>1, <1>2, <1>3, <1>4
<1>. QED
    BY <1>5 DEF Writes

(* A step that writes to a file disturbs the others.                           *)
LEMMA ChangeOutputs ==
    ASSUME Runs, Writes, NEW p \in Process, NEW t, NEW text, Changed(p, t, text), IsText(text),
           Holds(t), SavedSoFar(t, disturbed[p])'
    PROVE Writes'
<1>0. PICK path : path = Head(processes[p].pending).path
    OBVIOUS
<1>1. Becomes(p, t) /\ UNCHANGED <<databases, version, troubles>>
      /\ files' = [other \in DOMAIN files \cup {path} |-> IF other = path THEN text ELSE files[other]]
      /\ disturbed' = [q \in Process |-> IF q = p THEN disturbed[p] ELSE disturbed[q] \cup {path}]
    BY <1>0 DEF Changed
<1>2. Process' = Process /\ processes'[p] = t /\ \A q \in Process : q # p => processes'[q] = processes[q]
    BY <1>1, OneProcess
<1>3. \A other : other # path => FileAt(other)' = FileAt(other)
    BY <1>1 DEF FileAt
<1>4. DOMAIN files \subseteq DOMAIN files'
    BY <1>1
<1>5. ASSUME NEW s, NEW touched, SavedSoFar(s, touched)
      PROVE SavedSoFar(s, touched \cup {path})'
    <2>1. ASSUME NEW document, Stands(document, s, touched)
          PROVE Stands(document, s, touched \cup {path})'
        BY <1>3, <2>1 DEF Stands
    <2>2. ASSUME NEW document, Begun(document, s, touched)
          PROVE Begun(document, s, touched \cup {path})'
        BY <1>3, <2>2 DEF Begun
    <2>. QED
        BY <1>4, <1>5, <2>1, <2>2 DEF SavedSoFar
<1>6. ASSUME NEW q \in Process
      PROVE Holds(processes[q])' /\ SavedSoFar(processes[q], disturbed[q])'
    <2>1. CASE q = p
        BY <1>1, <1>2, <2>1
    <2>2. CASE q # p
        <3>1. Holds(processes[q]) /\ SavedSoFar(processes[q], disturbed[q])
            BY DEF Writes
        <3>2. processes'[q] = processes[q] /\ disturbed'[q] = disturbed[q] \cup {path}
            BY <1>1, <1>2, <2>2
        <3>. QED
            BY <1>5, <3>1, <3>2
    <2>. QED
        BY <2>1, <2>2
<1>7. \A other \in DOMAIN files' : IsText(files'[other])
    BY <1>1 DEF Writes
<1>. QED
    BY <1>1, <1>2, <1>6, <1>7 DEF Writes

(* One process moves on its own.                                               *)
LEMMA MovesOutputs ==
    ASSUME Runs, Writes, NEW p \in Process, NEW t, Becomes(p, t), Holds(t), SavedSoFar(t, disturbed[p]),
           files' = files, databases' = databases, disturbed' = disturbed
    PROVE Writes'
    BY QuietOutputs

(* A command that has written nothing is done with what it has written.        *)
LEMMA NothingSaved ==
    ASSUME NEW t, t.wrote = <<>>, t.at # "write", NEW touched
    PROVE SavedSoFar(t, touched)
    BY DEF SavedSoFar

(* Where the processes are, and that they have written nothing so far.         *)
LEMMA Unwritten ==
    ASSUME Runs, Writes, NEW p \in Process, processes[p].at \notin {"open", "write", "exited"}
    PROVE DOMAIN processes[p] = Fields /\ Holds(processes[p]) /\ processes[p].wrote = <<>>
    BY StateFields DEF Runs, Run, Writes, SavedSoFar

(* A command that fails or is killed, and one that ends before it writes.      *)
LEMMA EndsSaved ==
    ASSUME Runs, Writes, NEW p \in Process, processes[p].at # "exited"
    PROVE LET s == processes[p]
          IN  /\ Holds(Failing(s)) /\ SavedSoFar(Failing(s), disturbed[p])
              /\ Holds(Ended(s, 137)) /\ SavedSoFar(Ended(s, 137), disturbed[p])
              /\ s.at \notin {"open", "write"} => Holds(Ended(s, 0)) /\ SavedSoFar(Ended(s, 0), disturbed[p])
<1> DEFINE s == processes[p]
<1>1. DOMAIN s = Fields /\ Holds(s) /\ SavedSoFar(s, disturbed[p])
    BY StateFields DEF Runs, Run, Writes
<1> HIDE DEF s
<1>2. Holds(Failing(s)) /\ SavedSoFar(Failing(s), disturbed[p])
    <2> DEFINE t == Failing(s)
    <2>1. t.rules = s.rules /\ t.facts = s.facts /\ t.found = s.found /\ t.relations = s.relations
          /\ t.pending = s.pending /\ t.wrote = s.wrote /\ t.at = "exited" /\ t.exit = 2 /\ t.failed = s.at
        BY <1>1, FailingFields
    <2> HIDE DEF t
    <2>2. Holds(t)
        BY <1>1, <2>1, SameHolds
    <2>3. SavedSoFar(t, disturbed[p])
        BY <1>1, <2>1 DEF SavedSoFar, s
    <2>. QED
        BY <2>2, <2>3 DEF t
<1>3. ASSUME NEW code \in {0, 137}, code = 0 => s.at \notin {"open", "write"}
      PROVE Holds(Ended(s, code)) /\ SavedSoFar(Ended(s, code), disturbed[p])
    <2> DEFINE t == Ended(s, code)
    <2>1. t.rules = s.rules /\ t.facts = s.facts /\ t.found = s.found /\ t.relations = s.relations
          /\ t.pending = s.pending /\ t.wrote = s.wrote /\ t.at = "exited" /\ t.exit = code
        BY <1>1, EndedFields
    <2> HIDE DEF t
    <2>2. Holds(t)
        BY <1>1, <2>1, SameHolds
    <2>3. SavedSoFar(t, disturbed[p])
        BY <1>1, <1>3, <2>1 DEF SavedSoFar, s
    <2>. QED
        BY <2>2, <2>3 DEF t
<1>. QED
    BY <1>2, <1>3 DEF s

(* One process ends, before it writes or with a failure.                       *)
LEMMA EndsOutputs ==
    ASSUME Runs, Writes, NEW p \in Process, processes[p].at # "exited",
           \/ Becomes(p, Failing(processes[p]))
           \/ Becomes(p, Ended(processes[p], 137))
           \/ Becomes(p, Ended(processes[p], 0)) /\ processes[p].at \notin {"open", "write"},
           files' = files, databases' = databases, disturbed' = disturbed
    PROVE Writes'
    BY EndsSaved, MovesOutputs

-----------------------------------------------------------------------------
(* The documents of the commands.                                            *)

(* Documents of one or two texts.                                              *)
LEMMA FewDocuments ==
    /\ AreDocuments(<<>>)
    /\ \A one : IsText(one.text) => AreDocuments(<<one>>)
    /\ \A one, other : IsText(one.text) /\ IsText(other.text) => AreDocuments(<<one, other>>)
<1>1. AreDocuments(<<>>)
    <2>1. ToSet(<<>>) = {} /\ <<>> \in Seq({})
        BY DEF ToSet
    <2>. QED
        BY <2>1 DEF AreDocuments
<1>2. ASSUME NEW one, IsText(one.text) PROVE AreDocuments(<<one>>)
    <2>1. ToSet(<<one>>) = {one} /\ <<one>> \in Seq({one})
        BY DEF ToSet
    <2>. QED
        BY <1>2, <2>1 DEF AreDocuments
<1>3. ASSUME NEW one, IsText(one.text), NEW other, IsText(other.text) PROVE AreDocuments(<<one, other>>)
    <2>1. ToSet(<<one, other>>) = {one, other} /\ <<one, other>> \in Seq({one, other})
        BY DEF ToSet
    <2>. QED
        BY <1>3, <2>1 DEF AreDocuments
<1>. QED
    BY <1>1, <1>2, <1>3

(* Documents, one after the other.                                             *)
LEMMA MoreDocuments ==
    ASSUME NEW some, AreDocuments(some), NEW more, AreDocuments(more)
    PROVE AreDocuments(some \o more)
<1> DEFINE S == ToSet(some) \cup ToSet(more)
<1>1. some \in Seq(S) /\ more \in Seq(S) /\ \A document \in S : IsText(document.text)
    BY DEF AreDocuments
<1> HIDE DEF S
<1>2. some \o more \in Seq(S)
    BY <1>1
<1>. QED
    BY <1>1, <1>2, SequenceOfItself DEF AreDocuments

(* A mapping command writes texts.                                             *)
LEMMA DocumentsAreTexts ==
    ASSUME NEW command, NEW text, IsText(text), command.name \in MappingCommands
    PROVE AreDocuments(Documents(command, text))
<1>1. ASSUME NEW path, NEW content, IsText(content) PROVE AreDocuments(<<[path |-> path, text |-> content]>>)
    <2> DEFINE one == [path |-> path, text |-> content]
    <2>1. IsText(one.text)
        BY <1>1
    <2> HIDE DEF one
    <2>2. AreDocuments(<<one>>)
        BY <2>1, FewDocuments
    <2>. QED
        BY <2>2 DEF one
<1>2. ~R2rmlFails(text) => IsText(NativeText(R2rmlRules(text)))
    BY R2rmlRulesListed, R2rmlRulesFormed, NativeTextIsText
<1>3. ASSUME NEW native, IsText(native), ~NativeFails(native) PROVE IsText(R2rmlText(NativeRules(native)))
    BY <1>3, NativeRulesListed, NativeRulesTyped, R2rmlTextIsText
<1>4. ASSUME NEW native, IsText(native) PROVE AreDocuments(InR2rml(command, Migrated(native, command.simplify)))
    BY <1>1, <1>3, <1>4, MigratedIsText, FewDocuments DEF InR2rml
<1>5. AreDocuments(InNative(command, Migrated(text, command.simplify)))
    <2> DEFINE migrated == Migrated(text, command.simplify)
               one == [path |-> command.output, text |-> migrated[2]]
               other == [path |-> PropertiesOf(command.output), text |-> migrated[3]]
    <2>1. IsText(migrated[2]) /\ IsText(migrated[3])
        BY MigratedIsText
    <2> HIDE DEF migrated
    <2>2. IsText(one.text) /\ IsText(other.text)
        BY <2>1
    <2>3. InNative(command, migrated) \in {<<>>, <<one>> \o <<>>, <<one>> \o <<other>>}
        BY DEF InNative
    <2> HIDE DEF one, other
    <2>4. AreDocuments(<<>>) /\ AreDocuments(<<one>>) /\ AreDocuments(<<other>>)
        BY <2>2, FewDocuments
    <2>5. AreDocuments(InNative(command, migrated))
        BY <2>3, <2>4, MoreDocuments
    <2>. QED
        BY <2>5 DEF migrated
<1>6. AreDocuments(MigratedDocuments(command, text))
    BY <1>2, <1>4, <1>5, FewDocuments DEF MigratedDocuments
<1>. QED
    BY <1>1, <1>2, <1>3, <1>6, FewDocuments DEF Documents, MappingCommands

-----------------------------------------------------------------------------
(* Each action keeps what can be written and what is in the files.             *)

(* The initial states.                                                         *)
LEMMA BeginsOutputs == Init => Writes
<1> SUFFICES ASSUME Init PROVE Writes
    OBVIOUS
<1>1. PICK world \in Worlds :
        /\ files = world.files
        /\ databases = world.databases
        /\ processes = [p \in DOMAIN world.todo |-> Shell(world.todo[p])]
        /\ disturbed = [p \in DOMAIN world.todo |-> {}]
    BY DEF Init
<1>2. \A path \in DOMAIN files : IsText(files[path])
    BY <1>1, WorldAssumption
<1>3. \A v \in DOMAIN databases : DatabaseOK(databases[v])
    BY <1>1, WorldAssumption DEF ToSet
<1>4. ASSUME NEW todo, NEW touched
      PROVE Holds(Shell(todo)) /\ SavedSoFar(Shell(todo), touched)
    <2> DEFINE s == Shell(todo)
    <2>1. s.at = "shell" /\ s.rules = {} /\ s.facts = {} /\ s.found = {} /\ s.relations = <<>> /\ s.pending = <<>> /\ s.wrote = <<>>
        BY ShellFields
    <2> HIDE DEF s
    <2>2. IsFiniteSet({}) /\ IsCatalog(<<>>) /\ AreDocuments(<<>>)
        BY FS_EmptySet, FewDocuments DEF IsCatalog, ToSet
    <2>3. Holds(s)
        BY <2>1, <2>2 DEF Holds
    <2>. QED
        BY <2>1, <2>3, NothingSaved DEF s
<1>5. \A p \in Process : Holds(processes[p]) /\ SavedSoFar(processes[p], disturbed[p])
    BY <1>1, <1>4 DEF Process
<1>. QED
    BY <1>2, <1>3, <1>5 DEF Writes

(* A command begins with nothing written.                                      *)
LEMMA StartOutputs ==
    ASSUME Runs, Writes, NEW p \in Process, Start(p)
    PROVE Writes'
<1> DEFINE s == processes[p]
           t == [Shell(Tail(s.todo)) EXCEPT
                    !.command = Head(s.todo),
                    !.before = [command |-> s.command, exit |-> s.exit, changesBefore |-> s.changesBefore],
                    !.since = version, !.changesBefore = changes,
                    !.at = IF Head(s.todo).name \in MappingCommands THEN "input" ELSE "configuration"]
<1>1. Becomes(p, t) /\ UNCHANGED <<files, databases>> /\ disturbed' = [disturbed EXCEPT ![p] = {}]
    BY DEF Start
<1>2. /\ t.rules = {} /\ t.facts = {} /\ t.found = {} /\ t.relations = <<>> /\ t.pending = <<>> /\ t.wrote = <<>>
      /\ t.at # "write"
    BY ShellFields DEF Fields
<1> HIDE DEF t
<1>3. IsFiniteSet({}) /\ IsCatalog(<<>>) /\ AreDocuments(<<>>)
    BY FS_EmptySet, FewDocuments DEF IsCatalog, ToSet
<1>4. Holds(t)
    BY <1>2, <1>3 DEF Holds
<1>5. SavedSoFar(t, disturbed'[p])
    BY <1>2, NothingSaved
<1>6. \A q \in Process : q # p => disturbed'[q] = disturbed[q]
    BY <1>1 DEF Runs, TypeOK
<1>. QED
    BY <1>1, <1>4, <1>5, <1>6, QuietOutputs

(* What a mapping command is going to write are texts.                         *)
LEMMA ReadInputOutputs ==
    ASSUME Runs, Writes, NEW p \in Process, ReadInput(p)
    PROVE Writes'
<1> DEFINE s == processes[p]
           text == FileAt(s.command.input)
           documents == Documents(s.command, text)
           t == [s EXCEPT !.at = "open", !.text = text, !.pending = documents]
<1>1. UNCHANGED <<files, databases, disturbed>> /\ s.at = "input"
    BY DEF ReadInput, At, Untouched
<1>2. DOMAIN s = Fields /\ Holds(s) /\ s.wrote = <<>>
    BY <1>1, Unwritten
<1>3. CASE Becomes(p, Failing(s))
    BY <1>1, <1>3, EndsOutputs
<1>4. CASE text # Missing /\ Becomes(p, t)
    <2>1. IsText(text)
        BY <1>4 DEF FileAt, Writes
    <2>2. s.command.name \in MappingCommands
        BY <1>1 DEF Runs, Run, StepOfCommand
    <2>3. AreDocuments(documents)
        BY <2>1, <2>2, DocumentsAreTexts
    <2> HIDE DEF documents
    <2>4. t.rules = s.rules /\ t.facts = s.facts /\ t.found = s.found /\ t.relations = s.relations
          /\ t.pending = documents /\ t.wrote = s.wrote /\ t.at = "open"
        BY <1>2 DEF Fields
    <2> HIDE DEF t
    <2>5. Holds(t) /\ SavedSoFar(t, disturbed[p])
        BY <1>2, <2>3, <2>4, NothingSaved DEF Holds
    <2>. QED
        BY <1>1, <1>4, <2>5, MovesOutputs
<1>. QED
    BY <1>3, <1>4 DEF ReadInput, Writing

(* A step that keeps what the process holds, before it writes.                 *)
LEMMA KeepsOutputs ==
    ASSUME Runs, Writes, NEW p \in Process, processes[p].at \notin {"open", "write", "exited"}, NEW t, Becomes(p, t),
           LET s == processes[p]
           IN  t.rules = s.rules /\ t.facts = s.facts /\ t.found = s.found /\ t.relations = s.relations
               /\ t.pending = s.pending /\ t.wrote = s.wrote /\ t.at # "write",
           files' = files, databases' = databases, disturbed' = disturbed
    PROVE Writes'
<1>1. Holds(t)
    BY Unwritten, SameHolds
<1>2. SavedSoFar(t, disturbed[p])
    BY Unwritten, NothingSaved
<1>. QED
    BY <1>1, <1>2, MovesOutputs

(* Reading the configuration writes nothing.                                   *)
LEMMA ConfigureOutputs ==
    ASSUME Runs, Writes, NEW p \in Process, Configure(p)
    PROVE Writes'
<1> DEFINE s == processes[p]
           text == FileAt(s.command.config)
           u == [s EXCEPT !.configuration = text[1]]
           t == [s EXCEPT !.at = IF s.command.name = "validate" THEN "mapping" ELSE "connect", !.configuration = text[1]]
<1>1. UNCHANGED <<files, databases, disturbed>> /\ s.at = "configuration"
    BY DEF Configure, At, Untouched
<1>2. DOMAIN s = Fields
    BY <1>1, Unwritten
<1>3. CASE Becomes(p, Failing(s))
    BY <1>1, <1>3, EndsOutputs
<1>4. CASE Becomes(p, Ended(u, 0))
    <2>1. DOMAIN u = Fields /\ u.rules = s.rules /\ u.facts = s.facts /\ u.found = s.found /\ u.relations = s.relations
          /\ u.pending = s.pending /\ u.wrote = s.wrote
        BY <1>2 DEF Fields
    <2> HIDE DEF u
    <2> DEFINE e == Ended(u, 0)
    <2>2. e.rules = s.rules /\ e.facts = s.facts /\ e.found = s.found /\ e.relations = s.relations
          /\ e.pending = s.pending /\ e.wrote = s.wrote /\ e.at # "write"
        BY <2>1, EndedFields
    <2> HIDE DEF e
    <2>3. Becomes(p, e)
        BY <1>4 DEF e
    <2>. QED
        BY <1>1, <2>2, <2>3, KeepsOutputs
<1>5. CASE Becomes(p, t)
    <2>1. t.rules = s.rules /\ t.facts = s.facts /\ t.found = s.found /\ t.relations = s.relations
          /\ t.pending = s.pending /\ t.wrote = s.wrote /\ t.at # "write"
        BY <1>2 DEF Fields
    <2> HIDE DEF t
    <2>. QED
        BY <1>1, <1>5, <2>1, KeepsOutputs
<1>. QED
    BY <1>3, <1>4, <1>5 DEF Configure

(* Connecting writes nothing.                                                  *)
LEMMA ConnectOutputs ==
    ASSUME Runs, Writes, NEW p \in Process, Connect(p)
    PROVE Writes'
<1> DEFINE s == processes[p]
           next == IF s.command.name \in Loading
                   THEN IF s.configuration.direct THEN "direct mapping" ELSE "mapping"
                   ELSE "tables"
           t == [s EXCEPT !.at = next]
<1>1. s.at = "connect" /\ UNCHANGED <<files, databases, disturbed>>
    BY DEF Connect, At, Untouched
<1>2. DOMAIN s = Fields
    BY <1>1, Unwritten
<1>3. CASE Becomes(p, Failing(s))
    BY <1>1, <1>3, EndsOutputs
<1>4. CASE Becomes(p, t)
    <2>1. t.rules = s.rules /\ t.facts = s.facts /\ t.found = s.found /\ t.relations = s.relations
          /\ t.pending = s.pending /\ t.wrote = s.wrote /\ t.at # "write"
        BY <1>2 DEF Fields
    <2> HIDE DEF t
    <2>. QED
        BY <1>1, <1>4, <2>1, KeepsOutputs
<1>. QED
    BY <1>3, <1>4 DEF Connect

(* The rules of a text that is read are finitely many.                         *)
LEMMA LoadMappingOutputs ==
    ASSUME Runs, Writes, NEW p \in Process, LoadMapping(p)
    PROVE Writes'
<1> DEFINE s == processes[p]
           path == s.configuration.mapping
           text == FileAt(path)
           rules == IF IsR2rml(path) THEN R2rmlRules(text) ELSE NativeRules(text)
           t == [s EXCEPT !.at = "facts", !.text = text, !.rules = rules]
<1>1. UNCHANGED <<files, databases, disturbed>> /\ s.at = "mapping"
    BY DEF LoadMapping, At, Untouched
<1>2. DOMAIN s = Fields /\ Holds(s) /\ s.wrote = <<>>
    BY <1>1, Unwritten
<1>3. CASE Becomes(p, Failing(s))
    BY <1>1, <1>3, EndsOutputs
<1>4. CASE ~MappingFails(path) /\ Becomes(p, t)
    <2>1. text # Missing /\ (~IsR2rml(path) => ~NativeFails(text))
        BY <1>4 DEF MappingFails
    <2>2. IsText(text)
        BY <2>1 DEF FileAt, Writes
    <2>3. IsFiniteSet(rules)
        BY <2>1, <2>2, R2rmlRulesListed, NativeRulesListed DEF CanBeListed
    <2> HIDE DEF rules
    <2>4. t.rules = rules /\ t.facts = s.facts /\ t.found = s.found /\ t.relations = s.relations
          /\ t.pending = s.pending /\ t.wrote = s.wrote /\ t.at = "facts"
        BY <1>2 DEF Fields
    <2> HIDE DEF t
    <2>5. Holds(t) /\ SavedSoFar(t, disturbed[p])
        BY <1>2, <2>3, <2>4, NothingSaved DEF Holds
    <2>. QED
        BY <1>1, <1>4, <2>5, MovesOutputs
<1>. QED
    BY <1>3, <1>4 DEF LoadMapping

(* The facts of a text are finitely many.                                      *)
LEMMA LoadFactsOutputs ==
    ASSUME Runs, Writes, NEW p \in Process, LoadFacts(p)
    PROVE Writes'
<1> DEFINE s == processes[p]
           facts == FactsOf(s.configuration)
           t == [s EXCEPT !.at = "ontology", !.facts = facts]
<1>1. UNCHANGED <<files, databases, disturbed>> /\ s.at = "facts"
    BY DEF LoadFacts, At, Untouched
<1>2. DOMAIN s = Fields /\ Holds(s) /\ s.wrote = <<>>
    BY <1>1, Unwritten
<1>3. CASE Becomes(p, Failing(s))
    BY <1>1, <1>3, EndsOutputs
<1>4. CASE ~FactsFail(s.configuration) /\ Becomes(p, t)
    <2>3. IsFiniteSet(facts)
        <3>1. CASE s.configuration.facts = NoPath
            BY <3>1, FS_EmptySet DEF FactsOf
        <3>2. CASE s.configuration.facts # NoPath
            <4> DEFINE text == FileAt(s.configuration.facts)
            <4>1. text # Missing
                BY <1>4, <3>2 DEF FactsFail
            <4>2. IsText(text)
                BY <4>1 DEF FileAt, Writes
            <4>3. facts = ToSet(text)
                BY <3>2 DEF FactsOf
            <4> HIDE DEF text, facts
            <4>. QED
                BY <4>2, <4>3, FiniteElements DEF IsText
        <3>. QED
            BY <3>1, <3>2
    <2> HIDE DEF facts
    <2>4. t.rules = s.rules /\ t.facts = facts /\ t.found = s.found /\ t.relations = s.relations
          /\ t.pending = s.pending /\ t.wrote = s.wrote /\ t.at = "ontology"
        BY <1>2 DEF Fields
    <2> HIDE DEF t
    <2>5. Holds(t) /\ SavedSoFar(t, disturbed[p])
        BY <1>2, <2>3, <2>4, NothingSaved DEF Holds
    <2>. QED
        BY <1>1, <1>4, <2>5, MovesOutputs
<1>. QED
    BY <1>3, <1>4 DEF LoadFacts

(* Loading the ontology writes nothing.                                        *)
LEMMA LoadOntologyOutputs ==
    ASSUME Runs, Writes, NEW p \in Process, LoadOntology(p)
    PROVE Writes'
<1> DEFINE s == processes[p]
           path == s.configuration.ontology
           facts == s.facts \cup OntologyFacts(path)
           stated == Stated(s.command, facts)
           t == [s EXCEPT !.at = "default graph", !.facts = facts, !.remaining = s.rules, !.found = stated]
<1>1. UNCHANGED <<files, databases, disturbed>> /\ s.at = "ontology"
    BY DEF LoadOntology, At, Untouched
<1>2. DOMAIN s = Fields /\ Holds(s) /\ s.wrote = <<>>
    BY <1>1, Unwritten
<1>3. CASE Becomes(p, Failing(s)) \/ Becomes(p, Ended(s, 0))
    BY <1>1, <1>3, EndsOutputs
<1>4. CASE ~OntologyFails(path, s.facts) /\ Becomes(p, t)
    <2>1. IsFiniteSet(OntologyFacts(path))
        <3>1. CASE path = NoPath
            BY <3>1, FS_EmptySet DEF OntologyFacts
        <3>2. CASE path # NoPath
            <4> DEFINE text == FileAt(path)
            <4>1. text # Missing
                BY <1>4, <3>2 DEF OntologyFails
            <4>2. IsText(text)
                BY <4>1 DEF FileAt, Writes
            <4>3. OntologyFacts(path) = ToSet(text)
                BY <3>2 DEF OntologyFacts
            <4> HIDE DEF text
            <4>. QED
                BY <4>2, <4>3, FiniteElements DEF IsText
        <3>. QED
            BY <3>1, <3>2
    <2>2. IsFiniteSet(facts)
        BY <1>2, <2>1, FS_Union DEF Holds
    <2> HIDE DEF facts
    <2>3. IsFiniteSet(stated)
        <3> DEFINE answered == {line \in facts : s.command.name = "materialize" \/ Statement(line).graph = <<>>}
                   f == [fact \in answered |-> Statement(fact)]
        <3>1. IsFiniteSet(answered)
            BY <2>2, FS_Subset
        <3>2. stated = {f[fact] : fact \in answered}
            BY DEF Stated
        <3> HIDE DEF f, stated, answered
        <3>. QED
            BY <3>1, <3>2, FiniteImage
    <2> HIDE DEF stated
    <2>4. t.rules = s.rules /\ t.facts = facts /\ t.found = stated /\ t.relations = s.relations
          /\ t.pending = s.pending /\ t.wrote = s.wrote /\ t.at = "default graph"
        BY <1>2 DEF Fields
    <2> HIDE DEF t
    <2>5. Holds(t) /\ SavedSoFar(t, disturbed[p])
        BY <1>2, <2>2, <2>3, <2>4, NothingSaved DEF Holds
    <2>. QED
        BY <1>1, <1>4, <2>5, MovesOutputs
<1>. QED
    BY <1>3, <1>4 DEF LoadOntology, Loaded

(* The rows of a table are finitely many, and so are the triples of a rule.    *)
LEMMA RowsFinite ==
    ASSUME Runs, Writes, NEW table
    PROVE /\ IsFiniteSet(RowsIn(Database, table))
          /\ \A rule : IsFiniteSet(TriplesOf(rule, RowsIn(Database, table)))
<1>1. DatabaseOK(Database)
    BY DEF Database, Runs, TypeOK, Writes
<1> DEFINE relations == {r \in ToSet(Database.relations) : <<r.name>> = table}
           f == [relation \in relations |-> relation.rows]
<1>2. IsFiniteSet(relations)
    BY <1>1, FiniteElements, FS_Subset DEF DatabaseOK
<1>3. \A relation \in relations : IsFiniteSet(f[relation])
    BY <1>1 DEF DatabaseOK
<1>4. RowsIn(Database, table) = UNION {f[relation] : relation \in relations}
    BY DEF RowsIn
<1> HIDE DEF relations, f
<1>5. IsFiniteSet(RowsIn(Database, table))
    BY <1>2, <1>3, <1>4, FiniteUnion
<1>6. ASSUME NEW rows, IsFiniteSet(rows), NEW rule PROVE IsFiniteSet(TriplesOf(rule, rows))
    <2> DEFINE g == [row \in rows |-> Triple(rule.graph, rule.predicate, row)]
    <2>1. TriplesOf(rule, rows) = {g[row] : row \in rows}
        BY DEF TriplesOf
    <2> HIDE DEF g
    <2>. QED
        BY <1>6, <2>1, FiniteImage
<1>. QED
    BY <1>5, <1>6

(* A rule finds finitely many triples.                                         *)
LEMMA AskOutputs ==
    ASSUME Runs, Writes, NEW p \in Process, Ask(p)
    PROVE Writes'
<1> DEFINE s == processes[p]
<1>1. UNCHANGED <<files, databases, disturbed>> /\ s.at \notin {"open", "write", "exited"}
    BY DEF Ask, Asking, Untouched
<1>2. DOMAIN s = Fields /\ Holds(s) /\ s.wrote = <<>>
    BY <1>1, Unwritten
<1>3. CASE Becomes(p, Failing(s))
    BY <1>1, <1>3, EndsOutputs
<1>4. ASSUME NEW rule, NEW table,
             Becomes(p, [s EXCEPT !.found = s.found \cup TriplesOf(rule, RowsIn(Database, table)), !.remaining = s.remaining \ {rule}])
      PROVE Writes'
    <2> DEFINE found == s.found \cup TriplesOf(rule, RowsIn(Database, table))
               t == [s EXCEPT !.found = found, !.remaining = s.remaining \ {rule}]
    <2>1. Becomes(p, t)
        BY <1>4
    <2>2. IsFiniteSet(found)
        BY <1>2, RowsFinite, FS_Union DEF Holds
    <2> HIDE DEF found
    <2>3. t.rules = s.rules /\ t.facts = s.facts /\ t.found = found /\ t.relations = s.relations
          /\ t.pending = s.pending /\ t.wrote = s.wrote /\ t.at = s.at
        BY <1>2 DEF Fields
    <2> HIDE DEF t
    <2>4. Holds(t)
        BY <1>2, <2>2, <2>3 DEF Holds
    <2>5. SavedSoFar(t, disturbed[p])
        BY <1>1, <1>2, <2>3, NothingSaved
    <2>. QED
        BY <1>1, <2>1, <2>4, <2>5, MovesOutputs
<1>5. PICK rule \in Remaining(s) :
        Becomes(p, IF ~Known(Head(rule.source.tables)) THEN Failing(s)
                   ELSE [s EXCEPT !.found = s.found \cup TriplesOf(rule, RowsIn(Database, Head(rule.source.tables))),
                                  !.remaining = s.remaining \ {rule}])
    BY DEF Ask, Asking
<1>. QED
    BY <1>3, <1>4, <1>5

(* What is found is triples, which can be written.                             *)
LEMMA WrittenIsText ==
    ASSUME NEW s, Run(s), Holds(s), s.at = "named graphs"
    PROVE IsText(Written(s.command, s.found))
<1>1. FoundOf(s, s.rules \ s.remaining, Moments(s, databases, version))
    BY DEF Run, StepOfCommand, FoundSoFar
<1> DEFINE fields == {"t", "graph", "predicate", "row"}
<1>2. \A graph, predicate, row : DOMAIN Triple(graph, predicate, row) = fields /\ Triple(graph, predicate, row).t = "triple"
    BY DEF Triple
<1>3. ASSUME NEW triple \in s.found PROVE DOMAIN triple = fields /\ triple.t = "triple"
    <2>1. \/ triple \in Stated(s.command, s.facts)
          \/ \E rule \in AskedRules(s) : triple \in TriplesOf(rule, SomeRows(Moments(s, databases, version), rule))
        BY <1>1 DEF FoundOf
    <2>2. \E graph, predicate, row : triple = Triple(graph, predicate, row)
        BY <2>1, Zenon DEF Stated, Statement, TriplesOf
    <2>. QED
        BY <1>2, <2>2
<1> DEFINE f == [triple \in s.found |-> [triple EXCEPT !.graph = <<>>]]
           triples == IF s.command.format \in {"turtle", "ttl"} THEN {f[triple] : triple \in s.found} ELSE s.found
<1>4. Written(s.command, s.found) = SetToSeq(triples)
    BY DEF Written
<1>5. \A triple \in triples : IsLine(triple)
    <2>1. \A triple \in triples : "t" \in DOMAIN triple /\ triple.t = "triple"
        BY <1>3
    <2> HIDE DEF triples
    <2>. QED
        BY <2>1, PlainLines
<1>6. IsFiniteSet(triples)
    <2> HIDE DEF f
    <2>. QED
        BY FiniteImage DEF Holds
<1> HIDE DEF triples
<1>7. SetToSeq(triples) \in Seq(triples)
    BY <1>6, SetToSeqElements
<1>. QED
    BY <1>4, <1>5, <1>7, TextOfLines

(* A command comes to have documents to write.                                 *)
LEMMA OpensOutputs ==
    ASSUME Runs, Writes, NEW p \in Process, processes[p].at \notin {"open", "write", "exited"}, NEW documents, AreDocuments(documents),
           Becomes(p, [processes[p] EXCEPT !.at = "open", !.pending = documents]),
           files' = files, databases' = databases, disturbed' = disturbed
    PROVE Writes'
<1> DEFINE s == processes[p]
           t == [s EXCEPT !.at = "open", !.pending = documents]
<1>1. DOMAIN s = Fields /\ Holds(s) /\ s.wrote = <<>>
    BY Unwritten
<1>2. t.rules = s.rules /\ t.facts = s.facts /\ t.found = s.found /\ t.relations = s.relations
      /\ t.pending = documents /\ t.wrote = s.wrote /\ t.at = "open"
    BY <1>1 DEF Fields
<1>3. Becomes(p, t)
    OBVIOUS
<1> HIDE DEF t
<1>4. Holds(t) /\ SavedSoFar(t, disturbed[p])
    BY <1>1, <1>2, NothingSaved DEF Holds
<1>. QED
    BY <1>3, <1>4, MovesOutputs

(* What materialize is going to write is a text.                               *)
LEMMA AskedOutputs ==
    ASSUME Runs, Writes, NEW p \in Process, Asked(p)
    PROVE Writes'
<1> DEFINE s == processes[p]
           text == Written(s.command, s.found)
           documents == <<[path |-> s.command.output, text |-> text]>>
           t == [s EXCEPT !.at = "named graphs"]
<1>1. UNCHANGED <<files, databases, disturbed>> /\ s.at \in {"default graph", "named graphs"}
    BY DEF Asked, Untouched
<1>2. DOMAIN s = Fields /\ Holds(s)
    BY <1>1, Unwritten
<1>3. CASE Becomes(p, Failing(s)) \/ Becomes(p, Ended(s, 0))
    BY <1>1, <1>3, EndsOutputs
<1>4. CASE Becomes(p, t)
    <2>1. t.rules = s.rules /\ t.facts = s.facts /\ t.found = s.found /\ t.relations = s.relations
          /\ t.pending = s.pending /\ t.wrote = s.wrote /\ t.at # "write"
        BY <1>2 DEF Fields
    <2> HIDE DEF t
    <2>. QED
        BY <1>1, <1>4, <2>1, KeepsOutputs
<1>5. CASE s.at = "named graphs" /\ Becomes(p, [s EXCEPT !.at = "open", !.pending = documents])
    <2>1. IsText(text)
        BY <1>2, <1>5, WrittenIsText DEF Runs
    <2> HIDE DEF text
    <2> DEFINE document == [path |-> s.command.output, text |-> text]
    <2>2. IsText(document.text)
        BY <2>1
    <2> HIDE DEF document
    <2>3. AreDocuments(<<document>>)
        BY <2>2, FewDocuments
    <2>4. AreDocuments(documents)
        BY <2>3 DEF document
    <2> HIDE DEF documents
    <2>. QED
        BY <1>1, <1>5, <2>4, OpensOutputs
<1>. QED
    BY <1>1, <1>3, <1>4, <1>5 DEF Asked, At

(* The catalog that is read is one that can be described.                      *)
LEMMA CatalogStepsOutputs ==
    ASSUME Runs, Writes, NEW p \in Process, Tables(p) \/ Columns(p) \/ Keys(p)
    PROVE Writes'
<1> DEFINE s == processes[p]
<1>1. UNCHANGED <<files, databases, disturbed>> /\ s.at \notin {"open", "write", "exited"}
    BY DEF Tables, Columns, Keys, At, Untouched
<1>2. DOMAIN s = Fields /\ Holds(s) /\ s.wrote = <<>>
    BY <1>1, Unwritten
<1>3. IsCatalog(s.relations)
    BY <1>2 DEF Holds
<1>4. CASE Tables(p)
    <2> DEFINE names == [i \in DOMAIN Database.relations |-> Database.relations[i].name]
               t == [s EXCEPT !.at = "columns", !.tables = names]
    <2>1. Becomes(p, t)
        BY <1>4 DEF Tables
    <2> HIDE DEF names
    <2>2. t.rules = s.rules /\ t.facts = s.facts /\ t.found = s.found /\ t.relations = s.relations
          /\ t.pending = s.pending /\ t.wrote = s.wrote /\ t.at # "write"
        BY <1>2 DEF Fields
    <2> HIDE DEF t
    <2>. QED
        BY <1>1, <2>1, <2>2, KeepsOutputs
<1>5. CASE Columns(p)
    <2> DEFINE name == Head(s.tables)
               columns == IF Found(name) = {} THEN <<>> ELSE (CHOOSE relation \in Found(name) : TRUE).columns
               relation == Relation(name, columns, <<>>, {})
               relations == Append(s.relations, relation)
               t == [s EXCEPT !.at = "keys", !.relations = relations]
    <2>1. Becomes(p, t)
        BY <1>5 DEF Columns
    <2>2. columns \in Seq(ToSet(columns))
        <3>1. CASE Found(name) = {}
            <4>1. columns = <<>> /\ <<>> \in Seq(ToSet(<<>>))
                BY <3>1
            <4>. QED
                BY <4>1
        <3>2. CASE Found(name) # {}
            <4> DEFINE one == CHOOSE r \in Found(name) : TRUE
            <4>1. one \in Found(name)
                BY <3>2
            <4>2. one \in ToSet(Database.relations)
                BY <4>1 DEF Found
            <4>3. DatabaseOK(Database)
                BY DEF Database, Runs, TypeOK, Writes
            <4>4. columns = one.columns
                BY <3>2
            <4> HIDE DEF one, columns
            <4>. QED
                BY <4>2, <4>3, <4>4 DEF DatabaseOK
        <3>. QED
            BY <3>1, <3>2
    <2> HIDE DEF columns, name
    <2>3. IsRelation(relation)
        BY <2>2 DEF Relation, IsRelation, Is
    <2> HIDE DEF relation
    <2>4. IsCatalog(relations)
        BY <1>3, <2>3, CatalogIsText
    <2> HIDE DEF relations
    <2>8. t.rules = s.rules /\ t.facts = s.facts /\ t.found = s.found /\ t.relations = relations
          /\ t.pending = s.pending /\ t.wrote = s.wrote /\ t.at = "keys"
        BY <1>2 DEF Fields
    <2> HIDE DEF t
    <2>9. Holds(t)
        BY <1>2, <2>4, <2>8 DEF Holds
    <2>10. SavedSoFar(t, disturbed[p])
        BY <1>2, <2>8, NothingSaved
    <2>. QED
        BY <1>1, <2>1, <2>9, <2>10, MovesOutputs
<1>6. CASE Keys(p)
    <2> DEFINE name == Head(s.tables)
               key == IF Found(name) = {} THEN <<>> ELSE (CHOOSE relation \in Found(name) : TRUE).key
               t == [s EXCEPT !.at = "columns", !.tables = Tail(s.tables), !.relations[Len(s.relations)].key = key]
    <2>1. Becomes(p, t)
        BY <1>6 DEF Keys
    <2> HIDE DEF key
    <2> DEFINE n == Len(s.relations)
               relation == [s.relations[n] EXCEPT !.key = key]
               relations == [s.relations EXCEPT ![n] = relation]
    <2>2. t.rules = s.rules /\ t.facts = s.facts /\ t.found = s.found /\ t.relations = relations
          /\ t.pending = s.pending /\ t.wrote = s.wrote /\ t.at = "columns"
        BY <1>2 DEF Fields
    <2> HIDE DEF t
    <2>3. IsCatalog(relations)
        <3>1. CASE n \in DOMAIN s.relations
            <4>1. IsRelation(s.relations[n])
                BY <1>3, <3>1 DEF IsCatalog, ToSet
            <4>2. IsRelation(relation)
                BY <4>1 DEF IsRelation, Is
            <4> HIDE DEF relation
            <4>. QED
                BY <1>3, <3>1, <4>2, CatalogIsText
        <3>2. CASE n \notin DOMAIN s.relations
            <4>1. relations = s.relations
                BY <1>3, <3>2 DEF IsCatalog
            <4>. QED
                BY <1>3, <4>1
        <3>. QED
            BY <3>1, <3>2
    <2> HIDE DEF relations
    <2>4. Holds(t) /\ SavedSoFar(t, disturbed[p])
        BY <1>2, <2>2, <2>3, NothingSaved DEF Holds
    <2>. QED
        BY <1>1, <2>1, <2>4, MovesOutputs
<1>. QED
    BY <1>4, <1>5, <1>6

(* What bootstrap is going to write are texts.                                 *)
LEMMA CatalogOutputs ==
    ASSUME Runs, Writes, NEW p \in Process, Catalog(p)
    PROVE Writes'
<1> DEFINE s == processes[p]
           mapping == [path |-> s.command.output, text |-> BootstrapMapping(s.relations)]
           ontology == [path |-> s.command.ontology, text |-> BootstrapOntology(s.relations)]
           metadata == [path |-> s.command.output, text |-> s.relations]
           documents == IF s.command.name = "bootstrap" THEN <<mapping, ontology>> ELSE <<metadata>>
<1>1. UNCHANGED <<files, databases, disturbed>> /\ s.at \notin {"open", "write", "exited"}
    BY DEF Catalog, At, Untouched
<1>2. Holds(s)
    BY <1>1, Unwritten
<1>3. IsText(mapping.text) /\ IsText(ontology.text) /\ IsText(metadata.text)
    BY <1>2, BootstrapMappingIsText, BootstrapOntologyIsText, CatalogIsText DEF Holds
<1>4. Becomes(p, Ended(s, 0)) \/ Becomes(p, [s EXCEPT !.at = "open", !.pending = documents])
    BY DEF Catalog, BootstrapDocuments
<1> HIDE DEF mapping, ontology, metadata
<1>5. AreDocuments(documents)
    BY <1>3, FewDocuments
<1> HIDE DEF documents
<1>. QED
    BY <1>1, <1>4, <1>5, EndsOutputs, OpensOutputs

(* The document a command writes.                                              *)
LEMMA HeadIsDocument ==
    ASSUME NEW s, Holds(s), s.pending # <<>>
    PROVE /\ IsText(Head(s.pending).text) /\ Head(s.pending).text \in Seq(ToSet(Head(s.pending).text))
          /\ Tail(s.pending) \in Seq(ToSet(s.pending)) /\ AreDocuments(Tail(s.pending))
<1>1. s.pending \in Seq(ToSet(s.pending)) /\ \A document \in ToSet(s.pending) : IsText(document.text)
    BY DEF Holds, AreDocuments
<1>2. Head(s.pending) \in ToSet(s.pending) /\ Tail(s.pending) \in Seq(ToSet(s.pending))
    BY <1>1, HeadTailProperties
<1>3. AreDocuments(Tail(s.pending))
    BY <1>1, <1>2, SequenceOfItself DEF AreDocuments
<1>. QED
    BY <1>1, <1>2, <1>3 DEF IsText

(* A file that is opened is the beginning of its document. If it is that of an *)
(* earlier document of the command, the command has written it twice.          *)
LEMMA OpenOutputs ==
    ASSUME Runs, Writes, NEW p \in Process, Open(p)
    PROVE Writes'
<1> DEFINE s == processes[p]
           wrote == Append(s.wrote, Head(s.pending))
           t == [s EXCEPT !.at = "write", !.wrote = wrote]
<1>0. PICK path : path = Head(s.pending).path
    OBVIOUS
<1>1. s.at = "open" /\ s.pending # <<>> /\ DOMAIN s = Fields /\ Holds(s) /\ SavedSoFar(s, disturbed[p])
    BY StateFields DEF Open, Opening, At, Runs, Run, StateOK, Writes
<1>2. Changed(p, t, <<>>)
    BY DEF Open, Opening
<1>3. /\ files' = [other \in DOMAIN files \cup {path} |-> IF other = path THEN <<>> ELSE files[other]]
      /\ disturbed'[p] = disturbed[p]
    BY <1>0, <1>2 DEF Changed
<1>4. Head(s.pending).text \in Seq(ToSet(Head(s.pending).text)) /\ AreDocuments(<<Head(s.pending)>>)
    BY <1>1, HeadIsDocument, FewDocuments
<1>5. s.wrote \in Seq(ToSet(s.wrote)) /\ AreDocuments(s.wrote)
    BY <1>1 DEF Holds, AreDocuments
<1>6. PICK document : document = Head(s.pending)
    OBVIOUS
<1>7. AreDocuments(wrote)
    <2> DEFINE S == ToSet(s.wrote) \cup {document}
    <2>1. s.wrote \in Seq(S) /\ document \in S /\ \A d \in S : IsText(d.text)
        BY <1>1, <1>5, <1>6, HeadIsDocument DEF AreDocuments
    <2> HIDE DEF S
    <2>2. wrote \in Seq(S)
        BY <1>6, <2>1
    <2>. QED
        BY <2>1, <2>2, SequenceOfItself DEF AreDocuments
<1>8. /\ Len(wrote) = Len(s.wrote) + 1 /\ Len(s.wrote) \in Nat /\ wrote[Len(wrote)] = document /\ wrote # <<>>
      /\ DOMAIN s.wrote = 1..Len(s.wrote) /\ DOMAIN wrote = 1..Len(wrote)
      /\ \A i \in 1..Len(s.wrote) : wrote[i] = s.wrote[i]
    BY <1>5, <1>6
<1> HIDE DEF wrote
<1>9. t.rules = s.rules /\ t.facts = s.facts /\ t.found = s.found /\ t.relations = s.relations
      /\ t.pending = s.pending /\ t.wrote = wrote /\ t.at = "write"
    BY <1>1 DEF Fields
<1>10. Holds(t)
    BY <1>1, <1>7, <1>9 DEF Holds
<1>11. PICK u : u = t
    OBVIOUS
<1> HIDE DEF t
<1>12. PICK touched : touched = disturbed[p]
    OBVIOUS
<1>13. u.wrote = wrote /\ u.pending = s.pending /\ u.at = "write"
    BY <1>9, <1>11
<1>14. ASSUME NEW i \in 1..Len(s.wrote)
       PROVE Stands(u.wrote[i], u, touched)'
    <2>1. Stands(s.wrote[i], s, touched)
        BY <1>1, <1>8, <1>12 DEF SavedSoFar
    <2>2. u.wrote[i] = s.wrote[i]
        BY <1>8, <1>13
    <2>3. CASE s.wrote[i].path \in touched
        BY <2>2, <2>3 DEF Stands
    <2>4. CASE WroteTwice(s)
        <3>1. WroteTwice(u)
            BY <1>8, <1>13, <2>4 DEF WroteTwice
        <3>. QED
            BY <3>1 DEF Stands
    <2>5. CASE s.wrote[i].path = path
        <3>1. u.wrote[Len(wrote)].path = path /\ u.wrote[i].path = path /\ i \in DOMAIN u.wrote /\ Len(wrote) \in DOMAIN u.wrote
              /\ i # Len(wrote)
            BY <1>0, <1>6, <1>8, <1>13, <2>2, <2>5
        <3>2. WroteTwice(u)
            BY <3>1 DEF WroteTwice
        <3>. QED
            BY <3>2 DEF Stands
    <2>6. CASE s.wrote[i].path # path /\ FileAt(s.wrote[i].path) = s.wrote[i].text
        BY <1>3, <2>2, <2>6 DEF Stands, FileAt
    <2>. QED
        BY <2>1, <2>3, <2>4, <2>5, <2>6 DEF Stands
<1>15. Begun(document, u, touched)'
    <2>1. FileAt(document.path)' = <<>>
        BY <1>0, <1>3, <1>6 DEF FileAt
    <2>2. Len(<<>>) <= Len(document.text) /\ <<>> = SubSeq(document.text, 1, 0) /\ Len(<<>>) = 0
        BY <1>4, <1>6
    <2>. QED
        BY <2>1, <2>2 DEF Begun
<1>16. document.path \in DOMAIN files'
    BY <1>0, <1>3, <1>6
<1>17. SavedSoFar(u, touched)'
    BY <1>6, <1>8, <1>13, <1>14, <1>15, <1>16 DEF SavedSoFar
<1>18. SavedSoFar(u, disturbed[p])'
    BY <1>3, <1>12, <1>17
<1>. QED
    BY <1>2, <1>10, <1>11, <1>18, ShortTexts, ChangeOutputs

(* A file that was a beginning of its document is a longer one.                *)
LEMMA WriteLineOutputs ==
    ASSUME Runs, Writes, NEW p \in Process, WriteLine(p)
    PROVE Writes'
<1>0. PICK document : document = Head(processes[p].pending)
    OBVIOUS
<1>1. PICK s : s = processes[p]
    OBVIOUS
<1>2. PICK touched : touched = disturbed[p]
    OBVIOUS
<1> DEFINE old == FileAt(document.path)
           text == Append(old, document.text[Len(old) + 1])
<1>3. s.at = "write" /\ s.pending # <<>> /\ Holds(s) /\ SavedSoFar(s, touched)
    BY <1>1, <1>2 DEF WriteLine, At, Runs, Run, StateOK, Writes
<1>4. Changed(p, s, text) /\ Len(old) < Len(document.text)
    BY <1>0, <1>1 DEF WriteLine
<1>5. /\ files' = [other \in DOMAIN files \cup {document.path} |-> IF other = document.path THEN text ELSE files[other]]
      /\ disturbed'[p] = touched
    BY <1>0, <1>2, <1>4 DEF Changed
<1>6. /\ s.wrote # <<>> /\ s.wrote[Len(s.wrote)] = document
      /\ \A i \in 1..Len(s.wrote) - 1 : Stands(s.wrote[i], s, touched)
      /\ document.path \in DOMAIN files /\ Begun(document, s, touched)
    BY <1>0, <1>1, <1>3 DEF SavedSoFar
<1>7. IsText(document.text) /\ document.text \in Seq(ToSet(document.text)) /\ \A line \in ToSet(document.text) : IsLine(line)
    BY <1>0, <1>1, <1>3, HeadIsDocument DEF IsText
<1>8. IsText(old) /\ old \in Seq(ToSet(old))
    BY <1>6 DEF Writes, FileAt, IsText
<1>9. IsText(text)
    <2>1. Len(old) + 1 \in DOMAIN document.text
        BY <1>4, <1>7, <1>8
    <2>2. IsLine(document.text[Len(old) + 1])
        BY <1>7, <2>1 DEF ToSet
    <2> HIDE DEF old
    <2>. QED
        BY <1>8, <2>2, AppendText
<1>10. s.wrote \in Seq(ToSet(s.wrote))
    BY <1>3 DEF Holds, AreDocuments
<1>11. Begun(document, s, touched)'
    <2>1. FileAt(document.path)' = text
        BY <1>5 DEF FileAt
    <2>2. CASE document.path \in touched \/ WroteTwice(s)
        BY <2>2 DEF Begun
    <2>3. CASE Len(old) <= Len(document.text) /\ old = SubSeq(document.text, 1, Len(old))
        <3> DEFINE n == Len(old)
                   whole == document.text
        <3>1. n \in Nat /\ n < Len(whole) /\ whole \in Seq(ToSet(whole)) /\ old = SubSeq(whole, 1, n)
            BY <1>4, <1>7, <1>8, <2>3
        <3>2. Len(text) = n + 1
            BY <1>8
        <3> HIDE DEF n
        <3>3. Append(SubSeq(whole, 1, n), whole[n + 1]) = SubSeq(whole, 1, n + 1)
            BY <3>1
        <3>4. text = SubSeq(whole, 1, Len(text)) /\ Len(text) <= Len(whole)
            <4>1. text = Append(SubSeq(whole, 1, n), whole[n + 1])
                BY <3>1 DEF n
            <4>. QED
                BY <1>7, <3>1, <3>2, <3>3, <4>1
        <3> HIDE DEF text
        <3>. QED
            BY <2>1, <3>4 DEF Begun
    <2>. QED
        BY <1>6, <2>2, <2>3 DEF Begun
<1>12. ASSUME NEW i \in 1..Len(s.wrote) - 1
       PROVE Stands(s.wrote[i], s, touched)'
    <2>1. Stands(s.wrote[i], s, touched)
        BY <1>6
    <2>2. CASE s.wrote[i].path = document.path
        <3>1. i \in DOMAIN s.wrote /\ Len(s.wrote) \in DOMAIN s.wrote /\ i # Len(s.wrote)
            BY <1>10
        <3>2. WroteTwice(s)
            BY <1>6, <2>2, <3>1 DEF WroteTwice
        <3>. QED
            BY <3>2 DEF Stands
    <2>3. CASE s.wrote[i].path # document.path
        <3>1. FileAt(s.wrote[i].path)' = FileAt(s.wrote[i].path)
            BY <1>5, <2>3 DEF FileAt
        <3>. QED
            BY <2>1, <3>1 DEF Stands
    <2>. QED
        BY <2>2, <2>3
<1>13. SavedSoFar(s, touched)'
    <2>1. document.path \in DOMAIN files'
        BY <1>5
    <2>2. Head(s.pending) = document
        BY <1>0, <1>1
    <2>. QED
        BY <1>3, <1>6, <1>11, <1>12, <2>1, <2>2 DEF SavedSoFar
<1>14. SavedSoFar(s, disturbed[p])'
    BY <1>5, <1>13
<1> HIDE DEF text
<1>. QED
    BY <1>3, <1>4, <1>9, <1>14, ChangeOutputs

(* A beginning that is as long as its document is the document.                *)
LEMMA CloseOutputs ==
    ASSUME Runs, Writes, NEW p \in Process, Close(p)
    PROVE Writes'
<1> DEFINE s == processes[p]
           document == Head(s.pending)
           t == [s EXCEPT !.at = "open", !.pending = Tail(s.pending)]
           e == Ended(s, 0)
           touched == disturbed[p]
<1>1. UNCHANGED <<files, databases, disturbed>> /\ s.at = "write" /\ Len(FileAt(document.path)) >= Len(document.text)
      /\ s.pending # <<>> /\ DOMAIN s = Fields /\ Holds(s) /\ SavedSoFar(s, touched)
    BY StateFields DEF Close, At, Untouched, Runs, Run, StateOK, Writes
<1>2. Becomes(p, e) \/ Becomes(p, t)
    BY DEF Close
<1>3. /\ s.wrote # <<>> /\ s.wrote[Len(s.wrote)] = document
      /\ \A i \in 1..Len(s.wrote) - 1 : Stands(s.wrote[i], s, touched)
      /\ document.path \in DOMAIN files /\ Begun(document, s, touched)
    BY <1>1 DEF SavedSoFar
<1>4. document.text \in Seq(ToSet(document.text)) /\ AreDocuments(Tail(s.pending))
    BY <1>1, HeadIsDocument
<1>5. s.wrote \in Seq(ToSet(s.wrote))
    BY <1>1 DEF Holds, AreDocuments
<1>6. Stands(document, s, touched)
    <2>1. CASE document.path \in touched \/ WroteTwice(s)
        BY <2>1 DEF Stands
    <2>2. CASE LET text == FileAt(document.path)
               IN  Len(text) <= Len(document.text) /\ text = SubSeq(document.text, 1, Len(text))
        <3> DEFINE text == FileAt(document.path)
        <3>1. text \in Seq(ToSet(text))
            BY <1>3 DEF Writes, FileAt, IsText
        <3>2. Len(text) = Len(document.text)
            BY <1>1, <1>4, <2>2, <3>1
        <3>3. text = SubSeq(document.text, 1, Len(document.text))
            BY <2>2, <3>2
        <3> HIDE DEF text
        <3>4. text = document.text
            BY <1>4, <3>3
        <3>. QED
            BY <3>4 DEF Stands, text
    <2>. QED
        BY <1>3, <2>1, <2>2 DEF Begun
<1> HIDE DEF document
<1>7. \A i \in DOMAIN s.wrote : Stands(s.wrote[i], s, touched)
    <2>1. DOMAIN s.wrote = 1..Len(s.wrote) /\ Len(s.wrote) \in Nat
        BY <1>5
    <2>. QED
        BY <1>3, <1>6, <2>1
<1>8. ASSUME NEW u, u.wrote = s.wrote, u.at = "open" \/ (u.at = "exited" /\ u.exit = 0)
      PROVE SavedSoFar(u, touched)
    <2>1. WroteTwice(u) <=> WroteTwice(s)
        BY <1>8 DEF WroteTwice
    <2>2. \A i \in DOMAIN u.wrote : Stands(u.wrote[i], u, touched)
        BY <1>7, <1>8, <2>1 DEF Stands
    <2>. QED
        BY <1>8, <2>2 DEF SavedSoFar
<1>9. CASE Becomes(p, e)
    <2>1. e.rules = s.rules /\ e.facts = s.facts /\ e.found = s.found /\ e.relations = s.relations
          /\ e.pending = s.pending /\ e.wrote = s.wrote /\ e.at = "exited" /\ e.exit = 0
        BY <1>1, EndedFields
    <2> HIDE DEF e
    <2>2. Holds(e)
        BY <1>1, <2>1, SameHolds
    <2>3. SavedSoFar(e, touched)
        BY <1>8, <2>1
    <2>. QED
        BY <1>1, <1>9, <2>2, <2>3, MovesOutputs
<1>10. CASE Becomes(p, t)
    <2>1. t.rules = s.rules /\ t.facts = s.facts /\ t.found = s.found /\ t.relations = s.relations
          /\ t.pending = Tail(s.pending) /\ t.wrote = s.wrote /\ t.at = "open"
        BY <1>1 DEF Fields
    <2> HIDE DEF t
    <2>2. Holds(t)
        BY <1>1, <1>4, <2>1 DEF Holds
    <2>3. SavedSoFar(t, touched)
        BY <1>8, <2>1
    <2>. QED
        BY <1>1, <1>10, <2>2, <2>3, MovesOutputs
<1>. QED
    BY <1>2, <1>9, <1>10

(* A full disk or a crash leaves the files as they are.                        *)
LEMMA FaultsOutputs ==
    ASSUME Runs, Writes, NEW p \in Process, DiskFull(p) \/ Crash(p)
    PROVE Writes'
<1>1. processes[p].at # "exited" /\ UNCHANGED <<files, databases, disturbed>>
      /\ (Becomes(p, Failing(processes[p])) \/ Becomes(p, Ended(processes[p], 137)))
    BY DEF DiskFull, Crash
<1>. QED
    BY <1>1, EndsOutputs

(* A step of another client of the database, and none at all.                  *)
LEMMA StutterOutputs ==
    ASSUME Runs, Writes, Alter \/ UNCHANGED vars
    PROVE Writes'
<1>1. UNCHANGED <<files, databases, processes, disturbed>>
    BY DEF Alter, vars
<1>2. Process' = Process
    BY <1>1 DEF Process
<1>3. ASSUME NEW s, NEW touched, SavedSoFar(s, touched)
      PROVE SavedSoFar(s, touched)'
    BY <1>1, <1>3 DEF SavedSoFar, Stands, Begun, FileAt
<1>4. \A q \in Process' : Holds(processes[q])' /\ SavedSoFar(processes[q], disturbed[q])'
    BY <1>1, <1>2, <1>3 DEF Writes
<1>. QED
    BY <1>1, <1>4 DEF Writes

-----------------------------------------------------------------------------
(* The rules that are read are those of the document.                        *)

Reading == \A p \in Process : HasRead(processes[p])

(* A step to anywhere else reads nothing.                                      *)
LEMMA GoesElsewhere ==
    ASSUME Reading, NEW p \in Process, NEW t, Becomes(p, t), t.at # "facts"
    PROVE Reading'
<1>1. HasRead(t)
    BY DEF HasRead
<1>2. Process' = Process /\ processes'[p] = t /\ \A q \in Process : q # p => processes'[q] = processes[q]
    BY OneProcess
<1>3. \A q \in Process : HasRead(processes'[q])
    BY <1>1, <1>2 DEF Reading
<1>. QED
    BY <1>2, <1>3 DEF Reading

(* So does the end of a command.                                               *)
LEMMA EndsElsewhere ==
    ASSUME Runs, Reading, NEW p \in Process, NEW code, Becomes(p, Failing(processes[p])) \/ Becomes(p, Ended(processes[p], code))
    PROVE Reading'
<1> DEFINE s == processes[p]
<1>1. DOMAIN s = Fields
    BY StateFields DEF Runs, Run, StateOK
<1>2. Failing(s).at = "exited" /\ Ended(s, code).at = "exited"
    BY <1>1, EndedFields, FailingFields
<1>. QED
    BY <1>2, GoesElsewhere

(* The beginning of a command, and the steps that load nothing.                *)
LEMMA BeginsElsewhere ==
    ASSUME Runs, Reading, NEW p \in Process, Start(p) \/ ReadInput(p) \/ Configure(p) \/ Connect(p)
    PROVE Reading'
<1> DEFINE s == processes[p]
<1>1. DOMAIN s = Fields
    BY StateFields DEF Runs, Run, StateOK
<1>2. CASE Start(p)
    <2>1. PICK command : command = Head(s.todo)
        OBVIOUS
    <2> DEFINE shell == Shell(Tail(s.todo))
               before == [command |-> s.command, exit |-> s.exit, changesBefore |-> s.changesBefore]
               step == IF command.name \in MappingCommands THEN "input" ELSE "configuration"
               t == [shell EXCEPT !.command = command, !.before = before, !.since = version, !.changesBefore = changes, !.at = step]
    <2>2. Becomes(p, t)
        BY <1>2, <2>1 DEF Start
    <2>3. DOMAIN shell = Fields
        BY ShellFields
    <2> HIDE DEF shell, before
    <2>4. t.at = step
        BY <2>3 DEF Fields
    <2>5. step # "facts"
        OBVIOUS
    <2> HIDE DEF t, step
    <2>. QED
        BY <2>2, <2>4, <2>5, GoesElsewhere
<1>3. CASE ReadInput(p)
    <2> DEFINE text == FileAt(s.command.input)
               documents == Documents(s.command, text)
               t == [s EXCEPT !.at = "open", !.text = text, !.pending = documents]
    <2>1. Becomes(p, Failing(s)) \/ Becomes(p, t)
        BY <1>3 DEF ReadInput, Writing
    <2> HIDE DEF text, documents
    <2>2. t.at = "open"
        BY <1>1 DEF Fields
    <2> HIDE DEF t
    <2>. QED
        BY <2>1, <2>2, GoesElsewhere, EndsElsewhere
<1>4. CASE Configure(p)
    <2> DEFINE text == FileAt(s.command.config)
               next == IF s.command.name = "validate" THEN "mapping" ELSE "connect"
               c == [s EXCEPT !.configuration = text[1]]
               t == [s EXCEPT !.at = next, !.configuration = text[1]]
    <2>1. Becomes(p, Failing(s)) \/ Becomes(p, Ended(c, 0)) \/ Becomes(p, t)
        BY <1>4 DEF Configure
    <2> HIDE DEF text
    <2>2. t.at = next /\ DOMAIN c = Fields /\ next # "facts"
        BY <1>1 DEF Fields
    <2> HIDE DEF t, c, next
    <2>3. Ended(c, 0).at = "exited"
        BY <2>2, EndedFields
    <2>. QED
        BY <2>1, <2>2, <2>3, GoesElsewhere, EndsElsewhere
<1>5. CASE Connect(p)
    <2> DEFINE next == IF s.command.name \in Loading
                       THEN IF s.configuration.direct THEN "direct mapping" ELSE "mapping"
                       ELSE "tables"
               t == [s EXCEPT !.at = next]
    <2>1. Becomes(p, Failing(s)) \/ Becomes(p, t)
        BY <1>5 DEF Connect
    <2>2. next # "facts"
        OBVIOUS
    <2> HIDE DEF next
    <2>3. t.at = next
        BY <1>1 DEF Fields
    <2> HIDE DEF t
    <2>. QED
        BY <2>1, <2>2, <2>3, GoesElsewhere, EndsElsewhere
<1>. QED
    BY <1>2, <1>3, <1>4, <1>5

(* A mapping that is loaded is that of the file.                               *)
LEMMA LoadMappingReads ==
    ASSUME Runs, Writes, Reading, NEW p \in Process, LoadMapping(p)
    PROVE Reading'
<1> DEFINE s == processes[p]
           path == s.configuration.mapping
           text == FileAt(path)
           rules == IF IsR2rml(path) THEN R2rmlRules(text) ELSE NativeRules(text)
           t == [s EXCEPT !.at = "facts", !.text = text, !.rules = rules]
<1>1. DOMAIN s = Fields
    BY StateFields DEF Runs, Run, StateOK
<1>2. CASE MappingFails(path)
    BY <1>2, EndsElsewhere DEF LoadMapping
<1>3. CASE ~MappingFails(path)
    <2>1. Becomes(p, t)
        BY <1>3 DEF LoadMapping
    <2>2. text # Missing /\ (IsR2rml(path) => ~R2rmlFails(text))
        BY <1>3 DEF MappingFails
    <2>3. IsText(text)
        BY <2>2 DEF FileAt, Writes
    <2>4. IsR2rml(path) => rules = R2rmlRules(text)
        OBVIOUS
    <2> HIDE DEF text, rules
    <2>5. t.text = text /\ t.rules = rules /\ t.configuration = s.configuration
        BY <1>1 DEF Fields
    <2> HIDE DEF t
    <2>6. HasRead(t)
        BY <2>2, <2>3, <2>4, <2>5 DEF HasRead
    <2>7. Process' = Process /\ processes'[p] = t /\ \A q \in Process : q # p => processes'[q] = processes[q]
        BY <2>1, OneProcess
    <2>8. \A q \in Process : HasRead(processes'[q])
        BY <2>6, <2>7 DEF Reading
    <2>. QED
        BY <2>7, <2>8 DEF Reading
<1>. QED
    BY <1>2, <1>3

(* What comes after the mapping is loaded.                                     *)
LEMMA LoadsElsewhere ==
    ASSUME Runs, Reading, NEW p \in Process, LoadFacts(p) \/ LoadOntology(p) \/ Ask(p) \/ Asked(p)
    PROVE Reading'
<1> DEFINE s == processes[p]
<1>1. DOMAIN s = Fields
    BY StateFields DEF Runs, Run, StateOK
<1>2. CASE LoadFacts(p)
    <2> DEFINE facts == FactsOf(s.configuration)
               t == [s EXCEPT !.at = "ontology", !.facts = facts]
    <2>1. Becomes(p, Failing(s)) \/ Becomes(p, t)
        BY <1>2 DEF LoadFacts
    <2> HIDE DEF facts
    <2>2. t.at = "ontology"
        BY <1>1 DEF Fields
    <2> HIDE DEF t
    <2>. QED
        BY <2>1, <2>2, GoesElsewhere, EndsElsewhere
<1>3. CASE LoadOntology(p)
    <2> DEFINE facts == s.facts \cup OntologyFacts(s.configuration.ontology)
               stated == Stated(s.command, facts)
               t == [s EXCEPT !.at = "default graph", !.facts = facts, !.remaining = s.rules, !.found = stated]
    <2>1. Becomes(p, Failing(s)) \/ Becomes(p, Ended(s, 0)) \/ Becomes(p, t)
        BY <1>3 DEF LoadOntology, Loaded
    <2> HIDE DEF stated, facts
    <2>2. t.at = "default graph"
        BY <1>1 DEF Fields
    <2> HIDE DEF t
    <2>. QED
        BY <2>1, <2>2, GoesElsewhere, EndsElsewhere
<1>4. CASE Ask(p)
    <2>1. PICK rule \in Remaining(s) :
            \/ Becomes(p, Failing(s))
            \/ Becomes(p, [s EXCEPT !.found = s.found \cup TriplesOf(rule, RowsIn(Database, Head(rule.source.tables))),
                                    !.remaining = s.remaining \ {rule}])
        BY <1>4 DEF Ask, Asking
    <2> DEFINE found == s.found \cup TriplesOf(rule, RowsIn(Database, Head(rule.source.tables)))
               t == [s EXCEPT !.found = found, !.remaining = s.remaining \ {rule}]
    <2>2. s.at # "facts"
        BY <1>4 DEF Ask, Asking
    <2> HIDE DEF found
    <2>3. t.at = s.at
        BY <1>1 DEF Fields
    <2>4. Becomes(p, Failing(s)) \/ Becomes(p, t)
        BY <2>1 DEF found
    <2> HIDE DEF t
    <2>. QED
        BY <2>2, <2>3, <2>4, GoesElsewhere, EndsElsewhere
<1>5. CASE Asked(p)
    <2> DEFINE documents == <<[path |-> s.command.output, text |-> Written(s.command, s.found)]>>
               named == [s EXCEPT !.at = "named graphs"]
               t == [s EXCEPT !.at = "open", !.pending = documents]
    <2>1. Becomes(p, Failing(s)) \/ Becomes(p, Ended(s, 0)) \/ Becomes(p, named) \/ Becomes(p, t)
        BY <1>5 DEF Asked
    <2> HIDE DEF documents
    <2>2. named.at = "named graphs" /\ t.at = "open"
        BY <1>1 DEF Fields
    <2> HIDE DEF named, t
    <2>. QED
        BY <2>1, <2>2, GoesElsewhere, EndsElsewhere
<1>. QED
    BY <1>2, <1>3, <1>4, <1>5

(* The steps of bootstrap and extract-db-metadata.                             *)
LEMMA CatalogElsewhere ==
    ASSUME Runs, Reading, NEW p \in Process, Tables(p) \/ Columns(p) \/ Keys(p) \/ Catalog(p)
    PROVE Reading'
<1> DEFINE s == processes[p]
<1>1. DOMAIN s = Fields
    BY StateFields DEF Runs, Run, StateOK
<1>2. CASE Tables(p)
    <2> DEFINE tables == [i \in DOMAIN Database.relations |-> Database.relations[i].name]
               t == [s EXCEPT !.at = "columns", !.tables = tables]
    <2>1. Becomes(p, t)
        BY <1>2 DEF Tables
    <2> HIDE DEF tables
    <2>2. t.at = "columns"
        BY <1>1 DEF Fields
    <2> HIDE DEF t
    <2>. QED
        BY <2>1, <2>2, GoesElsewhere
<1>3. CASE Columns(p)
    <2> DEFINE name == Head(s.tables)
               columns == IF Found(name) = {} THEN <<>> ELSE (CHOOSE relation \in Found(name) : TRUE).columns
               relations == Append(s.relations, Relation(name, columns, <<>>, {}))
               t == [s EXCEPT !.at = "keys", !.relations = relations]
    <2>1. Becomes(p, t)
        BY <1>3 DEF Columns
    <2> HIDE DEF relations
    <2>2. t.at = "keys"
        BY <1>1 DEF Fields
    <2> HIDE DEF t
    <2>. QED
        BY <2>1, <2>2, GoesElsewhere
<1>4. CASE Keys(p)
    <2> DEFINE name == Head(s.tables)
               key == IF Found(name) = {} THEN <<>> ELSE (CHOOSE relation \in Found(name) : TRUE).key
               t == [s EXCEPT !.at = "columns", !.tables = Tail(s.tables), !.relations[Len(s.relations)].key = key]
    <2>1. Becomes(p, t)
        BY <1>4 DEF Keys
    <2> HIDE DEF key
    <2>2. t.at = "columns"
        BY <1>1 DEF Fields
    <2> HIDE DEF t
    <2>. QED
        BY <2>1, <2>2, GoesElsewhere
<1>5. CASE Catalog(p)
    <2>1. PICK documents : Becomes(p, Ended(s, 0)) \/ Becomes(p, [s EXCEPT !.at = "open", !.pending = documents])
        BY <1>5 DEF Catalog
    <2> DEFINE t == [s EXCEPT !.at = "open", !.pending = documents]
    <2>2. t.at = "open"
        BY <1>1 DEF Fields
    <2>3. Becomes(p, Ended(s, 0)) \/ Becomes(p, t)
        BY <2>1
    <2> HIDE DEF t
    <2>. QED
        BY <2>2, <2>3, GoesElsewhere, EndsElsewhere
<1>. QED
    BY <1>2, <1>3, <1>4, <1>5

(* The steps that write, and the faults.                                       *)
LEMMA WritesElsewhere ==
    ASSUME Runs, Reading, NEW p \in Process, Open(p) \/ WriteLine(p) \/ Close(p) \/ DiskFull(p) \/ Crash(p)
    PROVE Reading'
<1> DEFINE s == processes[p]
<1>1. DOMAIN s = Fields
    BY StateFields DEF Runs, Run, StateOK
<1>2. CASE Open(p)
    <2> DEFINE wrote == Append(s.wrote, Head(s.pending))
               t == [s EXCEPT !.at = "write", !.wrote = wrote]
    <2>1. Becomes(p, t)
        BY <1>2 DEF Open, Opening, Changed
    <2> HIDE DEF wrote
    <2>2. t.at = "write"
        BY <1>1 DEF Fields
    <2> HIDE DEF t
    <2>. QED
        BY <2>1, <2>2, GoesElsewhere
<1>3. CASE WriteLine(p)
    BY <1>3, GoesElsewhere DEF WriteLine, Changed, At
<1>4. CASE Close(p)
    <2> DEFINE t == [s EXCEPT !.at = "open", !.pending = Tail(s.pending)]
    <2>1. Becomes(p, Ended(s, 0)) \/ Becomes(p, t)
        BY <1>4 DEF Close
    <2>2. t.at = "open"
        BY <1>1 DEF Fields
    <2> HIDE DEF t
    <2>. QED
        BY <2>1, <2>2, GoesElsewhere, EndsElsewhere
<1>5. CASE DiskFull(p) \/ Crash(p)
    <2>1. Becomes(p, Failing(s)) \/ Becomes(p, Ended(s, 137))
        BY <1>5 DEF DiskFull, Crash
    <2>. QED
        BY <2>1, EndsElsewhere
<1>. QED
    BY <1>2, <1>3, <1>4, <1>5

(* No process has read a mapping when it begins, and a step of another client  *)
(* leaves the processes alone.                                                 *)
LEMMA ReadsNothing ==
    /\ Init => Reading
    /\ Reading /\ (Alter \/ UNCHANGED vars) => Reading'
<1>1. ASSUME Init PROVE Reading
    <2>1. PICK world \in Worlds : processes = [p \in DOMAIN world.todo |-> Shell(world.todo[p])]
        BY <1>1 DEF Init
    <2>2. \A p \in Process : processes[p].at = "shell"
        BY <2>1, ShellFields DEF Process
    <2>. QED
        BY <2>2 DEF Reading, HasRead
<1>2. ASSUME Reading, Alter \/ UNCHANGED vars PROVE Reading'
    <2>1. processes' = processes /\ Process' = Process
        BY <1>2 DEF Alter, vars, Process
    <2>. QED
        BY <1>2, <2>1 DEF Reading
<1>. QED
    BY <1>1, <1>2

-----------------------------------------------------------------------------
(* What is converted and described is made of what was read.                 *)

Drafting == \A p \in Process : HasConverted(processes[p]) /\ HasDescribed(processes[p], Versions(p))

(* A step of a process is a matter of what it makes of its state.              *)
LEMMA DraftsStep ==
    ASSUME Drafting, NEW p \in Process, NEW t, Becomes(p, t), UNCHANGED <<databases, version>>,
           HasConverted(t), HasDescribed(t, Moments(t, databases, version))
    PROVE Drafting'
<1>1. Process' = Process /\ processes'[p] = t /\ \A q \in Process : q # p => processes'[q] = processes[q]
    BY OneProcess
<1>2. ASSUME NEW q \in Process
      PROVE HasConverted(processes'[q]) /\ HasDescribed(processes'[q], Moments(processes'[q], databases, version))
    <2>1. CASE q = p
        BY <1>1, <2>1
    <2>2. CASE q # p
        <3>1. processes'[q] = processes[q]
            BY <1>1, <2>2
        <3>2. HasConverted(processes[q]) /\ HasDescribed(processes[q], Moments(processes[q], databases, version))
            BY DEF Drafting, Versions
        <3>. QED
            BY <3>1, <3>2
    <2>. QED
        BY <2>1, <2>2
<1>3. \A q : Versions(q)' = Moments(processes'[q], databases, version)
    BY DEF Versions
<1>. QED
    BY <1>1, <1>2, <1>3 DEF Drafting

(* What a process has read and written so far.                                 *)
LEMMA DraftsSoFar ==
    ASSUME Runs, Writes, Drafting, NEW p \in Process
    PROVE LET s == processes[p]
          IN  /\ DOMAIN s = Fields /\ StepOfCommand(s) /\ MomentsPast(s, version, changes)
              /\ Holds(s) /\ SavedSoFar(s, disturbed[p])
              /\ HasConverted(s) /\ HasDescribed(s, Moments(s, databases, version))
    BY StateFields DEF Runs, Run, Writes, Drafting, Versions

(* A step does not change the moments of its command.                          *)
LEMMA SameMoments ==
    ASSUME NEW s, s.at # "exited", NEW t, t.since = s.since, t.at = "exited" => t.until = version
    PROVE Moments(t, databases, version) = Moments(s, databases, version)
    BY DEF Moments

(* A command goes on before it has anything to write.                          *)
LEMMA DraftsNothing ==
    ASSUME Runs, Writes, Drafting, NEW p \in Process, NEW t, Becomes(p, t), UNCHANGED <<databases, version>>,
           t.command = processes[p].command, t.relations = processes[p].relations,
           processes[p].at \notin {"shell", "input", "open", "write", "exited"},
           t.at \notin {"columns", "keys", "open", "write", "exited"},
           t.at \in {"configuration", "connect", "tables"} => processes[p].at \in {"configuration", "connect", "tables"}
    PROVE Drafting'
<1> DEFINE s == processes[p]
<1>1. HasConverted(s) /\ HasDescribed(s, Moments(s, databases, version))
    BY DraftsSoFar
<1>2. HasConverted(t)
    BY <1>1 DEF HasConverted
<1>3. HasDescribed(t, Moments(t, databases, version))
    BY <1>1 DEF HasDescribed
<1>. QED
    BY <1>2, <1>3, DraftsStep

(* A command that ends has described nothing, unless it is a bootstrap that    *)
(* ends with 0.                                                                *)
LEMMA DraftsEnd ==
    ASSUME Runs, Writes, Drafting, NEW p \in Process, NEW t, Becomes(p, t), UNCHANGED <<databases, version>>,
           t.command = processes[p].command, t.relations = processes[p].relations,
           t.at = "exited", t.exit # 0 \/ t.command.name # "bootstrap"
    PROVE Drafting'
<1> DEFINE s == processes[p]
<1>1. HasDescribed(s, Moments(s, databases, version))
    BY DraftsSoFar
<1>2. HasConverted(t)
    BY DEF HasConverted
<1>3. HasDescribed(t, Moments(t, databases, version))
    BY <1>1 DEF HasDescribed
<1>. QED
    BY <1>2, <1>3, DraftsStep

(* One that fails or is killed.                                                *)
LEMMA DraftsFail ==
    ASSUME Runs, Writes, Drafting, NEW p \in Process, UNCHANGED <<databases, version>>,
           Becomes(p, Failing(processes[p])) \/ Becomes(p, Ended(processes[p], 137))
    PROVE Drafting'
<1> DEFINE s == processes[p]
<1>1. DOMAIN s = Fields
    BY DraftsSoFar
<1>2. CASE Becomes(p, Failing(s))
    <2>1. PICK t : t = Failing(s)
        OBVIOUS
    <2>2. t.command = s.command /\ t.relations = s.relations /\ t.at = "exited" /\ t.exit = 2
        BY <1>1, <2>1, FailingFields
    <2>. QED
        BY <1>2, <2>1, <2>2, DraftsEnd
<1>3. CASE Becomes(p, Ended(s, 137))
    <2>1. PICK t : t = Ended(s, 137)
        OBVIOUS
    <2>2. t.command = s.command /\ t.relations = s.relations /\ t.at = "exited" /\ t.exit = 137
        BY <1>1, <2>1, EndedFields
    <2>. QED
        BY <1>3, <2>1, <2>2, DraftsEnd
<1>. QED
    BY <1>2, <1>3

(* A command without a catalog that ends with 0.                               *)
LEMMA DraftsDone ==
    ASSUME Runs, Writes, Drafting, NEW p \in Process, UNCHANGED <<databases, version>>,
           Becomes(p, Ended(processes[p], 0)), processes[p].command.name # "bootstrap"
    PROVE Drafting'
<1> DEFINE s == processes[p]
<1>1. DOMAIN s = Fields
    BY DraftsSoFar
<1>2. PICK t : t = Ended(s, 0)
    OBVIOUS
<1>3. t.command = s.command /\ t.relations = s.relations /\ t.at = "exited"
    BY <1>1, <1>2, EndedFields
<1>. QED
    BY <1>2, <1>3, DraftsEnd

(* The beginning of a command.                                                 *)
LEMMA DraftsBegin ==
    ASSUME Runs, Writes, Drafting, NEW p \in Process, Start(p)
    PROVE Drafting'
<1> DEFINE s == processes[p]
<1>1. PICK command : command = Head(s.todo)
    OBVIOUS
<1> DEFINE shell == Shell(Tail(s.todo))
           before == [command |-> s.command, exit |-> s.exit, changesBefore |-> s.changesBefore]
           step == IF command.name \in MappingCommands THEN "input" ELSE "configuration"
           t == [shell EXCEPT !.command = command, !.before = before, !.since = version, !.changesBefore = changes, !.at = step]
<1>2. Becomes(p, t) /\ UNCHANGED <<databases, version>>
    BY <1>1 DEF Start
<1>3. DOMAIN shell = Fields /\ shell.relations = <<>>
    BY ShellFields
<1> HIDE DEF shell, before
<1>4. t.at = step /\ t.command = command /\ t.relations = <<>>
    BY <1>3 DEF Fields
<1> HIDE DEF t
<1>5. HasConverted(t)
    BY <1>4 DEF HasConverted
<1>6. HasDescribed(t, Moments(t, databases, version))
    <2>1. ToSet(<<>>) = {}
        BY DEF ToSet
    <2>. QED
        BY <1>4, <2>1 DEF HasDescribed
<1>. QED
    BY <1>2, <1>5, <1>6, DraftsStep

(* A mapping command has converted the text it has read.                       *)
LEMMA ReadInputDrafts ==
    ASSUME Runs, Writes, Drafting, NEW p \in Process, ReadInput(p)
    PROVE Drafting'
<1> DEFINE s == processes[p]
           text == FileAt(s.command.input)
           documents == Documents(s.command, text)
           t == [s EXCEPT !.at = "open", !.text = text, !.pending = documents]
<1>1. DOMAIN s = Fields /\ StepOfCommand(s) /\ HasDescribed(s, Moments(s, databases, version))
    BY DraftsSoFar
<1>2. UNCHANGED <<databases, version>> /\ s.at = "input"
    BY DEF ReadInput, At, Untouched
<1>3. CASE Becomes(p, Failing(s))
    BY <1>2, <1>3, DraftsFail
<1>4. CASE text # Missing /\ Becomes(p, t)
    <2>1. IsText(text)
        BY <1>4 DEF FileAt, Writes
    <2>2. s.command.name \in MappingCommands
        BY <1>1, <1>2 DEF StepOfCommand
    <2> HIDE DEF text
    <2>3. PICK made : made = documents
        OBVIOUS
    <2> HIDE DEF documents
    <2>4. t.at = "open" /\ t.command = s.command /\ t.text = text /\ t.pending = made
        BY <1>1, <2>3 DEF Fields
    <2> HIDE DEF t
    <2>5. HasConverted(t)
        BY <2>1, <2>2, <2>3, <2>4 DEF HasConverted, documents
    <2>6. HasDescribed(t, Moments(t, databases, version))
        BY <2>2, <2>4 DEF HasDescribed, MappingCommands
    <2>. QED
        BY <1>2, <1>4, <2>5, <2>6, DraftsStep
<1>. QED
    BY <1>3, <1>4 DEF ReadInput, Writing

(* What is loaded, and the rules that are asked, are no documents.             *)
LEMMA LoadsDrafts ==
    ASSUME Runs, Writes, Drafting, NEW p \in Process,
           Configure(p) \/ Connect(p) \/ LoadMapping(p) \/ LoadFacts(p) \/ LoadOntology(p)
    PROVE Drafting'
<1> DEFINE s == processes[p]
<1>1. DOMAIN s = Fields /\ StepOfCommand(s)
    BY DraftsSoFar
<1>2. UNCHANGED <<databases, version>>
    BY DEF Configure, Connect, LoadMapping, LoadFacts, LoadOntology, Untouched
<1>3. CASE Configure(p)
    <2> DEFINE text == FileAt(s.command.config)
               next == IF s.command.name = "validate" THEN "mapping" ELSE "connect"
               c == [s EXCEPT !.configuration = text[1]]
               t == [s EXCEPT !.at = next, !.configuration = text[1]]
    <2>1. \/ Becomes(p, Failing(s)) \/ Becomes(p, t)
          \/ s.command.name = "validate" /\ Becomes(p, Ended(c, 0))
        BY <1>3 DEF Configure
    <2>2. s.at = "configuration" /\ next \in {"mapping", "connect"}
        BY <1>3 DEF Configure, At
    <2> HIDE DEF text
    <2>3. t.at = next /\ t.command = s.command /\ t.relations = s.relations
          /\ DOMAIN c = Fields /\ c.command = s.command /\ c.relations = s.relations
        BY <1>1 DEF Fields
    <2> HIDE DEF t, c, next
    <2>4. CASE Becomes(p, t)
        BY <1>2, <2>2, <2>3, <2>4, DraftsNothing
    <2>5. CASE s.command.name = "validate" /\ Becomes(p, Ended(c, 0))
        <3>1. PICK e : e = Ended(c, 0)
            OBVIOUS
        <3>2. e.at = "exited" /\ e.command = s.command /\ e.relations = s.relations
            BY <2>3, <3>1, EndedFields
        <3>. QED
            BY <1>2, <2>5, <3>1, <3>2, DraftsEnd
    <2>. QED
        BY <1>2, <2>1, <2>4, <2>5, DraftsFail
<1>4. CASE Connect(p)
    <2> DEFINE next == IF s.command.name \in Loading
                       THEN IF s.configuration.direct THEN "direct mapping" ELSE "mapping"
                       ELSE "tables"
               t == [s EXCEPT !.at = next]
    <2>1. Becomes(p, Failing(s)) \/ Becomes(p, t)
        BY <1>4 DEF Connect
    <2>2. s.at = "connect" /\ next \in {"direct mapping", "mapping", "tables"}
        BY <1>4 DEF Connect, At
    <2> HIDE DEF next
    <2>3. t.at = next /\ t.command = s.command /\ t.relations = s.relations
        BY <1>1 DEF Fields
    <2> HIDE DEF t
    <2>. QED
        BY <1>2, <2>1, <2>2, <2>3, DraftsNothing, DraftsFail
<1>5. CASE LoadMapping(p)
    <2> DEFINE path == s.configuration.mapping
               text == FileAt(path)
               rules == IF IsR2rml(path) THEN R2rmlRules(text) ELSE NativeRules(text)
               t == [s EXCEPT !.at = "facts", !.text = text, !.rules = rules]
    <2>1. Becomes(p, Failing(s)) \/ Becomes(p, t)
        BY <1>5 DEF LoadMapping
    <2>2. s.at = "mapping"
        BY <1>5 DEF LoadMapping, At
    <2> HIDE DEF text, rules
    <2>3. t.at = "facts" /\ t.command = s.command /\ t.relations = s.relations
        BY <1>1 DEF Fields
    <2> HIDE DEF t
    <2>. QED
        BY <1>2, <2>1, <2>2, <2>3, DraftsNothing, DraftsFail
<1>6. CASE LoadFacts(p)
    <2> DEFINE facts == FactsOf(s.configuration)
               t == [s EXCEPT !.at = "ontology", !.facts = facts]
    <2>1. Becomes(p, Failing(s)) \/ Becomes(p, t)
        BY <1>6 DEF LoadFacts
    <2>2. s.at = "facts"
        BY <1>6 DEF LoadFacts, At
    <2> HIDE DEF facts
    <2>3. t.at = "ontology" /\ t.command = s.command /\ t.relations = s.relations
        BY <1>1 DEF Fields
    <2> HIDE DEF t
    <2>. QED
        BY <1>2, <2>1, <2>2, <2>3, DraftsNothing, DraftsFail
<1>7. CASE LoadOntology(p)
    <2> DEFINE facts == s.facts \cup OntologyFacts(s.configuration.ontology)
               stated == Stated(s.command, facts)
               t == [s EXCEPT !.at = "default graph", !.facts = facts, !.remaining = s.rules, !.found = stated]
    <2>1. \/ Becomes(p, Failing(s)) \/ Becomes(p, t)
          \/ s.command.name = "validate" /\ Becomes(p, Ended(s, 0))
        BY <1>7 DEF LoadOntology, Loaded
    <2>2. s.at = "ontology"
        BY <1>7 DEF LoadOntology, At
    <2> HIDE DEF stated, facts
    <2>3. t.at = "default graph" /\ t.command = s.command /\ t.relations = s.relations
        BY <1>1 DEF Fields
    <2> HIDE DEF t
    <2>4. CASE Becomes(p, t)
        BY <1>2, <2>2, <2>3, <2>4, DraftsNothing
    <2>. QED
        BY <1>2, <2>1, <2>4, DraftsFail, DraftsDone
<1>. QED
    BY <1>3, <1>4, <1>5, <1>6, <1>7

(* A command without a mapping and without a catalog goes on to write.         *)
LEMMA DraftsElse ==
    ASSUME Runs, Writes, Drafting, NEW p \in Process, UNCHANGED <<databases, version>>, NEW documents,
           Becomes(p, [processes[p] EXCEPT !.at = "open", !.pending = documents]),
           processes[p].at \notin {"shell", "input", "open", "write", "exited"}, processes[p].command.name # "bootstrap"
    PROVE Drafting'
<1> DEFINE s == processes[p]
           t == [s EXCEPT !.at = "open", !.pending = documents]
<1>1. DOMAIN s = Fields /\ HasConverted(s)
    BY DraftsSoFar
<1>2. t.at = "open" /\ t.command = s.command
    BY <1>1 DEF Fields
<1>3. Becomes(p, t)
    OBVIOUS
<1> HIDE DEF t
<1>4. HasConverted(t)
    BY <1>1, <1>2 DEF HasConverted
<1>5. HasDescribed(t, Moments(t, databases, version))
    BY <1>2 DEF HasDescribed
<1>. QED
    BY <1>3, <1>4, <1>5, DraftsStep

(* The rules that are asked make no mapping.                                   *)
LEMMA AsksDrafts ==
    ASSUME Runs, Writes, Drafting, NEW p \in Process, Ask(p) \/ Asked(p)
    PROVE Drafting'
<1> DEFINE s == processes[p]
<1>1. DOMAIN s = Fields /\ StepOfCommand(s)
    BY DraftsSoFar
<1>2. UNCHANGED <<databases, version>> /\ s.at \in {"default graph", "named graphs"}
    BY DEF Ask, Asking, Asked, Untouched
<1>3. s.command.name # "bootstrap"
    BY <1>1, <1>2 DEF StepOfCommand
<1>4. CASE Ask(p)
    <2>1. PICK rule \in Remaining(s) :
            \/ Becomes(p, Failing(s))
            \/ Becomes(p, [s EXCEPT !.found = s.found \cup TriplesOf(rule, RowsIn(Database, Head(rule.source.tables))),
                                    !.remaining = s.remaining \ {rule}])
        BY <1>4 DEF Ask, Asking
    <2> DEFINE found == s.found \cup TriplesOf(rule, RowsIn(Database, Head(rule.source.tables)))
               t == [s EXCEPT !.found = found, !.remaining = s.remaining \ {rule}]
    <2> HIDE DEF found
    <2>2. t.at = s.at /\ t.command = s.command /\ t.relations = s.relations
        BY <1>1 DEF Fields
    <2>3. Becomes(p, Failing(s)) \/ Becomes(p, t)
        BY <2>1 DEF found
    <2> HIDE DEF t
    <2>. QED
        BY <1>2, <2>2, <2>3, DraftsNothing, DraftsFail
<1>5. CASE Asked(p)
    <2> DEFINE documents == <<[path |-> s.command.output, text |-> Written(s.command, s.found)]>>
               named == [s EXCEPT !.at = "named graphs"]
    <2>1. \/ Becomes(p, Failing(s)) \/ Becomes(p, Ended(s, 0)) \/ Becomes(p, named)
          \/ Becomes(p, [s EXCEPT !.at = "open", !.pending = documents])
        BY <1>5 DEF Asked
    <2>2. named.at = "named graphs" /\ named.command = s.command /\ named.relations = s.relations
        BY <1>1 DEF Fields
    <2> HIDE DEF named, documents
    <2>3. CASE Becomes(p, named)
        BY <1>2, <2>2, <2>3, DraftsNothing
    <2>4. CASE Becomes(p, [s EXCEPT !.at = "open", !.pending = documents])
        BY <1>2, <1>3, <2>4, DraftsElse
    <2>. QED
        BY <1>2, <1>3, <2>1, <2>3, <2>4, DraftsFail, DraftsDone
<1>. QED
    BY <1>4, <1>5

(* A catalog has the entries of its database, without their rows.              *)
LEMMA CatalogEntries ==
    ASSUME NEW database, DatabaseOK(database)
    PROVE LET relations == database.relations
              catalog == CatalogOf(database)
          IN  /\ relations \in Seq(ToSet(relations)) /\ DOMAIN relations = 1..Len(relations)
              /\ catalog \in Seq(ToSet(catalog)) /\ Len(catalog) = Len(relations)
              /\ \A i \in 1..Len(relations) :
                    LET r == relations[i] IN catalog[i] = Relation(r.name, r.columns, r.key, {})
<1> DEFINE relations == database.relations
           n == Len(relations)
           catalog == CatalogOf(database)
<1>1. relations \in Seq(ToSet(relations)) /\ \A r \in ToSet(relations) : r = Relation(r.name, r.columns, r.key, r.rows)
    BY DEF DatabaseOK
<1>2. n \in Nat /\ DOMAIN relations = 1..n
    BY <1>1
<1>3. catalog = [i \in 1..n |-> [relations[i] EXCEPT !.rows = {}]]
    BY <1>2 DEF CatalogOf
<1>4. catalog \in Seq(ToSet(catalog)) /\ Len(catalog) = n
    <2>1. DOMAIN catalog = 1..n /\ catalog = [i \in 1..n |-> catalog[i]]
        BY <1>3
    <2> HIDE DEF catalog, n
    <2>. QED
        BY <1>2, <2>1, AsSequence
<1>5. ASSUME NEW i \in 1..n
      PROVE LET r == relations[i] IN catalog[i] = Relation(r.name, r.columns, r.key, {})
    <2>1. relations[i] \in ToSet(relations)
        BY <1>2 DEF ToSet
    <2>2. PICK r : r = relations[i]
        OBVIOUS
    <2>3. r = Relation(r.name, r.columns, r.key, r.rows)
        BY <1>1, <2>1, <2>2
    <2>4. catalog[i] = [r EXCEPT !.rows = {}]
        BY <1>3, <2>2
    <2> HIDE DEF catalog, relations, n
    <2>5. [r EXCEPT !.rows = {}] = Relation(r.name, r.columns, r.key, {})
        BY <2>3 DEF Relation
    <2>. QED
        BY <2>2, <2>4, <2>5
<1>. QED
    BY <1>1, <1>2, <1>4, <1>5

(* Another key for a relation.                                                 *)
LEMMA KeyOfRelation ==
    ASSUME NEW a, NEW b, NEW c, NEW d, NEW e
    PROVE [Relation(a, b, c, d) EXCEPT !.key = e] = Relation(a, b, e, d)
    BY DEF Relation

(* A statement about a table finds the one relation of its name.               *)
LEMMA FoundByName ==
    ASSUME DatabaseOK(Database), NEW i \in DOMAIN Database.relations
    PROVE LET r == Database.relations[i]
          IN  Found(r.name) # {} /\ (CHOOSE relation \in Found(r.name) : TRUE) = r
<1>1. PICK r : r = Database.relations[i]
    OBVIOUS
<1>2. r \in Found(r.name)
    BY <1>1 DEF Found, ToSet
<1>3. ASSUME NEW other \in Found(r.name) PROVE other = r
    <2>1. PICK j \in DOMAIN Database.relations : Database.relations[j] = other
        BY DEF Found, ToSet
    <2>2. other.name = r.name
        BY DEF Found
    <2>. QED
        BY <1>1, <2>1, <2>2 DEF DatabaseOK
<1>4. (CHOOSE relation \in Found(r.name) : TRUE) \in Found(r.name)
    BY <1>2
<1>. QED
    BY <1>1, <1>2, <1>3, <1>4

(* A database that was there all the while is there now.                       *)
LEMMA StillThere ==
    ASSUME Runs, Writes, NEW p \in Process, processes[p].at # "exited",
           NEW database, Moments(processes[p], databases, version) = {database}
    PROVE Database = database /\ DatabaseOK(Database)
<1>1. MomentsPast(processes[p], version, changes) /\ version \in 1..Len(databases) /\ databases \in Seq(ToSet(databases))
    BY DEF Runs, Run, TypeOK
<1>2. version \in processes[p].since..version
    BY <1>1 DEF MomentsPast
<1>3. databases[version] \in Moments(processes[p], databases, version)
    BY <1>2 DEF Moments
<1>4. version \in DOMAIN databases
    BY <1>1
<1>. QED
    BY <1>3, <1>4 DEF Database, Writes

(* A step of reading the catalog.                                              *)
LEMMA DraftsOn ==
    ASSUME Runs, Writes, Drafting, NEW p \in Process, NEW t, Becomes(p, t), UNCHANGED <<databases, version>>,
           processes[p].at \in {"tables", "columns", "keys"}, t.at \in {"columns", "keys"},
           t.command = processes[p].command, t.since = processes[p].since,
           t.command.name = "bootstrap" => HasDescribed(t, Moments(processes[p], databases, version))
    PROVE Drafting'
<1>1. HasConverted(processes[p])
    BY DraftsSoFar
<1>2. HasConverted(t)
    BY <1>1 DEF HasConverted
<1>3. Moments(t, databases, version) = Moments(processes[p], databases, version)
    BY SameMoments
<1>4. HasDescribed(t, Moments(t, databases, version))
    <2>1. CASE t.command.name = "bootstrap"
        BY <1>3, <2>1
    <2>2. CASE t.command.name # "bootstrap"
        BY <2>2 DEF HasDescribed
    <2>. QED
        BY <2>1, <2>2
<1>. QED
    BY <1>2, <1>4, DraftsStep

(* The names of the tables are those of the database.                          *)
LEMMA TablesDrafts ==
    ASSUME Runs, Writes, Drafting, NEW p \in Process, Tables(p)
    PROVE Drafting'
<1> DEFINE s == processes[p]
           moments == Moments(s, databases, version)
           names == [i \in DOMAIN Database.relations |-> Database.relations[i].name]
           t == [s EXCEPT !.at = "columns", !.tables = names]
<1>1. DOMAIN s = Fields /\ HasDescribed(s, moments)
    BY DraftsSoFar
<1>2. UNCHANGED <<databases, version>> /\ s.at = "tables" /\ Becomes(p, t)
    BY DEF Tables, At, Untouched
<1>3. DatabaseOK(Database)
    BY DEF Database, Runs, TypeOK, Writes
<1>4. PICK n \in Nat : DOMAIN Database.relations = 1..n /\ n = Len(Database.relations)
    BY <1>3 DEF DatabaseOK
<1>5. names \in Seq(ToSet(names)) /\ Len(names) = n /\ \A i \in 1..n : names[i] = Database.relations[i].name
    <2>1. DOMAIN names = 1..n /\ names = [i \in 1..n |-> names[i]] /\ \A i \in 1..n : names[i] = Database.relations[i].name
        BY <1>4
    <2> HIDE DEF names
    <2>. QED
        BY <2>1, AsSequence
<1> HIDE DEF names
<1>6. t.at = "columns" /\ t.tables = names /\ t.command = s.command /\ t.relations = s.relations /\ t.since = s.since
    BY <1>1 DEF Fields
<1> HIDE DEF t
<1>7. ASSUME t.command.name = "bootstrap" PROVE HasDescribed(t, moments)
    <2>1. t.relations = <<>>
        BY <1>1, <1>2, <1>6, <1>7 DEF HasDescribed
    <2>2. ASSUME NEW database \in moments, moments = {database} PROVE CatalogSoFar(t, CatalogOf(database))
        <3>1. Database = database
            BY <1>2, <2>2, StillThere
        <3>2. Len(CatalogOf(database)) = n /\ \A i \in 1..n : CatalogOf(database)[i].name = Database.relations[i].name
            <4>1. Len(CatalogOf(database)) = n
                BY <1>3, <1>4, <3>1, CatalogEntries
            <4>2. ASSUME NEW i \in 1..n PROVE CatalogOf(database)[i].name = Database.relations[i].name
                <5>1. PICK r : r = Database.relations[i]
                    OBVIOUS
                <5>2. CatalogOf(database)[i] = Relation(r.name, r.columns, r.key, {})
                    BY <1>3, <1>4, <3>1, <5>1, CatalogEntries
                <5>3. Relation(r.name, r.columns, r.key, {}).name = r.name
                    BY DEF Relation
                <5>. QED
                    BY <5>1, <5>2, <5>3
            <4>. QED
                BY <4>1, <4>2
        <3> HIDE DEF moments
        <3>3. PICK catalog : catalog = CatalogOf(database)
            OBVIOUS
        <3>4. Len(t.relations) - (IF t.at = "keys" THEN 1 ELSE 0) = 0
            BY <1>6, <2>1
        <3>5. \A i \in 1..Len(t.tables) : t.tables[i] = catalog[0 + i].name
            BY <1>5, <1>6, <3>2, <3>3
        <3>. QED
            BY <1>5, <1>6, <3>2, <3>3, <3>4, <3>5 DEF CatalogSoFar
    <2>3. ToSet(<<>>) = {}
        BY DEF ToSet
    <2>. QED
        BY <1>5, <1>6, <2>1, <2>2, <2>3 DEF HasDescribed
<1>. QED
    BY <1>2, <1>6, <1>7, DraftsOn

(* What a table's statement answers about its columns.                         *)
LEMMA ColumnsDrafts ==
    ASSUME Runs, Writes, Drafting, NEW p \in Process, Columns(p)
    PROVE Drafting'
<1> DEFINE s == processes[p]
           moments == Moments(s, databases, version)
           name == Head(s.tables)
           columns == IF Found(name) = {} THEN <<>> ELSE (CHOOSE relation \in Found(name) : TRUE).columns
           entry == Relation(name, columns, <<>>, {})
           relations == Append(s.relations, entry)
           t == [s EXCEPT !.at = "keys", !.relations = relations]
<1>1. DOMAIN s = Fields /\ Holds(s) /\ HasDescribed(s, moments)
    BY DraftsSoFar
<1>2. UNCHANGED <<databases, version>> /\ s.at = "columns" /\ s.tables # <<>> /\ Becomes(p, t)
    BY DEF Columns, At, Untouched
<1>3. DatabaseOK(Database)
    BY DEF Database, Runs, TypeOK, Writes
<1>4. PICK named : named = columns
    OBVIOUS
<1>5. \A column \in ToSet(named) : IsIdentifier(column)
    <2>1. CASE Found(name) = {}
        <3>1. named = <<>>
            BY <1>4, <2>1
        <3>. QED
            BY <3>1 DEF ToSet
    <2>2. CASE Found(name) # {}
        <3>1. PICK one : one \in Found(name) /\ named = one.columns
            BY <1>4, <2>2
        <3>2. one \in ToSet(Database.relations)
            BY <3>1 DEF Found
        <3>. QED
            BY <1>3, <3>1, <3>2 DEF DatabaseOK
    <2>. QED
        BY <2>1, <2>2
<1>6. entry = Relation(name, named, <<>>, {})
    BY <1>4
<1>7. IsEntry(entry)
    <2>1. Relation(name, named, <<>>, {}).columns = named
          /\ Relation(name, named, <<>>, {})
               = Relation(Relation(name, named, <<>>, {}).name, Relation(name, named, <<>>, {}).columns, Relation(name, named, <<>>, {}).key, {})
        BY DEF Relation
    <2>. QED
        BY <1>5, <1>6, <2>1 DEF IsEntry
<1> HIDE DEF columns, entry
<1>8. s.relations \in Seq(ToSet(s.relations))
    BY <1>1 DEF Holds, IsCatalog
<1>9. Len(relations) = Len(s.relations) + 1 /\ relations[Len(s.relations) + 1] = entry
      /\ \A i \in 1..Len(s.relations) : relations[i] = s.relations[i]
    BY <1>8
<1>10. \A relation \in ToSet(relations) : relation \in ToSet(s.relations) \/ relation = entry
    BY <1>8 DEF ToSet
<1>11. relations # <<>>
    <2>1. Len(relations) # 0
        BY <1>8, <1>9
    <2>2. Len(<<>>) = 0
        OBVIOUS
    <2> HIDE DEF relations
    <2>. QED
        BY <2>1, <2>2
<1> HIDE DEF relations
<1>12. t.at = "keys" /\ t.tables = s.tables /\ t.command = s.command /\ t.relations = relations /\ t.since = s.since
    BY <1>1 DEF Fields
<1> HIDE DEF t
<1>13. ASSUME t.command.name = "bootstrap" PROVE HasDescribed(t, moments)
    <2>1. \A relation \in ToSet(t.relations) : IsEntry(relation)
        BY <1>1, <1>7, <1>10, <1>12, <1>13 DEF HasDescribed
    <2>2. s.tables \in Seq(ToSet(s.tables))
        BY <1>1, <1>2, <1>12, <1>13 DEF HasDescribed
    <2>3. ASSUME NEW database \in moments, moments = {database} PROVE CatalogSoFar(t, CatalogOf(database))
        <3>1. Database = database
            BY <1>2, <2>3, StillThere
        <3>2. PICK catalog : catalog = CatalogOf(database)
            OBVIOUS
        <3>3. CatalogSoFar(s, catalog)
            BY <1>1, <1>2, <1>12, <1>13, <2>3, <3>2 DEF HasDescribed
        <3> HIDE DEF moments
        <3>4. PICK n \in Nat : n = Len(s.relations)
            BY <1>8
        <3>5. Len(s.relations) - (IF s.at = "keys" THEN 1 ELSE 0) = n
            BY <1>2, <3>4
        <3>6. /\ \A i \in 1..n : s.relations[i] = catalog[i]
              /\ n + Len(s.tables) = Len(catalog)
              /\ \A i \in 1..Len(s.tables) : s.tables[i] = catalog[n + i].name
            BY <1>2, <3>3, <3>5 DEF CatalogSoFar
        <3>7. Len(s.tables) \in Nat \ {0} /\ name = s.tables[1]
            BY <1>2, <2>2
        <3>8. n + 1 \in 1..Len(Database.relations) /\ name = catalog[n + 1].name
            BY <1>3, <3>1, <3>2, <3>6, <3>7, CatalogEntries
        <3>9. PICK r : r = Database.relations[n + 1]
            OBVIOUS
        <3>10. catalog[n + 1] = Relation(r.name, r.columns, r.key, {})
            BY <1>3, <3>1, <3>2, <3>8, <3>9, CatalogEntries
        <3>11. name = r.name
            BY <3>8, <3>10 DEF Relation
        <3>12. n + 1 \in DOMAIN Database.relations
            BY <1>3, <3>8 DEF DatabaseOK
        <3>13. named = r.columns
            <4>1. Found(r.name) # {} /\ (CHOOSE relation \in Found(r.name) : TRUE) = r
                BY <1>3, <3>9, <3>12, FoundByName
            <4>. QED
                BY <1>4, <3>11, <4>1 DEF columns
        <3>14. entry = [catalog[n + 1] EXCEPT !.key = <<>>]
            <4>1. [Relation(r.name, r.columns, r.key, {}) EXCEPT !.key = <<>>] = Relation(r.name, r.columns, <<>>, {})
                BY KeyOfRelation
            <4>. QED
                BY <1>6, <3>10, <3>11, <3>13, <4>1
        <3>15. Len(t.relations) - (IF t.at = "keys" THEN 1 ELSE 0) = n
            BY <1>9, <1>12, <3>4
        <3>16. /\ \A i \in 1..n : t.relations[i] = catalog[i]
               /\ t.relations[n + 1] = [catalog[n + 1] EXCEPT !.key = <<>>]
               /\ n + Len(t.tables) = Len(catalog)
               /\ \A i \in 1..Len(t.tables) : t.tables[i] = catalog[n + i].name
            BY <1>9, <1>12, <3>4, <3>6, <3>14
        <3>. QED
            BY <1>12, <3>2, <3>15, <3>16 DEF CatalogSoFar
    <2>. QED
        BY <1>2, <1>11, <1>12, <2>1, <2>2, <2>3 DEF HasDescribed
<1>. QED
    BY <1>2, <1>12, <1>13, DraftsOn

(* What a table's statement answers about its key.                             *)
LEMMA KeysDrafts ==
    ASSUME Runs, Writes, Drafting, NEW p \in Process, Keys(p)
    PROVE Drafting'
<1> DEFINE s == processes[p]
           moments == Moments(s, databases, version)
           name == Head(s.tables)
           key == IF Found(name) = {} THEN <<>> ELSE (CHOOSE relation \in Found(name) : TRUE).key
           n == Len(s.relations)
           entry == [s.relations[n] EXCEPT !.key = key]
           relations == [s.relations EXCEPT ![n] = entry]
           t == [s EXCEPT !.at = "columns", !.tables = Tail(s.tables), !.relations[n].key = key]
<1>1. DOMAIN s = Fields /\ Holds(s) /\ HasDescribed(s, moments)
    BY DraftsSoFar
<1>2. UNCHANGED <<databases, version>> /\ s.at = "keys" /\ Becomes(p, t)
    BY DEF Keys, At, Untouched
<1>3. DatabaseOK(Database)
    BY DEF Database, Runs, TypeOK, Writes
<1>4. PICK held : held = key
    OBVIOUS
<1>5. entry = [s.relations[n] EXCEPT !.key = held]
    BY <1>4
<1>6. t.at = "columns" /\ t.tables = Tail(s.tables) /\ t.command = s.command /\ t.relations = relations /\ t.since = s.since
    <2> HIDE DEF key
    <2>. QED
        BY <1>1 DEF Fields
<1> HIDE DEF t, key, entry
<1>7. ASSUME t.command.name = "bootstrap" PROVE HasDescribed(t, moments)
    <2>1. s.relations \in Seq(ToSet(s.relations)) /\ s.relations # <<>>
          /\ s.tables \in Seq(ToSet(s.tables)) /\ s.tables # <<>>
        BY <1>1, <1>2, <1>6, <1>7 DEF HasDescribed, Holds, IsCatalog
    <2>2. n \in Nat \ {0} /\ n \in DOMAIN s.relations
        BY <2>1
    <2>3. Len(relations) = n /\ relations[n] = entry /\ \A i \in 1..n - 1 : relations[i] = s.relations[i]
        BY <2>1, <2>2
    <2>4. \A relation \in ToSet(relations) : relation \in ToSet(s.relations) \/ relation = entry
        BY <2>1, <2>2 DEF ToSet
    <2>5. IsEntry(entry)
        <3>1. s.relations[n] \in ToSet(s.relations)
            BY <2>2 DEF ToSet
        <3>2. PICK old : old = s.relations[n]
            OBVIOUS
        <3>3. IsEntry(old)
            BY <1>1, <1>6, <1>7, <3>1, <3>2 DEF HasDescribed
        <3>4. entry = [old EXCEPT !.key = held]
            BY <1>5, <3>2
        <3>5. entry = Relation(old.name, old.columns, held, {})
            BY <3>3, <3>4 DEF IsEntry, Relation
        <3>6. entry.columns = old.columns /\ entry = Relation(entry.name, entry.columns, entry.key, {})
            BY <3>5 DEF Relation
        <3>. QED
            BY <3>3, <3>6 DEF IsEntry
    <2>6. Tail(s.tables) \in Seq(ToSet(Tail(s.tables))) /\ Len(Tail(s.tables)) = Len(s.tables) - 1
          /\ \A i \in 1..Len(Tail(s.tables)) : Tail(s.tables)[i] = s.tables[i + 1]
        <3>1. Tail(s.tables) \in Seq(ToSet(s.tables))
            BY <2>1, HeadTailProperties
        <3>2. Tail(s.tables) \in Seq(ToSet(Tail(s.tables)))
            BY <3>1, SequenceOfItself
        <3>. QED
            BY <2>1, <3>2
    <2>7. ASSUME NEW database \in moments, moments = {database} PROVE CatalogSoFar(t, CatalogOf(database))
        <3>1. Database = database
            BY <1>2, <2>7, StillThere
        <3>2. PICK catalog : catalog = CatalogOf(database)
            OBVIOUS
        <3>3. CatalogSoFar(s, catalog)
            BY <1>1, <1>2, <1>6, <1>7, <2>7, <3>2 DEF HasDescribed
        <3> HIDE DEF moments, relations, n
        <3>4. Len(s.relations) - (IF s.at = "keys" THEN 1 ELSE 0) = n - 1 /\ n - 1 \in Nat /\ n - 1 + 1 = n
            BY <1>2, <2>2 DEF n
        <3>5. /\ \A i \in 1..n - 1 : s.relations[i] = catalog[i]
              /\ s.relations[n] = [catalog[n] EXCEPT !.key = <<>>]
              /\ n - 1 + Len(s.tables) = Len(catalog)
              /\ \A i \in 1..Len(s.tables) : s.tables[i] = catalog[n - 1 + i].name
            BY <1>2, <3>3, <3>4 DEF CatalogSoFar
        <3>7. Len(s.tables) \in Nat \ {0} /\ name = s.tables[1]
            BY <2>1
        <3>8. n \in 1..Len(Database.relations) /\ name = catalog[n].name
            <4>1. s.tables[1] = catalog[n - 1 + 1].name
                BY <3>5, <3>7
            <4>2. Len(catalog) = Len(Database.relations) /\ Len(catalog) \in Nat
                BY <1>3, <3>1, <3>2, CatalogEntries
            <4>3. n <= Len(catalog)
                BY <2>2, <3>5, <3>7
            <4>4. name = catalog[n].name
                BY <3>4, <3>7, <4>1
            <4>. QED
                BY <2>2, <4>2, <4>3, <4>4
        <3>9. PICK r : r = Database.relations[n]
            OBVIOUS
        <3>10. catalog[n] = Relation(r.name, r.columns, r.key, {})
            BY <1>3, <3>1, <3>2, <3>8, <3>9, CatalogEntries
        <3>11. name = r.name
            BY <3>8, <3>10 DEF Relation
        <3>12. n \in DOMAIN Database.relations
            BY <1>3, <3>8 DEF DatabaseOK
        <3>13. held = r.key
            <4>1. Found(r.name) # {} /\ (CHOOSE relation \in Found(r.name) : TRUE) = r
                BY <1>3, <3>9, <3>12, FoundByName
            <4>. QED
                BY <1>4, <3>11, <4>1 DEF key
        <3>14. entry = catalog[n]
            <4>1. [[Relation(r.name, r.columns, r.key, {}) EXCEPT !.key = <<>>] EXCEPT !.key = r.key]
                    = Relation(r.name, r.columns, r.key, {})
                <5>1. [Relation(r.name, r.columns, r.key, {}) EXCEPT !.key = <<>>] = Relation(r.name, r.columns, <<>>, {})
                    BY KeyOfRelation
                <5>2. [Relation(r.name, r.columns, <<>>, {}) EXCEPT !.key = r.key] = Relation(r.name, r.columns, r.key, {})
                    BY KeyOfRelation
                <5>. QED
                    BY <5>1, <5>2
            <4>. QED
                BY <1>5, <3>5, <3>10, <3>13, <4>1
        <3>15. Len(t.relations) - (IF t.at = "keys" THEN 1 ELSE 0) = n
            BY <1>6, <2>2, <2>3
        <3>16. \A i \in 1..n : t.relations[i] = catalog[i]
            BY <1>6, <2>2, <2>3, <3>5, <3>14
        <3>17. /\ n + Len(t.tables) = Len(catalog)
               /\ \A i \in 1..Len(t.tables) : t.tables[i] = catalog[n + i].name
            <4>1. Tail(s.tables) = t.tables /\ Len(t.tables) = Len(s.tables) - 1
                BY <1>6, <2>6
            <4>2. ASSUME NEW i \in 1..Len(t.tables) PROVE t.tables[i] = catalog[n + i].name
                <5>1. t.tables[i] = s.tables[i + 1] /\ i + 1 \in 1..Len(s.tables)
                    <6>1. i \in 1..Len(Tail(s.tables)) /\ i \in Nat /\ i <= Len(s.tables) - 1
                        BY <3>7, <4>1
                    <6>2. Tail(s.tables)[i] = s.tables[i + 1]
                        BY <2>6, <6>1
                    <6>3. i + 1 \in 1..Len(s.tables)
                        BY <3>7, <4>1, <6>1
                    <6>. QED
                        BY <4>1, <6>2, <6>3
                <5>2. s.tables[i + 1] = catalog[n - 1 + (i + 1)].name
                    BY <3>5, <5>1
                <5>3. n - 1 + (i + 1) = n + i
                    BY <2>2, <3>7, <4>1
                <5>. QED
                    BY <5>1, <5>2, <5>3
            <4>3. n + Len(t.tables) = Len(catalog)
                BY <2>2, <3>5, <3>7, <4>1
            <4>. QED
                BY <4>2, <4>3
        <3>. QED
            BY <1>6, <3>2, <3>15, <3>16, <3>17 DEF CatalogSoFar
    <2>. QED
        BY <1>6, <2>3, <2>4, <2>5, <2>6, <2>7, <1>1, <1>7 DEF HasDescribed
<1>. QED
    BY <1>2, <1>6, <1>7, DraftsOn

(* The catalog that was read is what is written.                               *)
LEMMA CatalogDrafts ==
    ASSUME Runs, Writes, Drafting, NEW p \in Process, Catalog(p)
    PROVE Drafting'
<1> DEFINE s == processes[p]
           moments == Moments(s, databases, version)
           metadata == <<[path |-> s.command.output, text |-> s.relations]>>
<1>1. DOMAIN s = Fields /\ HasDescribed(s, moments) /\ HasConverted(s)
    BY DraftsSoFar
<1>2. UNCHANGED <<databases, version>> /\ s.at = "columns" /\ s.tables = <<>>
    BY DEF Catalog, At, Untouched
<1>3. CASE s.command.name # "bootstrap"
    <2>1. Becomes(p, Ended(s, 0)) \/ Becomes(p, [s EXCEPT !.at = "open", !.pending = metadata])
        BY <1>3 DEF Catalog
    <2> HIDE DEF metadata
    <2>. QED
        BY <1>2, <1>3, <2>1, DraftsDone, DraftsElse
<1>4. CASE s.command.name = "bootstrap"
    <2> DEFINE documents == BootstrapDocuments(s.command, s.relations)
               t == [s EXCEPT !.at = "open", !.pending = documents]
    <2>1. Becomes(p, t)
        BY <1>4 DEF Catalog
    <2>2. documents \in Seq(ToSet(documents))
        <3>1. PICK one : one = [path |-> s.command.output, text |-> BootstrapMapping(s.relations)]
            OBVIOUS
        <3>2. PICK other : other = [path |-> s.command.ontology, text |-> BootstrapOntology(s.relations)]
            OBVIOUS
        <3>3. documents = <<one, other>>
            BY <3>1, <3>2 DEF BootstrapDocuments
        <3>4. <<one, other>> \in Seq({one, other})
            OBVIOUS
        <3>. QED
            BY <3>3, <3>4, SequenceOfItself
    <2> HIDE DEF documents
    <2>3. t.at = "open" /\ t.command = s.command /\ t.relations = s.relations /\ t.since = s.since /\ t.pending = documents
          /\ t.wrote = s.wrote
        BY <1>1 DEF Fields
    <2> HIDE DEF t
    <2>4. s.wrote = <<>>
        BY <1>2, Unwritten
    <2>5. t.wrote \o t.pending = BootstrapDocuments(t.command, t.relations)
        <3>1. <<>> \o documents = documents
            BY <2>2
        <3>. QED
            BY <2>3, <2>4, <3>1 DEF documents
    <2>6. Moments(t, databases, version) = moments
        BY <1>2, <2>3, SameMoments
    <2>7. ASSUME NEW database \in moments, moments = {database} PROVE CatalogSoFar(t, CatalogOf(database))
        <3>1. CatalogSoFar(s, CatalogOf(database))
            BY <1>1, <1>2, <1>4, <2>7 DEF HasDescribed
        <3> HIDE DEF moments
        <3>2. Len(s.tables) = 0 /\ Len(s.relations) \in Nat
            <4>1. s.relations \in Seq(ToSet(s.relations))
                BY DraftsSoFar DEF Holds, IsCatalog
            <4>. QED
                BY <1>2, <4>1
        <3>3. PICK catalog : catalog = CatalogOf(database)
            OBVIOUS
        <3>. QED
            BY <1>2, <2>3, <3>1, <3>2, <3>3 DEF CatalogSoFar
    <2>8. HasDescribed(t, moments)
        BY <1>1, <1>4, <2>3, <2>5, <2>7 DEF HasDescribed
    <2>9. HasConverted(t)
        BY <1>4, <2>3 DEF HasConverted, MappingCommands
    <2>. QED
        BY <1>2, <2>1, <2>6, <2>8, <2>9, DraftsStep
<1>. QED
    BY <1>3, <1>4

(* Opening a file and writing to it: the documents are the same.               *)
LEMMA OpenDrafts ==
    ASSUME Runs, Writes, Drafting, NEW p \in Process, Open(p)
    PROVE Drafting'
<1> DEFINE s == processes[p]
           moments == Moments(s, databases, version)
           document == Head(s.pending)
           wrote == Append(s.wrote, document)
           t == [s EXCEPT !.at = "write", !.wrote = wrote]
<1>1. DOMAIN s = Fields /\ Holds(s) /\ HasDescribed(s, moments) /\ StateOK(s)
    BY DraftsSoFar DEF Runs, Run
<1>2. UNCHANGED <<databases, version>> /\ s.at = "open" /\ Becomes(p, t)
    BY DEF Open, Opening, Changed, At
<1>3. s.pending \in Seq(ToSet(s.pending)) /\ s.wrote \in Seq(ToSet(s.wrote)) /\ s.pending # <<>>
    BY <1>1, <1>2 DEF Holds, AreDocuments, StateOK
<1>4. wrote \o Tail(s.pending) = s.wrote \o s.pending
    <2>1. PICK S : S = ToSet(s.pending) \cup ToSet(s.wrote)
        OBVIOUS
    <2>2. s.pending \in Seq(S) /\ s.wrote \in Seq(S)
        BY <1>3, <2>1, SeqMonotonic
    <2>. QED
        BY <1>3, <2>2, HeadMoves
<1> HIDE DEF wrote
<1>5. t.at = "write" /\ t.command = s.command /\ t.relations = s.relations /\ t.since = s.since /\ t.pending = s.pending
      /\ t.wrote = wrote
    BY <1>1 DEF Fields
<1> HIDE DEF t
<1>6. HasConverted(t)
    BY <1>5 DEF HasConverted
<1>7. Moments(t, databases, version) = moments
    BY <1>2, <1>5, SameMoments
<1>8. \A catalog : CatalogSoFar(s, catalog) => CatalogSoFar(t, catalog)
    BY <1>2, <1>5 DEF CatalogSoFar
<1>9. HasDescribed(t, moments)
    BY <1>1, <1>2, <1>4, <1>5, <1>8 DEF HasDescribed
<1>. QED
    BY <1>2, <1>6, <1>7, <1>9, DraftsStep

(* The next document, or the end.                                              *)
LEMMA CloseDrafts ==
    ASSUME Runs, Writes, Drafting, NEW p \in Process, Close(p)
    PROVE Drafting'
<1> DEFINE s == processes[p]
           moments == Moments(s, databases, version)
<1>1. DOMAIN s = Fields /\ Holds(s) /\ HasDescribed(s, moments) /\ SavedSoFar(s, disturbed[p])
    BY DraftsSoFar
<1>2. UNCHANGED <<databases, version>> /\ s.at = "write"
    BY DEF Close, At, Untouched
<1>3. s.wrote # <<>>
    BY <1>1, <1>2 DEF SavedSoFar
<1>4. CASE Tail(s.pending) = <<>> /\ Becomes(p, Ended(s, 0))
    <2>1. PICK t : t = Ended(s, 0)
        OBVIOUS
    <2>2. t.at = "exited" /\ t.command = s.command /\ t.relations = s.relations /\ t.since = s.since
          /\ t.wrote = s.wrote /\ t.until = version
        BY <1>1, <2>1, EndedFields
    <2>3. s.wrote \o Tail(s.pending) = s.wrote
        <3>1. s.wrote \in Seq(ToSet(s.wrote))
            BY <1>1 DEF Holds, AreDocuments
        <3>. QED
            BY <1>4, <3>1, ConcatEmptySeq
    <2>4. HasConverted(t)
        BY <2>2 DEF HasConverted
    <2>5. Moments(t, databases, version) = moments
        BY <1>2, <2>2, SameMoments
    <2>6. \A catalog : CatalogSoFar(s, catalog) => CatalogSoFar(t, catalog)
        BY <1>2, <2>2 DEF CatalogSoFar
    <2>7. HasDescribed(t, moments)
        BY <1>1, <1>2, <2>2, <2>3, <2>6 DEF HasDescribed
    <2>. QED
        BY <1>2, <1>4, <2>1, <2>4, <2>5, <2>7, DraftsStep
<1>5. CASE Becomes(p, [s EXCEPT !.at = "open", !.pending = Tail(s.pending)])
    <2> DEFINE t == [s EXCEPT !.at = "open", !.pending = Tail(s.pending)]
    <2>1. t.at = "open" /\ t.command = s.command /\ t.relations = s.relations /\ t.since = s.since
          /\ t.wrote = s.wrote /\ t.pending = Tail(s.pending)
        BY <1>1 DEF Fields
    <2>2. Becomes(p, t)
        BY <1>5
    <2> HIDE DEF t
    <2>4. HasConverted(t)
        BY <1>3, <2>1 DEF HasConverted
    <2>5. Moments(t, databases, version) = moments
        BY <1>2, <2>1, SameMoments
    <2>6. \A catalog : CatalogSoFar(s, catalog) => CatalogSoFar(t, catalog)
        BY <1>2, <2>1 DEF CatalogSoFar
    <2>7. HasDescribed(t, moments)
        BY <1>1, <1>2, <2>1, <2>6 DEF HasDescribed
    <2>. QED
        BY <1>2, <2>2, <2>4, <2>5, <2>7, DraftsStep
<1>. QED
    BY <1>4, <1>5 DEF Close

(* The other steps of writing, and the faults.                                 *)
LEMMA WritesDrafts ==
    ASSUME Runs, Writes, Drafting, NEW p \in Process, WriteLine(p) \/ DiskFull(p) \/ Crash(p)
    PROVE Drafting'
<1> DEFINE s == processes[p]
<1>1. UNCHANGED <<databases, version>>
    BY DEF WriteLine, Changed, DiskFull, Crash
<1>2. CASE WriteLine(p)
    <2>1. Becomes(p, s)
        BY <1>2 DEF WriteLine, Changed
    <2>. QED
        BY <1>1, <2>1, DraftsSoFar, DraftsStep
<1>3. CASE DiskFull(p) \/ Crash(p)
    BY <1>1, <1>3, DraftsFail DEF DiskFull, Crash
<1>. QED
    BY <1>2, <1>3

(* No process has begun at first, and when another client changes the database *)
(* there is one more moment.                                                   *)
LEMMA DraftsElsewhere ==
    /\ Init => Drafting
    /\ Runs /\ Drafting /\ (Alter \/ UNCHANGED vars) => Drafting'
<1>1. ASSUME Init PROVE Drafting
    <2>1. PICK world \in Worlds : processes = [p \in DOMAIN world.todo |-> Shell(world.todo[p])]
        BY <1>1 DEF Init
    <2>2. \A p \in Process : processes[p].at = "shell" /\ processes[p].command = [name |-> None]
        BY <2>1, ShellFields DEF Process
    <2>3. [name |-> None].name # "bootstrap" /\ [name |-> None].name \notin MappingCommands
        BY DEF None, MappingCommands
    <2>. QED
        BY <2>2, <2>3 DEF Drafting, HasConverted, HasDescribed
<1>2. ASSUME Runs, Drafting, Alter PROVE Drafting'
    <2>1. processes' = processes /\ Process' = Process /\ databases' = databases /\ version' = version + 1 /\ version \in Nat
        BY <1>2 DEF Alter, Process, Runs, TypeOK
    <2>2. ASSUME NEW p \in Process
          PROVE HasDescribed(processes[p], Moments(processes[p], databases, version + 1))
        <3> DEFINE s == processes[p]
                   old == Moments(s, databases, version)
                   new == Moments(s, databases, version + 1)
        <3>1. HasDescribed(s, old)
            BY <1>2 DEF Drafting, Versions
        <3>2. MomentsPast(s, version, changes)
            BY <1>2 DEF Runs, Run
        <3>3. old \subseteq new /\ old # {}
            <4>1. CASE s.at = "exited"
                BY <2>1, <3>2, <4>1 DEF MomentsPast, Moments
            <4>2. CASE s.at # "exited"
                <5>1. version \in s.since..version /\ s.since..version \subseteq s.since..(version + 1)
                    BY <2>1, <3>2 DEF MomentsPast
                <5>. QED
                    BY <4>2, <5>1 DEF Moments
            <4>. QED
                BY <4>1, <4>2
        <3> HIDE DEF old, new
        <3>4. \A database \in new : new = {database} => database \in old /\ old = {database}
            BY <3>3
        <3>. QED
            BY <3>1, <3>4 DEF HasDescribed, new
    <2>3. \A p : Versions(p)' = Moments(processes[p], databases, version + 1)
        BY <2>1 DEF Versions
    <2>. QED
        BY <1>2, <2>1, <2>2, <2>3 DEF Drafting
<1>3. ASSUME Drafting, UNCHANGED vars PROVE Drafting'
    <2>1. processes' = processes /\ Process' = Process /\ databases' = databases /\ version' = version
        BY <1>3 DEF vars, Process
    <2>2. \A p : Versions(p)' = Versions(p)
        BY <2>1 DEF Versions
    <2>. QED
        BY <1>3, <2>1, <2>2 DEF Drafting
<1>. QED
    BY <1>1, <1>2, <1>3

(* In every execution, however the processes and the database interleave, the  *)
(* invariant holds: every step belongs to its command, what is found, loaded   *)
(* and written so far is what it should be, and whatever is written is a text  *)
(* (main).                                                                     *)
THEOREM InvariantHolds == Spec => []IInv
<1>1. Init => Runs /\ Writes /\ Reading /\ Drafting
    BY Begins, BeginsOutputs, ReadsNothing, DraftsElsewhere
<1>2. Runs /\ Writes /\ [Next]_vars => Writes'
    <2> SUFFICES ASSUME Runs, Writes, [Next]_vars
                 PROVE Writes'
        OBVIOUS
    <2>1. ASSUME NEW p \in Process,
                 \/ Start(p) \/ ReadInput(p)
                 \/ Configure(p) \/ Connect(p) \/ LoadMapping(p) \/ LoadFacts(p) \/ LoadOntology(p)
                 \/ Ask(p) \/ Asked(p)
                 \/ Tables(p) \/ Columns(p) \/ Keys(p) \/ Catalog(p)
                 \/ Open(p) \/ WriteLine(p) \/ Close(p)
                 \/ DiskFull(p) \/ Crash(p)
          PROVE Writes'
        BY <2>1, StartOutputs, ReadInputOutputs, ConfigureOutputs, ConnectOutputs, LoadMappingOutputs, LoadFactsOutputs,
           LoadOntologyOutputs, AskOutputs, AskedOutputs, CatalogStepsOutputs, CatalogOutputs, OpenOutputs, WriteLineOutputs,
           CloseOutputs, FaultsOutputs
    <2>. QED
        BY <2>1, StutterOutputs DEF Next
<1>3. Runs /\ Writes /\ Reading /\ [Next]_vars => Reading'
    <2> SUFFICES ASSUME Runs, Writes, Reading, [Next]_vars
                 PROVE Reading'
        OBVIOUS
    <2>1. ASSUME NEW p \in Process,
                 \/ Start(p) \/ ReadInput(p)
                 \/ Configure(p) \/ Connect(p) \/ LoadMapping(p) \/ LoadFacts(p) \/ LoadOntology(p)
                 \/ Ask(p) \/ Asked(p)
                 \/ Tables(p) \/ Columns(p) \/ Keys(p) \/ Catalog(p)
                 \/ Open(p) \/ WriteLine(p) \/ Close(p)
                 \/ DiskFull(p) \/ Crash(p)
          PROVE Reading'
        BY <2>1, BeginsElsewhere, LoadMappingReads, LoadsElsewhere, CatalogElsewhere, WritesElsewhere
    <2>. QED
        BY <2>1, ReadsNothing DEF Next
<1>4. Runs /\ Writes /\ Drafting /\ [Next]_vars => Drafting'
    <2> SUFFICES ASSUME Runs, Writes, Drafting, [Next]_vars
                 PROVE Drafting'
        OBVIOUS
    <2>1. ASSUME NEW p \in Process,
                 \/ Start(p) \/ ReadInput(p)
                 \/ Configure(p) \/ Connect(p) \/ LoadMapping(p) \/ LoadFacts(p) \/ LoadOntology(p)
                 \/ Ask(p) \/ Asked(p)
                 \/ Tables(p) \/ Columns(p) \/ Keys(p) \/ Catalog(p)
                 \/ Open(p) \/ WriteLine(p) \/ Close(p)
                 \/ DiskFull(p) \/ Crash(p)
          PROVE Drafting'
        BY <2>1, DraftsBegin, ReadInputDrafts, LoadsDrafts, AsksDrafts, TablesDrafts, ColumnsDrafts, KeysDrafts,
           CatalogDrafts, OpenDrafts, CloseDrafts, WritesDrafts
    <2>. QED
        BY <2>1, DraftsElsewhere DEF Next
<1>5. Runs /\ Writes /\ Reading /\ Drafting => IInv
    BY DEF Runs, Writes, Reading, Drafting, IInv
<1>. QED
    BY <1>1, <1>2, <1>3, <1>4, <1>5, RunsHold, PTL DEF Spec

(* In every execution a command that ends with 0 leaves each of its documents  *)
(* whole, unless somebody else, or the command itself, wrote that file again,  *)
(* and one that fails before it writes has changed no file.                    *)
THEOREM OutputsHold == Spec => []OutputsAreWhole
<1>1. IInv => OutputsAreWhole
    BY DEF IInv, SavedSoFar, OutputsAreWhole, Exited, At
<1>. QED
    BY <1>1, InvariantHolds, PTL
-----------------------------------------------------------------------------
(* What the rules of an R2RML document make.                                 *)

(* A subject is what its term map stands for.                                  *)
LEMMA SubjectAsWritten ==
    ASSUME NEW map, IsSubjectMap(map), NEW base, NEW rule, rule.subject = SubjectOfMap(map),
           rule.columnSubject = (map.kind = "column"), rule.base = base
    PROVE MeaningOfSubject(rule) = StandardTerm(map, "subject", base)
<1> DEFINE type == TypeOfMap(map, "iri")
           term == rule.subject
           outside == IF type = "iri" /\ ~HasColon(map.parts) THEN base ELSE None
<1>1. type \in {"iri", "blank"} /\ map.datatype = None /\ map.language = None
    BY DEF IsSubjectMap, TypeOfMap, None
<1>2. /\ term.type = type /\ term.parts = map.parts
      /\ term.datatype = None /\ term.language = None /\ term.infers = FALSE
    BY DEF SubjectOfMap, Term
<1> DEFINE encoded == type = "iri" /\ map.kind # "column" /\ HasSlot(map.parts)
<1>3. MeaningOfSubject(rule)
        = [type |-> type, parts |-> map.parts, encoded |-> encoded, base |-> outside,
           datatype |-> None, language |-> None, infers |-> FALSE]
    BY <1>2 DEF MeaningOfSubject, Made
<1>4. encoded <=> (map.kind = "template" /\ type = "iri" /\ HasSlot(map.parts))
    BY DEF IsSubjectMap
<1>5. StandardTerm(map, "subject", base)
        = [type |-> type, parts |-> map.parts, encoded |-> encoded, base |-> outside,
           datatype |-> None, language |-> None, infers |-> FALSE]
    BY <1>1, <1>4 DEF StandardTerm, IsSubjectMap
<1>. QED
    BY <1>3, <1>5

(* An object in < > is encoded if it is an IRI with columns.                   *)
LEMMA AngledObject ==
    ASSUME NEW rule, rule.object.form = "angled"
    PROVE LET term == rule.object
          IN  MeaningOfObject(rule)
                = [type |-> term.type, parts |-> term.parts, encoded |-> term.type = "iri" /\ HasSlot(term.parts),
                   base |-> IF term.type = "iri" /\ ~HasColon(term.parts) THEN rule.base ELSE None,
                   datatype |-> term.datatype, language |-> term.language, infers |-> term.infers]
<1> DEFINE term == rule.object
<1>1. CASE HasSlot(term.parts)
    <2>1. MeaningOfObject(rule) = Made(term, term.parts, term.type = "iri", rule.base)
        BY <1>1 DEF MeaningOfObject
    <2>. QED
        BY <2>1 DEF Made
<1>2. CASE ~HasSlot(term.parts)
    <2>1. MeaningOfObject(rule) = Made(term, term.parts, FALSE, rule.base)
        BY <1>2 DEF MeaningOfObject
    <2>. QED
        BY <1>2, <2>1 DEF Made
<1>. QED
    BY <1>1, <1>2

(* A literal or a blank node that is no lone column is not encoded.            *)
LEMMA PlainObject ==
    ASSUME NEW rule, rule.object.type # "iri",
           ~(Len(Slots(rule.object.parts)) = 1 /\ rule.object.form = "plain" /\ IsSlot(Head(rule.object.parts))),
           \/ HasSlot(rule.object.parts) /\ rule.object.form # "quoted"
           \/ ~HasSlot(rule.object.parts) /\ (rule.object.form # "plain" \/ rule.object.type = "literal")
    PROVE LET term == rule.object
          IN  MeaningOfObject(rule)
                = [type |-> term.type, parts |-> term.parts, encoded |-> FALSE, base |-> None,
                   datatype |-> term.datatype, language |-> term.language, infers |-> term.infers]
<1> DEFINE term == rule.object
<1>1. CASE HasSlot(term.parts)
    <2>1. MeaningOfObject(rule) = Made(term, term.parts, term.type = "iri", rule.base)
        BY <1>1 DEF MeaningOfObject
    <2>. QED
        BY <2>1 DEF Made
<1>2. CASE ~HasSlot(term.parts)
    <2>1. MeaningOfObject(rule) = Made(term, term.parts, FALSE, rule.base)
        BY <1>2 DEF MeaningOfObject
    <2>. QED
        BY <1>2, <2>1 DEF Made
<1>. QED
    BY <1>1, <1>2

(* A lone column is what it holds, whatever its type.                          *)
LEMMA LoneColumn ==
    ASSUME NEW rule, rule.object.form = "plain", Len(Slots(rule.object.parts)) = 1, Len(rule.object.parts) = 1,
           IsSlot(Head(rule.object.parts))
    PROVE LET term == rule.object
          IN  MeaningOfObject(rule)
                = [type |-> term.type, parts |-> term.parts, encoded |-> FALSE,
                   base |-> IF term.type = "iri" /\ ~HasColon(term.parts) THEN rule.base ELSE None,
                   datatype |-> term.datatype, language |-> term.language, infers |-> term.infers]
<1>1. MeaningOfObject(rule) = Made(rule.object, rule.object.parts, FALSE, rule.base)
    BY DEF MeaningOfObject
<1>. QED
    BY <1>1 DEF Made

\* What the object of a triples map is read as R2RML has it.
Ordinary(map) ==
    /\ map.kind = "template" => map.datatype = None /\ map.language = None
    /\ map.kind = "template" /\ TypeOfMap(map, "iri") # "iri" => ~(IsSlot(Head(map.parts)) /\ Len(Slots(map.parts)) = 1)
    /\ map.kind = "template" /\ TypeOfMap(map, "iri") = "blank" => HasSlot(map.parts)
    /\ map.kind = "constant literal" => ~HasSlot(map.parts)
    /\ map.kind = "column" => Len(map.parts) = 1 /\ Slots(map.parts) = map.parts
    /\ map.kind = "parent" => HasSlot(map.parent.subject.parts)
    /\ map.kind = "parent" => ~(map.parent.subject.kind = "column" /\ TypeOfMap(map.parent.subject, "iri") = "iri")

(* The object of a rule is what its term map stands for.                       *)
LEMMA ObjectAsWritten ==
    ASSUME NEW map, NEW base, IsObjectMap(map, base), Ordinary(map),
           NEW rule, rule.object = ObjectOfMap(map), rule.base = base
    PROVE MeaningOfObject(rule) = StandardObject(map, base)
<1> DEFINE term == rule.object
<1>0. None = "none"
    BY DEF None
<1>1. CASE map.kind = "constant IRI"
    <2>1. IsSubjectMap(map)
        BY <1>1 DEF IsObjectMap
    <2>2. /\ term.type = "iri" /\ term.parts = map.parts /\ term.form = "angled"
          /\ term.datatype = None /\ term.language = None /\ term.infers = FALSE
        <3>1. term = Term("iri", map.parts, "angled")
            BY <1>1 DEF ObjectOfMap
        <3>. QED
            BY <3>1 DEF Term
    <2>3. ~HasSlot(map.parts) /\ map.datatype = None /\ map.language = None /\ TypeOfMap(map, "iri") = "iri"
        BY <1>1, <2>1 DEF IsSubjectMap, TypeOfMap
    <2>4. MeaningOfObject(rule)
            = [type |-> "iri", parts |-> map.parts, encoded |-> FALSE,
               base |-> IF ~HasColon(map.parts) THEN base ELSE None,
               datatype |-> None, language |-> None, infers |-> FALSE]
        BY <2>2, <2>3, AngledObject
    <2>5. StandardTerm(map, "object", base)
            = [type |-> "iri", parts |-> map.parts, encoded |-> FALSE,
               base |-> IF ~HasColon(map.parts) THEN base ELSE None,
               datatype |-> None, language |-> None, infers |-> FALSE]
        BY <1>1, <2>3 DEF StandardTerm
    <2>. QED
        BY <1>1, <2>4, <2>5 DEF StandardObject
<1>2. CASE map.kind = "constant literal"
    <2>1. /\ term.type = "literal" /\ term.parts = map.parts /\ term.form = "quoted"
          /\ term.datatype = map.datatype /\ term.language = map.language /\ term.infers = FALSE
        BY <1>2 DEF ObjectOfMap, LiteralTerm, Term
    <2>2. ~HasSlot(map.parts)
        BY <1>2 DEF Ordinary
    <2>3. MeaningOfObject(rule)
            = [type |-> "literal", parts |-> map.parts, encoded |-> FALSE, base |-> None,
               datatype |-> map.datatype, language |-> map.language, infers |-> FALSE]
        BY <2>1, <2>2, PlainObject
    <2>4. StandardTerm(map, "object", base)
            = [type |-> "literal", parts |-> map.parts, encoded |-> FALSE, base |-> None,
               datatype |-> map.datatype, language |-> map.language, infers |-> FALSE]
        BY <1>2 DEF StandardTerm
    <2>. QED
        BY <1>2, <2>3, <2>4 DEF StandardObject
<1>3. CASE map.kind = "template" /\ TypeOfMap(map, "iri") = "iri"
    <2> DEFINE type == TypeOfMap(map, "iri")
    <2>1. /\ term.type = type /\ term.parts = map.parts /\ term.form = "angled"
          /\ term.datatype = None /\ term.language = None /\ term.infers = FALSE
        <3>1. term = Term("iri", map.parts, "angled")
            BY <1>3 DEF ObjectOfMap
        <3>. QED
            BY <1>3, <3>1 DEF Term
    <2>2. map.datatype = None /\ map.language = None
        BY <1>3 DEF Ordinary
    <2>3. MeaningOfObject(rule)
            = [type |-> type, parts |-> map.parts, encoded |-> type = "iri" /\ HasSlot(map.parts),
               base |-> IF type = "iri" /\ ~HasColon(map.parts) THEN base ELSE None,
               datatype |-> None, language |-> None, infers |-> FALSE]
        BY <2>1, AngledObject
    <2>4. StandardTerm(map, "object", base)
            = [type |-> type, parts |-> map.parts, encoded |-> type = "iri" /\ HasSlot(map.parts),
               base |-> IF type = "iri" /\ ~HasColon(map.parts) THEN base ELSE None,
               datatype |-> None, language |-> None, infers |-> FALSE]
        BY <1>3, <2>2 DEF StandardTerm
    <2>. QED
        BY <1>3, <2>3, <2>4 DEF StandardObject
<1>4. CASE map.kind = "template" /\ TypeOfMap(map, "iri") # "iri"
    <2>1. TypeOfMap(map, "iri") \in {"blank", "literal"}
        BY <1>0, <1>4 DEF IsObjectMap, TypeOfMap
    <2>2. /\ term.type = TypeOfMap(map, "iri") /\ term.parts = map.parts /\ term.form = "plain"
          /\ term.datatype = None /\ term.language = None /\ term.infers = (TypeOfMap(map, "iri") = "literal")
        <3>1. CASE TypeOfMap(map, "iri") = "blank"
            <4>1. term = Term("blank", map.parts, "plain")
                BY <1>4, <3>1 DEF ObjectOfMap
            <4>2. /\ term.type = "blank" /\ term.parts = map.parts /\ term.form = "plain"
                  /\ term.datatype = None /\ term.language = None /\ term.infers = FALSE
                BY <4>1 DEF Term
            <4>. QED
                BY <3>1, <4>2
        <3>2. CASE TypeOfMap(map, "iri") = "literal"
            <4>1. term = LiteralTerm(map.parts, "plain", None, None, TRUE)
                BY <1>4, <3>2 DEF ObjectOfMap
            <4>. QED
                BY <3>2, <4>1 DEF LiteralTerm, Term
        <3>. QED
            BY <2>1, <3>1, <3>2, Zenon
    <2>3. map.datatype = None /\ map.language = None /\ ~(IsSlot(Head(map.parts)) /\ Len(Slots(map.parts)) = 1)
          /\ (TypeOfMap(map, "iri") = "blank" => HasSlot(map.parts))
        BY <1>4 DEF Ordinary
    <2>4. MeaningOfObject(rule)
            = [type |-> TypeOfMap(map, "iri"), parts |-> map.parts, encoded |-> FALSE, base |-> None,
               datatype |-> None, language |-> None, infers |-> TypeOfMap(map, "iri") = "literal"]
        BY <2>1, <2>2, <2>3, PlainObject
    <2>5. StandardTerm(map, "object", base)
            = [type |-> TypeOfMap(map, "iri"), parts |-> map.parts, encoded |-> FALSE, base |-> None,
               datatype |-> None, language |-> None, infers |-> TypeOfMap(map, "iri") = "literal"]
        BY <1>4, <2>3 DEF StandardTerm
    <2>. QED
        BY <1>4, <2>4, <2>5 DEF StandardObject
<1>5. CASE map.kind = "column"
    <2> DEFINE type == TypeOfMap(map, "literal")
    <2>1. Len(map.parts) = 1 /\ Len(Slots(map.parts)) = 1 /\ IsSlot(Head(map.parts))
        BY <1>5 DEF Ordinary, IsObjectMap
    <2>2. type \in {"iri", "blank", "literal"} /\ (type # "literal" => map.termType = type)
          /\ (type # "literal" => map.datatype = None /\ map.language = None)
        BY <1>0, <1>5 DEF IsObjectMap, TypeOfMap
    <2>3. /\ term.type = type /\ term.parts = map.parts /\ term.form = "plain"
          /\ term.datatype = map.datatype /\ term.language = map.language /\ term.infers = (type = "literal")
        <3>1. CASE type = "literal"
            <4>1. term = LiteralTerm(map.parts, "plain", map.datatype, map.language, TRUE)
                BY <1>5, <3>1 DEF ObjectOfMap
            <4>. QED
                BY <3>1, <4>1 DEF LiteralTerm, Term
        <3>2. CASE type # "literal"
            <4>1. term = Term(type, map.parts, "plain")
                BY <1>5, <2>2, <3>2 DEF ObjectOfMap
            <4>2. /\ term.type = type /\ term.parts = map.parts /\ term.form = "plain"
                  /\ term.datatype = None /\ term.language = None /\ term.infers = FALSE
                BY <4>1 DEF Term
            <4>. QED
                BY <2>2, <3>2, <4>2
        <3>. QED
            BY <3>1, <3>2, Zenon
    <2>4. MeaningOfObject(rule)
            = [type |-> type, parts |-> map.parts, encoded |-> FALSE,
               base |-> IF type = "iri" /\ ~HasColon(map.parts) THEN base ELSE None,
               datatype |-> map.datatype, language |-> map.language, infers |-> type = "literal"]
        BY <2>1, <2>3, LoneColumn
    <2>5. StandardTerm(map, "object", base)
            = [type |-> type, parts |-> map.parts, encoded |-> FALSE,
               base |-> IF type = "iri" /\ ~HasColon(map.parts) THEN base ELSE None,
               datatype |-> map.datatype, language |-> map.language, infers |-> type = "literal"]
        BY <1>5 DEF StandardTerm
    <2>. QED
        BY <1>5, <2>4, <2>5 DEF StandardObject
<1>6. CASE map.kind = "parent"
    <2> DEFINE subject == map.parent.subject
               parts == OfParent(subject.parts)
               type == TypeOfMap(subject, "iri")
    <2>1. IsSubjectMap(subject) /\ map.parent.base = base
        BY <1>6 DEF IsObjectMap
    <2>2. /\ type \in {"iri", "blank"} /\ subject.datatype = None /\ subject.language = None
          /\ DOMAIN subject = {"kind", "parts", "termType", "datatype", "language"}
        BY <2>1, <1>0 DEF IsSubjectMap, TypeOfMap
    <2>3. /\ term.type = type /\ term.parts = parts /\ term.form = "angled"
          /\ term.datatype = None /\ term.language = None /\ term.infers = FALSE
        BY <1>6 DEF ObjectOfMap, Term
    <2>4. MeaningOfObject(rule)
            = [type |-> type, parts |-> parts, encoded |-> type = "iri" /\ HasSlot(parts),
               base |-> IF type = "iri" /\ ~HasColon(parts) THEN base ELSE None,
               datatype |-> None, language |-> None, infers |-> FALSE]
        BY <2>3, AngledObject
    <2>5. PICK m : m = [subject EXCEPT !.parts = OfParent(@)]
        OBVIOUS
    <2>6. /\ m.kind = subject.kind /\ m.parts = parts /\ m.termType = subject.termType
          /\ m.datatype = None /\ m.language = None
        BY <2>2, <2>5
    <2>7. TypeOfMap(m, "iri") = type /\ m.kind \in {"template", "column"} /\ (type = "iri" => m.kind = "template")
        <3>1. subject.kind \in {"template", "column"} /\ (type = "iri" => subject.kind = "template")
            BY <1>6, <2>1 DEF IsSubjectMap, Ordinary
        <3>. QED
            BY <2>6, <3>1 DEF TypeOfMap
    <2> HIDE DEF subject, type, parts
    <2>8. StandardTerm(m, "subject", base)
            = [type |-> type, parts |-> parts, encoded |-> type = "iri" /\ HasSlot(parts),
               base |-> IF type = "iri" /\ ~HasColon(parts) THEN base ELSE None,
               datatype |-> None, language |-> None, infers |-> FALSE]
        <3>1. (m.kind = "template" /\ type = "iri" /\ HasSlot(parts)) <=> (type = "iri" /\ HasSlot(parts))
            BY <2>7
        <3>2. ~(type = "literal" /\ m.kind # "constant literal")
            BY <2>2
        <3>. QED
            BY <2>6, <2>7, <3>1, <3>2 DEF StandardTerm
    <2>9. StandardObject(map, base) = StandardTerm(m, "subject", base)
        BY <1>6, <2>1, <2>5 DEF StandardObject, subject
    <2>. QED
        BY <2>4, <2>8, <2>9
<1>. QED
    BY <1>1, <1>2, <1>3, <1>4, <1>5, <1>6 DEF IsObjectMap

(* The graphs of a rule are those R2RML has, if a subject has at most one.     *)
LEMMA GraphsAsWritten ==
    ASSUME NEW triplesMap, IsTriplesMap(triplesMap), Len(triplesMap.graphs) <= 1
    PROVE /\ OrDefault(FirstGraph(triplesMap)) = StandardGraphs(triplesMap, {})
          /\ \A object : RuleGraphs(triplesMap, object) = StandardGraphs(triplesMap, ToSet(object.graphs))
<1> DEFINE graphs == triplesMap.graphs
<1>1. graphs \in Seq(ToSet(graphs))
    BY DEF IsTriplesMap
<1>2. FirstGraph(triplesMap) = ToSet(graphs)
    <2>1. DOMAIN graphs \cap {1} = DOMAIN graphs
        BY <1>1
    <2>. QED
        BY <2>1 DEF FirstGraph, ToSet
<1>. QED
    BY <1>2 DEF StandardGraphs, RuleGraphs

(* The rules of a triples map make the terms, in the graphs, it stands for.    *)
LEMMA TriplesMapAsWritten ==
    ASSUME NEW triplesMap, IsTriplesMap(triplesMap), ~TriplesMapFails(triplesMap), ~NotStandard(triplesMap)
    PROVE Meanings(RulesOfTriplesMap(triplesMap)) = StandardMeanings(triplesMap)
<1> DEFINE subject == StandardTerm(triplesMap.subject, "subject", triplesMap.base)
           ofObject(object, graph) ==
              <<subject, object.predicate, StandardObject(object.map, triplesMap.base), graph,
                SourceOfMap(object.map, triplesMap.source)>>
           ofClass(class, graph) ==
              <<subject, RdfType, StandardObject(TermMap("constant IRI", class, None), triplesMap.base), graph, triplesMap.source>>
<1>1. ASSUME NEW object \in ToSet(triplesMap.objects), NEW graph
      PROVE Meaning(RuleOfObject(triplesMap, object, graph)) = ofObject(object, graph)
    <2>1. PICK r : r = RuleOfMap(triplesMap, object.predicate, ObjectOfMap(object.map), graph)
        OBVIOUS
    <2>2. /\ DOMAIN r = {"subject", "columnSubject", "predicate", "object", "templateObject", "graph", "source", "base"}
          /\ r.subject = SubjectOfMap(triplesMap.subject) /\ r.columnSubject = (triplesMap.subject.kind = "column")
          /\ r.predicate = object.predicate /\ r.object = ObjectOfMap(object.map) /\ r.graph = graph
          /\ r.source = triplesMap.source /\ r.base = triplesMap.base
        BY <2>1, RuleFields
    <2>3. PICK rule : rule = RuleOfObject(triplesMap, object, graph)
        OBVIOUS
    <2>4. rule = [r EXCEPT !.templateObject = object.map.kind = "template" /\ TypeOfMap(object.map, "iri") = "iri",
                           !.source = SourceOfMap(object.map, @)]
        BY <2>1, <2>3 DEF RuleOfObject
    <2>5. /\ rule.subject = SubjectOfMap(triplesMap.subject) /\ rule.columnSubject = (triplesMap.subject.kind = "column")
          /\ rule.predicate = object.predicate /\ rule.object = ObjectOfMap(object.map) /\ rule.graph = graph
          /\ rule.source = SourceOfMap(object.map, triplesMap.source) /\ rule.base = triplesMap.base
        BY <2>2, <2>4
    <2>6. MeaningOfSubject(rule) = subject
        BY <2>5, SubjectAsWritten DEF IsTriplesMap
    <2>7. Ordinary(object.map) /\ IsObjectMap(object.map, triplesMap.base)
        <3>1. ~MapFails(object.map)
            BY DEF TriplesMapFails
        <3>. QED
            BY <3>1 DEF IsTriplesMap, Ordinary, NotStandard, MapFails
    <2>8. MeaningOfObject(rule) = StandardObject(object.map, triplesMap.base)
        BY <2>5, <2>7, ObjectAsWritten
    <2>. QED
        BY <2>3, <2>5, <2>6, <2>8 DEF Meaning
<1>2. ASSUME NEW class \in triplesMap.classes, NEW graph
      PROVE Meaning(RuleOfClass(triplesMap, class, graph)) = ofClass(class, graph)
    <2>1. PICK rule : rule = RuleOfClass(triplesMap, class, graph)
        OBVIOUS
    <2>2. PICK map : map = TermMap("constant IRI", class, None)
        OBVIOUS
    <2>3. /\ DOMAIN map = {"kind", "parts", "termType", "datatype", "language"} /\ map.kind = "constant IRI"
          /\ map.parts = class /\ map.termType = None /\ map.datatype = None /\ map.language = None
        BY <2>2 DEF TermMap
    <2>4. /\ rule.subject = SubjectOfMap(triplesMap.subject) /\ rule.columnSubject = (triplesMap.subject.kind = "column")
          /\ rule.predicate = RdfType /\ rule.object = Term("iri", class, "angled") /\ rule.graph = graph
          /\ rule.source = triplesMap.source /\ rule.base = triplesMap.base
        BY <2>1, RuleFields DEF RuleOfClass
    <2>5. MeaningOfSubject(rule) = subject
        BY <2>4, SubjectAsWritten DEF IsTriplesMap
    <2>6. Ordinary(map) /\ IsObjectMap(map, triplesMap.base) /\ rule.object = ObjectOfMap(map)
        <3>1. ~HasSlot(class)
            BY DEF IsTriplesMap
        <3>2. IsSubjectMap(map)
            BY <2>3, <3>1 DEF IsSubjectMap
        <3>3. IsObjectMap(map, triplesMap.base)
            BY <2>3, <3>2 DEF IsObjectMap
        <3>4. Ordinary(map)
            BY <2>3 DEF Ordinary
        <3>5. ObjectOfMap(map) = Term("iri", map.parts, "angled")
            BY <2>3 DEF ObjectOfMap
        <3>. QED
            BY <2>3, <2>4, <3>3, <3>4, <3>5
    <2>7. MeaningOfObject(rule) = StandardObject(map, triplesMap.base)
        BY <2>4, <2>6, ObjectAsWritten
    <2>. QED
        BY <2>1, <2>2, <2>4, <2>5, <2>7 DEF Meaning
<1>3. /\ OrDefault(FirstGraph(triplesMap)) = StandardGraphs(triplesMap, {})
      /\ \A object : RuleGraphs(triplesMap, object) = StandardGraphs(triplesMap, ToSet(object.graphs))
    <2>1. Len(triplesMap.graphs) <= 1
        <3>1. triplesMap.graphs \in Seq(ToSet(triplesMap.graphs))
            BY DEF IsTriplesMap
        <3>2. ~(Len(triplesMap.graphs) > 1)
            BY DEF NotStandard
        <3>. QED
            BY <3>1, <3>2
    <2>. QED
        BY <2>1, GraphsAsWritten
<1>4. ASSUME NEW x
      PROVE x \in Meanings(RulesOfTriplesMap(triplesMap))
            <=> \/ \E object \in ToSet(triplesMap.objects) : \E graph \in StandardGraphs(triplesMap, ToSet(object.graphs)) :
                      x = ofObject(object, graph)
                \/ \E class \in triplesMap.classes : \E graph \in StandardGraphs(triplesMap, {}) : x = ofClass(class, graph)
    <2> HIDE DEF ofObject, ofClass
    <2>1. x \in Meanings(RulesOfTriplesMap(triplesMap))
            <=> \E rule \in RulesOfTriplesMap(triplesMap) : x = Meaning(rule)
        BY DEF Meanings
    <2>2. ASSUME NEW rule
          PROVE rule \in RulesOfTriplesMap(triplesMap)
                <=> \/ \E object \in ToSet(triplesMap.objects) : \E graph \in RuleGraphs(triplesMap, object) :
                          rule = RuleOfObject(triplesMap, object, graph)
                    \/ \E class \in triplesMap.classes : \E graph \in OrDefault(FirstGraph(triplesMap)) :
                          rule = RuleOfClass(triplesMap, class, graph)
        BY DEF RulesOfTriplesMap
    <2>. QED
        BY <1>1, <1>2, <1>3, <2>1, <2>2
<1>5. ASSUME NEW x
      PROVE x \in StandardMeanings(triplesMap)
            <=> \/ \E object \in ToSet(triplesMap.objects) : \E graph \in StandardGraphs(triplesMap, ToSet(object.graphs)) :
                      x = ofObject(object, graph)
                \/ \E class \in triplesMap.classes : \E graph \in StandardGraphs(triplesMap, {}) : x = ofClass(class, graph)
    <2> DEFINE objects == {<<object.predicate, StandardObject(object.map, triplesMap.base), ToSet(object.graphs),
                             SourceOfMap(object.map, triplesMap.source)>> : object \in ToSet(triplesMap.objects)}
               classes == {<<RdfType, StandardObject(TermMap("constant IRI", class, None), triplesMap.base), {}, triplesMap.source>> :
                             class \in triplesMap.classes}
               meanings(said) == {<<subject, said[1], said[2], graph, said[4]>> : graph \in StandardGraphs(triplesMap, said[3])}
    <2>1. StandardMeanings(triplesMap) = UNION {meanings(said) : said \in objects \cup classes}
        BY Zenon DEF StandardMeanings
    <2>2. ASSUME NEW said
          PROVE x \in meanings(said)
                <=> \E graph \in StandardGraphs(triplesMap, said[3]) : x = <<subject, said[1], said[2], graph, said[4]>>
        OBVIOUS
    <2>3. x \in StandardMeanings(triplesMap) <=> \E said \in objects \cup classes : x \in meanings(said)
        <3> HIDE DEF objects, classes, meanings
        <3>. QED
            BY <2>1
    <2> HIDE DEF meanings
    <2>4. (\E said \in objects : x \in meanings(said))
            <=> \E object \in ToSet(triplesMap.objects) : \E graph \in StandardGraphs(triplesMap, ToSet(object.graphs)) :
                    x = ofObject(object, graph)
        <3>1. ASSUME NEW object, NEW said,
                     said = <<object.predicate, StandardObject(object.map, triplesMap.base), ToSet(object.graphs),
                              SourceOfMap(object.map, triplesMap.source)>>
              PROVE x \in meanings(said)
                    <=> \E graph \in StandardGraphs(triplesMap, ToSet(object.graphs)) : x = ofObject(object, graph)
            <4>1. /\ said[1] = object.predicate /\ said[2] = StandardObject(object.map, triplesMap.base)
                  /\ said[3] = ToSet(object.graphs) /\ said[4] = SourceOfMap(object.map, triplesMap.source)
                BY <3>1
            <4>. QED
                BY <2>2, <4>1
        <3> HIDE DEF ofObject
        <3>. QED
            BY <3>1
    <2>5. (\E said \in classes : x \in meanings(said))
            <=> \E class \in triplesMap.classes : \E graph \in StandardGraphs(triplesMap, {}) : x = ofClass(class, graph)
        <3>1. ASSUME NEW class, NEW said,
                     said = <<RdfType, StandardObject(TermMap("constant IRI", class, None), triplesMap.base), {}, triplesMap.source>>
              PROVE x \in meanings(said) <=> \E graph \in StandardGraphs(triplesMap, {}) : x = ofClass(class, graph)
            <4>1. /\ said[1] = RdfType /\ said[2] = StandardObject(TermMap("constant IRI", class, None), triplesMap.base)
                  /\ said[3] = {} /\ said[4] = triplesMap.source
                BY <3>1
            <4>. QED
                BY <2>2, <4>1
        <3> HIDE DEF ofClass
        <3>. QED
            BY <3>1
    <2> HIDE DEF objects, classes
    <2>. QED
        BY <2>3, <2>4, <2>5
<1>. QED
    BY <1>4, <1>5

(* So does a whole document.                                                   *)
LEMMA DocumentAsWritten ==
    ASSUME NEW text, IsText(text), ~R2rmlFails(text)
    PROVE LET maps == {line \in ToSet(text) : Is(line, "triples map")}
          IN  (\E map \in maps : NotStandard(map)) \/ Meanings(R2rmlRules(text)) = UNION {StandardMeanings(map) : map \in maps}
<1> DEFINE maps == {line \in ToSet(text) : Is(line, "triples map")}
<1> SUFFICES ASSUME \A map \in maps : ~NotStandard(map)
             PROVE Meanings(R2rmlRules(text)) = UNION {StandardMeanings(map) : map \in maps}
    OBVIOUS
<1>1. ASSUME NEW map \in maps PROVE Meanings(RulesOfTriplesMap(map)) = StandardMeanings(map)
    <2>1. IsTriplesMap(map)
        BY DEF IsText, IsLine
    <2>2. ~TriplesMapFails(map)
        BY DEF R2rmlFails
    <2>. QED
        BY <2>1, <2>2, TriplesMapAsWritten
<1>2. R2rmlRules(text) = UNION {RulesOfTriplesMap(map) : map \in maps}
    BY DEF R2rmlRules
<1> HIDE DEF maps
<1>3. ASSUME NEW x
      PROVE x \in Meanings(R2rmlRules(text)) <=> \E map \in maps : x \in Meanings(RulesOfTriplesMap(map))
    <2>1. \A rule : rule \in R2rmlRules(text) <=> \E map \in maps : rule \in RulesOfTriplesMap(map)
        BY <1>2
    <2>. QED
        BY <2>1 DEF Meanings
<1>. QED
    BY <1>1, <1>3

(* In every execution the rules a command has read from R2RML make the terms,  *)
(* in the graphs, that the triples maps of the document stand for, unless one  *)
(* of them is read otherwise (Mapping::parse_r2rml).                           *)
THEOREM ReadsHold == Spec => []RulesAsWritten
<1>1. IInv => RulesAsWritten
    <2> SUFFICES ASSUME IInv, NEW p \in Process, At(p, "facts"), IsR2rml(processes[p].configuration.mapping)
                 PROVE LET maps == {line \in ToSet(processes[p].text) : Is(line, "triples map")}
                       IN  \/ \E map \in maps : NotStandard(map)
                           \/ Meanings(processes[p].rules) = UNION {StandardMeanings(map) : map \in maps}
        BY DEF RulesAsWritten
    <2>1. IsText(processes[p].text) /\ ~R2rmlFails(processes[p].text) /\ processes[p].rules = R2rmlRules(processes[p].text)
        BY DEF IInv, HasRead, At
    <2>. QED
        BY <2>1, DocumentAsWritten
<1>. QED
    BY <1>1, InvariantHolds, PTL
-----------------------------------------------------------------------------
(* What to-obda and to-r2rml write, when it is read again.                     *)

(* The base of a rule is a matter of relative IRIs.                            *)
LEMMA BaseUnused ==
    ASSUME NEW term, NEW parts, NEW encoded, NEW base, NEW other, term.type # "iri" \/ HasColon(parts)
    PROVE Made(term, parts, encoded, base) = Made(term, parts, encoded, other)
    BY DEF Made

(* Two rules with the same object make the same term of it.                    *)
LEMMA SameObject ==
    ASSUME NEW rule, NEW other, other.object = rule.object,
           rule.object.type # "iri" \/ (HasColon(rule.object.parts) /\ rule.object.form # "quoted")
    PROVE MeaningOfObject(other) = MeaningOfObject(rule)
<1>1. PICK term : term = rule.object
    OBVIOUS
<1> DEFINE alone == Len(Slots(term.parts)) = 1 /\ term.form = "plain" /\ IsSlot(Head(term.parts))
<1> HIDE DEF alone
<1>2. PICK encoded : encoded = (term.type = "iri")
    OBVIOUS
<1>3. ASSUME NEW r, r.object = term
      PROVE /\ alone /\ Len(term.parts) = 1 => MeaningOfObject(r) = Made(term, term.parts, FALSE, r.base)
            /\ alone /\ Len(term.parts) # 1 => MeaningOfObject(r) = Broken
            /\ ~alone /\ HasSlot(term.parts) /\ term.form = "quoted"
                => MeaningOfObject(r) = Made(term, QuotedText(term), encoded, r.base)
            /\ ~alone /\ HasSlot(term.parts) /\ term.form # "quoted"
                => MeaningOfObject(r) = Made(term, term.parts, encoded, r.base)
            /\ ~alone /\ ~HasSlot(term.parts) /\ term.form = "plain" /\ term.type # "literal" => MeaningOfObject(r) = Broken
            /\ ~alone /\ ~HasSlot(term.parts) /\ ~(term.form = "plain" /\ term.type # "literal")
                => MeaningOfObject(r) = Made(term, term.parts, FALSE, r.base)
    BY <1>2, <1>3 DEF MeaningOfObject, alone
<1>4. term.type # "iri" \/ HasColon(term.parts)
    BY <1>1
<1>5. Made(term, term.parts, encoded, rule.base) = Made(term, term.parts, encoded, other.base)
    BY <1>4, BaseUnused
<1>6. Made(term, term.parts, FALSE, rule.base) = Made(term, term.parts, FALSE, other.base)
    BY <1>4, BaseUnused
<1>7. ASSUME term.form = "quoted"
      PROVE Made(term, QuotedText(term), encoded, rule.base) = Made(term, QuotedText(term), encoded, other.base)
    <2>1. term.type # "iri"
        BY <1>1, <1>7
    <2>. QED
        BY <2>1, BaseUnused
<1>8. rule.object = term /\ other.object = term
    BY <1>1
<1>9. CASE alone
    BY <1>3, <1>6, <1>8, <1>9
<1>10. CASE ~alone /\ HasSlot(term.parts)
    <2>1. CASE term.form = "quoted"
        <3>1. MeaningOfObject(rule) = Made(term, QuotedText(term), encoded, rule.base)
              /\ MeaningOfObject(other) = Made(term, QuotedText(term), encoded, other.base)
            BY <1>3, <1>8, <1>10, <2>1
        <3>. QED
            BY <1>7, <2>1, <3>1
    <2>2. CASE term.form # "quoted"
        <3>1. MeaningOfObject(rule) = Made(term, term.parts, encoded, rule.base)
              /\ MeaningOfObject(other) = Made(term, term.parts, encoded, other.base)
            BY <1>3, <1>8, <1>10, <2>2
        <3>. QED
            BY <1>5, <2>2, <3>1
    <2>. QED
        BY <2>1, <2>2
<1>11. CASE ~alone /\ ~HasSlot(term.parts)
    BY <1>3, <1>6, <1>8, <1>11
<1>. QED
    BY <1>9, <1>10, <1>11

(* And of the same subject.                                                    *)
LEMMA SameSubject ==
    ASSUME NEW rule, NEW other, other.subject = rule.subject,
           \/ rule.subject.type # "iri"
           \/ HasColon(rule.subject.parts) /\ ~rule.columnSubject /\ ~other.columnSubject
    PROVE MeaningOfSubject(other) = MeaningOfSubject(rule)
<1>1. PICK term : term = rule.subject
    OBVIOUS
<1>2. CASE term.type # "iri"
    <2>1. MeaningOfSubject(rule) = Made(term, term.parts, FALSE, rule.base)
          /\ MeaningOfSubject(other) = Made(term, term.parts, FALSE, other.base)
        BY <1>1, <1>2 DEF MeaningOfSubject
    <2>. QED
        BY <1>2, <2>1, BaseUnused
<1>3. CASE term.type = "iri"
    <2>1. MeaningOfSubject(rule) = Made(term, term.parts, TRUE, rule.base)
          /\ MeaningOfSubject(other) = Made(term, term.parts, TRUE, other.base)
        BY <1>1, <1>3 DEF MeaningOfSubject
    <2>2. HasColon(term.parts)
        BY <1>1, <1>3
    <2>3. Made(term, term.parts, TRUE, other.base) = Made(term, term.parts, TRUE, rule.base)
        BY <2>2, BaseUnused
    <2>. QED
        BY <2>1, <2>3
<1>. QED
    BY <1>2, <1>3

(* The subject of a rule is read from a native target as it was.               *)
LEMMA SubjectThroughNative ==
    ASSUME NEW rule, Formed(rule), ~LostInNative(rule)
    PROVE LET token == TokenOf(rule.subject, ~rule.columnSubject, rule.base)
          IN  ~SubjectFails(token) /\ SubjectRead(token) = rule.subject
<1>1. PICK term : term = rule.subject
    OBVIOUS
<1>2. PICK token : token = TokenOf(rule.subject, ~rule.columnSubject, rule.base)
    OBVIOUS
<1>3. term = Term(term.type, term.parts, "angled") /\ term.type \in {"iri", "blank"} /\ term.form = "angled"
    BY <1>1 DEF Formed, Term
<1>4. CASE term.type = "iri"
    <2>1. HasColon(term.parts)
        BY <1>1, <1>4 DEF LostInNative, Relative
    <2>2. token = Token("iri", term.parts)
        BY <1>1, <1>2, <1>4, <2>1 DEF TokenOf
    <2>3. token.form = "iri" /\ token.parts = term.parts
        BY <2>2 DEF Token
    <2>4. SubjectRead(token) = Term("iri", term.parts, "angled")
        BY <2>3 DEF SubjectRead
    <2>5. ~SubjectFails(token)
        BY <2>3 DEF SubjectFails, IsCut
    <2>. QED
        BY <1>1, <1>2, <1>3, <1>4, <2>4, <2>5
<1>5. CASE term.type = "blank"
    <2>1. token = [Token("blank", term.parts) EXCEPT !.angled = (term.form = "angled")]
        BY <1>1, <1>2, <1>5 DEF TokenOf
    <2>2. token.form = "blank" /\ token.parts = term.parts /\ token.angled = TRUE
        BY <1>3, <2>1 DEF Token
    <2>3. SubjectRead(token) = Term("blank", term.parts, "angled")
        BY <2>2 DEF SubjectRead
    <2>4. ~SubjectFails(token)
        BY <2>2 DEF SubjectFails, IsCut
    <2>. QED
        BY <1>1, <1>2, <1>3, <1>5, <2>3, <2>4
<1>. QED
    BY <1>3, <1>4, <1>5

(* So is its object, or a literal in quotes that says the same.                *)
LEMMA ObjectThroughNative ==
    ASSUME NEW rule, Formed(rule), ~LostInNative(rule), ~RefusedInNative(rule)
    PROVE LET token == TokenOf(rule.object, rule.templateObject, rule.base)
              term == rule.object
          IN  /\ ~ObjectFails(token)
              /\ \/ ObjectRead(token) = term /\ (term.type # "iri" \/ (HasColon(term.parts) /\ term.form # "quoted"))
                 \/ /\ ~HasSlot(term.parts) /\ term.form = "quoted" /\ term.type = "literal" /\ term.infers = FALSE
                    /\ ObjectRead(token) = LiteralTerm(term.parts, "plain", term.datatype, term.language, FALSE)
<1>1. PICK term : term = rule.object
    OBVIOUS
<1>2. PICK token : token = TokenOf(rule.object, rule.templateObject, rule.base)
    OBVIOUS
<1>3. ObjectFormed(term) /\ (term.datatype = None \/ term.language = None)
    BY <1>1 DEF Formed, HasOneSuffix
<1>4. CASE term.type \in {"iri", "blank"} /\ term.form \in {"angled", "plain"} /\ term = Term(term.type, term.parts, term.form)
    <2>1. term.type = "iri" /\ term.form = "angled" /\ HasColon(term.parts)
        BY <1>1, <1>4 DEF LostInNative, Relative
    <2>2. token = Token("iri", term.parts)
        BY <1>1, <1>2, <2>1 DEF TokenOf
    <2>3. token.form = "iri" /\ token.parts = term.parts
        BY <2>2 DEF Token
    <2>4. ObjectRead(token) = Term("iri", term.parts, "angled")
        BY <2>3 DEF ObjectRead
    <2>5. ~ObjectFails(token)
        BY <2>3 DEF ObjectFails, IsCut, IsPrefixed
    <2>6. ObjectRead(token) = term
        BY <1>4, <2>1, <2>4
    <2>. QED
        BY <1>1, <1>2, <2>1, <2>5, <2>6
<1>5. CASE term = LiteralTerm(term.parts, "quoted", term.datatype, term.language, FALSE)
    <2>1. term.type = "literal" /\ term.form = "quoted" /\ term.infers = FALSE
        BY <1>5 DEF LiteralTerm, Term
    <2>2. ~HasSlot(term.parts)
        BY <1>1, <2>1 DEF LostInNative, IsConstantWithSlots
    <2>3. token = [Token("quoted", term.parts) EXCEPT !.datatype = IF term.language = None THEN term.datatype ELSE None,
                                                       !.language = term.language]
        BY <1>1, <1>2, <2>1 DEF TokenOf
    <2>4. token.form = "quoted" /\ token.parts = term.parts /\ token.language = term.language
          /\ token.datatype = IF term.language = None THEN term.datatype ELSE None
        BY <2>3 DEF Token
    <2>5. token.datatype = term.datatype
        BY <1>3, <2>4
    <2>6. ~ObjectFails(token)
        BY <2>4 DEF ObjectFails, IsCut, IsPrefixed
    <2>7. ~IsPrefixed(token)
        BY <2>4 DEF IsPrefixed
    <2>8. ObjectRead(token) = LiteralTerm(token.parts, "plain", token.datatype, token.language, FALSE)
        BY <2>4, <2>7 DEF ObjectRead
    <2>. QED
        BY <1>1, <1>2, <2>1, <2>2, <2>4, <2>5, <2>6, <2>8
<1>6. CASE /\ term = LiteralTerm(term.parts, "plain", term.datatype, term.language, TRUE)
           /\ term.datatype # None => IsSlot(Head(term.parts))
    <2>1. term.type = "literal" /\ term.form = "plain" /\ term.infers = TRUE
        BY <1>6 DEF LiteralTerm, Term
    <2>3. token = [Token("bare", term.parts) EXCEPT !.datatype = IF term.language = None THEN term.datatype ELSE None,
                                                     !.language = term.language]
        BY <1>1, <1>2, <2>1 DEF TokenOf
    <2>4. token.form = "bare" /\ token.parts = term.parts /\ token.language = term.language
          /\ token.datatype = IF term.language = None THEN term.datatype ELSE None
        BY <2>3 DEF Token
    <2>5. token.datatype = term.datatype
        BY <1>3, <2>4
    <2>6. ~HasBreak(term.parts) /\ (~IsSlot(Head(term.parts)) => ~HasColon(term.parts))
        BY <1>1, <2>1 DEF RefusedInNative
    <2>7. ~IsCut(token) /\ ~IsPrefixed(token)
        BY <1>6, <2>4, <2>5, <2>6 DEF IsCut, IsPrefixed
    <2>8. ObjectRead(token) = LiteralTerm(token.parts, "plain", token.datatype, token.language, TRUE)
        BY <2>4, <2>7 DEF ObjectRead
    <2>9. ObjectRead(token) = term
        BY <1>6, <2>4, <2>5, <2>8
    <2>10. ~ObjectFails(token)
        BY <2>7 DEF ObjectFails
    <2>. QED
        BY <1>1, <1>2, <2>1, <2>9, <2>10
<1>. QED
    BY <1>3, <1>4, <1>5, <1>6 DEF ObjectFormed

(* A rule of R2RML makes the same terms when it is read from a native target.  *)
LEMMA RuleThroughNative ==
    ASSUME NEW rule, Formed(rule), ~LostInNative(rule), ~RefusedInNative(rule)
    PROVE LET triple == NativeTriple(rule)
              target == Target(triple.graph, triple.subject, triple.pairs)
          IN  ~TargetFails(target) /\ \E read : RulesOfTarget(target, rule.source) = {read} /\ Meaning(read) = Meaning(rule)
<1>1. PICK subject : subject = TokenOf(rule.subject, ~rule.columnSubject, rule.base)
    OBVIOUS
<1>2. PICK object : object = TokenOf(rule.object, rule.templateObject, rule.base)
    OBVIOUS
<1>3. PICK pair : pair = [predicate |-> rule.predicate, object |-> object]
    OBVIOUS
<1>4. PICK target : target = Target(rule.graph, subject, <<pair>>)
    OBVIOUS
<1>5. LET triple == NativeTriple(rule) IN triple.graph = rule.graph /\ triple.subject = subject /\ triple.pairs = <<pair>>
    BY <1>1, <1>2, <1>3 DEF NativeTriple
<1>6. target.graph = rule.graph /\ target.subject = subject /\ target.pairs = <<pair>>
    BY <1>4 DEF Target
<1>7. ToSet(target.pairs) = {pair} /\ target.pairs # <<>>
    BY <1>6 DEF ToSet
<1>8. pair.object = object /\ pair.predicate = rule.predicate
    BY <1>3
<1>9. ~SubjectFails(subject) /\ SubjectRead(subject) = rule.subject
    BY <1>1, SubjectThroughNative
<1>10. /\ ~ObjectFails(object)
       /\ LET term == rule.object
          IN \/ ObjectRead(object) = term /\ (term.type # "iri" \/ (HasColon(term.parts) /\ term.form # "quoted"))
             \/ /\ ~HasSlot(term.parts) /\ term.form = "quoted" /\ term.type = "literal" /\ term.infers = FALSE
                /\ ObjectRead(object) = LiteralTerm(term.parts, "plain", term.datatype, term.language, FALSE)
    BY <1>2, ObjectThroughNative
<1>11. ~TargetFails(target)
    <2>1. \A p \in ToSet(target.pairs) : p = pair
        BY <1>7
    <2>. QED
        BY <1>6, <1>7, <1>8, <1>9, <1>10, <2>1 DEF TargetFails
<1>12. PICK read : read = Rule(SubjectRead(subject), rule.predicate, ObjectRead(object), rule.graph, rule.source)
    OBVIOUS
<1>13. RulesOfTarget(target, rule.source) = {read}
    BY <1>6, <1>7, <1>8, <1>12 DEF RulesOfTarget
<1>14. /\ read.subject = rule.subject /\ read.predicate = rule.predicate /\ read.object = ObjectRead(object)
       /\ read.graph = rule.graph /\ read.source = rule.source /\ read.columnSubject = FALSE /\ read.base = None
    BY <1>9, <1>12 DEF Rule
<1>15. MeaningOfSubject(read) = MeaningOfSubject(rule)
    <2>1. rule.subject.type = "iri" => HasColon(rule.subject.parts) /\ ~rule.columnSubject
        BY DEF LostInNative, Relative
    <2>2. ~read.columnSubject
        BY <1>14
    <2>. QED
        BY <1>14, <2>1, <2>2, SameSubject
<1>16. MeaningOfObject(read) = MeaningOfObject(rule)
    <2>1. PICK term : term = rule.object
        OBVIOUS
    <2>2. CASE ObjectRead(object) = term /\ (term.type # "iri" \/ (HasColon(term.parts) /\ term.form # "quoted"))
        BY <1>14, <2>1, <2>2, SameObject
    <2>3. CASE /\ ~HasSlot(term.parts) /\ term.form = "quoted" /\ term.type = "literal" /\ term.infers = FALSE
               /\ ObjectRead(object) = LiteralTerm(term.parts, "plain", term.datatype, term.language, FALSE)
        <3>1. PICK new : new = ObjectRead(object)
            OBVIOUS
        <3>2. /\ new.type = "literal" /\ new.parts = term.parts /\ new.form = "plain" /\ new.infers = FALSE
              /\ new.datatype = term.datatype /\ new.language = term.language
            BY <2>3, <3>1 DEF LiteralTerm, Term
        <3>3. Len(Slots(term.parts)) # 1
            <4>1. Slots(term.parts) = <<>>
                BY <2>3 DEF HasSlot
            <4>2. Len(<<>>) = 0
                OBVIOUS
            <4>. QED
                BY <4>1, <4>2
        <3>4. MeaningOfObject(rule) = Made(term, term.parts, FALSE, rule.base)
            BY <2>1, <2>3 DEF MeaningOfObject
        <3>5. MeaningOfObject(read) = Made(new, term.parts, FALSE, read.base)
            BY <1>14, <2>3, <3>1, <3>2, <3>3 DEF MeaningOfObject
        <3>6. Made(new, term.parts, FALSE, read.base) = Made(term, term.parts, FALSE, rule.base)
            BY <2>3, <3>2 DEF Made
        <3>. QED
            BY <3>4, <3>5, <3>6
    <2>. QED
        BY <1>10, <2>1, <2>2, <2>3
<1>. QED
    BY <1>4, <1>5, <1>11, <1>13, <1>14, <1>15, <1>16 DEF Meaning

(* A mapping that to-obda writes has the meanings of the rules it is of.       *)
LEMMA ObdaKeepsMeanings ==
    ASSUME NEW rules, CanBeListed(rules), rules # {},
           \A rule \in rules : Formed(rule) /\ ~LostInNative(rule) /\ ~RefusedInNative(rule)
    PROVE ~NativeFails(NativeText(rules)) /\ Meanings(NativeRules(NativeText(rules))) = Meanings(rules)
<1> DEFINE some == SetToSeq(rules)
           target(i) == LET triple == NativeTriple(some[i]) IN Target(triple.graph, triple.subject, triple.pairs)
           section(i) == <<MappingId(i), target(i), some[i].source>>
           sections == [i \in DOMAIN some |-> section(i)]
<1>1. some \in Seq(rules) /\ ToSet(some) = rules
    BY SetToSeqElements DEF CanBeListed
<1>2. NativeText(rules) = MappingOf(sections)
    BY DEF NativeText, MappingOf
<1> HIDE DEF some
<1>3. Len(some) \in Nat /\ DOMAIN some = 1..Len(some) /\ \A i \in DOMAIN some : some[i] \in rules
    BY <1>1
<1>4. ASSUME NEW i \in DOMAIN some
      PROVE IsSection(section(i)) /\ section(i) # <<>> /\ section(i)[2] = target(i) /\ section(i)[3] = some[i].source
            /\ section(i) \in Seq(ToSet(section(i)))
    <2>1. Is(MappingId(i), "mappingId")
        BY DEF Is, MappingId
    <2>2. Is(target(i), "target")
        BY DEF Is, Target
    <2>3. Is(some[i].source, "source")
        BY <1>3 DEF CanBeListed, IsSource
    <2>4. PICK id : id = MappingId(i)
        OBVIOUS
    <2>5. PICK goal : goal = target(i)
        OBVIOUS
    <2>6. PICK source : source = some[i].source
        OBVIOUS
    <2>7. PICK lines : lines = section(i)
        OBVIOUS
    <2>8. lines = <<id, goal, source>>
        BY <2>4, <2>5, <2>6, <2>7
    <2>9. Len(lines) = 3 /\ lines[1] = id /\ lines[2] = goal /\ lines[3] = source /\ lines \in Seq({id, goal, source})
        BY <2>8
    <2>10. lines # <<>>
        <3> SUFFICES ASSUME lines = <<>> PROVE FALSE
            OBVIOUS
        <3>1. Len(lines) = 0
            OBVIOUS
        <3>. QED
            BY <2>9, <3>1
    <2>11. IsSection(lines)
        BY <2>1, <2>2, <2>3, <2>4, <2>5, <2>6, <2>9 DEF IsSection
    <2>12. lines \in Seq(ToSet(lines))
        BY <2>9, SequenceOfItself
    <2>. QED
        BY <2>5, <2>6, <2>7, <2>9, <2>10, <2>11, <2>12
<1> HIDE DEF section, target
<1>5. PICK S : sections \in Seq(Seq(S))
    <2> DEFINE S == UNION {ToSet(section(i)) : i \in 1..Len(some)}
    <2>1. ASSUME NEW i \in 1..Len(some) PROVE sections[i] \in Seq(S)
        <3>1. section(i) \in Seq(ToSet(section(i))) /\ ToSet(section(i)) \subseteq S
            BY <1>3, <1>4
        <3> HIDE DEF S
        <3>2. section(i) \in Seq(S)
            BY <3>1, SeqMonotonic
        <3>. QED
            BY <1>3, <3>2
    <2> HIDE DEF S
    <2>2. DOMAIN sections = 1..Len(some) /\ sections = [i \in 1..Len(some) |-> sections[i]]
        BY <1>3
    <2> HIDE DEF sections
    <2>3. sections \in Seq(Seq(S))
        BY <1>3, <2>1, <2>2
    <2>. QED
        BY <2>3
<1>6. DOMAIN sections = DOMAIN some /\ \A i \in DOMAIN some : sections[i] = section(i)
    OBVIOUS
<1> HIDE DEF sections
<1>7. AreSections(sections) /\ {i \in DOMAIN sections : sections[i] # <<>>} = DOMAIN some
    BY <1>4, <1>6 DEF AreSections
<1>8. PICK one \in DOMAIN sections : sections[one] # <<>>
    <2>1. DOMAIN some # {}
        BY <1>1 DEF ToSet
    <2>. QED
        BY <1>4, <1>6, <2>1
<1>9. PICK text : text = MappingOf(sections)
    OBVIOUS
<1>10. /\ NativeFails(text) => \E i \in DOMAIN some : SourceFails(sections[i][3]) \/ TargetFails(sections[i][2])
       /\ NativeRules(text) = UNION {RulesOfTarget(sections[i][2], sections[i][3]) : i \in DOMAIN some}
    BY <1>5, <1>7, <1>8, <1>9, MappingIsRead
<1>11. ASSUME NEW i \in DOMAIN some
       PROVE /\ ~SourceFails(sections[i][3]) /\ ~TargetFails(sections[i][2])
             /\ \E read : RulesOfTarget(sections[i][2], sections[i][3]) = {read} /\ Meaning(read) = Meaning(some[i])
    <2>1. some[i] \in rules /\ sections[i][2] = target(i) /\ sections[i][3] = some[i].source
        BY <1>3, <1>4, <1>6
    <2>2. PICK rule : rule = some[i]
        OBVIOUS
    <2>3. Formed(rule) /\ ~LostInNative(rule) /\ ~RefusedInNative(rule)
        BY <2>1, <2>2
    <2>4. LET triple == NativeTriple(rule)
              goal == Target(triple.graph, triple.subject, triple.pairs)
          IN  ~TargetFails(goal) /\ \E read : RulesOfTarget(goal, rule.source) = {read} /\ Meaning(read) = Meaning(rule)
        BY <2>3, RuleThroughNative
    <2>5. ~SourceFails(rule.source)
        BY <2>3 DEF Formed
    <2>. QED
        BY <2>1, <2>2, <2>4, <2>5 DEF target
<1>12. ~NativeFails(text)
    BY <1>10, <1>11
<1>13. Meanings(NativeRules(text)) = Meanings(rules)
    <2>1. ASSUME NEW rule \in NativeRules(text) PROVE Meaning(rule) \in Meanings(rules)
        <3>1. PICK i \in DOMAIN some : rule \in RulesOfTarget(sections[i][2], sections[i][3])
            BY <1>10
        <3>2. Meaning(rule) = Meaning(some[i]) /\ some[i] \in rules
            BY <1>3, <1>11, <3>1
        <3>. QED
            BY <3>2 DEF Meanings
    <2>2. ASSUME NEW rule \in rules PROVE Meaning(rule) \in Meanings(NativeRules(text))
        <3>1. PICK i \in DOMAIN some : some[i] = rule
            BY <1>1 DEF ToSet
        <3>2. PICK read : RulesOfTarget(sections[i][2], sections[i][3]) = {read} /\ Meaning(read) = Meaning(rule)
            BY <1>11, <3>1
        <3>3. read \in NativeRules(text)
            BY <1>10, <3>2
        <3>. QED
            BY <3>2, <3>3 DEF Meanings
    <2>. QED
        BY <2>1, <2>2 DEF Meanings
<1>. QED
    BY <1>2, <1>9, <1>12, <1>13

\* What is read from a target.
ObjectOfTarget(term) ==
    \/ term.type = "blank" /\ term = Term("blank", term.parts, "plain")
    \/ term.type = "iri" /\ term = Term("iri", term.parts, "angled")
    \/ term.type = "iri" /\ term = Term("iri", term.parts, "plain")
    \/ term = LiteralTerm(term.parts, "plain", term.datatype, term.language, FALSE)
    \/ term = LiteralTerm(term.parts, "plain", term.datatype, term.language, TRUE)
OfTarget(rule) ==
    /\ rule.subject.type \in {"iri", "blank"} /\ rule.subject = Term(rule.subject.type, rule.subject.parts, rule.subject.form)
    /\ ObjectOfTarget(rule.object) /\ HasOneSuffix(rule.object)
    /\ rule.base = None /\ rule.columnSubject = FALSE
    /\ ~SourceFails(rule.source)

(* The object of a rule is kept by its term map, but for how it is enclosed.   *)
LEMMA ObjectThroughR2rml ==
    ASSUME NEW term, ObjectOfTarget(term), HasOneSuffix(term), NEW rule, rule.object = term, ~LostInR2rml(rule)
    PROVE LET map == TermMapOf(term, FALSE)
          IN  /\ map.kind # "parent" /\ ~MapFails(map)
              /\ \/ ObjectOfMap(map) = term
                 \/ /\ term.form = "plain" /\ term.type = "iri" /\ HasSlot(term.parts) /\ ~IsSlot(Head(term.parts))
                    /\ term = Term("iri", term.parts, "plain") /\ ObjectOfMap(map) = Term("iri", term.parts, "angled")
                 \/ /\ ~HasSlot(term.parts)
                    /\ term = LiteralTerm(term.parts, "plain", term.datatype, term.language, FALSE)
                    /\ ObjectOfMap(map) = LiteralTerm(term.parts, "quoted", term.datatype, term.language, FALSE)
<1>0. None = "none"
    BY DEF None
<1>1. PICK map : map = TermMapOf(term, FALSE)
    OBVIOUS
<1>2. CASE term.type = "blank" /\ term = Term("blank", term.parts, "plain")
    <2>1. map.kind = "template" /\ map.parts = term.parts /\ map.termType = "blank"
        BY <1>1, <1>2 DEF TermMapOf, TermMap
    <2>2. ObjectOfMap(map) = Term("blank", term.parts, "plain")
        BY <1>0, <2>1 DEF ObjectOfMap, TypeOfMap
    <2>3. ~MapFails(map)
        BY <2>1 DEF MapFails
    <2>. QED
        BY <1>1, <1>2, <2>1, <2>2, <2>3
<1>3. CASE term.type = "iri"
    <2>1. /\ map.kind = IF HasSlot(term.parts) THEN "template" ELSE "constant IRI"
          /\ map.parts = term.parts /\ map.termType = None
        BY <1>1, <1>3 DEF TermMapOf, TermMap
    <2>2. ObjectOfMap(map) = Term("iri", term.parts, "angled")
        BY <1>0, <2>1 DEF ObjectOfMap, TypeOfMap
    <2>3. ~MapFails(map) /\ map.kind # "parent"
        BY <2>1 DEF MapFails
    <2>4. CASE term = Term("iri", term.parts, "angled")
        BY <1>1, <2>2, <2>3, <2>4
    <2>5. CASE term = Term("iri", term.parts, "plain")
        <3>1. term.form = "plain"
            BY <2>5 DEF Term
        <3>2. HasSlot(term.parts) /\ ~IsSlot(Head(term.parts))
            BY <1>3, <3>1 DEF LostInR2rml
        <3>. QED
            BY <1>1, <1>3, <2>2, <2>3, <2>5, <3>1, <3>2
    <2>6. term.type = "literal" => FALSE
        BY <1>3
    <2>7. term = LiteralTerm(term.parts, "plain", term.datatype, term.language, FALSE) => term.type = "literal"
        BY DEF LiteralTerm, Term
    <2>8. term = LiteralTerm(term.parts, "plain", term.datatype, term.language, TRUE) => term.type = "literal"
        BY DEF LiteralTerm, Term
    <2>. QED
        BY <1>3, <2>4, <2>5, <2>6, <2>7, <2>8 DEF ObjectOfTarget
<1>4. CASE term = LiteralTerm(term.parts, "plain", term.datatype, term.language, FALSE)
    <2>1. term.type = "literal" /\ term.form = "plain" /\ term.infers = FALSE
        BY <1>4 DEF LiteralTerm, Term
    <2>2. ~HasSlot(term.parts)
        BY <2>1 DEF LostInR2rml
    <2>3. map = [TermMap("constant literal", term.parts, None) EXCEPT
                    !.datatype = IF term.language = None THEN term.datatype ELSE None, !.language = term.language]
        BY <1>1, <2>1 DEF TermMapOf
    <2>4. map.kind = "constant literal" /\ map.parts = term.parts /\ map.language = term.language
          /\ map.datatype = IF term.language = None THEN term.datatype ELSE None
        BY <2>3 DEF TermMap
    <2>5. map.datatype = term.datatype
        BY <2>4 DEF HasOneSuffix
    <2>6. ObjectOfMap(map) = LiteralTerm(term.parts, "quoted", term.datatype, term.language, FALSE)
        BY <2>4, <2>5 DEF ObjectOfMap
    <2>7. ~MapFails(map)
        BY <2>4, <2>5 DEF MapFails, HasOneSuffix
    <2>. QED
        BY <1>1, <1>4, <2>2, <2>4, <2>6, <2>7
<1>5. CASE term = LiteralTerm(term.parts, "plain", term.datatype, term.language, TRUE)
    <2>1. term.type = "literal" /\ term.form = "plain" /\ term.infers = TRUE
        BY <1>5 DEF LiteralTerm, Term
    <2> DEFINE wholly == IsSlot(Head(term.parts)) /\ IsSlot(Last(term.parts))
               plain == IF wholly THEN TermMap("column", term.parts, None) ELSE TermMap("template", term.parts, "literal")
    <2>2. map = [plain EXCEPT !.datatype = IF term.language = None THEN term.datatype ELSE None, !.language = term.language]
        BY <1>1, <2>1 DEF TermMapOf
    <2>3. /\ DOMAIN plain = {"kind", "parts", "termType", "datatype", "language"} /\ plain.parts = term.parts
          /\ wholly => plain.kind = "column" /\ plain.termType = None
          /\ ~wholly => plain.kind = "template" /\ plain.termType = "literal"
        BY DEF TermMap
    <2> HIDE DEF plain
    <2>4. /\ map.parts = term.parts /\ map.kind = plain.kind /\ map.termType = plain.termType /\ map.language = term.language
          /\ map.datatype = IF term.language = None THEN term.datatype ELSE None
        BY <2>2, <2>3
    <2>5. map.datatype = term.datatype
        BY <2>4 DEF HasOneSuffix
    <2>6. ~wholly => term.datatype = None /\ term.language = None
        BY <2>1 DEF LostInR2rml
    <2> HIDE DEF wholly
    <2>7. CASE wholly
        <3>1. map.kind = "column" /\ map.termType = None
            BY <2>3, <2>4, <2>7
        <3>2. ObjectOfMap(map) = LiteralTerm(term.parts, "plain", term.datatype, term.language, TRUE)
            BY <1>0, <2>4, <2>5, <3>1 DEF ObjectOfMap, TypeOfMap
        <3>3. ~MapFails(map)
            BY <2>4, <2>5, <3>1 DEF MapFails, HasOneSuffix
        <3>. QED
            BY <1>1, <1>5, <3>1, <3>2, <3>3
    <2>8. CASE ~wholly
        <3>1. map.kind = "template" /\ map.termType = "literal"
            BY <2>3, <2>4, <2>8
        <3>2. ObjectOfMap(map) = LiteralTerm(term.parts, "plain", None, None, TRUE)
            BY <1>0, <2>4, <3>1 DEF ObjectOfMap, TypeOfMap
        <3>3. ~MapFails(map)
            BY <3>1 DEF MapFails
        <3>. QED
            BY <1>1, <1>5, <2>6, <2>8, <3>1, <3>2, <3>3
    <2>. QED
        BY <2>7, <2>8
<1>. QED
    BY <1>2, <1>3, <1>4, <1>5 DEF ObjectOfTarget

(* So is its subject, a blank node in < >.                                     *)
LEMMA SubjectThroughR2rml ==
    ASSUME NEW term, term.type \in {"iri", "blank"}, term = Term(term.type, term.parts, term.form),
           NEW isSubject, NEW map, map = TermMapOf(term, isSubject), NEW new, new = SubjectOfMap(map)
    PROVE /\ map.kind # "column" /\ new.type = term.type /\ new.parts = term.parts
          /\ new.datatype = term.datatype /\ new.language = term.language /\ new.infers = term.infers
<1>0. None = "none"
    BY DEF None
<1>1. map.kind # "column" /\ map.parts = term.parts /\ map.termType = IF term.type = "blank" THEN "blank" ELSE None
    <2>1. CASE term.type = "iri"
        BY <2>1 DEF TermMapOf, TermMap
    <2>2. CASE term.type = "blank"
        BY <2>2 DEF TermMapOf, TermMap
    <2>. QED
        BY <2>1, <2>2
<1>2. TypeOfMap(map, "iri") = term.type
    BY <1>0, <1>1 DEF TypeOfMap
<1>3. SubjectOfMap(map) = Term(term.type, term.parts, "angled")
    BY <1>1, <1>2 DEF SubjectOfMap
<1>4. /\ new.type = term.type /\ new.parts = term.parts
      /\ new.datatype = None /\ new.language = None /\ new.infers = FALSE
    BY <1>3 DEF Term
<1>5. term.datatype = None /\ term.language = None /\ term.infers = FALSE
    BY DEF Term
<1>. QED
    BY <1>1, <1>4, <1>5

(* A rule of a target makes the same terms when it is read from R2RML.         *)
LEMMA RuleThroughR2rml ==
    ASSUME NEW rule, OfTarget(rule), ~LostInR2rml(rule)
    PROVE LET map == TriplesMapOf(rule)
          IN  /\ Is(map, "triples map") /\ ~TriplesMapFails(map) /\ ~SourceFails(map.source)
              /\ \A object \in ToSet(map.objects) : ~ParentFails(object.map)
              /\ \E read : RulesOfTriplesMap(map) = {read} /\ Meaning(read) = Meaning(rule)
<1>1. PICK subject : subject = TermMapOf(rule.subject, TRUE)
    OBVIOUS
<1>2. PICK term : term = TermMapOf(rule.object, FALSE)
    OBVIOUS
<1>3. PICK object : object = ObjectMap(rule.predicate, term, <<>>)
    OBVIOUS
<1>4. PICK graphs : graphs = IF rule.graph = <<>> THEN <<>> ELSE <<rule.graph>>
    OBVIOUS
<1>5. PICK map : map = TriplesMap(rule.source, subject, graphs, <<object>>, None)
    OBVIOUS
<1>6. map = TriplesMapOf(rule)
    BY <1>1, <1>2, <1>3, <1>4, <1>5 DEF TriplesMapOf
<1>7. /\ map.t = "triples map" /\ map.source = rule.source /\ map.subject = subject /\ map.classes = {} /\ map.graphs = graphs
      /\ map.objects = <<object>> /\ map.base = None
    BY <1>5 DEF TriplesMap
<1>8. object.predicate = rule.predicate /\ object.map = term /\ object.graphs = <<>>
    BY <1>3 DEF ObjectMap
<1>9. ToSet(map.objects) = {object} /\ map.objects # <<>>
    <2>1. ToSet(<<object>>) = {object}
        BY DEF ToSet
    <2>2. Len(<<object>>) = 1 /\ Len(<<>>) = 0
        OBVIOUS
    <2>3. <<object>> # <<>>
        <3> SUFFICES ASSUME <<object>> = <<>> PROVE FALSE
            OBVIOUS
        <3>. QED
            BY <2>2
    <2>. QED
        BY <1>7, <2>1, <2>3
<1>10. \A other \in ToSet(map.objects) : other = object
    BY <1>9
<1>11. PICK old : old = rule.object
    OBVIOUS
<1>12. /\ term.kind # "parent" /\ ~MapFails(term)
       /\ \/ ObjectOfMap(term) = old
          \/ /\ old.form = "plain" /\ old.type = "iri" /\ HasSlot(old.parts) /\ ~IsSlot(Head(old.parts))
             /\ old = Term("iri", old.parts, "plain") /\ ObjectOfMap(term) = Term("iri", old.parts, "angled")
          \/ /\ ~HasSlot(old.parts)
             /\ old = LiteralTerm(old.parts, "plain", old.datatype, old.language, FALSE)
             /\ ObjectOfMap(term) = LiteralTerm(old.parts, "quoted", old.datatype, old.language, FALSE)
    BY <1>2, <1>11, ObjectThroughR2rml DEF OfTarget
<1>13. Is(map, "triples map") /\ ~TriplesMapFails(map) /\ ~SourceFails(map.source)
    BY <1>7, <1>8, <1>9, <1>10, <1>12 DEF Is, TriplesMapFails, OfTarget
<1>14. \A other \in ToSet(map.objects) : ~ParentFails(other.map)
    BY <1>8, <1>10, <1>12 DEF ParentFails
<1>15. PICK read : read = RuleOfObject(map, object, rule.graph)
    OBVIOUS
<1>16. RuleGraphs(map, object) = {rule.graph}
    <2>1. ToSet(object.graphs) = {}
        BY <1>8 DEF ToSet
    <2>2. CASE rule.graph = <<>>
        <3>0. map.graphs = <<>> /\ DOMAIN map.graphs = {}
            <4>1. map.graphs = <<>>
                BY <1>4, <1>7, <2>2
            <4>2. <<>> \in Seq({}) /\ Len(<<>>) = 0
                OBVIOUS
            <4>3. DOMAIN map.graphs = 1..0
                BY <4>1, <4>2
            <4>. QED
                BY <4>1, <4>3
        <3>1. FirstGraph(map) = {}
            BY <3>0 DEF FirstGraph
        <3>. QED
            BY <2>1, <2>2, <3>1 DEF RuleGraphs, OrDefault
    <2>3. CASE rule.graph # <<>>
        <3>1. map.graphs = <<rule.graph>>
            BY <1>4, <1>7, <2>3
        <3>2. FirstGraph(map) = {rule.graph}
            BY <3>1 DEF FirstGraph
        <3>. QED
            BY <2>1, <3>2 DEF RuleGraphs, OrDefault
    <2>. QED
        BY <2>2, <2>3
<1>17. RulesOfTriplesMap(map) = {read}
    <2> DEFINE ofObject(other) == {RuleOfObject(map, other, graph) : graph \in RuleGraphs(map, other)}
               ofClass(class) == {RuleOfClass(map, class, graph) : graph \in OrDefault(FirstGraph(map))}
               ofObjects == UNION {ofObject(other) : other \in ToSet(map.objects)}
               ofClasses == UNION {ofClass(class) : class \in map.classes}
    <2>1. RulesOfTriplesMap(map) = ofObjects \cup ofClasses
        BY DEF RulesOfTriplesMap
    <2>2. ofObject(object) = {read}
        BY <1>15, <1>16
    <2> HIDE DEF ofObject, ofClass
    <2>3. ofObjects = ofObject(object)
        BY <1>9
    <2>4. ofClasses = {}
        BY <1>7
    <2> HIDE DEF ofObjects, ofClasses
    <2>. QED
        BY <2>1, <2>2, <2>3, <2>4
<1>18. PICK made : made = RuleOfMap(map, object.predicate, ObjectOfMap(object.map), rule.graph)
    OBVIOUS
<1>19. /\ DOMAIN made = {"subject", "columnSubject", "predicate", "object", "templateObject", "graph", "source", "base"}
       /\ made.subject = SubjectOfMap(subject) /\ made.columnSubject = (subject.kind = "column")
       /\ made.predicate = rule.predicate /\ made.object = ObjectOfMap(term) /\ made.graph = rule.graph
       /\ made.source = rule.source /\ made.base = None
    <2>1. PICK predicate : predicate = object.predicate
        OBVIOUS
    <2>2. PICK value : value = ObjectOfMap(object.map)
        OBVIOUS
    <2>3. made = RuleOfMap(map, predicate, value, rule.graph)
        BY <1>18, <2>1, <2>2
    <2>4. /\ DOMAIN made = {"subject", "columnSubject", "predicate", "object", "templateObject", "graph", "source", "base"}
          /\ made.subject = SubjectOfMap(map.subject) /\ made.columnSubject = (map.subject.kind = "column")
          /\ made.predicate = predicate /\ made.object = value /\ made.graph = rule.graph
          /\ made.source = map.source /\ made.base = map.base
        BY <2>3, RuleFields
    <2>. QED
        BY <1>7, <1>8, <2>1, <2>2, <2>4
<1>20. SourceOfMap(object.map, made.source) = rule.source
    BY <1>8, <1>12, <1>19 DEF SourceOfMap
<1>21. /\ read.subject = SubjectOfMap(subject) /\ read.columnSubject = (subject.kind = "column")
       /\ read.predicate = rule.predicate /\ read.object = ObjectOfMap(term) /\ read.graph = rule.graph
       /\ read.source = rule.source /\ read.base = None
    BY <1>15, <1>18, <1>19, <1>20 DEF RuleOfObject
<1>22. MeaningOfSubject(read) = MeaningOfSubject(rule)
    <2>1. PICK from : from = rule.subject
        OBVIOUS
    <2>2. from.type \in {"iri", "blank"} /\ from = Term(from.type, from.parts, from.form)
        BY <2>1 DEF OfTarget
    <2>0. PICK isSubject : isSubject = TRUE
        OBVIOUS
    <2>3. subject = TermMapOf(from, isSubject) /\ from.type \in {"iri", "blank"}
        BY <1>1, <2>0, <2>1, <2>2
    <2>4. PICK new : new = read.subject
        OBVIOUS
    <2>5. /\ new.type = from.type /\ new.parts = from.parts /\ new.datatype = from.datatype /\ new.language = from.language
          /\ new.infers = from.infers /\ subject.kind # "column"
        <3>1. new = SubjectOfMap(subject)
            BY <1>21, <2>4
        <3>. QED
            BY <2>2, <2>3, <3>1, SubjectThroughR2rml
    <2>6. PICK encoded : encoded = (from.type = "iri")
        OBVIOUS
    <2>7. MeaningOfSubject(rule) = Made(from, from.parts, encoded, None)
        BY <2>1, <2>6 DEF MeaningOfSubject, OfTarget
    <2>8. MeaningOfSubject(read) = Made(new, from.parts, encoded, None)
        BY <1>21, <2>4, <2>5, <2>6 DEF MeaningOfSubject
    <2>9. Made(new, from.parts, encoded, None) = Made(from, from.parts, encoded, None)
        BY <2>5 DEF Made
    <2>. QED
        BY <2>7, <2>8, <2>9
<1>23. MeaningOfObject(read) = MeaningOfObject(rule)
    <2>0. rule.base = None /\ read.base = None /\ rule.object = old /\ read.object = ObjectOfMap(term)
        BY <1>11, <1>21 DEF OfTarget
    <2>1. CASE ObjectOfMap(term) = old
        BY <2>0, <2>1 DEF MeaningOfObject
    <2>2. CASE /\ old.form = "plain" /\ old.type = "iri" /\ HasSlot(old.parts) /\ ~IsSlot(Head(old.parts))
               /\ old = Term("iri", old.parts, "plain") /\ ObjectOfMap(term) = Term("iri", old.parts, "angled")
        <3>1. PICK new : new = read.object
            OBVIOUS
        <3>2. /\ new.type = old.type /\ new.parts = old.parts /\ new.datatype = old.datatype /\ new.language = old.language
              /\ new.infers = old.infers /\ new.form = "angled"
            <4>1. old.datatype = None /\ old.language = None /\ old.infers = FALSE
                BY <2>2 DEF Term
            <4>2. /\ new.type = "iri" /\ new.parts = old.parts /\ new.datatype = None /\ new.language = None
                  /\ new.infers = FALSE /\ new.form = "angled"
                BY <2>0, <2>2, <3>1 DEF Term
            <4>. QED
                BY <2>2, <4>1, <4>2
        <3>3. MeaningOfObject(rule) = Made(old, old.parts, TRUE, None)
            BY <2>0, <2>2 DEF MeaningOfObject
        <3>4. MeaningOfObject(read) = Made(new, old.parts, TRUE, None)
            BY <2>0, <2>2, <3>1, <3>2 DEF MeaningOfObject
        <3>5. Made(new, old.parts, TRUE, None) = Made(old, old.parts, TRUE, None)
            BY <3>2 DEF Made
        <3>. QED
            BY <3>3, <3>4, <3>5
    <2>3. CASE /\ ~HasSlot(old.parts)
               /\ old = LiteralTerm(old.parts, "plain", old.datatype, old.language, FALSE)
               /\ ObjectOfMap(term) = LiteralTerm(old.parts, "quoted", old.datatype, old.language, FALSE)
        <3>1. PICK new : new = read.object
            OBVIOUS
        <3>2. /\ new.type = "literal" /\ new.parts = old.parts /\ new.datatype = old.datatype /\ new.language = old.language
              /\ new.infers = FALSE /\ new.form = "quoted"
            BY <2>0, <2>3, <3>1 DEF LiteralTerm, Term
        <3>3. old.type = "literal" /\ old.infers = FALSE /\ old.form = "plain"
            BY <2>3 DEF LiteralTerm, Term
        <3>4. Len(Slots(old.parts)) # 1
            <4>1. Slots(old.parts) = <<>>
                BY <2>3 DEF HasSlot
            <4>2. Len(<<>>) = 0
                OBVIOUS
            <4>. QED
                BY <4>1, <4>2
        <3>5. MeaningOfObject(rule) = Made(old, old.parts, FALSE, None)
            BY <2>0, <2>3, <3>3, <3>4 DEF MeaningOfObject
        <3>6. MeaningOfObject(read) = Made(new, old.parts, FALSE, None)
            BY <2>0, <2>3, <3>1, <3>2, <3>4 DEF MeaningOfObject
        <3>7. Made(new, old.parts, FALSE, None) = Made(old, old.parts, FALSE, None)
            BY <3>2, <3>3 DEF Made
        <3>. QED
            BY <3>5, <3>6, <3>7
    <2>. QED
        BY <1>12, <2>1, <2>2, <2>3
<1>24. Meaning(read) = Meaning(rule)
    BY <1>21, <1>22, <1>23 DEF Meaning
<1>. QED
    BY <1>6, <1>13, <1>14, <1>17, <1>24

(* The rules of a native document are of such terms, and there is one.         *)
LEMMA RulesOfTargets ==
    ASSUME NEW text, IsText(text), ~NativeFails(text)
    PROVE NativeRules(text) # {} /\ \A rule \in NativeRules(text) : OfTarget(rule)
<1>1. ASSUME NEW token PROVE SubjectRead(token).type \in {"iri", "blank"}
                             /\ SubjectRead(token) = Term(SubjectRead(token).type, SubjectRead(token).parts, SubjectRead(token).form)
    <2>1. PICK term : term = SubjectRead(token)
        OBVIOUS
    <2>2. term = Term("blank", token.parts, IF token.angled THEN "angled" ELSE "plain") \/ term = Term("iri", token.parts, "angled")
        BY <2>1 DEF SubjectRead
    <2>3. term.type \in {"iri", "blank"} /\ term = Term(term.type, term.parts, term.form)
        BY <2>2 DEF Term
    <2>. QED
        BY <2>1, <2>3
<1>2. ASSUME NEW token, HasOneSuffix(token)
      PROVE ObjectOfTarget(ObjectRead(token)) /\ HasOneSuffix(ObjectRead(token))
    <2>1. PICK term : term = ObjectRead(token)
        OBVIOUS
    <2>2. PICK labelled : labelled = <<BlankLabel>> \o token.parts
        OBVIOUS
    <2> DEFINE literal(infers) == LiteralTerm(token.parts, "plain", token.datatype, token.language, infers)
    <2>0. PICK bare : bare = literal(TRUE)
        OBVIOUS
    <2>9. PICK quoted : quoted = literal(FALSE)
        OBVIOUS
    <2>3. \/ term = Term("blank", token.parts, "plain")
          \/ term = Term("iri", token.parts, "angled")
          \/ term = Term("iri", labelled, "plain")
          \/ term = quoted
          \/ term = bare
        <3>1. CASE token.form = "BNODE"
            BY <2>1, <3>1 DEF ObjectRead, IsPrefixed
        <3>2. CASE token.form # "BNODE" /\ (token.form = "iri" \/ IsPrefixed(token))
            BY <2>1, <3>2 DEF ObjectRead, IsPrefixed
        <3>3. CASE token.form = "blank" /\ ~IsPrefixed(token)
            BY <2>1, <2>2, <3>3 DEF ObjectRead
        <3>4. CASE token.form = "quoted" /\ ~IsPrefixed(token)
            <4>1. ObjectRead(token) = LiteralTerm(token.parts, "plain", token.datatype, token.language, FALSE)
                BY <3>4 DEF ObjectRead
            <4>. QED
                BY <2>1, <2>9, <4>1
        <3>5. CASE token.form \notin {"BNODE", "iri", "blank", "quoted"} /\ ~IsPrefixed(token)
            <4>1. ObjectRead(token) = LiteralTerm(token.parts, "plain", token.datatype, token.language, TRUE)
                BY <3>5 DEF ObjectRead
            <4>. QED
                BY <2>0, <2>1, <4>1
        <3>. QED
            BY <3>1, <3>2, <3>3, <3>4, <3>5
    <2>4. CASE term = Term("blank", token.parts, "plain")
        BY <2>1, <2>4 DEF Term, ObjectOfTarget, HasOneSuffix
    <2>5. CASE term = Term("iri", token.parts, "angled")
        BY <2>1, <2>5 DEF Term, ObjectOfTarget, HasOneSuffix
    <2>6. CASE term = Term("iri", labelled, "plain")
        BY <2>1, <2>6 DEF Term, ObjectOfTarget, HasOneSuffix
    <2>7. ASSUME NEW infers \in BOOLEAN, term = LiteralTerm(token.parts, "plain", token.datatype, token.language, infers)
          PROVE /\ term = LiteralTerm(term.parts, "plain", term.datatype, term.language, infers)
                /\ HasOneSuffix(term)
        <3>1. term.parts = token.parts /\ term.datatype = token.datatype /\ term.language = token.language
              /\ {"datatype", "language"} \subseteq DOMAIN term
            BY <2>7 DEF LiteralTerm, Term
        <3>2. term = LiteralTerm(term.parts, "plain", term.datatype, term.language, infers)
            BY <2>7, <3>1
        <3>3. HasOneSuffix(term)
            BY <1>2, <3>1 DEF HasOneSuffix
        <3>. QED
            BY <3>2, <3>3
    <2>. QED
        BY <2>0, <2>1, <2>3, <2>4, <2>5, <2>6, <2>7, <2>9 DEF ObjectOfTarget
<1>3. ASSUME NEW section \in Sections(text)
      PROVE LET target == First(section, "target")
                source == First(section, "source")
            IN  /\ RulesOfTarget(target, source) # {}
                /\ \A rule \in RulesOfTarget(target, source) : OfTarget(rule)
    <2>1. IsText(section)
        BY SectionsOfText
    <2>2. ~SectionFails(section)
        BY DEF NativeFails
    <2>3. PICK target : target = First(section, "target")
        OBVIOUS
    <2>4. PICK source : source = First(section, "source")
        OBVIOUS
    <2>5. ~TargetFails(target) /\ ~SourceFails(source) /\ Some(section, "target")
        BY <2>2, <2>3, <2>4 DEF SectionFails
    <2>6. IsLine(target) /\ Is(target, "target")
        BY <2>1, <2>3, <2>5, FirstIs DEF IsText
    <2>7. target.pairs \in Seq(ToSet(target.pairs)) /\ target.pairs # <<>>
          /\ \A pair \in ToSet(target.pairs) : HasOneSuffix(pair.object)
        BY <2>5, <2>6 DEF IsLine, TargetFails
    <2>8. ToSet(target.pairs) # {}
        <3>1. Head(target.pairs) \in ToSet(target.pairs)
            BY <2>7
        <3>. QED
            BY <3>1
    <2>9. RulesOfTarget(target, source) # {}
        BY <2>8 DEF RulesOfTarget
    <2>10. ASSUME NEW rule \in RulesOfTarget(target, source) PROVE OfTarget(rule)
        <3>1. PICK pair \in ToSet(target.pairs) :
                rule = Rule(SubjectRead(target.subject), pair.predicate, ObjectRead(pair.object), target.graph, source)
            BY DEF RulesOfTarget
        <3>2. rule.subject = SubjectRead(target.subject) /\ rule.object = ObjectRead(pair.object) /\ rule.source = source
              /\ rule.base = None /\ rule.columnSubject = FALSE
            BY <3>1 DEF Rule
        <3>3. ObjectOfTarget(rule.object) /\ HasOneSuffix(rule.object)
            BY <1>2, <2>7, <3>2
        <3>4. rule.subject.type \in {"iri", "blank"} /\ rule.subject = Term(rule.subject.type, rule.subject.parts, rule.subject.form)
            BY <1>1, <3>2
        <3>. QED
            BY <2>5, <3>2, <3>3, <3>4 DEF OfTarget
    <2>. QED
        BY <2>3, <2>4, <2>9, <2>10
<1>4. Sections(text) # {}
    BY DEF Sections
<1>. QED
    BY <1>3, <1>4 DEF NativeRules

(* There is a rule in every R2RML document that is read.                       *)
LEMMA SomeRuleOfR2rml ==
    ASSUME NEW text, IsText(text), ~R2rmlFails(text)
    PROVE R2rmlRules(text) # {}
<1>1. PICK map \in ToSet(text) : Is(map, "triples map") /\ ~TriplesMapFails(map)
    BY DEF R2rmlFails, Some
<1>2. map.objects \in Seq(ToSet(map.objects)) /\ map.objects # <<>>
    BY <1>1 DEF IsText, IsLine, TriplesMapFails
<1>3. Head(map.objects) \in ToSet(map.objects)
    BY <1>2
<1>4. PICK object \in ToSet(map.objects) : TRUE
    BY <1>3
<1>5. PICK graph : graph \in RuleGraphs(map, object)
    BY DEF RuleGraphs, OrDefault
<1>6. RuleOfObject(map, object, graph) \in RulesOfTriplesMap(map)
    BY <1>5 DEF RulesOfTriplesMap
<1>. QED
    BY <1>1, <1>6 DEF R2rmlRules

(* An R2RML document that to-r2rml writes has the meanings of the rules it is  *)
(* of.                                                                         *)
LEMMA R2rmlKeepsMeanings ==
    ASSUME NEW rules, CanBeListed(rules), rules # {}, \A rule \in rules : OfTarget(rule) /\ ~LostInR2rml(rule)
    PROVE ~R2rmlFails(R2rmlText(rules)) /\ Meanings(R2rmlRules(R2rmlText(rules))) = Meanings(rules)
<1> DEFINE some == SetToSeq(rules)
           maps == [i \in DOMAIN some |-> TriplesMapOf(some[i])]
           text == R2rmlText(rules)
<1>1. some \in Seq(rules) /\ ToSet(some) = rules
    BY SetToSeqElements DEF CanBeListed
<1>2. text = <<R2rmlPrefix>> \o maps
    BY DEF R2rmlText
<1> HIDE DEF some, text
<1>3. Len(some) \in Nat /\ DOMAIN some = 1..Len(some) /\ \A i \in DOMAIN some : some[i] \in rules
    BY <1>1
<1>4. \A i \in DOMAIN some : maps[i] = TriplesMapOf(some[i])
    OBVIOUS
<1>5. DOMAIN maps = 1..Len(some) /\ maps = [i \in 1..Len(some) |-> maps[i]]
    BY <1>3
<1> HIDE DEF maps
<1>6. PICK S : S = ToSet(maps)
    OBVIOUS
<1>7. maps \in Seq(S)
    BY <1>3, <1>5, <1>6, AsSequence
<1>8. PICK prefix : prefix = R2rmlPrefix
    OBVIOUS
<1>9. ToSet(text) = {prefix} \cup S
    <2>1. PICK T : T = S \cup {prefix}
        OBVIOUS
    <2>2. maps \in Seq(T) /\ <<prefix>> \in Seq(T)
        BY <1>7, <2>1, SeqMonotonic
    <2>3. ToSet(<<prefix>> \o maps) = ToSet(<<prefix>>) \cup ToSet(maps)
        BY <2>2, ConcatElements
    <2>4. ToSet(<<prefix>>) = {prefix}
        BY DEF ToSet
    <2>. QED
        BY <1>2, <1>6, <1>8, <2>3, <2>4
<1>10. ~Is(prefix, "triples map")
    BY <1>8 DEF Is, R2rmlPrefix
<1>11. ASSUME NEW i \in DOMAIN some
       PROVE LET map == TriplesMapOf(some[i])
             IN  /\ Is(map, "triples map") /\ ~TriplesMapFails(map) /\ ~SourceFails(map.source)
                 /\ \A object \in ToSet(map.objects) : ~ParentFails(object.map)
                 /\ \E read : RulesOfTriplesMap(map) = {read} /\ Meaning(read) = Meaning(some[i])
    <2>1. PICK rule : rule = some[i]
        OBVIOUS
    <2>2. OfTarget(rule) /\ ~LostInR2rml(rule)
        BY <1>3, <2>1
    <2>3. LET map == TriplesMapOf(rule)
          IN  /\ Is(map, "triples map") /\ ~TriplesMapFails(map) /\ ~SourceFails(map.source)
              /\ \A object \in ToSet(map.objects) : ~ParentFails(object.map)
              /\ \E read : RulesOfTriplesMap(map) = {read} /\ Meaning(read) = Meaning(rule)
        BY <2>2, RuleThroughR2rml
    <2>. QED
        BY <2>1, <2>3
<1>12. S = {TriplesMapOf(some[i]) : i \in DOMAIN some}
    BY <1>3, <1>4, <1>5, <1>6 DEF ToSet
<1>13. {line \in ToSet(text) : Is(line, "triples map")} = S
    BY <1>9, <1>10, <1>11, <1>12
<1>14. \E i : i \in DOMAIN some
    BY <1>1 DEF ToSet
<1>15. ~R2rmlFails(text)
    <2>1. Some(text, "triples map")
        BY <1>11, <1>12, <1>13, <1>14 DEF Some
    <2>2. ASSUME NEW line \in S
          PROVE ~(TriplesMapFails(line) \/ SourceFails(line.source) \/ \E object \in ToSet(line.objects) : ParentFails(object.map))
        BY <1>11, <1>12
    <2>. QED
        BY <1>13, <2>1, <2>2 DEF R2rmlFails
<1>16. R2rmlRules(text) = UNION {RulesOfTriplesMap(line) : line \in S}
    BY <1>13 DEF R2rmlRules
<1>17. Meanings(R2rmlRules(text)) = Meanings(rules)
    <2>1. ASSUME NEW rule \in R2rmlRules(text) PROVE Meaning(rule) \in Meanings(rules)
        <3>1. PICK i \in DOMAIN some : rule \in RulesOfTriplesMap(TriplesMapOf(some[i]))
            BY <1>12, <1>16
        <3>2. Meaning(rule) = Meaning(some[i]) /\ some[i] \in rules
            BY <1>3, <1>11, <3>1
        <3>. QED
            BY <3>2 DEF Meanings
    <2>2. ASSUME NEW rule \in rules PROVE Meaning(rule) \in Meanings(R2rmlRules(text))
        <3>1. PICK i \in DOMAIN some : some[i] = rule
            BY <1>1 DEF ToSet
        <3>2. PICK read : RulesOfTriplesMap(TriplesMapOf(some[i])) = {read} /\ Meaning(read) = Meaning(rule)
            BY <1>11, <3>1
        <3>3. read \in R2rmlRules(text)
            BY <1>12, <1>16, <3>2
        <3>. QED
            BY <3>2, <3>3 DEF Meanings
    <2>. QED
        BY <2>1, <2>2 DEF Meanings
<1>. QED
    BY <1>15, <1>17 DEF text

(* In every execution a mapping that to-obda or to-r2rml is about to write can *)
(* be read, and its rules make the terms of the rules it was converted from,   *)
(* in the same graphs, unless one of them is of the kinds that the other       *)
(* language cannot say (Mapping::to_native_obda, to_r2rml).                    *)
THEOREM ConversionHolds == Spec => []ConversionKeepsTriples
<1>1. IInv => ConversionKeepsTriples
    <2> SUFFICES ASSUME IInv, NEW p \in Process, Converted(p), processes[p].command.name \in {"to-obda", "to-r2rml"}
                 PROVE LET text == processes[p].text
                           written == processes[p].pending[1].text
                       IN  /\ processes[p].command.name = "to-obda"
                              => \/ \E rule \in R2rmlRules(text) : RefusedInNative(rule) \/ LostInNative(rule)
                                 \/ ~NativeFails(written) /\ Meanings(NativeRules(written)) = Meanings(R2rmlRules(text))
                           /\ processes[p].command.name = "to-r2rml"
                              => \/ \E rule \in NativeRules(text) : LostInR2rml(rule)
                                 \/ ~R2rmlFails(written) /\ Meanings(R2rmlRules(written)) = Meanings(NativeRules(text))
        BY DEF ConversionKeepsTriples
    <2>1. PICK s : s = processes[p]
        OBVIOUS
    <2>2. PICK text : text = s.text
        OBVIOUS
    <2>3. s.at = "open" /\ s.wrote = <<>> /\ s.command.name \in {"to-obda", "to-r2rml"}
        BY <2>1 DEF Converted, At
    <2>4. HasConverted(s) /\ StateOK(s)
        BY <2>1 DEF IInv, TypeOK
    <2>5. IsText(text) /\ s.pending = Documents(s.command, text) /\ s.pending # <<>>
        BY <2>2, <2>3, <2>4 DEF HasConverted, StateOK, MappingCommands
    <2>6. CASE s.command.name = "to-obda"
        <3>1. s.pending = IF R2rmlFails(text) THEN <<>> ELSE <<[path |-> s.command.output, text |-> NativeText(R2rmlRules(text))]>>
            BY <2>5, <2>6 DEF Documents
        <3>2. ~R2rmlFails(text)
            BY <2>5, <3>1
        <3>3. PICK rules : rules = R2rmlRules(text)
            OBVIOUS
        <3>4. s.pending[1].text = NativeText(rules)
            BY <3>1, <3>2, <3>3
        <3>5. CanBeListed(rules) /\ rules # {} /\ \A rule \in rules : Formed(rule)
            BY <2>5, <3>2, <3>3, R2rmlRulesListed, R2rmlRulesFormed, SomeRuleOfR2rml
        <3>6. \/ \E rule \in rules : RefusedInNative(rule) \/ LostInNative(rule)
              \/ ~NativeFails(NativeText(rules)) /\ Meanings(NativeRules(NativeText(rules))) = Meanings(rules)
            BY <3>5, ObdaKeepsMeanings
        <3>. QED
            BY <2>1, <2>2, <2>6, <3>3, <3>4, <3>6
    <2>7. CASE s.command.name = "to-r2rml"
        <3>1. s.pending = IF RepeatsId(text) \/ NativeFails(text) THEN <<>>
                          ELSE <<[path |-> s.command.output, text |-> R2rmlText(NativeRules(text))]>>
            BY <2>5, <2>7 DEF Documents
        <3>2. ~NativeFails(text) /\ ~RepeatsId(text)
            BY <2>5, <3>1
        <3>3. PICK rules : rules = NativeRules(text)
            OBVIOUS
        <3>4. s.pending[1].text = R2rmlText(rules)
            BY <3>1, <3>2, <3>3
        <3>5. CanBeListed(rules) /\ rules # {} /\ \A rule \in rules : OfTarget(rule)
            BY <2>5, <3>2, <3>3, NativeRulesListed, RulesOfTargets
        <3>6. \/ \E rule \in rules : LostInR2rml(rule)
              \/ ~R2rmlFails(R2rmlText(rules)) /\ Meanings(R2rmlRules(R2rmlText(rules))) = Meanings(rules)
            BY <3>5, R2rmlKeepsMeanings
        <3>. QED
            BY <2>1, <2>2, <2>7, <3>3, <3>4, <3>6
    <2>. QED
        BY <2>1, <2>3, <2>6, <2>7
<1>. QED
    BY <1>1, InvariantHolds, PTL
-----------------------------------------------------------------------------
(* What bootstrap writes, when it is read.                                     *)

(* A column under its own name is an item the SQL parser takes, unless a point *)
(* is in it.                                                                   *)
LEMMA AliasedColumn ==
    ASSUME NEW c, IsIdentifier(c), ToSet(c) \cap Breaks = {}
    PROVE WellFormed(Aliased(c, c))
<1>1. PICK S : S = ToSet(c) \cup {" AS "}
    OBVIOUS
<1>2. PICK n : n = Len(c)
    OBVIOUS
<1>3. c \in Seq(ToSet(c)) /\ c # <<>> /\ " AS " \notin ToSet(c) /\ "max(" \notin ToSet(c) /\ ")" \notin ToSet(c) /\ "." \notin ToSet(c)
    BY DEF IsIdentifier, Breaks
<1>4. c \in Seq(S)
    BY <1>1, <1>3, SeqMonotonic
<1>5. n \in Nat /\ DOMAIN c = 1..n /\ n > 0
    <2>1. n \in Nat /\ DOMAIN c = 1..n
        BY <1>2, <1>4, LenProperties
    <2>2. n # 0
        BY <1>2, <1>3, <1>4, EmptySeq
    <2>. QED
        BY <2>1, <2>2
<1>6. \A i \in 1..n : c[i] \in ToSet(c)
    BY <1>5 DEF ToSet
<1>7. PICK as \in Seq(S) : as = <<" AS ">>
    <2>1. PICK word \in S : word = " AS "
        BY <1>1
    <2>2. <<word>> \in Seq(S)
        OBVIOUS
    <2>. QED
        BY <2>1, <2>2
<1>8. Len(as) = 1 /\ as[1] = " AS "
    BY <1>7
<1>9. PICK begun : begun = c \o as
    OBVIOUS
<1>10. begun \in Seq(S) /\ Len(begun) = n + 1 /\ begun[n + 1] = " AS " /\ \A i \in 1..n : begun[i] = c[i]
    <2>1. begun \in Seq(S) /\ Len(begun) = Len(c) + Len(as)
          /\ \A i \in 1..Len(c) + Len(as) : begun[i] = IF i <= Len(c) THEN c[i] ELSE as[i - Len(c)]
        BY <1>4, <1>9, ConcatProperties
    <2>2. n + 1 \in 1..n + 1 /\ ~(n + 1 <= n) /\ n + 1 - n = 1
        BY <1>5
    <2>3. \A i \in 1..n : i \in 1..n + 1 /\ i <= n
        BY <1>5
    <2>4. begun[n + 1] = " AS "
        <3>1. PICK k : k = n + 1
            OBVIOUS
        <3>2. k \in 1..n + 1 /\ ~(k <= n) /\ k - n = 1
            BY <1>5, <3>1
        <3>3. begun[k] = IF k <= n THEN c[k] ELSE as[k - n]
            BY <1>2, <1>8, <2>1, <3>2
        <3>. QED
            BY <1>8, <3>1, <3>2, <3>3
    <2>5. ASSUME NEW i \in 1..n PROVE begun[i] = c[i]
        <3>1. begun[i] = IF i <= n THEN c[i] ELSE as[i - n]
            BY <1>2, <1>8, <2>1, <2>3
        <3>. QED
            BY <2>3, <3>1
    <2>. QED
        BY <1>2, <1>8, <2>1, <2>4, <2>5
<1>11. PICK item : item = begun \o c
    OBVIOUS
<1>12. /\ item \in Seq(S) /\ Len(item) = n + 1 + n
       /\ \A i \in 1..n + 1 : item[i] = begun[i]
       /\ \A i \in 1..n : item[n + 1 + i] = c[i]
    <2>1. item \in Seq(S) /\ Len(item) = Len(begun) + Len(c)
          /\ \A i \in 1..Len(begun) + Len(c) : item[i] = IF i <= Len(begun) THEN begun[i] ELSE c[i - Len(begun)]
        BY <1>4, <1>10, <1>11, ConcatProperties
    <2>2. \A i \in 1..n + 1 : i \in 1..n + 1 + n /\ i <= n + 1
        BY <1>5
    <2>3. \A i \in 1..n : n + 1 + i \in 1..n + 1 + n /\ ~(n + 1 + i <= n + 1) /\ n + 1 + i - (n + 1) = i
        BY <1>5
    <2>4. ASSUME NEW i \in 1..n + 1 PROVE item[i] = begun[i]
        <3>1. item[i] = IF i <= n + 1 THEN begun[i] ELSE c[i - (n + 1)]
            BY <1>2, <1>10, <2>1, <2>2
        <3>. QED
            BY <2>2, <3>1
    <2>5. ASSUME NEW i \in 1..n PROVE item[n + 1 + i] = c[i]
        <3>1. PICK k : k = n + 1 + i
            OBVIOUS
        <3>2. k \in 1..n + 1 + n /\ ~(k <= n + 1) /\ k - (n + 1) = i
            BY <1>5, <3>1
        <3>3. item[k] = IF k <= n + 1 THEN begun[k] ELSE c[k - (n + 1)]
            BY <1>2, <1>10, <2>1, <3>2
        <3>. QED
            BY <3>1, <3>2, <3>3
    <2>. QED
        BY <1>2, <1>10, <2>1, <2>4, <2>5
<1>13. item = Aliased(c, c)
    BY <1>7, <1>9, <1>11 DEF Aliased
<1>14. DOMAIN item = 1..n + 1 + n
    BY <1>12, LenProperties
<1>15. AliasesIn(item) = {n + 1}
    <2>1. n + 1 \in DOMAIN item /\ item[n + 1] = " AS "
        <3>1. n + 1 \in 1..n + 1 /\ n + 1 \in 1..n + 1 + n
            BY <1>5
        <3>. QED
            BY <1>10, <1>12, <1>14, <3>1
    <2>2. ASSUME NEW i \in DOMAIN item, i # n + 1 PROVE item[i] # " AS "
        <3>1. CASE i <= n
            <4>1. i \in 1..n /\ i \in 1..n + 1
                BY <1>5, <1>14, <3>1
            <4>2. item[i] = c[i]
                BY <1>10, <1>12, <4>1
            <4>. QED
                BY <1>3, <1>6, <4>1, <4>2
        <3>2. CASE i > n + 1
            <4>1. i - (n + 1) \in 1..n /\ n + 1 + (i - (n + 1)) = i
                BY <1>5, <1>14, <3>2
            <4>2. item[i] = c[i - (n + 1)]
                BY <1>12, <4>1
            <4>. QED
                BY <1>3, <1>6, <4>1, <4>2
        <3>3. i <= n \/ i > n + 1
            BY <1>5, <1>14, <2>2
        <3>. QED
            BY <3>1, <3>2, <3>3
    <2>. QED
        BY <2>1, <2>2 DEF AliasesIn
<1>16. Min(AliasesIn(item)) = n + 1
    <2>1. PICK one : one = n + 1
        OBVIOUS
    <2>2. PICK least : least = CHOOSE x \in {one} : \A y \in {one} : x <= y
        OBVIOUS
    <2>3. one \in {one} /\ \A y \in {one} : one <= y
        BY <1>5, <2>1
    <2>4. least \in {one}
        BY <2>2, <2>3
    <2>. QED
        BY <1>15, <2>1, <2>2, <2>4 DEF Min
<1>17. Alias(item) = c
    <2>1. PICK alias : alias = SubSeq(item, n + 2, n + 1 + n)
        OBVIOUS
    <2>2. \A i \in n + 2..n + 1 + n : item[i] \in S
        <3>1. ASSUME NEW i \in n + 2..n + 1 + n PROVE item[i] \in S
            <4>1. i \in 1..Len(item)
                BY <1>5, <1>12
            <4>. QED
                BY <1>12, <4>1, ElementOfSeq
        <3>. QED
            BY <3>1
    <2>3. n + 2 \in Int /\ n + 1 + n \in Int /\ n + 2 <= n + 1 + n /\ (n + 1 + n) - (n + 2) + 1 = n
        BY <1>5
    <2>4. alias \in Seq(S) /\ Len(alias) = n /\ \A i \in 1..n : alias[i] = item[n + 2 + i - 1]
        <3>1. PICK first : first = n + 2
            OBVIOUS
        <3>2. PICK last : last = n + 1 + n
            OBVIOUS
        <3>3. first \in Int /\ last \in Int /\ first <= last /\ last - first + 1 = n
            BY <1>5, <3>1, <3>2
        <3>5. \A i \in first..last : item[i] \in S
            BY <2>2, <3>1, <3>2
        <3>4. alias \in Seq(S) /\ Len(alias) = last - first + 1 /\ \A i \in 1..last - first + 1 : alias[i] = item[first + i - 1]
            <4>1. alias = SubSeq(item, first, last)
                BY <2>1, <3>1, <3>2
            <4>. QED
                BY <3>3, <3>5, <4>1, SubSeqProperties
        <3>. QED
            BY <3>1, <3>3, <3>4
    <2>5. \A i \in 1..n : n + 2 + i - 1 = n + 1 + i
        BY <1>5
    <2>6. \A i \in 1..n : alias[i] = c[i]
        BY <1>12, <2>4, <2>5
    <2>7. alias = c
        BY <1>2, <1>4, <2>4, <2>6, SeqEqual
    <2>8. Alias(item) = alias
        <3>1. (n + 1) + 1 = n + 2
            BY <1>5
        <3>. QED
            BY <1>12, <1>16, <2>1, <3>1 DEF Alias
    <2>. QED
        BY <2>7, <2>8
<1>18. Expression(item) = c
    <2>1. PICK name : name = SubSeq(item, 1, n)
        OBVIOUS
    <2>2. \A i \in 1..n : item[i] \in S
        <3>1. ASSUME NEW i \in 1..n PROVE item[i] \in S
            <4>1. i \in 1..Len(item)
                BY <1>5, <1>12
            <4>. QED
                BY <1>12, <4>1, ElementOfSeq
        <3>. QED
            BY <3>1
    <2>3. 1 \in Int /\ n \in Int /\ 1 <= n /\ n - 1 + 1 = n
        BY <1>5
    <2>4. name \in Seq(S) /\ Len(name) = n /\ \A i \in 1..n : name[i] = item[1 + i - 1]
        BY <2>1, <2>2, <2>3, SubSeqProperties
    <2>5. \A i \in 1..n : 1 + i - 1 = i /\ i \in 1..n + 1
        BY <1>5
    <2>6. \A i \in 1..n : name[i] = c[i]
        BY <1>10, <1>12, <2>4, <2>5
    <2>7. name = c
        BY <1>2, <1>4, <2>4, <2>6, SeqEqual
    <2>8. Expression(item) = name
        <3>1. (n + 1) - 1 = n
            BY <1>5
        <3>. QED
            BY <1>15, <1>16, <2>1, <3>1 DEF Expression
    <2>. QED
        BY <2>7, <2>8
<1>19. Cardinality(AliasesIn(item)) <= 1
    <2>1. Cardinality({n + 1}) = 1
        BY FS_Singleton
    <2>. QED
        BY <1>15, <2>1
<1>20. ~IsQualified(c)
    <2>1. \A i \in 1..n : c[i] # "."
        BY <1>3, <1>6
    <2>. QED
        BY <1>2, <2>1 DEF IsQualified, Contains
<1>21. Last(item) # ")"
    <2>0. n \in 1..n
        BY <1>5
    <2>1. item[n + 1 + n] = c[n] /\ c[n] # ")"
        BY <1>3, <1>6, <1>12, <2>0
    <2>. QED
        BY <1>12, <2>1 DEF Last
<1>22. ~IsFunction(c)
    <2>1. Head(c) = c[1] /\ c[1] # "max("
        <3>1. 1 \in 1..n
            BY <1>5
        <3>2. Head(c) = c[1]
            <4>1. c # <<>>
                BY <1>3
            <4>. QED
                BY <1>4, <4>1
        <3>. QED
            BY <1>3, <1>6, <3>1, <3>2
    <2>. QED
        BY <2>1 DEF IsFunction
<1>. QED
    BY <1>3, <1>13, <1>17, <1>18, <1>19, <1>20, <1>21, <1>22 DEF WellFormed

(* Slots for columns without a blank or a point have no break.                 *)
LEMMA SlotsOfColumns ==
    ASSUME NEW columns, \A column \in ToSet(columns) : ToSet(column) \cap Breaks = {},
           NEW slots, slots = [i \in DOMAIN columns |-> Slot(columns[i])]
    PROVE \A part \in ToSet(slots) : part.fixed \notin Breaks /\ ToSet(part.column) \cap Breaks = {}
<1>1. "" \notin Breaks
    BY DEF Breaks
<1>2. ASSUME NEW i \in DOMAIN columns PROVE slots[i].fixed \notin Breaks /\ ToSet(slots[i].column) \cap Breaks = {}
    <2>1. slots[i] = Slot(columns[i])
        OBVIOUS
    <2>2. slots[i].fixed = "" /\ slots[i].column = columns[i]
        BY <2>1 DEF Slot
    <2>3. columns[i] \in ToSet(columns)
        BY DEF ToSet
    <2>. QED
        BY <1>1, <2>2, <2>3
<1>. QED
    BY <1>2 DEF ToSet

(* The lines bootstrap writes for a relation are a section; they are read if   *)
(* no name in them has to be enclosed.                                         *)
LEMMA BootstrapRuleIsRead ==
    ASSUME NEW relation, relation.columns \in Seq(ToSet(relation.columns)),
           \A column \in ToSet(relation.columns) : IsIdentifier(column)
    PROVE LET lines == BootstrapRule(relation)
          IN  /\ IsSection(lines) /\ lines \in Seq(ToSet(lines)) /\ lines[1] = MappingId(relation.name)
              /\ ~IsUnreadable(relation) => ~SourceFails(lines[3]) /\ ~TargetFails(lines[2])
<1> DEFINE columns == relation.columns
           parts(some) == [i \in DOMAIN some |-> Slot(some[i])]
           subject == Token(IF relation.key = <<>> THEN "blank" ELSE "iri",
                            <<Fixed(relation.name)>> \o parts(BootstrapSubject(relation)))
           class == [predicate |-> RdfType, object |-> Token("iri", <<Fixed(relation.name)>>)]
           values == [i \in DOMAIN columns |-> [predicate |-> columns[i], object |-> Token("bare", parts(<<columns[i]>>))]]
           items == [i \in DOMAIN columns |-> Aliased(columns[i], columns[i])]
<1>1. PICK id : id = MappingId(relation.name)
    OBVIOUS
<1>2. PICK target : target = Target(<<>>, subject, <<class>> \o values)
    OBVIOUS
<1>3. PICK source : source = Source(FALSE, items, << <<relation.name>> >>)
    OBVIOUS
<1>4. PICK lines : lines = BootstrapRule(relation)
    OBVIOUS
<1>5. lines = <<id, target, source>>
    BY <1>1, <1>2, <1>3, <1>4 DEF BootstrapRule
<1>6. /\ Len(lines) = 3 /\ lines[1] = id /\ lines[2] = target /\ lines[3] = source
      /\ lines \in Seq({id, target, source})
    BY <1>5
<1>7. lines \in Seq(ToSet(lines))
    BY <1>6, SequenceOfItself
<1>8. Is(id, "mappingId") /\ Is(target, "target") /\ Is(source, "source")
    BY <1>1, <1>2, <1>3 DEF MappingId, Target, Source, Is
<1>9. IsSection(lines)
    BY <1>6, <1>8 DEF IsSection
<1>10. Len(columns) \in Nat /\ DOMAIN columns = 1..Len(columns) /\ \A i \in DOMAIN columns : columns[i] \in ToSet(columns)
    BY LenProperties DEF ToSet
<1>11. target.subject = subject /\ target.pairs = <<class>> \o values /\ source.items = items
    BY <1>2, <1>3 DEF Target, Source
<1>12. ASSUME \A column \in ToSet(columns) : ToSet(column) \cap Breaks = {}
       PROVE ~SourceFails(source)
    <2>1. ASSUME NEW i \in DOMAIN columns PROVE WellFormed(items[i])
        <3>1. IsIdentifier(columns[i]) /\ ToSet(columns[i]) \cap Breaks = {}
            BY <1>10, <1>12
        <3>. QED
            BY <3>1, AliasedColumn
    <2>2. \A item \in ToSet(items) : WellFormed(item)
        BY <2>1 DEF ToSet
    <2>. QED
        BY <1>11, <2>2 DEF SourceFails
<1>13. ASSUME ~IsUnreadable(relation)
       PROVE ~SubjectFails(subject)
    <2>1. subject.form \in {"blank", "iri"} /\ (subject.form = "blank" => relation.key = <<>>)
        BY DEF Token
    <2>2. ASSUME relation.key = <<>> PROVE ~HasBreak(subject.parts)
        <3>1. relation.name \notin Breaks /\ \A column \in ToSet(columns) : ToSet(column) \cap Breaks = {}
            BY <1>13, <2>2 DEF IsUnreadable
        <3>2. PICK slots : slots = parts(columns)
            OBVIOUS
        <3>3. \A part \in ToSet(slots) : part.fixed \notin Breaks /\ ToSet(part.column) \cap Breaks = {}
            BY <3>1, <3>2, SlotsOfColumns
        <3>4. PICK name : name = Fixed(relation.name)
            OBVIOUS
        <3>5. name.fixed \notin Breaks /\ ToSet(name.column) \cap Breaks = {}
            <4>1. name.fixed = relation.name /\ name.column = <<>>
                BY <3>4 DEF Fixed
            <4>2. ToSet(<<>>) = {}
                BY DEF ToSet
            <4>. QED
                BY <3>1, <4>1, <4>2
        <3>6. subject.parts = <<name>> \o slots
            BY <2>2, <3>2, <3>4 DEF Token, BootstrapSubject
        <3>7. ToSet(<<name>> \o slots) = {name} \cup ToSet(slots)
            <4>1. DOMAIN slots = 1..Len(columns) /\ slots = [i \in 1..Len(columns) |-> slots[i]]
                BY <1>10, <3>2
            <4>2. slots \in Seq(ToSet(slots))
                BY <1>10, <4>1, AsSequence
            <4>3. PICK T : T = ToSet(slots) \cup {name}
                OBVIOUS
            <4>4. slots \in Seq(T) /\ <<name>> \in Seq(T)
                BY <4>2, <4>3, SeqMonotonic
            <4>5. ToSet(<<name>>) = {name}
                BY DEF ToSet
            <4>6. ToSet(<<name>> \o slots) = ToSet(<<name>>) \cup ToSet(slots)
                BY <4>4, ConcatElements
            <4>. QED
                BY <4>5, <4>6
        <3>. QED
            BY <3>3, <3>5, <3>6, <3>7 DEF HasBreak
    <2> HIDE DEF subject
    <2>. QED
        BY <2>1, <2>2 DEF SubjectFails, IsCut
<1>14. ~ObjectFails(class.object)
    BY DEF ObjectFails, IsCut, IsPrefixed, Token
<1>15. ASSUME \A column \in ToSet(columns) : ToSet(column) \cap Breaks = {}, NEW i \in DOMAIN columns
       PROVE ~ObjectFails(values[i].object)
    <2>1. PICK one : one = columns[i]
        OBVIOUS
    <2>2. IsIdentifier(one) /\ ToSet(one) \cap Breaks = {}
        BY <1>10, <1>15, <2>1
    <2>3. PICK token : token = values[i].object
        OBVIOUS
    <2>4. token = Token("bare", parts(<<one>>))
        BY <2>1, <2>3
    <2>5. token.form = "bare" /\ token.parts = parts(<<one>>) /\ token.datatype = None
        BY <2>4 DEF Token
    <2>6. parts(<<one>>) = <<Slot(one)>>
        OBVIOUS
    <2>7. PICK slot : slot = Slot(one)
        OBVIOUS
    <2>8. slot.fixed = "" /\ slot.column = one
        BY <2>7 DEF Slot
    <2>9. ToSet(token.parts) = {slot} /\ Head(token.parts) = slot
        BY <2>5, <2>6, <2>7 DEF ToSet
    <2>10. IsSlot(slot)
        BY <2>2, <2>8 DEF IsSlot, IsIdentifier
    <2>11. ~HasBreak(token.parts)
        <3>1. "" \notin Breaks
            BY DEF Breaks
        <3>2. \A part \in ToSet(token.parts) : part = slot
            BY <2>9
        <3>. QED
            BY <2>2, <2>8, <3>1, <3>2 DEF HasBreak
    <2>. QED
        BY <2>3, <2>5, <2>9, <2>10, <2>11 DEF ObjectFails, IsCut, IsPrefixed
<1> HIDE DEF class, values, subject
<1>16. ToSet(<<class>> \o values) = {class} \cup ToSet(values) /\ <<class>> \o values # <<>>
       /\ ToSet(values) = {values[i] : i \in DOMAIN columns}
    <2>1. DOMAIN values = 1..Len(columns) /\ values = [i \in 1..Len(columns) |-> values[i]]
        BY <1>10 DEF values
    <2>2. values \in Seq(ToSet(values))
        BY <1>10, <2>1, AsSequence
    <2>3. PICK T : T = ToSet(values) \cup {class}
        OBVIOUS
    <2>4. values \in Seq(T) /\ <<class>> \in Seq(T)
        BY <2>2, <2>3, SeqMonotonic
    <2>5. ToSet(<<class>>) = {class} /\ <<class>> # <<>>
        <3>1. ToSet(<<class>>) = {class}
            BY DEF ToSet
        <3>2. Len(<<class>>) = 1 /\ Len(<<>>) = 0
            OBVIOUS
        <3>3. <<class>> # <<>>
            <4> SUFFICES ASSUME <<class>> = <<>> PROVE FALSE
                OBVIOUS
            <4>. QED
                BY <3>2
        <3>. QED
            BY <3>1, <3>3
    <2>6. ToSet(<<class>> \o values) = {class} \cup ToSet(values)
        <3>1. ToSet(<<class>> \o values) = ToSet(<<class>>) \cup ToSet(values)
            BY <2>4, ConcatElements
        <3>. QED
            BY <2>5, <3>1
    <2>7. <<class>> \o values # <<>>
        <3>1. class \in ToSet(<<class>> \o values)
            BY <2>6
        <3>2. ToSet(<<>>) = {}
            BY DEF ToSet
        <3>. QED
            BY <3>1, <3>2
    <2>. QED
        BY <1>10, <2>1, <2>6, <2>7 DEF ToSet
<1>17. ASSUME ~IsUnreadable(relation) PROVE ~TargetFails(target)
    <2>1. \A column \in ToSet(columns) : ToSet(column) \cap Breaks = {}
        BY <1>17 DEF IsUnreadable
    <2>2. \A pair \in ToSet(target.pairs) : ~ObjectFails(pair.object)
        BY <1>11, <1>14, <1>15, <1>16, <2>1
    <2>. QED
        BY <1>11, <1>13, <1>16, <1>17, <2>2 DEF TargetFails
<1>18. ~IsUnreadable(relation) => ~SourceFails(source)
    BY <1>12 DEF IsUnreadable
<1>. QED
    BY <1>1, <1>4, <1>6, <1>7, <1>9, <1>17, <1>18

(* The lines of a mapping, whatever their order.                               *)
LEMMA ElementsOfMapping ==
    ASSUME NEW S, NEW sections \in Seq(Seq(S))
    PROVE ToSet(MappingOf(sections)) = {MappingDeclaration, Closing} \cup UNION {ToSet(sections[i]) : i \in DOMAIN sections}
<1>1. PICK text : text = MappingOf(sections)
    OBVIOUS
<1>2. PICK lines : lines = FlattenSeq(sections)
    OBVIOUS
<1>3. /\ text \in Seq(S \cup {MappingDeclaration, Closing}) /\ lines \in Seq(S) /\ Len(text) = Len(lines) + 2
      /\ text[1] = MappingDeclaration /\ text[Len(lines) + 2] = Closing
      /\ \A m \in 1..Len(lines) : text[m + 1] = lines[m]
    BY <1>1, <1>2, LinesOfMapping
<1>4. ToSet(lines) = UNION {ToSet(sections[i]) : i \in DOMAIN sections}
    BY <1>2, FlattenElements
<1>5. Len(lines) \in Nat /\ DOMAIN text = 1..Len(lines) + 2 /\ DOMAIN lines = 1..Len(lines)
    BY <1>3, LenProperties
<1>6. ASSUME NEW m \in DOMAIN text PROVE text[m] \in {MappingDeclaration, Closing} \cup ToSet(lines)
    <2>1. CASE m = 1 \/ m = Len(lines) + 2
        BY <1>3, <2>1
    <2>2. CASE m # 1 /\ m # Len(lines) + 2
        <3>1. m - 1 \in 1..Len(lines) /\ (m - 1) + 1 = m
            BY <1>5, <2>2
        <3>2. text[m] = lines[m - 1]
            BY <1>3, <3>1
        <3>. QED
            BY <1>5, <3>1, <3>2 DEF ToSet
    <2>. QED
        BY <2>1, <2>2
<1>7. ASSUME NEW m \in DOMAIN lines PROVE lines[m] \in ToSet(text)
    <2>1. m + 1 \in DOMAIN text /\ text[m + 1] = lines[m]
        BY <1>3, <1>5
    <2>. QED
        BY <2>1 DEF ToSet
<1>8. MappingDeclaration \in ToSet(text) /\ Closing \in ToSet(text)
    <2>1. 1 \in DOMAIN text /\ Len(lines) + 2 \in DOMAIN text
        BY <1>5
    <2>. QED
        BY <1>3, <2>1 DEF ToSet
<1>9. ToSet(text) = {MappingDeclaration, Closing} \cup ToSet(lines)
    BY <1>6, <1>7, <1>8 DEF ToSet
<1>. QED
    BY <1>1, <1>4, <1>9

(* A mapping of a catalog is read unless nothing is in it or a name in it has  *)
(* to be enclosed, and has a section for every relation with columns.          *)
LEMMA BootstrapMappingIsRead ==
    ASSUME NEW relations, IsCatalog(relations), \A relation \in ToSet(relations) : IsEntry(relation)
    PROVE LET mapping == BootstrapMapping(relations)
              described == {relation \in ToSet(relations) : relation.columns # <<>>}
          IN  /\ NativeFails(mapping) => described = {} \/ \E relation \in ToSet(relations) : IsUnreadable(relation)
              /\ {line.id : line \in {l \in ToSet(mapping) : Is(l, "mappingId")}} = {relation.name : relation \in described}
<1> DEFINE section(i) == IF relations[i].columns = <<>> THEN <<>> ELSE BootstrapRule(relations[i])
           sections == [i \in DOMAIN relations |-> section(i)]
<1>1. PICK mapping : mapping = BootstrapMapping(relations)
    OBVIOUS
<1>2. mapping = MappingOf(sections)
    BY <1>1 DEF BootstrapMapping, MappingOf
<1>3. PICK described : described = {relation \in ToSet(relations) : relation.columns # <<>>}
    OBVIOUS
<1>4. Len(relations) \in Nat /\ DOMAIN relations = 1..Len(relations) /\ \A i \in DOMAIN relations : relations[i] \in ToSet(relations)
    BY LenProperties DEF IsCatalog, ToSet
<1>5. ASSUME NEW i \in DOMAIN relations, relations[i].columns # <<>>
      PROVE /\ IsSection(section(i)) /\ section(i) \in Seq(ToSet(section(i))) /\ section(i)[1] = MappingId(relations[i].name)
            /\ ~IsUnreadable(relations[i]) => ~SourceFails(section(i)[3]) /\ ~TargetFails(section(i)[2])
    <2>1. PICK relation : relation = relations[i]
        OBVIOUS
    <2>2. relation.columns \in Seq(ToSet(relation.columns)) /\ \A column \in ToSet(relation.columns) : IsIdentifier(column)
        BY <1>4, <2>1 DEF IsCatalog, IsRelation, IsEntry
    <2>3. LET lines == BootstrapRule(relation)
          IN  /\ IsSection(lines) /\ lines \in Seq(ToSet(lines)) /\ lines[1] = MappingId(relation.name)
              /\ ~IsUnreadable(relation) => ~SourceFails(lines[3]) /\ ~TargetFails(lines[2])
        BY <2>2, BootstrapRuleIsRead
    <2>4. section(i) = BootstrapRule(relation)
        BY <1>5, <2>1
    <2> HIDE DEF section
    <2>. QED
        BY <2>1, <2>3, <2>4
<1>6. ASSUME NEW i \in DOMAIN relations PROVE section(i) = <<>> <=> relations[i].columns = <<>>
    <2>1. CASE relations[i].columns = <<>>
        BY <2>1
    <2>2. CASE relations[i].columns # <<>>
        <3>1. IsSection(section(i))
            BY <1>5, <2>2
        <3>2. section(i) # <<>>
            <4> HIDE DEF section
            <4> SUFFICES ASSUME section(i) = <<>> PROVE FALSE
                OBVIOUS
            <4>1. Len(section(i)) = 0
                OBVIOUS
            <4>. QED
                BY <3>1, <4>1 DEF IsSection
        <3>. QED
            BY <2>2, <3>2
    <2>. QED
        BY <2>1, <2>2
<1> HIDE DEF section
<1>7. DOMAIN sections = DOMAIN relations /\ \A i \in DOMAIN relations : sections[i] = section(i)
    OBVIOUS
<1>8. PICK S : sections \in Seq(Seq(S))
    <2> DEFINE S == UNION {ToSet(section(i)) : i \in 1..Len(relations)}
    <2>1. ASSUME NEW i \in 1..Len(relations) PROVE sections[i] \in Seq(S)
        <3>1. CASE section(i) = <<>>
            <4>1. <<>> \in Seq(S)
                BY EmptySeq
            <4>. QED
                BY <1>4, <1>7, <3>1, <4>1
        <3>2. CASE section(i) # <<>>
            <4>1. section(i) \in Seq(ToSet(section(i))) /\ ToSet(section(i)) \subseteq S
                BY <1>4, <1>5, <1>6, <3>2
            <4> HIDE DEF S
            <4>2. section(i) \in Seq(S)
                BY <4>1, SeqMonotonic
            <4>. QED
                BY <1>4, <1>7, <4>2
        <3>. QED
            BY <3>1, <3>2
    <2> HIDE DEF S
    <2>2. DOMAIN sections = 1..Len(relations) /\ sections = [i \in 1..Len(relations) |-> sections[i]]
        BY <1>4
    <2> HIDE DEF sections
    <2>3. sections \in Seq(Seq(S))
        BY <1>4, <2>1, <2>2
    <2>. QED
        BY <2>3
<1> HIDE DEF sections
<1>9. AreSections(sections)
    BY <1>5, <1>6, <1>7 DEF AreSections
<1>10. ASSUME NativeFails(mapping), described # {}
       PROVE \E relation \in ToSet(relations) : IsUnreadable(relation)
    <2>1. PICK some \in DOMAIN relations : relations[some].columns # <<>>
        BY <1>3, <1>10 DEF ToSet
    <2>2. some \in DOMAIN sections /\ sections[some] # <<>>
        BY <1>6, <1>7, <2>1
    <2>3. PICK i \in DOMAIN sections : sections[i] # <<>> /\ (SourceFails(sections[i][3]) \/ TargetFails(sections[i][2]))
        BY <1>2, <1>8, <1>9, <1>10, <2>2, MappingIsRead
    <2>4. i \in DOMAIN relations /\ sections[i] = section(i) /\ relations[i].columns # <<>>
        BY <1>6, <1>7, <2>3
    <2>5. IsUnreadable(relations[i])
        BY <1>5, <2>3, <2>4
    <2>. QED
        BY <1>4, <2>4, <2>5
<1>11. ToSet(mapping) = {MappingDeclaration, Closing} \cup UNION {ToSet(sections[i]) : i \in DOMAIN sections}
    BY <1>2, <1>8, ElementsOfMapping
<1>12. ASSUME NEW i \in DOMAIN sections, NEW line \in ToSet(sections[i]), Is(line, "mappingId")
       PROVE line.id = relations[i].name /\ relations[i] \in described
    <2>1. i \in DOMAIN relations /\ sections[i] = section(i)
        BY <1>7
    <2>2. section(i) # <<>>
        <3> SUFFICES ASSUME section(i) = <<>> PROVE FALSE
            OBVIOUS
        <3>1. ToSet(<<>>) = {}
            BY DEF ToSet
        <3>. QED
            BY <2>1, <3>1
    <2>3. relations[i].columns # <<>>
        BY <1>6, <2>1, <2>2
    <2>4. IsSection(section(i)) /\ section(i) \in Seq(ToSet(section(i))) /\ section(i)[1] = MappingId(relations[i].name)
        BY <1>5, <2>1, <2>3
    <2>5. DOMAIN section(i) = 1..3
        BY <2>4, LenProperties DEF IsSection
    <2>6. PICK n \in 1..3 : line = section(i)[n]
        BY <2>1, <2>5 DEF ToSet
    <2>7. n = 1 \/ n = 2 \/ n = 3
        OBVIOUS
    <2>8. n = 1
        BY <1>12, <2>4, <2>6, <2>7 DEF IsSection, Is
    <2>9. line = MappingId(relations[i].name)
        BY <2>4, <2>6, <2>8
    <2>. QED
        BY <1>3, <1>4, <2>1, <2>3, <2>9 DEF MappingId
<1>13. ASSUME NEW relation \in described
       PROVE \E line \in ToSet(mapping) : Is(line, "mappingId") /\ line.id = relation.name
    <2>1. PICK i \in DOMAIN relations : relations[i] = relation /\ relation.columns # <<>>
        BY <1>3 DEF ToSet
    <2>2. IsSection(section(i)) /\ section(i) \in Seq(ToSet(section(i))) /\ section(i)[1] = MappingId(relation.name)
        BY <1>5, <2>1
    <2>3. 1 \in DOMAIN section(i)
        BY <2>2, LenProperties DEF IsSection
    <2>4. MappingId(relation.name) \in ToSet(section(i))
        BY <2>2, <2>3 DEF ToSet
    <2>5. MappingId(relation.name) \in ToSet(mapping)
        BY <1>7, <1>11, <2>4
    <2>. QED
        BY <2>5 DEF MappingId, Is
<1>14. ~Is(MappingDeclaration, "mappingId") /\ ~Is(Closing, "mappingId")
    BY DEF MappingDeclaration, Closing, Is
<1>15. {line.id : line \in {l \in ToSet(mapping) : Is(l, "mappingId")}} = {relation.name : relation \in described}
    <2>1. ASSUME NEW line \in ToSet(mapping), Is(line, "mappingId")
          PROVE line.id \in {relation.name : relation \in described}
        <3>1. PICK i \in DOMAIN sections : line \in ToSet(sections[i])
            BY <1>11, <1>14, <2>1
        <3>. QED
            BY <1>12, <2>1, <3>1
    <2>. QED
        BY <1>13, <2>1
<1>. QED
    BY <1>1, <1>3, <1>10, <1>15

(* An ontology of a catalog has a class for every relation with columns.       *)
LEMMA BootstrapOntologyClasses ==
    ASSUME NEW relations, IsCatalog(relations)
    PROVE LET ontology == BootstrapOntology(relations)
              described == {relation \in ToSet(relations) : relation.columns # <<>>}
          IN  {line.table : line \in {l \in ToSet(ontology) : Is(l, "class")}} = {relation.name : relation \in described}
<1> DEFINE text(i) == IF relations[i].columns = <<>> THEN <<>> ELSE Described(relations[i])
           texts == [i \in DOMAIN relations |-> text(i)]
<1>1. PICK ontology : ontology = BootstrapOntology(relations)
    OBVIOUS
<1>2. ontology = FlattenSeq(texts)
    BY <1>1 DEF BootstrapOntology
<1>3. PICK described : described = {relation \in ToSet(relations) : relation.columns # <<>>}
    OBVIOUS
<1>4. Len(relations) \in Nat /\ DOMAIN relations = 1..Len(relations) /\ \A i \in DOMAIN relations : relations[i] \in ToSet(relations)
    BY LenProperties DEF IsCatalog, ToSet
<1>5. ASSUME NEW relation, relation.columns \in Seq(ToSet(relation.columns))
      PROVE /\ Described(relation) \in Seq(ToSet(Described(relation)))
            /\ OwlClass(relation.name) \in ToSet(Described(relation))
            /\ \A line \in ToSet(Described(relation)) : Is(line, "class") => line.table = relation.name
    <2> DEFINE columns == relation.columns
               properties == [i \in DOMAIN columns |-> OwlProperty(relation.name, columns[i])]
    <2>1. PICK class : class = OwlClass(relation.name)
        OBVIOUS
    <2>2. Described(relation) = <<class>> \o properties
        BY <2>1 DEF Described
    <2>3. DOMAIN properties = 1..Len(columns) /\ Len(columns) \in Nat /\ properties = [i \in 1..Len(columns) |-> properties[i]]
        BY LenProperties
    <2>4. \A i \in DOMAIN properties : ~Is(properties[i], "class")
        BY DEF Is, OwlProperty
    <2>5. Is(class, "class") /\ class.table = relation.name
        BY <2>1 DEF Is, OwlClass
    <2> HIDE DEF properties
    <2>6. properties \in Seq(ToSet(properties)) /\ \A line \in ToSet(properties) : ~Is(line, "class")
        BY <2>3, <2>4, AsSequence DEF ToSet
    <2>7. PICK T : T = ToSet(properties) \cup {class}
        OBVIOUS
    <2>8. properties \in Seq(T) /\ <<class>> \in Seq(T)
        BY <2>6, <2>7, SeqMonotonic
    <2>9. <<class>> \o properties \in Seq(T) /\ ToSet(<<class>> \o properties) = ToSet(<<class>>) \cup ToSet(properties)
        BY <2>8, ConcatElements
    <2>10. ToSet(<<class>>) = {class}
        BY DEF ToSet
    <2>11. Described(relation) \in Seq(ToSet(Described(relation)))
        BY <2>2, <2>9, SequenceOfItself
    <2>. QED
        BY <2>1, <2>2, <2>5, <2>6, <2>9, <2>10, <2>11
<1>6. \A i \in DOMAIN relations : relations[i].columns \in Seq(ToSet(relations[i].columns))
    BY <1>4 DEF IsCatalog, IsRelation
<1>7. \A i \in DOMAIN relations :
        /\ relations[i].columns = <<>> => text(i) = <<>>
        /\ relations[i].columns # <<>> => text(i) = Described(relations[i])
    OBVIOUS
<1> HIDE DEF text
<1>8. DOMAIN texts = DOMAIN relations /\ \A i \in DOMAIN relations : texts[i] = text(i)
    OBVIOUS
<1>9. PICK S : texts \in Seq(Seq(S))
    <2> DEFINE S == UNION {ToSet(text(i)) : i \in 1..Len(relations)}
    <2>1. ASSUME NEW i \in 1..Len(relations) PROVE texts[i] \in Seq(S)
        <3>1. text(i) \in Seq(ToSet(text(i))) /\ ToSet(text(i)) \subseteq S
            <4>1. CASE relations[i].columns = <<>>
                <5>1. <<>> \in Seq(ToSet(<<>>))
                    BY EmptySeq
                <5>. QED
                    BY <1>4, <1>7, <4>1, <5>1
            <4>2. CASE relations[i].columns # <<>>
                BY <1>4, <1>5, <1>6, <1>7, <4>2
            <4>. QED
                BY <4>1, <4>2
        <3> HIDE DEF S
        <3>2. text(i) \in Seq(S)
            BY <3>1, SeqMonotonic
        <3>. QED
            BY <1>4, <1>8, <3>2
    <2> HIDE DEF S
    <2>2. DOMAIN texts = 1..Len(relations) /\ texts = [i \in 1..Len(relations) |-> texts[i]]
        BY <1>4
    <2> HIDE DEF texts
    <2>3. texts \in Seq(Seq(S))
        BY <1>4, <2>1, <2>2
    <2>. QED
        BY <2>3
<1> HIDE DEF texts
<1>10. ToSet(ontology) = UNION {ToSet(texts[i]) : i \in DOMAIN texts}
    BY <1>2, <1>9, FlattenElements
<1>11. ASSUME NEW line \in ToSet(ontology), Is(line, "class")
       PROVE \E relation \in described : line.table = relation.name
    <2>1. PICK i \in DOMAIN relations : line \in ToSet(text(i))
        BY <1>8, <1>10
    <2>2. relations[i].columns # <<>>
        <3> SUFFICES ASSUME relations[i].columns = <<>> PROVE FALSE
            OBVIOUS
        <3>1. ToSet(<<>>) = {}
            BY DEF ToSet
        <3>. QED
            BY <1>7, <2>1, <3>1
    <2>3. line.table = relations[i].name
        BY <1>5, <1>6, <1>7, <1>11, <2>1, <2>2
    <2>. QED
        BY <1>3, <1>4, <2>2, <2>3
<1>12. ASSUME NEW relation \in described
       PROVE \E line \in ToSet(ontology) : Is(line, "class") /\ line.table = relation.name
    <2>1. PICK i \in DOMAIN relations : relations[i] = relation /\ relation.columns # <<>>
        BY <1>3 DEF ToSet
    <2>2. OwlClass(relation.name) \in ToSet(text(i))
        BY <1>5, <1>6, <1>7, <2>1
    <2>3. OwlClass(relation.name) \in ToSet(ontology)
        BY <1>8, <1>10, <2>2
    <2>. QED
        BY <2>3 DEF OwlClass, Is
<1>. QED
    BY <1>1, <1>3, <1>11, <1>12

(* What was read of a database that did not change is its catalog.             *)
LEMMA WholeCatalog ==
    ASSUME NEW state, IsCatalog(state.relations), state.at = "exited",
           NEW database, DatabaseOK(database), CatalogSoFar(state, CatalogOf(database))
    PROVE state.relations = CatalogOf(database)
<1>1. PICK relations : relations = state.relations
    OBVIOUS
<1>2. PICK catalog : catalog = CatalogOf(database)
    OBVIOUS
<1>3. relations \in Seq(ToSet(relations)) /\ catalog \in Seq(ToSet(catalog))
    BY <1>1, <1>2, CatalogEntries DEF IsCatalog
<1>4. Len(relations) \in Nat /\ Len(catalog) \in Nat
    BY <1>3, LenProperties
<1>5. Len(relations) - 0 = Len(catalog) /\ \A i \in 1..Len(relations) - 0 : relations[i] = catalog[i]
    BY <1>1, <1>2 DEF CatalogSoFar
<1>6. Len(relations) = Len(catalog) /\ \A i \in 1..Len(relations) : relations[i] = catalog[i]
    BY <1>4, <1>5
<1>7. relations = [i \in 1..Len(relations) |-> relations[i]] /\ catalog = [i \in 1..Len(catalog) |-> catalog[i]]
    BY <1>3, LenProperties
<1>. QED
    BY <1>1, <1>2, <1>6, <1>7

(* In every execution a bootstrap that ends with 0 has written a mapping that  *)
(* can be read, unless no table has a column or a name with a blank is in it,  *)
(* an ontology with a class for each section of the mapping, and, if the       *)
(* database did not change meanwhile, what its catalog says (bootstrap).       *)
THEOREM BootstrapHolds == Spec => []BootstrapDescribes
<1>1. IInv => BootstrapDescribes
    <2> SUFFICES ASSUME IInv, NEW p \in Process, Exited(p, 0), processes[p].command.name = "bootstrap"
                 PROVE LET mapping == processes[p].wrote[1].text
                           ontology == processes[p].wrote[2].text
                           relations == ToSet(processes[p].relations)
                       IN  /\ NativeFails(mapping)
                              => (\A relation \in relations : relation.columns = <<>>) \/ \E relation \in relations : IsUnreadable(relation)
                           /\ \A database \in Versions(p) : Cardinality(Versions(p)) = 1
                                => mapping = BootstrapMapping(CatalogOf(database)) /\ ontology = BootstrapOntology(CatalogOf(database))
                           /\ {line.table : line \in {l \in ToSet(ontology) : Is(l, "class")}}
                                = {line.id : line \in {l \in ToSet(mapping) : Is(l, "mappingId")}}
        BY DEF BootstrapDescribes
    <2>1. PICK s : s = processes[p]
        OBVIOUS
    <2>2. s.at = "exited" /\ s.exit = 0 /\ s.command.name = "bootstrap"
        BY <2>1 DEF Exited, At
    <2>3. IsCatalog(s.relations) /\ HasDescribed(s, Versions(p)) /\ MomentsPast(s, version, changes)
        BY <2>1 DEF IInv, Holds, Run
    <2>4. PICK relations : relations = s.relations
        OBVIOUS
    <2>5. PICK moments : moments = Versions(p)
        OBVIOUS
    <2>6. /\ \A relation \in ToSet(relations) : IsEntry(relation)
          /\ s.wrote = BootstrapDocuments(s.command, relations)
          /\ \A database \in moments : moments = {database} => CatalogSoFar(s, CatalogOf(database))
        BY <2>2, <2>3, <2>4, <2>5 DEF HasDescribed
    <2>7. s.wrote[1].text = BootstrapMapping(relations) /\ s.wrote[2].text = BootstrapOntology(relations)
        BY <2>6 DEF BootstrapDocuments
    <2>8. ASSUME NEW database \in moments, Cardinality(moments) = 1
          PROVE relations = CatalogOf(database)
        <3>1. moments = {databases[v] : v \in s.since..s.until}
            BY <2>1, <2>2, <2>5 DEF Versions, Moments
        <3>2. s.since \in Int /\ s.until \in Int /\ s.since..s.until \subseteq DOMAIN databases
            BY <2>2, <2>3 DEF MomentsPast, IInv, TypeOK
        <3>3. IsFiniteSet(s.since..s.until)
            BY <3>2, FS_Interval
        <3>4. IsFiniteSet(moments)
            BY <3>1, <3>3, FiniteImage
        <3>5. moments = {database}
            BY <2>8, <3>4, FS_Singleton
        <3>6. CatalogSoFar(s, CatalogOf(database))
            BY <2>6, <3>5
        <3>7. DatabaseOK(database)
            BY <3>1, <3>2 DEF IInv
        <3>. QED
            BY <2>2, <2>3, <2>4, <3>6, <3>7, WholeCatalog
    <2>9. PICK mapping : mapping = BootstrapMapping(relations)
        OBVIOUS
    <2>10. PICK ontology : ontology = BootstrapOntology(relations)
        OBVIOUS
    <2>11. PICK described : described = {relation \in ToSet(relations) : relation.columns # <<>>}
        OBVIOUS
    <2>12. /\ NativeFails(mapping) => described = {} \/ \E relation \in ToSet(relations) : IsUnreadable(relation)
           /\ {line.id : line \in {l \in ToSet(mapping) : Is(l, "mappingId")}} = {relation.name : relation \in described}
        BY <2>3, <2>4, <2>6, <2>9, <2>11, BootstrapMappingIsRead
    <2>13. {line.table : line \in {l \in ToSet(ontology) : Is(l, "class")}} = {relation.name : relation \in described}
        BY <2>3, <2>4, <2>10, <2>11, BootstrapOntologyClasses
    <2>14. NativeFails(mapping)
           => (\A relation \in ToSet(relations) : relation.columns = <<>>) \/ \E relation \in ToSet(relations) : IsUnreadable(relation)
        BY <2>11, <2>12
    <2>15. \A database \in moments : Cardinality(moments) = 1
           => mapping = BootstrapMapping(CatalogOf(database)) /\ ontology = BootstrapOntology(CatalogOf(database))
        BY <2>8, <2>9, <2>10
    <2>. QED
        BY <2>1, <2>4, <2>5, <2>7, <2>9, <2>10, <2>12, <2>13, <2>14, <2>15
<1>. QED
    BY <1>1, InvariantHolds, PTL
=============================================================================
