--------------------------- MODULE SharedDatabase ---------------------------
(***************************************************************************)
(* One database file and three parties that keep a copy of all of it       *)
(* (src/app/install/sqlite2.js, the ends of database.js, index.js and the  *)
(* quota job): the panel, the scheduler's thread in the same process, and  *)
(* a command of the administrator's shell.                                 *)
(*                                                                         *)
(* A read takes the whole file and replaces the copy; a write puts the     *)
(* whole copy into the file.  Both are queued and end later, SQLite runs   *)
(* the queued statements of a connection in any order, and each of them    *)
(* may fail.  What is in the database is the set of the changes made so    *)
(* far; the suspension of a user over the disk quota is one of them that   *)
(* comes and goes.                                                         *)
(***************************************************************************)
EXTENDS FiniteSets

CONSTANTS
    PanelChanges,  \* what the forms of the panel change
    ShellChanges,  \* what the commands of the shell change
    Suspension,    \* the quota job's suspension of a user
    Undefined,     \* what a read that fails gives its callback
    Slots          \* bound on the writes one party has under way

Changes == PanelChanges \cup ShellChanges \cup {Suspension}
Parties == {"panel", "scheduler", "shell"}

ASSUME ChangesAssumption ==
    /\ PanelChanges \cap ShellChanges = {}
    /\ Suspension \notin PanelChanges \cup ShellChanges
    /\ Undefined \notin SUBSET Changes

VARIABLES
    file,      \* what the file holds
    copy,      \* what each party's copy holds
    writes,    \* the writes under way
    reads,     \* the reads under way
    made,      \* the changes of the forms and the shell made so far
    known,     \* the scheduler's thread has read the database once
    marker,    \* the file dbfile.db.reload
    unlinking, \* the panel has seen the marker and not removed it yet
    marking,   \* the shell's write has ended, its marker is not written yet
    message,   \* a message reloadDB is on its way to the panel
    panel,     \* the panel's process has started
    over,      \* the user's directory is over the quota
    missed,    \* history: the last note for the panel was lost
    mixed      \* history: a form was applied, or a directory was over

notes == <<marker, unlinking, marking, message, missed>>
vars  == <<file, copy, writes, reads, made, known, notes, panel, over, mixed>>

\* Why the database is read: ReadDB's callers.
Reasons == {"start", "page", "message", "job", "command"}
Reader(for) == CASE for = "job" -> "scheduler"
                 [] for = "command" -> "shell"
                 [] OTHER -> "panel"

Write == [by : Parties, slot : Slots, value : SUBSET Changes]
\* done: the statement has run, the callback has not.
Read  == [for : Reasons, done : BOOLEAN, value : (SUBSET Changes) \cup {Undefined}]

\* Everything has its type: no slot is used twice, what a failed read gives is
\* in no copy, and only a command has anything under way without the panel.
TypeOK ==
    /\ file \subseteq Changes
    /\ copy \in [Parties -> SUBSET Changes]
    /\ writes \subseteq Write /\ reads \subseteq Read
    /\ \A v, w \in writes : v.by = w.by /\ v.slot = w.slot => v = w
    /\ \A q, r \in reads : q.for = r.for /\ q.done = r.done => q = r
    /\ ~panel => ~unlinking /\ \A r \in reads : r.for = "command"
    /\ made \subseteq Changes /\ known \in BOOLEAN /\ missed \in BOOLEAN
    /\ marker \in BOOLEAN /\ unlinking \in BOOLEAN /\ marking \in BOOLEAN
    /\ message \in BOOLEAN /\ panel \in BOOLEAN /\ over \in BOOLEAN
    /\ mixed \in BOOLEAN

Init ==
    /\ file = {} /\ copy = [p \in Parties |-> {}]
    /\ writes = {} /\ reads = {} /\ made = {} /\ known = FALSE /\ missed = FALSE
    /\ marker = FALSE /\ unlinking = FALSE /\ marking = FALSE /\ message = FALSE
    /\ panel = TRUE /\ over = FALSE /\ mixed = FALSE

-----------------------------------------------------------------------------

FreeSlots(by) == {s \in Slots : \A w \in writes : w.by = by => w.slot # s}

\* UpdateDB(JSON.stringify(DB)): what is in the copy now will be written.
Queue(by, value) ==
    /\ FreeSlots(by) # {}
    /\ writes' = writes \cup
         {[by |-> by, slot |-> CHOOSE s \in FreeSlots(by) : TRUE, value |-> value]}

Reading(for) == \E r \in reads : r.for = for
Waiting(for) == \E r \in reads : r.for = for /\ ~r.done

\* Reads for the same reason that wait are taken to run together.
AskFor(for) ==
    reads' = IF Waiting(for) THEN reads
             ELSE reads \cup {[for |-> for, done |-> FALSE, value |-> Undefined]}

\* The panel is at work: it serves requests once its first read has ended,
\* one at a time.
Serving == panel /\ ~unlinking /\ ~Reading("start")

\* A form, or a handler that saves what it has (setPortRange, an add-on).
PanelSaves(new) ==
    /\ Serving /\ new \cap made = {}
    /\ copy' = [copy EXCEPT !["panel"] = @ \cup new]
    /\ made' = made \cup new
    /\ Queue("panel", copy'["panel"])
    /\ mixed' = TRUE
    /\ UNCHANGED <<file, reads, known, notes, panel, over>>

\* Mutant: the callback does not leave the marker.
WriteEndsUnmarked(w) ==
    /\ w \in writes
    /\ writes' = writes \ {w}
    /\ file' = w.value
    /\ UNCHANGED <<copy, reads, made, known, notes, panel, over, mixed>>

\* The statement of a write runs.
WriteEnds(w) ==
    /\ w \in writes
    /\ writes' = writes \ {w}
    /\ file' = w.value
    /\ marking' = (marking \/ w.by = "shell")
    /\ UNCHANGED <<copy, reads, made, known, marker, unlinking, message, missed,
                   panel, over, mixed>>

\* UpdateDB with an error: it is logged, and no marker is written.
WriteFails(w) ==
    /\ w \in writes
    /\ writes' = writes \ {w}
    /\ UNCHANGED <<file, copy, reads, made, known, notes, panel, over, mixed>>

\* The statement of a read has run.  The callback of one that ran before for
\* the same reason comes first.
Gives(r, value) ==
    /\ r \in reads /\ ~r.done
    /\ \A q \in reads : q.for = r.for => ~q.done
    /\ reads' = (reads \ {r}) \cup {[r EXCEPT !.done = TRUE, !.value = value]}
    /\ UNCHANGED <<file, copy, writes, made, known, notes, panel, over, mixed>>

ReadRuns(r)  == Gives(r, file)
ReadFails(r) == Gives(r, Undefined)

\* ReadDB's callback.
Returns(for, value) ==
    /\ \E r \in reads : r.for = for /\ r.done /\ value = r.value
                        /\ reads' = reads \ {r}
    /\ UNCHANGED <<file, over, mixed>>

\* The panel's process ends with what it has under way, the scheduler's too.
Ends ==
    /\ panel /\ panel' = FALSE
    /\ copy' = [copy EXCEPT !["panel"] = {}, !["scheduler"] = {}]
    /\ writes' = {w \in writes : w.by = "shell"}
    /\ reads' = {r \in reads : r.for = "command"}
    /\ known' = FALSE /\ message' = FALSE /\ unlinking' = FALSE
    /\ UNCHANGED <<file, made, marker, marking, missed, over, mixed>>

\* Mutant: ReadDB does not look at the error.
PanelReadsUnasked(for, value) ==
    /\ for \in {"start", "page", "message"} /\ ~unlinking
    /\ Returns(for, value)
    /\ copy' = [copy EXCEPT !["panel"] = value]
    /\ UNCHANGED <<writes, made, known, notes, panel>>

\* ... of the panel: with an error the copy stays, and nobody reads again; a
\* panel that starts ends at once.
PanelReads(for, value) ==
    /\ for \in {"start", "page", "message"} /\ ~unlinking
    /\ IF value = Undefined /\ for = "start"
       THEN Ends /\ \E r \in reads : r.for = for /\ r.done /\ value = r.value
       ELSE /\ Returns(for, value)
            /\ IF value = Undefined
               THEN missed' = TRUE /\ UNCHANGED copy
               ELSE copy' = [copy EXCEPT !["panel"] = value] /\ UNCHANGED missed
            /\ UNCHANGED <<writes, made, known, marker, unlinking, marking, message, panel>>

\* Mutant: the job relies on its copy.
JobReadsCopied(value) ==
    LET own == copy["scheduler"]
        new == IF over THEN own \cup {Suspension} ELSE own \ {Suspension} IN
    /\ Returns("job", value)
    /\ known' = TRUE
    /\ copy' = [copy EXCEPT !["scheduler"] = new]
    /\ IF new = own THEN UNCHANGED <<writes, message>>
       ELSE Queue("scheduler", new) /\ message' = TRUE
    /\ UNCHANGED <<made, marker, unlinking, marking, missed, panel>>

\* ... of check_quotas, which does not look at the error: the job goes on with
\* the copy of its last read, if there is one.  The message is sent when the
\* write is queued.
JobReads(value) ==
    LET own == IF value = Undefined THEN copy["scheduler"] ELSE value
        new == IF over THEN own \cup {Suspension} ELSE own \ {Suspension} IN
    /\ Returns("job", value)
    /\ known' = (known \/ value # Undefined)
    /\ IF known'
       THEN /\ copy' = [copy EXCEPT !["scheduler"] = new]
            /\ IF new = own THEN UNCHANGED <<writes, message>>
               ELSE Queue("scheduler", new) /\ message' = TRUE
       ELSE UNCHANGED <<copy, writes, message>>
    /\ UNCHANGED <<made, marker, unlinking, marking, missed, panel>>

\* ... of jx index set address, ftp allow, ftp deny, fix ip: an error is thrown.
CommandReads(value, change) ==
    /\ Returns("command", value)
    /\ IF value = Undefined
       THEN UNCHANGED <<copy, made, writes>>
       ELSE /\ change \in ShellChanges \ made
            /\ copy' = [copy EXCEPT !["shell"] = value \cup {change}]
            /\ made' = made \cup {change}
            /\ Queue("shell", copy'["shell"])
    /\ UNCHANGED <<known, notes, panel>>

-----------------------------------------------------------------------------

\* Every 5 seconds; the read of an earlier job may still be under way.
JobStarts ==
    /\ panel
    /\ ~Reading("job")
    /\ AskFor("job")
    /\ UNCHANGED <<file, copy, writes, made, known, notes, panel, over, mixed>>

\* The shell runs one command after the other.
CommandStarts ==
    /\ ~Reading("command") /\ ~marking /\ ~ \E w \in writes : w.by = "shell"
    /\ ShellChanges \ made # {}
    /\ AskFor("command")
    /\ UNCHANGED <<file, copy, writes, made, known, notes, panel, over, mixed>>

\* _markForReload, the callback of the command's write.  A page that is about
\* to remove the marker, and whose read has run, takes the note along.
CommandMarks ==
    /\ marking /\ marking' = FALSE
    /\ marker' = TRUE
    /\ missed' = (missed \/ (unlinking /\ ~Waiting("page")))
    /\ UNCHANGED <<file, copy, writes, reads, made, known, unlinking, message,
                   panel, over, mixed>>

\* The command is interrupted, or cannot write the marker.
CommandDies ==
    /\ Reading("command") \/ marking \/ \E w \in writes : w.by = "shell"
    /\ reads' = {r \in reads : r.for # "command"}
    /\ writes' = {w \in writes : w.by # "shell"}
    /\ marking' = FALSE
    /\ missed' = (missed \/ marking)
    /\ UNCHANGED <<file, copy, made, known, marker, unlinking, message, panel, over, mixed>>

\* reloadIfNeeded, called when a page is rendered: first the read is queued ...
PageSeesMarker ==
    /\ Serving /\ marker
    /\ unlinking' = TRUE
    /\ missed' = FALSE
    /\ AskFor("page")
    /\ UNCHANGED <<file, copy, writes, made, known, marker, marking, message,
                   panel, over, mixed>>

\* ... then the marker is removed, or that fails.
PageRemovesMarker ==
    /\ unlinking /\ unlinking' = FALSE
    /\ marker' \in {FALSE, marker}
    /\ UNCHANGED <<file, copy, writes, reads, made, known, marking, message, missed,
                   panel, over, mixed>>

MessageArrives ==
    /\ panel /\ ~unlinking /\ message /\ message' = FALSE
    /\ AskFor("message")
    /\ UNCHANGED <<file, copy, writes, made, known, marker, unlinking, marking, missed,
                   panel, over, mixed>>

PanelStarts ==
    /\ ~panel /\ panel' = TRUE
    /\ missed' = FALSE
    /\ AskFor("start")
    /\ UNCHANGED <<file, copy, writes, made, known, marker, unlinking, marking, message,
                   over, mixed>>

\* The user's directory grows over the quota or shrinks below it.
DirectoryChanges ==
    /\ over' = ~over /\ mixed' = TRUE
    /\ UNCHANGED <<file, copy, writes, reads, made, known, notes, panel>>

-----------------------------------------------------------------------------

Storage ==
    \/ \E w \in writes : WriteEnds(w) \/ WriteFails(w)
    \/ \E r \in reads : ReadRuns(r) \/ ReadFails(r)

Shell ==
    \/ CommandStarts \/ CommandMarks \/ CommandDies
    \/ \E r \in reads, change \in ShellChanges : CommandReads(r.value, change)

Scheduler ==
    \/ JobStarts
    \/ \E r \in reads : JobReads(r.value)

Pages ==
    \/ PageSeesMarker \/ PageRemovesMarker \/ MessageArrives
    \/ \E r \in reads : PanelReads(r.for, r.value)
    \/ Ends \/ PanelStarts

\* A form changes one thing, or nothing that others could miss.
Forms == \E new \in {{}} \cup {{c} : c \in PanelChanges} : PanelSaves(new)

Next == Storage \/ Shell \/ Scheduler \/ Pages \/ Forms \/ DirectoryChanges

Spec == Init /\ [][Next]_vars

\* Without the quota job.
SpecForms == Init /\ [][Storage \/ Shell \/ Pages \/ Forms]_vars

\* SQLite gets to the statements of the panel's process, their callbacks are
\* called and the interval timer goes on.
Fairness ==
    /\ WF_vars(\E w \in writes : w.by = "scheduler" /\ (WriteEnds(w) \/ WriteFails(w)))
    /\ \A for \in {"start", "job"} :
          WF_vars(\E r \in reads : r.for = for /\ (ReadRuns(r) \/ ReadFails(r)))
    /\ WF_vars(\E r \in reads : r.for = "start" /\ PanelReads("start", r.value))
    /\ WF_vars(Scheduler)

FairSpec == Spec /\ Fairness

-----------------------------------------------------------------------------
(* Properties.                                                             *)

\* Nothing is under way and no note for the panel is left.
AtRest ==
    /\ Serving /\ writes = {} /\ reads = {}
    /\ ~marker /\ ~unlinking /\ ~marking /\ ~message

\* With commands of the shell alone, a panel at rest knows what they have
\* changed: the marker is written after the write has ended (database.js:12-20,
\* 946-950), so the read it causes finds the change.  Lost is a note whose
\* read failed, whose marker was removed by a page that had read before
\* (database.js:955-960), or whose command died before it wrote the marker;
\* the next marker makes up for it.
PanelKnowsFile == AtRest /\ ~mixed /\ ~missed => copy["panel"] = file

\* A statement fails in this step.
Fails == \/ \E w \in writes : WriteFails(w)
         \/ \E r \in reads : ReadFails(r)

\* The job reads the file every time, so once statements fail no more a
\* suspension that a form's write has overwritten comes back, and one that
\* should be gone goes (user_disk_quota.js:9-47).
QuotaKept ==
    <>[][~Fails]_vars =>
        /\ <>[](panel /\ over)  => []<>(Suspension \in file)
        /\ <>[](panel /\ ~over) => []<>(Suspension \notin file)

\* What a form has changed stays in the panel's copy while the panel runs:
\* "this is async, but executed as sync. However this shouldn't matter much"
\* (database.js:953).
PanelKeepsItsChanges ==
    [][panel /\ panel' => copy["panel"] \cap PanelChanges \subseteq copy'["panel"]]_vars
=============================================================================
