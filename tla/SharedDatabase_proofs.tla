------------------------ MODULE SharedDatabase_proofs ------------------------
(***************************************************************************)
(* TypeOK and PanelKnowsFile of SharedDatabase, for any changes and slots, *)
(* any number of commands and any statements that fail.                    *)
(***************************************************************************)
EXTENDS SharedDatabase, TLAPS

ReadsType ==
    /\ reads \subseteq Read
    /\ \A q, r \in reads : q.for = r.for /\ q.done = r.done => q = r

WritesType ==
    /\ writes \subseteq Write
    /\ \A v, w \in writes : v.by = w.by /\ v.slot = w.slot => v = w

CopyType == copy \in [Parties -> SUBSET Changes]

Down == ~panel => ~unlinking /\ \A r \in reads : r.for = "command"

Flags ==
    /\ marker \in BOOLEAN /\ unlinking \in BOOLEAN /\ marking \in BOOLEAN
    /\ message \in BOOLEAN /\ panel \in BOOLEAN /\ over \in BOOLEAN
    /\ mixed \in BOOLEAN /\ known \in BOOLEAN /\ missed \in BOOLEAN

SetsType == file \subseteq Changes /\ made \subseteq Changes

LEMMA Parts == TypeOK <=> ReadsType /\ WritesType /\ CopyType /\ Down /\ Flags /\ SetsType
  BY DEF TypeOK, ReadsType, WritesType, CopyType, Down, Flags, SetsType

LEMMA InitType == Init => TypeOK
  BY DEF Init, TypeOK, Parties

LEMMA QueueType ==
    ASSUME WritesType, NEW by \in Parties, NEW value \in SUBSET Changes,
           Queue(by, value)
    PROVE  WritesType'
<1> DEFINE s == CHOOSE x \in FreeSlots(by) : TRUE
           new == [by |-> by, slot |-> s, value |-> value]
<1>1. s \in FreeSlots(by)
  BY DEF Queue
<1>2. s \in Slots /\ \A w \in writes : w.by = by => w.slot # s
  BY <1>1 DEF FreeSlots
<1>3. new \in Write /\ new.by = by /\ new.slot = s
  BY <1>2 DEF Write
<1>4. writes' = writes \cup {new}
  BY DEF Queue
<1> HIDE DEF new, s
<1>5. QED
  BY <1>2, <1>3, <1>4 DEF WritesType

\* What asking for a read adds: one that waits, and is the only one.
LEMMA Asks ==
    ASSUME NEW for, AskFor(for)
    PROVE  \/ reads' = reads /\ Waiting(for)
           \/ /\ ~Waiting(for)
              /\ \E new : /\ new.for = for /\ ~new.done /\ new.value = Undefined
                          /\ new = [for |-> for, done |-> FALSE, value |-> Undefined]
                          /\ reads' = reads \cup {new}
<1> DEFINE new == [for |-> for, done |-> FALSE, value |-> Undefined]
<1>1. new.for = for /\ ~new.done /\ new.value = Undefined
  OBVIOUS
<1>2. reads' = IF Waiting(for) THEN reads ELSE reads \cup {new}
  BY DEF AskFor
<1>3. new = [for |-> for, done |-> FALSE, value |-> Undefined]
  OBVIOUS
<1> HIDE DEF new
<1>4. QED
  BY <1>1, <1>2, <1>3

LEMMA AskForType ==
    ASSUME ReadsType, NEW for \in Reasons, AskFor(for)
    PROVE  ReadsType'
<1>1. CASE reads' = reads
  BY <1>1 DEF ReadsType
<1>2. CASE reads' # reads
  <2>1. PICK new : /\ new = [for |-> for, done |-> FALSE, value |-> Undefined]
                   /\ reads' = reads \cup {new}
    BY <1>2, Asks
  <2>2. new \in Read /\ new.for = for /\ new.done = FALSE
    BY <2>1 DEF Read
  <2>3. ~Waiting(for)
    BY <1>2, Asks
  <2>4. \A r \in reads : r \in Read /\ (r.for = for => r.done # FALSE)
    BY <2>3 DEF ReadsType, Waiting, Read
  <2>5. reads' \subseteq Read
    BY <2>1, <2>2, <2>4
  <2>6. ASSUME NEW q \in reads', NEW r \in reads', q.for = r.for, q.done = r.done
        PROVE  q = r
    <3>1. CASE q \in reads /\ r \in reads
      BY <2>6, <3>1 DEF ReadsType
    <3>2. CASE q \notin reads \/ r \notin reads
      BY <2>1, <2>2, <2>4, <2>6, <3>2
    <3>3. QED
      BY <3>1, <3>2
  <2>7. QED
    BY <2>5, <2>6 DEF ReadsType
<1>3. QED
  BY <1>1, <1>2

LEMMA ReturnsType ==
    ASSUME ReadsType, NEW for, NEW value, Returns(for, value)
    PROVE  /\ ReadsType' /\ reads' \subseteq reads
           /\ value = Undefined \/ value \in SUBSET Changes
<1>1. PICK r \in reads : value = r.value /\ reads' = reads \ {r}
  BY DEF Returns
<1>2. r \in Read
  BY DEF ReadsType
<1>3. QED
  BY <1>1, <1>2 DEF ReadsType, Read

LEMMA StaysDown ==
    ASSUME Down, panel' = panel, unlinking' => unlinking,
           \A r \in reads' : r.for = "command" \/ \E q \in reads : q.for = r.for
    PROVE  Down'
  BY DEF Down

LEMMA GivesType ==
    ASSUME TypeOK, NEW r, NEW value \in (SUBSET Changes) \cup {Undefined}, Gives(r, value)
    PROVE  TypeOK'
<1> DEFINE new == [r EXCEPT !.done = TRUE, !.value = value]
<1>1. r \in Read /\ r \in reads /\ \A q \in reads : q.for = r.for => ~q.done
  BY Parts DEF ReadsType, Gives
<1>2. new \in Read /\ new.for = r.for /\ new.done = TRUE
  BY <1>1 DEF Read
<1>3. reads' = (reads \ {r}) \cup {new}
  BY DEF Gives
<1> HIDE DEF new
<1>4. ReadsType'
  <2>1. \A q \in reads : q \in Read /\ (q.for = new.for => q.done # TRUE)
    BY <1>1, <1>2, Parts DEF ReadsType
  <2>2. QED
    BY <1>2, <1>3, <2>1, Parts DEF ReadsType
<1>5. Down'
  <2>1. panel' = panel /\ unlinking' = unlinking
    BY DEF Gives, notes
  <2>2. \A q \in reads' : \E p \in reads : p.for = q.for
    BY <1>1, <1>2, <1>3
  <2>3. QED
    BY <2>1, <2>2, Parts, StaysDown
<1>6. WritesType' /\ CopyType' /\ Flags' /\ SetsType'
  BY Parts DEF Gives, WritesType, CopyType, Flags, SetsType, notes
<1>7. QED
  BY <1>4, <1>5, <1>6, Parts, PTL

LEMMA StorageType ==
    ASSUME TypeOK, Storage
    PROVE  TypeOK'
<1>1. CASE \E w \in writes : WriteEnds(w)
  <2>1. PICK w \in writes : WriteEnds(w)
    BY <1>1
  <2>2. w \in Write
    BY Parts DEF WritesType
  <2>3. WritesType'
    BY <2>1, Parts DEF WriteEnds, WritesType
  <2>4. SetsType'
    BY <2>1, <2>2, Parts DEF WriteEnds, SetsType, Write
  <2>5. Flags'
    BY <2>1, Parts DEF WriteEnds, Flags
  <2>6. ReadsType' /\ CopyType' /\ Down'
    BY <2>1, Parts DEF WriteEnds, ReadsType, CopyType, Down
  <2>7. QED
    BY <2>3, <2>4, <2>5, <2>6, Parts, PTL
<1>2. CASE \E w \in writes : WriteFails(w)
  <2>1. WritesType'
    BY <1>2, Parts DEF WriteFails, WritesType
  <2>2. ReadsType' /\ CopyType' /\ Down' /\ Flags' /\ SetsType'
    BY <1>2, Parts DEF WriteFails, ReadsType, CopyType, Down, Flags, SetsType, notes
  <2>3. QED
    BY <2>1, <2>2, Parts, PTL
<1>3. CASE \E r \in reads : ReadRuns(r) \/ ReadFails(r)
  <2>1. file \in SUBSET Changes
    BY Parts DEF SetsType
  <2>2. QED
    BY <1>3, <2>1, GivesType DEF ReadRuns, ReadFails
<1>4. QED
  BY <1>1, <1>2, <1>3 DEF Storage

LEMMA FormsType ==
    ASSUME TypeOK, Forms
    PROVE  TypeOK'
<1>1. PICK new \in {{}} \cup {{c} : c \in PanelChanges} : PanelSaves(new)
  BY DEF Forms
<1>2. new \in SUBSET Changes
  BY DEF Changes
<1>3. CopyType'
  BY <1>1, <1>2, Parts DEF PanelSaves, CopyType, Parties
<1>4. copy'["panel"] \in SUBSET Changes
  BY <1>3 DEF CopyType, Parties
<1>5. WritesType'
  BY <1>1, <1>4, Parts, QueueType DEF PanelSaves, Parties
<1>6. ReadsType' /\ Down' /\ Flags' /\ SetsType'
  BY <1>1, <1>2, Parts DEF PanelSaves, ReadsType, Down, Flags, SetsType, notes
<1>7. QED
  BY <1>3, <1>5, <1>6, Parts, PTL

LEMMA ShellType ==
    ASSUME TypeOK, Shell
    PROVE  TypeOK'
<1>1. CASE CommandStarts
  <2>1. ReadsType'
    BY <1>1, Parts, AskForType DEF CommandStarts, Reasons
  <2>2. Down'
    <3>1. AskFor("command") /\ panel' = panel /\ unlinking' = unlinking
      BY <1>1 DEF CommandStarts, notes
    <3>2. \A r \in reads' : r.for = "command" \/ r \in reads
      BY <3>1, Asks
    <3>3. QED
      BY <3>1, <3>2, Parts, StaysDown
  <2>3. WritesType' /\ CopyType' /\ Flags' /\ SetsType'
    BY <1>1, Parts DEF CommandStarts, WritesType, CopyType, Flags, SetsType, notes
  <2>4. QED
    BY <2>1, <2>2, <2>3, Parts, PTL
<1>2. CASE CommandMarks
  <2>1. Flags'
    BY <1>2, Parts DEF CommandMarks, Flags
  <2>2. WritesType' /\ ReadsType' /\ CopyType' /\ Down' /\ SetsType'
    BY <1>2, Parts DEF CommandMarks, WritesType, ReadsType, CopyType, Down, SetsType
  <2>3. QED
    BY <2>1, <2>2, Parts, PTL
<1>3. CASE CommandDies
  <2>1. Flags' /\ ReadsType'
    BY <1>3, Parts DEF CommandDies, Flags, ReadsType
  <2>2. WritesType' /\ CopyType' /\ Down' /\ SetsType'
    BY <1>3, Parts DEF CommandDies, WritesType, CopyType, Down, SetsType
  <2>3. QED
    BY <2>1, <2>2, Parts, PTL
<1>4. CASE \E r \in reads, change \in ShellChanges : CommandReads(r.value, change)
  <2>1. PICK r \in reads, change \in ShellChanges : CommandReads(r.value, change)
    BY <1>4
  <2>2. /\ ReadsType' /\ reads' \subseteq reads
        /\ r.value = Undefined \/ r.value \in SUBSET Changes
    BY <2>1, Parts, ReturnsType DEF CommandReads
  <2>3. panel' = panel /\ UNCHANGED <<known, notes>>
    BY <2>1 DEF CommandReads
  <2>4. Down'
    BY <2>2, <2>3, Parts, StaysDown DEF notes
  <2>5. CASE r.value = Undefined
    <3>1. WritesType' /\ CopyType' /\ Flags' /\ SetsType'
      BY <2>1, <2>3, <2>5, Parts DEF CommandReads, Returns, WritesType, CopyType, Flags,
         SetsType, notes
    <3>2. QED
      BY <2>2, <2>4, <3>1, Parts, PTL
  <2>6. CASE r.value # Undefined
    <3>1. change \in Changes /\ r.value \in SUBSET Changes
      BY <2>2, <2>6 DEF Changes
    <3>2. CopyType'
      BY <2>1, <2>6, <3>1, Parts DEF CommandReads, CopyType, Parties
    <3>3. copy'["shell"] \in SUBSET Changes
      BY <3>2 DEF CopyType, Parties
    <3>4. WritesType'
      BY <2>1, <2>6, <3>3, Parts, QueueType DEF CommandReads, Parties
    <3>5. Flags' /\ SetsType'
      BY <2>1, <2>3, <2>6, <3>1, Parts DEF CommandReads, Returns, Flags, SetsType, notes
    <3>6. QED
      BY <2>2, <2>4, <3>2, <3>4, <3>5, Parts, PTL
  <2>7. QED
    BY <2>5, <2>6
<1>5. QED
  BY <1>1, <1>2, <1>3, <1>4 DEF Shell

LEMMA SchedulerType ==
    ASSUME TypeOK, Scheduler
    PROVE  TypeOK'
<1>1. CASE JobStarts
  <2>1. ReadsType'
    BY <1>1, Parts, AskForType DEF JobStarts, Reasons
  <2>2. WritesType' /\ CopyType' /\ Down' /\ Flags' /\ SetsType'
    BY <1>1, Parts DEF JobStarts, WritesType, CopyType, Down, Flags, SetsType, notes
  <2>3. QED
    BY <2>1, <2>2, Parts, PTL
<1>2. CASE \E r \in reads : JobReads(r.value)
  <2>1. PICK r \in reads : JobReads(r.value)
    BY <1>2
  <2>2. /\ ReadsType' /\ reads' \subseteq reads
        /\ r.value = Undefined \/ r.value \in SUBSET Changes
    BY <2>1, Parts, ReturnsType DEF JobReads
  <2>3. PICK own : own = IF r.value = Undefined THEN copy["scheduler"] ELSE r.value
    OBVIOUS
  <2>4. PICK new : new = IF over THEN own \cup {Suspension} ELSE own \ {Suspension}
    OBVIOUS
  <2>5. own \in SUBSET Changes
    BY <2>2, <2>3, Parts DEF CopyType, Parties
  <2>6. new \in SUBSET Changes
    BY <2>4, <2>5 DEF Changes
  <2>7. /\ known' = (known \/ r.value # Undefined)
        /\ \/ UNCHANGED <<copy, writes, message>>
           \/ /\ copy' = [copy EXCEPT !["scheduler"] = new]
              /\ \/ UNCHANGED <<writes, message>>
                 \/ Queue("scheduler", new) /\ message' = TRUE
        /\ UNCHANGED <<file, over, mixed, made, marker, unlinking, marking, missed, panel>>
    BY <2>1, <2>3, <2>4 DEF JobReads, Returns
  <2>8. CopyType'
    BY <2>6, <2>7, Parts DEF CopyType
  <2>9. WritesType' /\ message' \in BOOLEAN
    BY <2>6, <2>7, Parts, QueueType DEF Parties, WritesType, Flags
  <2>10. Flags' /\ SetsType'
    BY <2>7, <2>9, Parts DEF Flags, SetsType
  <2>11. Down'
    BY <2>2, <2>7, Parts, StaysDown
  <2>12. QED
    BY <2>2, <2>8, <2>9, <2>10, <2>11, Parts, PTL
<1>3. QED
  BY <1>1, <1>2 DEF Scheduler

LEMMA EndsType ==
    ASSUME TypeOK, Ends
    PROVE  TypeOK'
<1>1. CopyType' /\ Down'
  BY Parts DEF Ends, CopyType, Down
<1>2. WritesType' /\ ReadsType' /\ Flags' /\ SetsType'
  BY Parts DEF Ends, WritesType, ReadsType, Flags, SetsType
<1>3. QED
  BY <1>1, <1>2, Parts, PTL

LEMMA PagesType ==
    ASSUME TypeOK, Pages
    PROVE  TypeOK'
<1>1. CASE PageSeesMarker
  <2>1. ReadsType'
    BY <1>1, Parts, AskForType DEF PageSeesMarker, Reasons
  <2>2. WritesType' /\ CopyType' /\ Down' /\ Flags' /\ SetsType'
    BY <1>1, Parts DEF PageSeesMarker, Serving, WritesType, CopyType, Down, Flags, SetsType
  <2>3. QED
    BY <2>1, <2>2, Parts, PTL
<1>2. CASE PageRemovesMarker
  <2>1. WritesType' /\ ReadsType' /\ CopyType' /\ Down' /\ Flags' /\ SetsType'
    BY <1>2, Parts DEF PageRemovesMarker, WritesType, ReadsType, CopyType, Down, Flags, SetsType
  <2>2. QED
    BY <2>1, Parts, PTL
<1>3. CASE MessageArrives
  <2>1. ReadsType'
    BY <1>3, Parts, AskForType DEF MessageArrives, Reasons
  <2>2. WritesType' /\ CopyType' /\ Down' /\ Flags' /\ SetsType'
    BY <1>3, Parts DEF MessageArrives, WritesType, CopyType, Down, Flags, SetsType
  <2>3. QED
    BY <2>1, <2>2, Parts, PTL
<1>4. CASE \E r \in reads : PanelReads(r.for, r.value)
  <2>1. PICK r \in reads : PanelReads(r.for, r.value)
    BY <1>4
  <2>2. CASE Ends
    BY <2>2, EndsType
  <2>3. CASE ~Ends
    <3>1. /\ Returns(r.for, r.value)
          /\ \/ missed' = TRUE /\ UNCHANGED copy
             \/ /\ r.value # Undefined
                /\ copy' = [copy EXCEPT !["panel"] = r.value] /\ UNCHANGED missed
          /\ UNCHANGED <<writes, made, known, marker, unlinking, marking, message, panel>>
      BY <2>1, <2>3 DEF PanelReads
    <3>2. /\ ReadsType' /\ reads' \subseteq reads
          /\ r.value = Undefined \/ r.value \in SUBSET Changes
      BY <3>1, Parts, ReturnsType
    <3>3. CopyType'
      BY <3>1, <3>2, Parts DEF CopyType
    <3>4. WritesType' /\ Flags' /\ SetsType'
      BY <3>1, Parts DEF Returns, WritesType, Flags, SetsType
    <3>5. Down'
      BY <3>1, <3>2, Parts, StaysDown
    <3>6. QED
      BY <3>2, <3>3, <3>4, <3>5, Parts, PTL
  <2>4. QED
    BY <2>2, <2>3
<1>5. CASE Ends
  BY <1>5, EndsType
<1>6. CASE PanelStarts
  <2>1. ReadsType'
    BY <1>6, Parts, AskForType DEF PanelStarts, Reasons
  <2>2. WritesType' /\ CopyType' /\ Down' /\ Flags' /\ SetsType'
    BY <1>6, Parts DEF PanelStarts, WritesType, CopyType, Down, Flags, SetsType
  <2>3. QED
    BY <2>1, <2>2, Parts, PTL
<1>7. QED
  BY <1>1, <1>2, <1>3, <1>4, <1>5, <1>6 DEF Pages

LEMMA NextType == TypeOK /\ [Next]_vars => TypeOK'
<1> SUFFICES ASSUME TypeOK, [Next]_vars PROVE TypeOK'
  OBVIOUS
<1>1. CASE DirectoryChanges
  BY <1>1 DEF DirectoryChanges, TypeOK, notes
<1>2. CASE UNCHANGED vars
  BY <1>2 DEF vars, notes, TypeOK
<1>3. QED
  BY <1>1, <1>2, StorageType, ShellType, SchedulerType, PagesType, FormsType DEF Next

\* File, copies, reads and writes hold changes there are, what a failed read
\* gives reaches no copy (database.js:34), no slot is used twice, and a panel
\* that is down has nothing under way.
THEOREM TypeCorrect == Spec => []TypeOK
  BY InitType, NextType, PTL DEF Spec

-----------------------------------------------------------------------------
(* The shell alone.  QInv: the file only grows, what the panel has read is  *)
(* on the way from its copy to the file, and unless a note is left or lost  *)
(* a read that will find all of the file is under way.                      *)

\* Without forms and quota only a command writes, and one write at a time.
OnlyCommand ==
    /\ ~over /\ ~message
    /\ \A w \in writes : w.by = "shell" /\ file \subseteq w.value
    /\ \A v, w \in writes : v = w
    /\ Reading("command") => writes = {}
    /\ \A q, r \in reads : q.for = "command" /\ r.for = "command" => q = r
    /\ \A r \in reads : r.for = "command" /\ r.done /\ r.value # Undefined => r.value = file

\* Nobody has seen a suspension.
Clean ==
    /\ Suspension \notin file /\ Suspension \notin copy["scheduler"]
    /\ \A w \in writes : Suspension \notin w.value
    /\ \A r \in reads : r.done /\ r.value # Undefined => Suspension \notin r.value

\* What the panel's reads have found is no older than its copy.
Seen ==
    /\ copy["panel"] \subseteq file
    /\ \A r \in reads : r.for # "message"
    /\ \A r \in reads : r.for \in {"start", "page"} /\ r.done /\ r.value # Undefined
          => copy["panel"] \subseteq r.value /\ r.value \subseteq file
    /\ ~(Reading("start") /\ Reading("page"))

\* A read whose callback gives the panel the file, or an error.
Brings(r) ==
    /\ r.for \in {"start", "page"}
    /\ ~r.done \/ r.value = Undefined \/ r.value = file

Covered == copy["panel"] = file \/ \E r \in reads : Brings(r)

Noted == panel /\ ~marking /\ ~missed /\ (~marker \/ unlinking) => Covered

Quiet == OnlyCommand /\ Clean /\ Seen /\ Noted

QInv == TypeOK /\ (~mixed => Quiet)

LEMMA QInvImplies == QInv => PanelKnowsFile
<1> SUFFICES ASSUME QInv, AtRest, ~mixed, ~missed
             PROVE  copy["panel"] = file
  BY DEF PanelKnowsFile
<1>1. Noted /\ reads = {} /\ panel /\ ~marking /\ ~marker
  BY DEF QInv, Quiet, AtRest, Serving
<1>2. QED
  BY <1>1 DEF Noted, Covered

LEMMA QInvInit == Init => QInv
<1> SUFFICES ASSUME Init PROVE QInv
  OBVIOUS
<1>1. OnlyCommand
  BY DEF Init, OnlyCommand, Reading
<1>2. Clean
  BY DEF Init, Clean, Parties
<1>3. Seen
  BY DEF Init, Seen, Parties, Reading
<1>4. Noted
  BY DEF Init, Noted, Covered, Parties
<1>5. QED
  BY <1>1, <1>2, <1>3, <1>4, InitType DEF QInv, Quiet

\* A step after which the premise holds had it before: mixed stays.
LEMMA Before ==
    ASSUME QInv, [Next]_vars, ~mixed'
    PROVE  Quiet /\ ~Forms /\ ~DirectoryChanges /\ TypeOK /\ TypeOK'
<1>1. TypeOK /\ TypeOK'
  BY NextType DEF QInv
<1>2. ~Forms
  BY <1>1 DEF Forms, PanelSaves, TypeOK
<1>3. ~DirectoryChanges
  BY DEF DirectoryChanges
<1>4. mixed' = mixed
  <2>1. Storage => mixed' = mixed
    BY DEF Storage, WriteEnds, WriteFails, ReadRuns, ReadFails, Gives
  <2>2. Shell => mixed' = mixed
    BY DEF Shell, CommandStarts, CommandMarks, CommandDies, CommandReads, Returns
  <2>3. Scheduler => mixed' = mixed
    BY DEF Scheduler, JobStarts, JobReads, Returns
  <2>4. Pages => mixed' = mixed
    BY DEF Pages, PageSeesMarker, PageRemovesMarker, MessageArrives, PanelReads,
           Returns, Ends, PanelStarts
  <2>5. QED
    BY <1>2, <1>3, <2>1, <2>2, <2>3, <2>4 DEF Next, vars
<1>5. QED
  BY <1>1, <1>2, <1>3, <1>4 DEF QInv

LEMMA WriteEndsQuiet ==
    ASSUME Quiet, TypeOK, NEW w \in writes, WriteEnds(w)
    PROVE  Quiet'
<1>1. /\ writes' = {} /\ file' = w.value /\ marking' = TRUE
      /\ file \subseteq file' /\ ~Reading("command")
  BY DEF WriteEnds, Quiet, OnlyCommand
<1>2. UNCHANGED <<copy, reads, message, panel, over>>
  BY DEF WriteEnds
<1>3. OnlyCommand'
  BY <1>1, <1>2 DEF Quiet, OnlyCommand, Reading
<1>4. Clean'
  BY <1>1, <1>2 DEF Quiet, Clean
<1>5. Seen'
  <2>1. Reading("start")' = Reading("start") /\ Reading("page")' = Reading("page")
    BY <1>2 DEF Reading
  <2>2. QED
    BY <1>1, <1>2, <2>1 DEF Quiet, Seen
<1>6. Noted'
  BY <1>1 DEF Noted
<1>7. QED
  BY <1>3, <1>4, <1>5, <1>6 DEF Quiet

LEMMA WriteFailsQuiet ==
    ASSUME Quiet, NEW w \in writes, WriteFails(w)
    PROVE  Quiet'
<1>1. /\ writes' \subseteq writes
      /\ UNCHANGED <<file, copy, reads, panel, over, marker, unlinking, marking,
                     message, missed>>
  BY DEF WriteFails, notes
<1>2. \A for : Reading(for)' = Reading(for)
  BY <1>1 DEF Reading
<1>3. OnlyCommand' /\ Clean' /\ Seen'
  BY <1>1, <1>2 DEF Quiet, OnlyCommand, Clean, Seen
<1>4. Noted'
  BY <1>1 DEF Quiet, Noted, Covered, Brings
<1>5. QED
  BY <1>3, <1>4 DEF Quiet

LEMMA GivesQuiet ==
    ASSUME Quiet, TypeOK, NEW r \in reads, NEW value \in {file, Undefined},
           Gives(r, value)
    PROVE  Quiet'
<1>1. PICK new : /\ new.for = r.for /\ new.done = TRUE /\ new.value = value
                 /\ reads' = (reads \ {r}) \cup {new}
  <2> DEFINE new == [r EXCEPT !.done = TRUE, !.value = value]
  <2>1. r \in Read
    BY DEF TypeOK
  <2>2. new.for = r.for /\ new.done = TRUE /\ new.value = value
    BY <2>1 DEF Read
  <2>3. reads' = (reads \ {r}) \cup {new}
    BY DEF Gives
  <2> HIDE DEF new
  <2>4. QED
    BY <2>2, <2>3
<1>2. UNCHANGED <<file, copy, writes, panel, over, marker, unlinking, marking,
                  message, missed>>
  BY DEF Gives, notes
<1>3. \A for : Reading(for)' = Reading(for)
  BY <1>1 DEF Reading
<1>4. OnlyCommand'
  BY <1>1, <1>2, <1>3 DEF Quiet, OnlyCommand
<1>5. Clean'
  BY <1>1, <1>2 DEF Quiet, Clean
<1>6. Seen'
  BY <1>1, <1>2, <1>3 DEF Quiet, Seen
<1>7. Noted'
  <2>1. Covered => Covered'
    BY <1>1, <1>2 DEF Covered, Brings
  <2>2. QED
    BY <1>2, <2>1 DEF Quiet, Noted
<1>8. QED
  BY <1>4, <1>5, <1>6, <1>7 DEF Quiet

\* A read for page, start or job is asked for.
LEMMA Asked ==
    ASSUME Quiet, NEW for \in Reasons, AskFor(for), for \notin {"message", "command"},
           for = "page" => ~Reading("start"),
           for = "start" => ~Reading("page"),
           UNCHANGED <<file, copy, writes, over, message>>
    PROVE  /\ OnlyCommand' /\ Clean' /\ Seen'
           /\ Covered => Covered'
           /\ for \in {"start", "page"} => Covered'
<1>1. CASE reads' = reads /\ Waiting(for)
  <2>1. \A x : Reading(x)' = Reading(x)
    BY <1>1 DEF Reading
  <2>2. OnlyCommand' /\ Clean' /\ Seen'
    BY <1>1, <2>1 DEF Quiet, OnlyCommand, Clean, Seen
  <2>3. Covered => Covered'
    BY <1>1 DEF Covered, Brings
  <2>4. for \in {"start", "page"} => Covered'
    BY <1>1 DEF Covered, Brings, Waiting
  <2>5. QED
    BY <2>2, <2>3, <2>4
<1>2. CASE ~(reads' = reads /\ Waiting(for))
  <2>1. PICK new : /\ new.for = for /\ ~new.done
                   /\ reads' = reads \cup {new}
    BY <1>2, Asks
  <2>2. \A x : x # for => Reading(x)' = Reading(x)
    BY <2>1 DEF Reading
  <2>3. OnlyCommand'
    BY <2>1, <2>2 DEF Quiet, OnlyCommand
  <2>4. Clean'
    BY <2>1 DEF Quiet, Clean
  <2>5. ~(Reading("start") /\ Reading("page"))'
    BY <2>2 DEF Quiet, Seen
  <2>6. Seen'
    BY <2>1, <2>5 DEF Quiet, Seen
  <2>7. Covered => Covered'
    BY <2>1 DEF Covered, Brings
  <2>8. for \in {"start", "page"} => Covered'
    BY <2>1 DEF Covered, Brings
  <2>9. QED
    BY <2>3, <2>4, <2>6, <2>7, <2>8
<1>3. QED
  BY <1>1, <1>2

\* Reads that go and add nothing keep what is said of those that stay.
LEMMA Fewer ==
    ASSUME Quiet, reads' \subseteq reads, writes' \subseteq writes,
           UNCHANGED <<file, over>>, ~message'
    PROVE  /\ OnlyCommand'
           /\ copy'["scheduler"] = copy["scheduler"] => Clean'
           /\ copy'["panel"] = copy["panel"] => Seen'
<1>1. \A for : Reading(for)' => Reading(for)
  BY DEF Reading
<1>2. QED
  BY <1>1 DEF Quiet, OnlyCommand, Clean, Seen

LEMMA CommandStartsQuiet ==
    ASSUME Quiet, CommandStarts
    PROVE  Quiet'
<1>1. /\ AskFor("command") /\ ~Reading("command") /\ writes = {}
      /\ UNCHANGED <<file, copy, writes, panel, over, marker, unlinking, marking,
                     message, missed>>
  BY DEF CommandStarts, Quiet, OnlyCommand, notes
<1>2. PICK new : /\ new.for = "command" /\ ~new.done
                 /\ reads' = reads \cup {new}
  BY <1>1, Asks DEF Reading, Waiting
<1>3. \A x : x # "command" => Reading(x)' = Reading(x)
  BY <1>2 DEF Reading
<1>4. OnlyCommand'
  BY <1>1, <1>2 DEF Quiet, OnlyCommand, Reading
<1>5. Clean' /\ Seen'
  BY <1>1, <1>2, <1>3 DEF Quiet, Clean, Seen
<1>6. Noted'
  BY <1>1, <1>2 DEF Quiet, Noted, Covered, Brings
<1>7. QED
  BY <1>4, <1>5, <1>6 DEF Quiet

LEMMA CommandReadsQuiet ==
    ASSUME Quiet, TypeOK, NEW r \in reads, NEW change \in ShellChanges,
           CommandReads(r.value, change)
    PROVE  Quiet'
<1>1. PICK q \in reads : /\ q.for = "command" /\ q.done /\ q.value = r.value
                         /\ reads' = reads \ {q}
  BY DEF CommandReads, Returns
<1>2. UNCHANGED <<file, panel, over, marker, unlinking, marking, message, missed>>
  BY DEF CommandReads, Returns, notes
<1>3. writes = {} /\ ~Reading("command")'
  BY <1>1 DEF Quiet, OnlyCommand, Reading
<1>4. \A x : Reading(x)' => Reading(x)
  BY <1>1 DEF Reading
<1>5. /\ copy'["panel"] = copy["panel"] /\ copy'["scheduler"] = copy["scheduler"]
      /\ \A w \in writes' : /\ w.by = "shell" /\ file \subseteq w.value
                            /\ Suspension \notin w.value
      /\ \A v, w \in writes' : v = w
  <2>1. CASE r.value = Undefined
    BY <1>3, <2>1 DEF CommandReads
  <2>2. CASE r.value # Undefined
    <3>1. r.value = file
      BY <1>1, <2>2 DEF Quiet, OnlyCommand
    <3>2. copy' = [copy EXCEPT !["shell"] = file \cup {change}]
      BY <2>2, <3>1 DEF CommandReads
    <3>3. Queue("shell", copy'["shell"])
      BY <2>2 DEF CommandReads
    <3>4. Suspension \notin file \cup {change}
      BY ChangesAssumption DEF Quiet, Clean
    <3>5. /\ copy'["shell"] = file \cup {change}
          /\ copy'["panel"] = copy["panel"] /\ copy'["scheduler"] = copy["scheduler"]
      BY <3>2 DEF TypeOK, Parties
    <3>6. PICK new : new.by = "shell" /\ new.value = file \cup {change} /\ writes' = {new}
      BY <1>3, <3>3, <3>5 DEF Queue
    <3>7. QED
      BY <3>4, <3>5, <3>6
  <2>3. QED
    BY <2>1, <2>2
<1>6. OnlyCommand'
  BY <1>2, <1>3, <1>5 DEF Quiet, OnlyCommand, Reading
<1>7. Clean' /\ Seen'
  BY <1>1, <1>2, <1>4, <1>5 DEF Quiet, Clean, Seen
<1>8. Noted'
  BY <1>1, <1>2, <1>5 DEF Quiet, Noted, Covered, Brings
<1>9. QED
  BY <1>6, <1>7, <1>8 DEF Quiet

LEMMA ShellQuiet ==
    ASSUME Quiet, TypeOK, Shell
    PROVE  Quiet'
<1>1. CASE CommandMarks
  <2>1. /\ UNCHANGED <<file, copy, writes, reads, unlinking, message, panel, over>>
        /\ marker' = TRUE /\ missed' = (missed \/ (unlinking /\ ~Waiting("page")))
    BY <1>1 DEF CommandMarks
  <2>2. \A for : Reading(for)' = Reading(for)
    BY <2>1 DEF Reading
  <2>3. OnlyCommand' /\ Clean' /\ Seen'
    BY <2>1, <2>2 DEF Quiet, OnlyCommand, Clean, Seen
  <2>4. Noted'
    BY <2>1 DEF Noted, Covered, Brings, Waiting
  <2>5. QED
    BY <2>3, <2>4 DEF Quiet
<1>2. CASE CommandDies
  <2>1. /\ reads' = {r \in reads : r.for # "command"} /\ writes' \subseteq writes
        /\ UNCHANGED <<file, copy, unlinking, message, panel, over, marker>>
        /\ missed' = (missed \/ marking)
    BY <1>2 DEF CommandDies
  <2>2. OnlyCommand' /\ Clean' /\ Seen'
    BY <2>1, Fewer DEF Quiet, OnlyCommand
  <2>3. Noted'
    BY <2>1 DEF Quiet, Noted, Covered, Brings
  <2>4. QED
    BY <2>2, <2>3 DEF Quiet
<1>3. QED
  BY <1>1, <1>2, CommandStartsQuiet, CommandReadsQuiet DEF Shell

LEMMA SchedulerQuiet ==
    ASSUME Quiet, TypeOK, Scheduler
    PROVE  Quiet'
<1>1. CASE JobStarts
  <2>1. /\ AskFor("job")
        /\ UNCHANGED <<file, copy, writes, panel, over, marker, unlinking, marking,
                       message, missed>>
    BY <1>1 DEF JobStarts, notes
  <2>2. OnlyCommand' /\ Clean' /\ Seen' /\ (Covered => Covered')
    BY <2>1, Asked DEF Reasons
  <2>3. QED
    BY <2>1, <2>2 DEF Quiet, Noted
<1>2. CASE \E r \in reads : JobReads(r.value)
  <2>1. PICK r \in reads : JobReads(r.value)
    BY <1>2
  <2>2. PICK q \in reads : /\ q.for = "job" /\ q.done /\ q.value = r.value
                           /\ reads' = reads \ {q}
    BY <2>1 DEF JobReads, Returns
  <2>3. PICK own : own = IF r.value = Undefined THEN copy["scheduler"] ELSE r.value
    OBVIOUS
  <2>4. PICK new : new = IF over THEN own \cup {Suspension} ELSE own \ {Suspension}
    OBVIOUS
  <2>5. Suspension \notin own /\ ~over
    BY <2>2, <2>3 DEF Quiet, OnlyCommand, Clean
  <2>6. new = own
    <3>1. own \in SUBSET Changes
      BY <2>2, <2>3 DEF TypeOK, Read, Parties
    <3>2. QED
      BY <2>4, <2>5, <3>1
  <2>7. /\ UNCHANGED <<writes, message>>
        /\ copy' = copy \/ copy' = [copy EXCEPT !["scheduler"] = own]
        /\ UNCHANGED <<file, over, marker, unlinking, marking, missed, panel>>
    BY <2>1, <2>3, <2>4, <2>6 DEF JobReads, Returns
  <2>8. copy'["panel"] = copy["panel"] /\ Suspension \notin copy'["scheduler"]
    BY <2>5, <2>7 DEF Quiet, Clean, TypeOK, Parties
  <2>9. OnlyCommand' /\ Seen'
    BY <2>2, <2>7, <2>8, Fewer DEF Quiet, OnlyCommand
  <2>10. Clean'
    BY <2>2, <2>7, <2>8 DEF Quiet, Clean
  <2>11. Noted'
    BY <2>2, <2>7, <2>8 DEF Quiet, Noted, Covered, Brings
  <2>12. QED
    BY <2>9, <2>10, <2>11 DEF Quiet
<1>3. QED
  BY <1>1, <1>2 DEF Scheduler

LEMMA EndsQuiet ==
    ASSUME Quiet, TypeOK, Ends
    PROVE  Quiet'
<1>1. /\ copy'["panel"] = {} /\ copy'["scheduler"] = {}
      /\ writes' \subseteq writes /\ ~panel' /\ ~message'
      /\ reads' = {r \in reads : r.for = "command"}
      /\ UNCHANGED <<file, over>>
  BY DEF Ends, TypeOK, Parties
<1>2. OnlyCommand'
  BY <1>1, Fewer
<1>3. Clean'
  BY <1>1 DEF Quiet, Clean
<1>4. Seen'
  BY <1>1 DEF Quiet, Seen, Reading
<1>5. Noted'
  BY <1>1 DEF Noted
<1>6. QED
  BY <1>2, <1>3, <1>4, <1>5 DEF Quiet

LEMMA PanelReadsQuiet ==
    ASSUME Quiet, TypeOK, NEW r \in reads, PanelReads(r.for, r.value)
    PROVE  Quiet'
<1>1. CASE Ends
  BY <1>1, EndsQuiet
<1>2. CASE ~Ends
  <2>1. /\ r.for \in {"start", "page", "message"}
        /\ \/ missed' = TRUE /\ UNCHANGED copy
           \/ /\ r.value # Undefined
              /\ copy' = [copy EXCEPT !["panel"] = r.value] /\ UNCHANGED missed
        /\ UNCHANGED <<file, over, writes, marker, unlinking, marking, message, panel>>
    BY <1>2 DEF PanelReads, Returns
  <2>2. PICK q \in reads : /\ q.for = r.for /\ q.done /\ q.value = r.value
                           /\ reads' = reads \ {q}
    BY <1>2 DEF PanelReads, Returns
  <2>3. q.for \in {"start", "page"}
    BY <2>1, <2>2 DEF Quiet, Seen
  <2>4. OnlyCommand' /\ (copy'["scheduler"] = copy["scheduler"] => Clean')
        /\ (copy'["panel"] = copy["panel"] => Seen')
    BY <2>1, <2>2, Fewer DEF Quiet, OnlyCommand
  <2>5. CASE missed' = TRUE /\ UNCHANGED copy
    BY <2>4, <2>5 DEF Quiet, Noted
  <2>6. CASE /\ r.value # Undefined
             /\ copy' = [copy EXCEPT !["panel"] = r.value] /\ UNCHANGED missed
    <3>1. copy'["panel"] = r.value /\ copy'["scheduler"] = copy["scheduler"]
      BY <2>6 DEF TypeOK, Parties
    <3>2. copy["panel"] \subseteq r.value /\ r.value \subseteq file
      BY <2>2, <2>3, <2>6 DEF Quiet, Seen
    <3>3. \A p \in reads' : p.for \in {"start", "page"} => ~p.done
      BY <2>2, <2>3 DEF Quiet, Seen, Reading, TypeOK
    <3>4. Seen'
      <4>1. ~(Reading("start") /\ Reading("page"))'
        BY <2>2 DEF Quiet, Seen, Reading
      <4>2. \A p \in reads' : p.for # "message"
        BY <2>2 DEF Quiet, Seen
      <4>3. QED
        BY <2>1, <3>1, <3>2, <3>3, <4>1, <4>2 DEF Seen
    <3>5. Covered => Covered'
      <4>1. CASE copy["panel"] = file
        <5>1. r.value = file
          BY <3>2, <4>1
        <5>2. QED
          BY <2>1, <3>1, <5>1 DEF Covered
      <4>2. CASE \E p \in reads : Brings(p)
        <5>1. PICK p \in reads : Brings(p)
          BY <4>2
        <5>2. CASE p = q
          <6>1. r.value = file
            BY <2>2, <2>6, <5>1, <5>2 DEF Brings
          <6>2. QED
            BY <2>1, <3>1, <6>1 DEF Covered
        <5>3. CASE p # q
          BY <2>1, <2>2, <5>1, <5>3 DEF Covered, Brings
        <5>4. QED
          BY <5>2, <5>3
      <4>3. QED
        BY <4>1, <4>2 DEF Covered
    <3>6. Noted'
      BY <2>1, <2>6, <3>5 DEF Quiet, Noted
    <3>7. QED
      BY <2>4, <3>1, <3>4, <3>6 DEF Quiet
  <2>7. QED
    BY <2>1, <2>5, <2>6
<1>3. QED
  BY <1>1, <1>2

LEMMA PagesQuiet ==
    ASSUME Quiet, TypeOK, Pages
    PROVE  Quiet'
<1>1. CASE PageSeesMarker
  <2>1. /\ AskFor("page") /\ ~Reading("start")
        /\ UNCHANGED <<file, copy, writes, message, over>>
    BY <1>1 DEF PageSeesMarker, Serving
  <2>2. OnlyCommand' /\ Clean' /\ Seen' /\ Covered'
    BY <2>1, Asked DEF Reasons
  <2>3. QED
    BY <2>2 DEF Quiet, Noted
<1>2. CASE PageRemovesMarker
  <2>1. /\ UNCHANGED <<file, copy, writes, reads, message, over, panel, marking, missed>>
        /\ unlinking
    BY <1>2 DEF PageRemovesMarker
  <2>2. \A for : Reading(for)' = Reading(for)
    BY <2>1 DEF Reading
  <2>3. OnlyCommand' /\ Clean' /\ Seen'
    BY <2>1, <2>2 DEF Quiet, OnlyCommand, Clean, Seen
  <2>4. Noted'
    BY <2>1 DEF Quiet, Noted, Covered, Brings
  <2>5. QED
    BY <2>3, <2>4 DEF Quiet
<1>3. CASE MessageArrives
  BY <1>3 DEF MessageArrives, Quiet, OnlyCommand
<1>4. CASE PanelStarts
  <2>1. /\ AskFor("start") /\ ~panel
        /\ UNCHANGED <<file, copy, writes, message, over>>
    BY <1>4 DEF PanelStarts
  <2>2. ~Reading("page")
    BY <2>1 DEF TypeOK, Reading
  <2>3. OnlyCommand' /\ Clean' /\ Seen' /\ Covered'
    BY <2>1, <2>2, Asked DEF Reasons
  <2>4. QED
    BY <2>3 DEF Quiet, Noted
<1>5. QED
  BY <1>1, <1>2, <1>3, <1>4, PanelReadsQuiet, EndsQuiet DEF Pages

LEMMA QInvNext == QInv /\ [Next]_vars => QInv'
<1> SUFFICES ASSUME QInv, [Next]_vars PROVE QInv'
  OBVIOUS
<1>1. TypeOK'
  BY NextType DEF QInv
<1>2. ASSUME ~mixed' PROVE Quiet'
  <2>1. Quiet /\ ~Forms /\ ~DirectoryChanges /\ TypeOK
    BY <1>2, Before
  <2>2. CASE Storage
    <3>1. CASE \E w \in writes : WriteEnds(w) \/ WriteFails(w)
      BY <2>1, <3>1, WriteEndsQuiet, WriteFailsQuiet
    <3>2. CASE \E r \in reads : ReadRuns(r) \/ ReadFails(r)
      BY <2>1, <3>2, GivesQuiet DEF ReadRuns, ReadFails
    <3>3. QED
      BY <2>2, <3>1, <3>2 DEF Storage
  <2>3. CASE UNCHANGED vars
    <3>1. UNCHANGED <<file, copy, writes, reads, marker, unlinking, marking, message,
                      panel, over, missed>>
      BY <2>3 DEF vars, notes
    <3>2. \A for : Reading(for)' = Reading(for)
      BY <3>1 DEF Reading
    <3>3. OnlyCommand' /\ Clean' /\ Seen'
      BY <2>1, <3>1, <3>2 DEF Quiet, OnlyCommand, Clean, Seen
    <3>4. Noted'
      BY <2>1, <3>1 DEF Quiet, Noted, Covered, Brings
    <3>5. QED
      BY <3>3, <3>4 DEF Quiet
  <2>4. QED
    BY <2>1, <2>2, <2>3, ShellQuiet, SchedulerQuiet, PagesQuiet DEF Next
<1>3. QED
  BY <1>1, <1>2 DEF QInv

\* A panel at rest knows what the commands of the shell have changed, however
\* many there are, whatever statements fail and whoever ends in between, unless
\* a note was lost: its read failed, its marker went with an earlier one, or
\* its command died before it wrote it (database.js:12-20, 946-960).
THEOREM CommandIsSeen == Spec => []PanelKnowsFile
<1>1. Spec => []QInv
  BY QInvInit, QInvNext, PTL DEF Spec
<1>2. QED
  BY <1>1, QInvImplies, PTL
=============================================================================
