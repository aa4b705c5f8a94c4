-------------------------- MODULE HostedApps_proofs --------------------------
(***************************************************************************)
(* Proofs about HostedApps, for any domains and plans.                     *)
(*                                                                         *)
(* All four properties hold for any number of calls in progress.  The      *)
(* strengthening of ReloadPending is Remembered, which does not ask        *)
(* whether nginx is up: a change made while nginx is stopped is remembered *)
(* as well.  For AnswerTrue and MonitorStartTakesOver, CallsInv says what  *)
(* a call in progress has learned, and HeldInv what it may rely on as long *)
(* as no other call has come between.                                      *)
(***************************************************************************)
EXTENDS HostedApps, TLAPS

Files == [conf : SUBSET DomainNames, loaded : BOOLEAN,
          needsReload : [Threads -> BOOLEAN], forgot : BOOLEAN]

\* A difference between nginx and its files is known, or known to be lost.
Remembered(f) == f.loaded \/ f.forgot \/ \E t \in Threads : f.needsReload[t]

GoodFiles == {f \in Files : Remembered(f)}

DbType ==
    /\ domains \subseteq DomainNames /\ enabled \subseteq domains
    /\ suspended \subseteq PlanNames

AppsType ==
    /\ monitor \in BOOLEAN
    /\ running \subseteq DomainNames /\ starting \subseteq DomainNames
    /\ monitor \/ running \cup starting = {}

CallsType == calls \in [Callers -> Call]

IInv ==
    /\ DbType /\ AppsType /\ CallsType
    /\ files \in GoodFiles
    /\ nginx \in BOOLEAN /\ panel \in BOOLEAN

LEMMA Parts == IInv <=> TypeOK /\ Remembered(files)
  BY DEF IInv, TypeOK, DbType, AppsType, CallsType, GoodFiles, Files

LEMMA Implied == IInv => TypeOK /\ ReloadPending
<1>1. IInv => TypeOK /\ Remembered(files)
  BY Parts
<1>2. Remembered(files) => ReloadPending
  BY DEF Remembered, ReloadPending
<1>3. QED
  BY <1>1, <1>2

LEMMA NoCallType == NoCall \in Call
  BY DEF NoCall, NewCall, Call, Ops, Callees, Threads, Stages

LEMMA InitInv == Init => IInv
<1> SUFFICES ASSUME Init PROVE IInv
  OBVIOUS
<1>1. DbType /\ AppsType
  BY DEF Init, DbType, AppsType
<1>2. CallsType
  BY NoCallType DEF Init, CallsType
<1>3. files \in GoodFiles
  BY DEF Init, GoodFiles, Files, Remembered
<1>4. QED
  BY <1>1, <1>2, <1>3 DEF IInv, Init

-----------------------------------------------------------------------------
(* What the helpers on nginx's files keep.                                 *)

LEMMA ChangedGood ==
    ASSUME NEW f \in GoodFiles, NEW t \in Threads,
           NEW conf \in SUBSET DomainNames, NEW any \in BOOLEAN
    PROVE  Changed(f, t, conf, any) \in GoodFiles
<1>1. Changed(f, t, conf, any) \in Files
  BY DEF Changed, GoodFiles, Files
<1>2. Remembered(Changed(f, t, conf, any))
  <2>1. CASE any
    <3>1. Changed(f, t, conf, any).needsReload[t]
      BY <2>1 DEF Changed, GoodFiles, Files
    <3>2. QED
      BY <3>1 DEF Remembered
  <2>2. CASE ~any
    BY <2>2 DEF Changed, GoodFiles, Files, Remembered
  <2>3. QED
    BY <2>1, <2>2
<1>3. QED
  BY <1>1, <1>2 DEF GoodFiles

LEMMA SaveGood ==
    ASSUME NEW f \in GoodFiles, NEW t \in Threads,
           NEW ds \in SUBSET DomainNames, NEW other \in BOOLEAN
    PROVE  Save(f, t, ds, other) \in GoodFiles
<1>1. f.conf \cup ds \in SUBSET DomainNames
  BY DEF GoodFiles, Files
<1>2. (~(ds \subseteq f.conf) \/ (other /\ ds # {})) \in BOOLEAN
  OBVIOUS
<1>3. QED
  BY <1>1, <1>2, ChangedGood DEF Save

LEMMA RemoveGood ==
    ASSUME NEW f \in GoodFiles, NEW t \in Threads, NEW ds
    PROVE  Remove(f, t, ds) \in GoodFiles
<1>1. f.conf \ ds \in SUBSET DomainNames
  BY DEF GoodFiles, Files
<1>2. (ds \cap f.conf # {}) \in BOOLEAN
  OBVIOUS
<1>3. QED
  BY <1>1, <1>2, ChangedGood DEF Remove

LEMMA ReloadGood ==
    ASSUME NEW f \in GoodFiles, NEW t \in Threads, NEW ok \in BOOLEAN
    PROVE  Reload(f, t, ok) \in GoodFiles
  BY DEF Reload, GoodFiles, Files, Remembered

\* Flags that go with their process leave forgot behind.
LEMMA ForgottenGood ==
    ASSUME NEW f \in GoodFiles, NEW ts
    PROVE  Forgotten(f, ts) \in GoodFiles
<1>1. Forgotten(f, ts) \in Files
  BY DEF Forgotten, GoodFiles, Files
<1>2. Remembered(Forgotten(f, ts))
  BY DEF Forgotten, GoodFiles, Files, Remembered
<1>3. QED
  BY <1>1, <1>2 DEF GoodFiles

LEMMA ExitsGood ==
    ASSUME IInv, NEW f \in GoodFiles, PanelExits(f)
    PROVE  /\ files' \in GoodFiles
           /\ calls' \in [Callers -> Call]
           /\ DbType' /\ panel' \in BOOLEAN
<1>1. files' \in GoodFiles
  BY ForgottenGood DEF PanelExits
<1>2. calls' \in [Callers -> Call]
  BY NoCallType DEF PanelExits, IInv, CallsType
<1>3. DbType' /\ panel' \in BOOLEAN
  BY DEF PanelExits, IInv, DbType
<1>4. QED
  BY <1>1, <1>2, <1>3

-----------------------------------------------------------------------------
(* What is left of the call in progress.                                   *)

LEMMA NewCallType ==
    ASSUME NEW op \in Ops, NEW for \in Callees,
           NEW ds \in SUBSET DomainNames, NEW t \in Threads
    PROVE  NewCall(op, for, ds, t) \in Call
  BY DEF NewCall, Call, Stages

LEMMA EndedType ==
    ASSUME NEW err \in BOOLEAN
    PROVE  Ended(err) \in Call
  BY NoCallType DEF Ended, Call

LEMMA SetType ==
    ASSUME CallsType, NEW c \in Callers, NEW call \in Call, Set(c, call)
    PROVE  CallsType'
<1>1. \A x \in Callers : [calls[x] EXCEPT !.solo = FALSE] \in Call
  BY DEF CallsType, Call
<1>2. QED
  BY <1>1 DEF CallsType, Set

LEMMA StatusType ==
    ASSUME NEW call \in Call, NEW err \in BOOLEAN
    PROVE  [call EXCEPT !.stage = "status", !.err = err] \in Call
  BY DEF Call, Stages

\* What a callback may touch is as it should be.
Touched ==
    /\ DbType' /\ CallsType' /\ files' \in GoodFiles
    /\ panel' \in BOOLEAN

LEMMA ButtonCallbackKeeps ==
    ASSUME IInv, NEW c \in Callers, NEW call \in Call, NEW err \in BOOLEAN,
           NEW f \in GoodFiles, ButtonCallback(c, call, err, f)
    PROVE  Touched
<1> DEFINE d == CHOOSE x \in call.ds : TRUE
<1>1. CASE d \in domains
  <2>1. CallsType'
    BY <1>1, StatusType, SetType DEF ButtonCallback, IInv
  <2>2. enabled' = enabled \cup {d} \/ enabled' = enabled \ {d}
    BY <1>1 DEF ButtonCallback
  <2>3. domains' = domains /\ suspended' = suspended
    BY <1>1 DEF ButtonCallback
  <2>4. DbType'
    BY <1>1, <2>2, <2>3 DEF IInv, DbType
  <2>5. QED
    BY <1>1, <2>1, <2>4 DEF ButtonCallback, IInv, Touched
<1>2. CASE d \notin domains
  <2>1. PanelExits(f)
    BY <1>2 DEF ButtonCallback
  <2>2. QED
    BY <2>1, ExitsGood DEF Touched, CallsType
<1>3. QED
  BY <1>1, <1>2

LEMMA EditCallbackKeeps ==
    ASSUME IInv, NEW c \in Callers, NEW call \in Call, NEW err \in BOOLEAN,
           NEW f \in GoodFiles, EditCallback(c, call, err, f)
    PROVE  Touched
<1> DEFINE d == CHOOSE x \in call.ds : TRUE
<1>1. DbType' /\ panel' \in BOOLEAN
  BY DEF EditCallback, IInv, DbType, db
<1>2. d \in domains => {d} \in SUBSET DomainNames
  BY DEF IInv, DbType
<1>3. "panel" \in Threads /\ "start" \in Ops /\ "edit" \in Callees
  BY DEF Threads, Ops, Callees
<1>4. CASE call.op = "stop" /\ call.seen /\ ~err /\ MayStart(d)
  <2>1. \E other \in BOOLEAN : files' = Save(f, "panel", {d}, other)
    BY <1>4 DEF EditCallback
  <2>2. files' \in GoodFiles
    BY <1>2, <1>3, <1>4, <2>1, SaveGood DEF MayStart
  <2>3. Set(c, NewCall("start", "edit", {d}, "panel"))
    BY <1>4 DEF EditCallback
  <2>4. NewCall("start", "edit", {d}, "panel") \in Call
    BY <1>2, <1>3, <1>4, NewCallType DEF MayStart
  <2>5. CallsType'
    BY <2>3, <2>4, SetType DEF IInv
  <2>6. QED
    BY <1>1, <2>2, <2>5 DEF Touched
<1>5. CASE files' = f /\ Set(c, Ended(TRUE))
  <2>1. CallsType'
    BY <1>5, EndedType, SetType DEF IInv
  <2>2. QED
    BY <1>1, <1>5, <2>1 DEF Touched
<1>6. CASE /\ \E save, ok, other \in BOOLEAN :
                files' = IF save /\ ~err /\ d \in domains
                         THEN Reload(Save(f, "panel", {d}, other), "panel", ok) ELSE f
           /\ Set(c, Ended(err))
  <2>1. PICK save \in BOOLEAN, ok \in BOOLEAN, other \in BOOLEAN :
          files' = IF save /\ ~err /\ d \in domains
                   THEN Reload(Save(f, "panel", {d}, other), "panel", ok) ELSE f
    BY <1>6
  <2>2. d \in domains => Save(f, "panel", {d}, other) \in GoodFiles
    BY <1>2, <1>3, SaveGood
  <2>3. files' \in GoodFiles
    BY <1>3, <2>1, <2>2, ReloadGood
  <2>4. CallsType'
    BY <1>6, EndedType, SetType DEF IInv
  <2>5. QED
    BY <1>1, <2>3, <2>4 DEF Touched
<1>7. QED
  BY <1>4, <1>5, <1>6 DEF EditCallback

LEMMA SingleCallbackKeeps ==
    ASSUME IInv, NEW c \in Callers, NEW call \in Call, NEW err \in BOOLEAN,
           NEW f \in GoodFiles, SingleCallback(c, call, err, f)
    PROVE  Touched
  BY ButtonCallbackKeeps, EditCallbackKeeps DEF SingleCallback

LEMMA ManyCallbackKeeps ==
    ASSUME IInv, NEW c \in Callers, NEW call,
           NEW f \in GoodFiles, ManyCallback(c, call, f)
    PROVE  Touched
<1>1. CallsType'
  BY EndedType, SetType DEF ManyCallback, IInv
<1>2. DbType' /\ panel' \in BOOLEAN
  BY DEF ManyCallback, IInv, DbType, db
<1>3. ASSUME NEW changed \in BOOLEAN
      PROVE  [f EXCEPT !.loaded = @ /\ ~changed, !.forgot = @ \/ changed] \in GoodFiles
  BY <1>3 DEF GoodFiles, Files, Remembered
<1>4. files' \in GoodFiles
  BY <1>3, ForgottenGood DEF ManyCallback
<1>5. QED
  BY <1>1, <1>2, <1>4 DEF Touched

LEMMA MonitorCallbackKeeps ==
    ASSUME IInv, NEW c \in Callers, NEW call \in Call, NEW err \in BOOLEAN,
           files' \in GoodFiles, MonitorCallback(c, call, err)
    PROVE  Touched
<1>1. NewCall("monitorStart", "config", {}, "panel") \in Call
  BY NewCallType DEF Ops, Callees, Threads
<1>2. CallsType'
  BY <1>1, EndedType, SetType DEF MonitorCallback, IInv
<1>3. DbType' /\ panel' \in BOOLEAN
  BY DEF MonitorCallback, IInv, DbType, db
<1>4. QED
  BY <1>2, <1>3 DEF Touched

-----------------------------------------------------------------------------
(* The callbacks of the calls.                                             *)

LEMMA Rest ==
    ASSUME IInv, Touched, AppsType', nginx' \in BOOLEAN
    PROVE  IInv'
  BY DEF IInv, Touched

LEMMA Around ==
    ASSUME IInv, AppsType', CallsType', UNCHANGED <<db, nginx, files, panel>>
    PROVE  IInv'
  BY DEF IInv, DbType, db

\* What a question may tell of a call.
LEMMA HeardType ==
    ASSUME NEW call \in Call, NEW heard \in BOOLEAN, NEW seen \in BOOLEAN
    PROVE  /\ [call EXCEPT !.heard = heard] \in Call
           /\ [call EXCEPT !.seen = seen, !.heard = heard] \in Call
  BY DEF Call

LEMMA AskedSingleKeeps ==
    ASSUME IInv, NEW c \in Callers, AskedSingle(c)
    PROVE  IInv'
<1>1. AppsType' /\ nginx' \in BOOLEAN
  BY DEF AskedSingle, IInv, AppsType, apps
<1>2. PICK heard \in Replies :
        LET seen == heard /\ calls[c].ds \subseteq running
            call == [calls[c] EXCEPT !.seen = seen, !.heard = heard]
        IN  IF ~heard \/ seen = (call.op = "start")
            THEN SingleCallback(c, call, FALSE, files)
            ELSE /\ Set(c, [call EXCEPT !.stage = "exec"])
                 /\ UNCHANGED <<db, files, panel>>
  BY DEF AskedSingle
<1> DEFINE seen == heard /\ calls[c].ds \subseteq running
           call == [calls[c] EXCEPT !.seen = seen, !.heard = heard]
<1>3. heard \in BOOLEAN /\ seen \in BOOLEAN
  BY DEF Replies
<1>4. call \in Call
  BY <1>3, HeardType DEF IInv, CallsType
<1>5. CASE SingleCallback(c, call, FALSE, files)
  <2>1. Touched
    BY <1>4, <1>5, SingleCallbackKeeps DEF IInv
  <2>2. QED
    BY <1>1, <2>1, Rest
<1>6. CASE /\ Set(c, [call EXCEPT !.stage = "exec"])
           /\ UNCHANGED <<db, files, panel>>
  <2>1. [call EXCEPT !.stage = "exec"] \in Call
    BY <1>4 DEF Call, Stages
  <2>2. CallsType'
    BY <1>6, <2>1, SetType DEF IInv
  <2>3. UNCHANGED nginx
    BY DEF AskedSingle
  <2>4. QED
    BY <1>1, <1>6, <2>2, <2>3, Around
<1>7. QED
  BY <1>2, <1>5, <1>6

LEMMA ExecSingleKeeps ==
    ASSUME IInv, NEW c \in Callers, ExecSingle(c)
    PROVE  IInv'
<1>1. calls[c] \in Call /\ calls[c].ds \subseteq DomainNames
  BY DEF IInv, CallsType, Call
<1>2. [calls[c] EXCEPT !.stage = "check"] \in Call
  BY <1>1 DEF Call, Stages
<1>3. CallsType'
  BY <1>2, SetType DEF ExecSingle, IInv
<1>4. AppsType'
  BY <1>1 DEF ExecSingle, IInv, AppsType
<1>5. QED
  BY <1>3, <1>4, Around DEF ExecSingle

LEMMA CheckSingleKeeps ==
    ASSUME IInv, NEW c \in Callers, CheckSingle(c)
    PROVE  IInv'
<1>1. AppsType' /\ nginx' \in BOOLEAN
  BY DEF CheckSingle, IInv, AppsType, apps
<1>2. PICK heard \in Replies :
        LET call == [calls[c] EXCEPT !.heard = heard]
            err  == (heard /\ call.ds \subseteq running) = call.seen
            kept == IF err \/ call.op = "stop"
                    THEN Remove(files, "panel", call.ds) ELSE files
        IN  IF err
            THEN SingleCallback(c, call, TRUE, kept)
            ELSE \E ok \in BOOLEAN :
                    SingleCallback(c, call, ReloadFails(kept, "panel", ok),
                                   Reload(kept, "panel", ok))
  BY DEF CheckSingle
<1> DEFINE call == [calls[c] EXCEPT !.heard = heard]
           err  == (heard /\ call.ds \subseteq running) = call.seen
           kept == IF err \/ call.op = "stop"
                   THEN Remove(files, "panel", call.ds) ELSE files
<1>3. call \in Call
  BY HeardType DEF Replies, IInv, CallsType
<1>4. kept \in GoodFiles
  BY RemoveGood DEF IInv, Threads
<1>5. CASE SingleCallback(c, call, TRUE, kept)
  <2>1. Touched
    BY <1>3, <1>4, <1>5, SingleCallbackKeeps
  <2>2. QED
    BY <1>1, <2>1, Rest
<1>6. CASE \E ok \in BOOLEAN :
              SingleCallback(c, call, ReloadFails(kept, "panel", ok),
                             Reload(kept, "panel", ok))
  <2>1. PICK ok \in BOOLEAN :
           SingleCallback(c, call, ReloadFails(kept, "panel", ok),
                          Reload(kept, "panel", ok))
    BY <1>6
  <2>2. Reload(kept, "panel", ok) \in GoodFiles
    BY <1>4, ReloadGood DEF Threads
  <2>3. ReloadFails(kept, "panel", ok) \in BOOLEAN
    BY <1>4 DEF ReloadFails, GoodFiles, Files, Threads, IInv
  <2>4. Touched
    BY <1>3, <2>1, <2>2, <2>3, SingleCallbackKeeps
  <2>5. QED
    BY <1>1, <2>4, Rest
<1>7. QED
  BY <1>2, <1>5, <1>6

LEMMA AnswerButtonKeeps ==
    ASSUME IInv, NEW c \in Callers, AnswerButton(c)
    PROVE  IInv'
<1>1. AppsType' /\ nginx' \in BOOLEAN /\ UNCHANGED nginx
  BY DEF AnswerButton, IInv, AppsType, apps
<1>2. CASE PanelExits(files)
  <2>1. Touched
    BY <1>2, ExitsGood DEF IInv, Touched, CallsType
  <2>2. QED
    BY <1>1, <2>1, Rest
<1>3. CASE /\ \E heard \in Replies : Set(c, Ended(calls[c].err \/ ~heard))
           /\ UNCHANGED <<db, files, panel>>
  <2>1. CallsType'
    BY <1>3, EndedType, SetType DEF IInv
  <2>2. QED
    BY <1>1, <1>3, <2>1, Around
<1>4. QED
  BY <1>2, <1>3 DEF AnswerButton

LEMMA AskedManyKeeps ==
    ASSUME IInv, NEW c \in Callers, AskedMany(c)
    PROVE  IInv'
<1> DEFINE call == calls[c]
<1>1. call \in Call /\ call.thread \in Threads
  BY DEF IInv, CallsType, Call
<1>2. AppsType' /\ nginx' \in BOOLEAN
  BY DEF AskedMany, IInv, AppsType, apps
<1>3. CASE /\ Set(c, [call EXCEPT !.stage = "exec", !.todo = call.ds])
           /\ UNCHANGED <<db, files, panel>>
  <2>1. [call EXCEPT !.stage = "exec", !.todo = call.ds] \in Call
    BY <1>1 DEF Call, Stages
  <2>2. CallsType'
    BY <1>3, <2>1, SetType DEF IInv
  <2>3. UNCHANGED nginx
    BY DEF AskedMany
  <2>4. QED
    BY <1>2, <1>3, <2>2, <2>3, Around
<1>4. CASE ManyCallback(c, call, Remove(files, call.thread, call.ds))
  <2>1. Remove(files, call.thread, call.ds) \in GoodFiles
    BY <1>1, RemoveGood DEF IInv
  <2>2. Touched
    BY <1>1, <1>4, <2>1, ManyCallbackKeeps
  <2>3. QED
    BY <1>2, <2>2, Rest
<1>5. QED
  BY <1>3, <1>4 DEF AskedMany

LEMMA KillOneKeeps ==
    ASSUME IInv, NEW c \in Callers, NEW d \in DomainNames, KillOne(c, d)
    PROVE  IInv'
<1> DEFINE todo == calls[c].todo \ {d}
           call == [calls[c] EXCEPT !.todo = todo,
                                    !.stage = IF todo = {} THEN "check" ELSE @]
<1>1. call \in Call
  BY DEF IInv, CallsType, Call, Stages
<1>2. CallsType'
  BY <1>1, SetType DEF KillOne, IInv
<1>3. AppsType'
  BY DEF KillOne, IInv, AppsType
<1>4. QED
  BY <1>2, <1>3, Around DEF KillOne

LEMMA CheckManyKeeps ==
    ASSUME IInv, NEW c \in Callers, CheckMany(c)
    PROVE  IInv'
<1> DEFINE call == calls[c]
<1>1. call \in Call /\ call.thread \in Threads
  BY DEF IInv, CallsType, Call
<1>2. AppsType' /\ nginx' \in BOOLEAN
  BY DEF CheckMany, IInv, AppsType, apps
<1>3. CASE ManyCallback(c, call, Remove(files, call.thread, call.ds))
  <2>1. Remove(files, call.thread, call.ds) \in GoodFiles
    BY <1>1, RemoveGood DEF IInv
  <2>2. Touched
    BY <1>1, <1>3, <2>1, ManyCallbackKeeps
  <2>3. QED
    BY <1>2, <2>2, Rest
<1>4. CASE PanelExits(files)
  <2>1. Touched
    BY <1>4, ExitsGood DEF IInv, Touched, CallsType
  <2>2. QED
    BY <1>2, <2>1, Rest
<1>5. CASE /\ Set(c, Ended(TRUE)) /\ UNCHANGED <<db, panel>>
           /\ files' = IF call.for = "fix" THEN Forgotten(files, {"shell"}) ELSE files
  <2>1. CallsType'
    BY <1>5, EndedType, SetType DEF IInv
  <2>2. files' \in GoodFiles
    BY <1>5, ForgottenGood DEF IInv
  <2>3. Touched
    BY <1>5, <2>1, <2>2 DEF Touched, IInv, DbType, db
  <2>4. QED
    BY <1>2, <2>3, Rest
<1>6. QED
  BY <1>3, <1>4, <1>5 DEF CheckMany

LEMMA AskedRestartKeeps ==
    ASSUME IInv, NEW c \in Callers, AskedRestart(c)
    PROVE  IInv'
<1> DEFINE call == calls[c]
<1>1. call \in Call /\ call.ds \subseteq DomainNames
  BY DEF IInv, CallsType, Call
<1>2. CallsType'
  BY EndedType, SetType DEF AskedRestart, IInv
<1>3. PICK heard \in Replies : \E refused \in SUBSET call.ds, ok \in BOOLEAN, other \in BOOLEAN :
        LET ds == {d \in call.ds \ refused : MayStart(d)} IN
        IF ~heard \/ running = {} \/ ds = {}
        THEN UNCHANGED <<running, starting, files>>
        ELSE /\ files' = Reload(Save(files, "panel", ds, other), "panel", ok)
             /\ running' = running \ ds
             /\ starting' = starting \cup (ds \cap running)
  BY DEF AskedRestart
<1>4. PICK refused \in SUBSET call.ds, ok \in BOOLEAN, other \in BOOLEAN :
        LET ds == {d \in call.ds \ refused : MayStart(d)} IN
        IF ~heard \/ running = {} \/ ds = {}
        THEN UNCHANGED <<running, starting, files>>
        ELSE /\ files' = Reload(Save(files, "panel", ds, other), "panel", ok)
             /\ running' = running \ ds
             /\ starting' = starting \cup (ds \cap running)
  BY <1>3
<1> DEFINE ds == {d \in call.ds \ refused : MayStart(d)}
<1>5. ds \in SUBSET DomainNames
  BY <1>1
<1>6. files' \in GoodFiles
  <2>1. CASE ~heard \/ running = {} \/ ds = {}
    BY <1>4, <2>1 DEF IInv
  <2>2. CASE ~(~heard \/ running = {} \/ ds = {})
    <3>1. Save(files, "panel", ds, other) \in GoodFiles
      BY <1>5, SaveGood DEF IInv, Threads
    <3>2. files' = Reload(Save(files, "panel", ds, other), "panel", ok)
      BY <1>4, <2>2
    <3>3. QED
      BY <3>1, <3>2, ReloadGood DEF Threads
  <2>3. QED
    BY <2>1, <2>2
<1>7. monitor' = monitor
  BY DEF AskedRestart
<1>8. \/ running' = running /\ starting' = starting
      \/ /\ running # {}
         /\ running' = running \ ds
         /\ starting' = starting \cup (ds \cap running)
  BY <1>4
<1>9. AppsType'
  BY <1>5, <1>7, <1>8 DEF IInv, AppsType
<1>10. QED
  BY <1>2, <1>6, <1>9 DEF AskedRestart, IInv, DbType, db

LEMMA AskedMonitorKeeps ==
    ASSUME IInv, NEW c \in Callers, AskedMonitor(c)
    PROVE  IInv'
<1>1. calls[c] \in Call
  BY DEF IInv, CallsType
<1>2. AppsType' /\ nginx' \in BOOLEAN /\ files' \in GoodFiles /\ UNCHANGED <<nginx, files>>
  BY DEF AskedMonitor, IInv, AppsType, apps
<1>3. CASE MonitorCallback(c, calls[c], FALSE)
  <2>1. Touched
    BY <1>1, <1>2, <1>3, MonitorCallbackKeeps
  <2>2. QED
    BY <1>2, <2>1, Rest
<1>4. CASE /\ \E older \in {{}, running \cup starting} :
                Set(c, [calls[c] EXCEPT !.stage = "exec", !.older = older])
           /\ UNCHANGED <<db, panel>>
  <2>1. \A older \in SUBSET DomainNames :
          [calls[c] EXCEPT !.stage = "exec", !.older = older] \in Call
    BY <1>1 DEF Call, Stages
  <2>2. running \cup starting \in SUBSET DomainNames
    BY DEF IInv, AppsType
  <2>3. PICK older \in SUBSET DomainNames :
          Set(c, [calls[c] EXCEPT !.stage = "exec", !.older = older])
    BY <1>4, <2>2
  <2>4. CallsType'
    BY <2>1, <2>3, SetType DEF IInv
  <2>5. QED
    BY <1>2, <1>4, <2>4, Around
<1>5. QED
  BY <1>3, <1>4 DEF AskedMonitor

LEMMA ExecMonitorKeeps ==
    ASSUME IInv, NEW c \in Callers, ExecMonitor(c)
    PROVE  IInv'
<1>1. [calls[c] EXCEPT !.stage = "check"] \in Call
  BY DEF IInv, CallsType, Call, Stages
<1>2. CallsType'
  BY <1>1, SetType DEF ExecMonitor, IInv
<1>3. \/ monitor' = monitor /\ running' = running /\ starting' = starting
      \/ monitor' = TRUE /\ running' = running /\ starting' = starting
      \/ monitor' = FALSE /\ running' = {} /\ starting' = {}
  BY DEF ExecMonitor, apps
<1>4. AppsType'
  BY <1>3 DEF IInv, AppsType
<1>5. QED
  BY <1>2, <1>4, Around DEF ExecMonitor

LEMMA LaunchedKeeps ==
    ASSUME IInv, NEW c \in Callers, NEW call \in Call, NEW f \in GoodFiles,
           Launched(c, call, f)
    PROVE  Touched
<1>1. files' \in GoodFiles
  BY ReloadGood DEF Launched, Threads
<1>2. call.err \in BOOLEAN
  BY DEF Call
<1>3. QED
  BY <1>1, <1>2, MonitorCallbackKeeps DEF Launched

LEMMA CheckMonitorKeeps ==
    ASSUME IInv, NEW c \in Callers, CheckMonitor(c)
    PROVE  IInv'
<1> DEFINE call == calls[c]
<1>1. call \in Call
  BY DEF IInv, CallsType
<1>2. AppsType' /\ nginx' \in BOOLEAN /\ UNCHANGED nginx
  BY DEF CheckMonitor, IInv, AppsType, apps
<1>3. CASE call.op = "monitorStop"
  <2>1. PICK heard \in Replies, same \in BOOLEAN : MonitorCallback(c, call, heard /\ same)
    BY <1>3 DEF CheckMonitor
  <2>2. (heard /\ same) \in BOOLEAN
    OBVIOUS
  <2>3. files' \in GoodFiles
    BY <1>3 DEF CheckMonitor, IInv
  <2>4. Touched
    BY <1>1, <2>1, <2>2, <2>3, MonitorCallbackKeeps
  <2>5. QED
    BY <1>2, <2>4, Rest
<1>4. CASE call.op # "monitorStop"
  <2> DEFINE ds(refused) == {d \in enabled \ refused : PlanOf[d] \notin suspended}
             f(refused)  == Save(Remove(files, "panel", files.conf), "panel",
                                 ds(refused), TRUE)
             next(heard, refused) == [call EXCEPT !.stage = "launch", !.todo = ds(refused),
                                                  !.err = ~heard]
  <2>1. PICK heard \in Replies, refused \in SUBSET DomainNames :
           IF ds(refused) = {} THEN Launched(c, next(heard, refused), f(refused))
           ELSE /\ Set(c, next(heard, refused))
                /\ files' = f(refused)
                /\ UNCHANGED <<db, panel>>
    BY <1>4 DEF CheckMonitor
  <2>2. ds(refused) \in SUBSET DomainNames
    BY DEF IInv, DbType
  <2>3. f(refused) \in GoodFiles
    <3>1. Remove(files, "panel", files.conf) \in GoodFiles
      BY RemoveGood DEF IInv, Threads
    <3>2. QED
      BY <2>2, <3>1, SaveGood DEF Threads
  <2>4. next(heard, refused) \in Call
    BY <1>1, <2>2 DEF Call, Stages
  <2>5. CASE ds(refused) = {}
    <3>1. Touched
      BY <2>1, <2>3, <2>4, <2>5, LaunchedKeeps
    <3>2. QED
      BY <1>2, <3>1, Rest
  <2>6. CASE ds(refused) # {}
    <3>1. CallsType'
      BY <2>1, <2>4, <2>6, SetType DEF IInv
    <3>2. files' \in GoodFiles /\ UNCHANGED <<db, panel>>
      BY <2>1, <2>3, <2>6
    <3>3. QED
      BY <1>2, <3>1, <3>2 DEF IInv, DbType, db
  <2>7. QED
    BY <2>5, <2>6
<1>5. QED
  BY <1>3, <1>4

LEMMA LaunchOneKeeps ==
    ASSUME IInv, NEW c \in Callers, NEW d \in DomainNames, LaunchOne(c, d)
    PROVE  IInv'
<1>1. [calls[c] EXCEPT !.todo = @ \ {d}] \in Call
  BY DEF IInv, CallsType, Call
<1>2. CallsType'
  BY <1>1, SetType DEF LaunchOne, IInv
<1>3. AppsType'
  BY DEF LaunchOne, IInv, AppsType
<1>4. QED
  BY <1>2, <1>3, Around DEF LaunchOne

LEMMA LaunchAllKeeps ==
    ASSUME IInv, NEW c \in Callers, LaunchAll(c)
    PROVE  IInv'
<1>1. calls[c] \in Call
  BY DEF IInv, CallsType
<1>2. Touched
  BY <1>1, LaunchedKeeps DEF LaunchAll, IInv
<1>3. AppsType' /\ nginx' \in BOOLEAN
  BY DEF LaunchAll, IInv, AppsType, apps
<1>4. QED
  BY <1>2, <1>3, Rest

LEMMA CallStepKeeps ==
    ASSUME IInv, NEW c \in Callers, CallStep(c)
    PROVE  IInv'
  BY AskedSingleKeeps, ExecSingleKeeps, CheckSingleKeeps, AnswerButtonKeeps, AskedManyKeeps,
     KillOneKeeps, CheckManyKeeps, AskedRestartKeeps, AskedMonitorKeeps,
     ExecMonitorKeeps, CheckMonitorKeeps, LaunchOneKeeps, LaunchAllKeeps
  DEF CallStep

-----------------------------------------------------------------------------
(* Requests and surroundings.                                              *)

\* A request of one caller: the call is new, nginx's files are saved or left.
LEMMA Requested ==
    ASSUME IInv, NEW c \in Callers, NEW op \in Ops, NEW for \in Callees,
           NEW ds \in SUBSET DomainNames, NEW t \in Threads,
           Set(c, NewCall(op, for, ds, t))
    PROVE  CallsType'
  BY NewCallType, SetType DEF IInv

LEMMA ButtonRefusedKeeps ==
    ASSUME IInv, NEW c \in Callers, NEW op \in {"start", "stop"}, NEW d \in domains,
           ButtonRefused(c, op, d)
    PROVE  CallsType' /\ files' \in GoodFiles /\ enabled' \subseteq domains
<1>1. d \in DomainNames
  BY DEF IInv, DbType
<1>2. NewCall(op, "button", {d}, "panel") \in Call
  BY <1>1, NewCallType DEF Ops, Callees, Threads
<1>3. CallsType'
  BY <1>2, StatusType, SetType DEF ButtonRefused, IInv
<1>4. QED
  BY <1>3 DEF ButtonRefused, IInv, DbType

LEMMA ButtonStartKeeps ==
    ASSUME IInv, NEW c \in Callers, NEW d \in DomainNames, ButtonStart(c, d)
    PROVE  IInv'
<1>1. AppsType' /\ nginx' \in BOOLEAN /\ panel' \in BOOLEAN
  BY DEF ButtonStart, IInv, AppsType, apps
<1>2. d \in domains /\ domains' = domains /\ suspended' = suspended
  BY DEF ButtonStart
<1>3. CASE ButtonRefused(c, "start", d)
  <2>1. CallsType' /\ files' \in GoodFiles /\ enabled' \subseteq domains
    BY <1>2, <1>3, ButtonRefusedKeeps
  <2>2. QED
    BY <1>1, <1>2, <2>1 DEF IInv, DbType
<1>4. CASE ~ButtonRefused(c, "start", d)
  <2>1. CallsType'
    BY <1>4, Requested DEF ButtonStart, Ops, Callees, Threads
  <2>2. files' \in GoodFiles
    BY <1>4, SaveGood DEF ButtonStart, IInv, Threads
  <2>3. enabled' = enabled
    BY <1>4 DEF ButtonStart
  <2>4. QED
    BY <1>1, <1>2, <2>1, <2>2, <2>3 DEF IInv, DbType
<1>5. QED
  BY <1>3, <1>4

LEMMA ButtonStopKeeps ==
    ASSUME IInv, NEW c \in Callers, NEW d \in DomainNames, ButtonStop(c, d)
    PROVE  IInv'
<1>1. AppsType' /\ nginx' \in BOOLEAN /\ panel' \in BOOLEAN
  BY DEF ButtonStop, IInv, AppsType, apps
<1>2. d \in domains /\ domains' = domains /\ suspended' = suspended
  BY DEF ButtonStop
<1>3. CASE ButtonRefused(c, "stop", d)
  <2>1. CallsType' /\ files' \in GoodFiles /\ enabled' \subseteq domains
    BY <1>2, <1>3, ButtonRefusedKeeps
  <2>2. QED
    BY <1>1, <1>2, <2>1 DEF IInv, DbType
<1>4. CASE ~ButtonRefused(c, "stop", d)
  <2>1. CallsType'
    BY <1>4, Requested DEF ButtonStop, Ops, Callees, Threads
  <2>2. enabled' = enabled /\ files' = files
    BY <1>4 DEF ButtonStop
  <2>3. QED
    BY <1>1, <1>2, <2>1, <2>2 DEF IInv, DbType
<1>5. QED
  BY <1>3, <1>4

LEMMA EditDomainKeeps ==
    ASSUME IInv, NEW c \in Callers, NEW d \in DomainNames, EditDomain(c, d)
    PROVE  IInv'
<1>1. CallsType'
  BY Requested DEF EditDomain, Ops, Callees, Threads
<1>2. QED
  BY <1>1 DEF EditDomain, IInv, DbType, AppsType, db, apps

LEMMA AddDomainKeeps ==
    ASSUME IInv, NEW d \in DomainNames, AddDomain(d)
    PROVE  IInv'
<1>1. DbType'
  BY DEF AddDomain, IInv, DbType
<1>2. QED
  BY <1>1 DEF AddDomain, IInv, CallsType, AppsType, apps

LEMMA RemoveDomainsKeeps ==
    ASSUME IInv, NEW c \in Callers, NEW ds \in SUBSET DomainNames, RemoveDomains(c, ds)
    PROVE  IInv'
<1>1. CallsType'
  BY Requested DEF RemoveDomains, Ops, Callees, Threads
<1>2. DbType'
  BY DEF RemoveDomains, IInv, DbType
<1>3. QED
  BY <1>1, <1>2 DEF RemoveDomains, IInv, AppsType, apps

LEMMA RemoveUserKeeps ==
    ASSUME IInv, NEW ds \in SUBSET DomainNames, RemoveUser(ds)
    PROVE  IInv'
<1>1. DbType'
  BY DEF RemoveUser, IInv, DbType
<1>2. QED
  BY <1>1 DEF RemoveUser, IInv, CallsType, AppsType, apps

LEMMA SuspendPlanKeeps ==
    ASSUME IInv, NEW c \in Callers, NEW p \in PlanNames, NEW t \in Threads,
           SuspendPlan(c, p, t)
    PROVE  IInv'
<1> DEFINE ds == {d \in domains : PlanOf[d] = p}
<1>1. ds \in SUBSET DomainNames
  BY DEF IInv, DbType
<1>2. CASE UNCHANGED calls
  <2>1. DbType'
    BY DEF SuspendPlan, IInv, DbType
  <2>2. QED
    BY <1>2, <2>1 DEF SuspendPlan, IInv, CallsType, AppsType, apps
<1>3. CASE Set(c, NewCall("stopMany", "suspend", ds, t))
  <2>1. CallsType'
    BY <1>1, <1>3, Requested DEF Ops, Callees
  <2>2. DbType'
    BY DEF SuspendPlan, IInv, DbType
  <2>3. QED
    BY <2>1, <2>2 DEF SuspendPlan, IInv, AppsType, apps
<1>4. QED
  BY <1>2, <1>3 DEF SuspendPlan

LEMMA UnSuspendPlanKeeps ==
    ASSUME IInv, NEW p \in PlanNames, UnSuspendPlan(p)
    PROVE  IInv'
<1>1. DbType'
  BY DEF UnSuspendPlan, IInv, DbType
<1>2. QED
  BY <1>1 DEF UnSuspendPlan, IInv, CallsType, AppsType, apps

LEMMA EditPlanKeeps ==
    ASSUME IInv, NEW c \in Callers, NEW p \in PlanNames, EditPlan(c, p)
    PROVE  IInv'
<1> DEFINE ds == {d \in domains : PlanOf[d] = p}
<1>1. ds \in SUBSET DomainNames
  BY DEF IInv, DbType
<1>2. CallsType'
  BY <1>1, Requested DEF EditPlan, Ops, Callees, Threads
<1>3. QED
  BY <1>2 DEF EditPlan, IInv, DbType, AppsType, db, apps

LEMMA MonitorRequestKeeps ==
    ASSUME IInv, NEW c \in Callers, NEW op \in {"monitorStart", "monitorStop"},
           NEW for \in {"nobody", "config"}, MonitorRequest(c, op, for)
    PROVE  IInv'
<1>1. CallsType'
  BY Requested DEF MonitorRequest, Ops, Callees, Threads
<1>2. QED
  BY <1>1 DEF MonitorRequest, IInv, DbType, AppsType, db, apps

LEMMA FixConfigKeeps ==
    ASSUME IInv, NEW c \in Callers, NEW ds \in SUBSET DomainNames, FixConfig(c, ds)
    PROVE  IInv'
<1>1. CallsType'
  BY Requested DEF FixConfig, Ops, Callees, Threads
<1>2. QED
  BY <1>1 DEF FixConfig, IInv, DbType, AppsType, db, apps

LEMMA RequestKeeps == IInv /\ Request => IInv'
  BY ButtonStartKeeps, ButtonStopKeeps, EditDomainKeeps, AddDomainKeeps,
     RemoveDomainsKeeps, RemoveUserKeeps, SuspendPlanKeeps, UnSuspendPlanKeeps,
     EditPlanKeeps, MonitorRequestKeeps, FixConfigKeeps
  DEF Request, Threads

LEMMA SurroundingsKeep ==
    ASSUME IInv, Surroundings
    PROVE  IInv'
<1>1. CASE \E d \in DomainNames : AppListed(d) \/ AppGivesUp(d) \/ AppCrashes(d)
  <2>1. AppsType'
    BY <1>1 DEF AppListed, AppGivesUp, AppCrashes, IInv, AppsType
  <2>2. UNCHANGED <<db, nginx, files, panel, calls>>
    BY <1>1 DEF AppListed, AppGivesUp, AppCrashes
  <2>3. QED
    BY <2>1, <2>2 DEF IInv, DbType, CallsType, db
<1>2. CASE MonitorByHand
  <2>1. AppsType'
    BY <1>2 DEF MonitorByHand, IInv, AppsType
  <2>2. QED
    BY <1>2, <2>1 DEF MonitorByHand, IInv, DbType, CallsType, db
<1>3. CASE NginxStop
  BY <1>3 DEF NginxStop, IInv, DbType, AppsType, CallsType, db, apps
<1>4. CASE NginxByHand
  <2>1. files' \in GoodFiles
    BY <1>4 DEF NginxByHand, IInv, GoodFiles, Files, Remembered
  <2>2. QED
    BY <1>4, <2>1 DEF NginxByHand, IInv, DbType, AppsType, CallsType, db, apps
<1>5. CASE PanelStarts
  <2>1. Remove(files, "panel", files.conf) \in GoodFiles
    BY RemoveGood DEF IInv, Threads
  <2>2. [Remove(files, "panel", files.conf) EXCEPT !.loaded = TRUE, !.forgot = FALSE]
          \in GoodFiles
    BY <2>1 DEF GoodFiles, Files, Remembered
  <2>3. files' \in GoodFiles
    BY <1>5, <2>2 DEF PanelStarts, IInv
  <2>4. nginx' \in BOOLEAN /\ panel' \in BOOLEAN
    BY <1>5 DEF PanelStarts, IInv
  <2>5. QED
    BY <1>5, <2>3, <2>4 DEF PanelStarts, IInv, DbType, AppsType, CallsType, db, apps
<1>6. QED
  BY <1>1, <1>2, <1>3, <1>4, <1>5 DEF Surroundings

LEMMA NextInv == IInv /\ [Next]_vars => IInv'
<1> SUFFICES ASSUME IInv, [Next]_vars PROVE IInv'
  OBVIOUS
<1>1. CASE \E c \in Callers : CallStep(c)
  BY <1>1, CallStepKeeps
<1>2. CASE Request
  BY <1>2, RequestKeeps
<1>3. CASE Surroundings
  BY <1>3, SurroundingsKeep
<1>4. CASE UNCHANGED vars
  BY <1>4 DEF vars, db, apps, IInv, DbType, AppsType, CallsType
<1>5. QED
  BY <1>1, <1>2, <1>3, <1>4 DEF Next

LEMMA Invariance == Spec => []IInv
  BY InitInv, NextInv, PTL DEF Spec

\* Domains, applications, files and calls have their types; with the monitor
\* down nothing is listed or launched.  Any number of calls in progress.
THEOREM TypeCorrect == Spec => []TypeOK
<1>1. IInv => TypeOK
  BY Implied
<1>2. QED
  BY <1>1, Invariance, PTL

\* However calls, crashes and commands by hand interleave, a difference between
\* a running nginx and its files is remembered by a flag needsReload, or went
\* with the process that knew of it (hosting_tools.js, nginx.js).
THEOREM Pending == Spec => []ReloadPending
<1>1. IInv => ReloadPending
  BY Implied
<1>2. QED
  BY <1>1, Invariance, PTL

-----------------------------------------------------------------------------
(* The answers of the calls.  What a call has learned from the monitor's   *)
(* answers, and to whom it reports, holds whatever other calls do; what it *)
(* relies on in nginx's files and in the processes holds until another     *)
(* call takes a step.                                                      *)

\* A button's call is about one domain; a command was given because the first
\* answer was not yet the wanted one; only a start of the monitor launches;
\* the shell's command only stops.
Sound(call) ==
    /\ call.for = "button" /\ call.stage # "done" =>
          call.op \in {"start", "stop"} /\ \E d \in DomainNames : call.ds = {d}
    /\ call.op \in {"start", "stop"} /\ call.stage \in {"exec", "check"} =>
          (call.seen <=> call.op = "stop")
    /\ call.stage = "launch" => call.op = "monitorStart"
    /\ call.stage = "status" => call.op \in {"start", "stop"}
    /\ call.thread = "shell" => call.op = "stopMany"

\* A panel that is down has no calls in progress, the shell may have one.
Lives(call) == panel \/ call.thread = "shell" \/ call.stage = "done"

CallsInv == \A c \in Callers : Sound(calls[c]) /\ Lives(calls[c])

\* What a start button and a start of the monitor rely on until they end.
Held(call) ==
    call.solo =>
      /\ call.for = "button" /\ call.op = "start" /\ call.stage \notin {"done", "status"} =>
            call.ds \subseteq files.conf
      /\ call.op = "monitorStart" /\ call.stage \in {"exec", "check"} =>
            running \cup starting \subseteq call.older
      /\ call.stage = "launch" =>
            call.todo \cup ((running \cup starting) \ call.older) \subseteq files.conf

HeldInv == \A c \in Callers : Held(calls[c])

\* What the step of another call leaves of a call.
LEMMA Beside ==
    ASSUME CallsType, NEW c \in Callers, NEW call, Set(c, call)
    PROVE  /\ calls'[c] = call
           /\ \A d \in Callers : d # c =>
                 /\ ~calls'[d].solo
                 /\ calls'[d].op = calls[d].op /\ calls'[d].for = calls[d].for
                 /\ calls'[d].ds = calls[d].ds /\ calls'[d].thread = calls[d].thread
                 /\ calls'[d].stage = calls[d].stage /\ calls'[d].seen = calls[d].seen
<1>1. calls'[c] = call
  BY DEF Set
<1>2. ASSUME NEW d \in Callers, d # c
      PROVE  calls'[d] = [calls[d] EXCEPT !.solo = FALSE] /\ calls[d] \in Call
  BY <1>2 DEF Set, CallsType
<1>3. QED
  BY <1>1, <1>2 DEF Call

LEMMA NewSound ==
    ASSUME NEW op, NEW for, NEW ds, NEW t,
           for = "button" => op \in {"start", "stop"} /\ \E d \in DomainNames : ds = {d},
           t = "shell" => op = "stopMany"
    PROVE  Sound(NewCall(op, for, ds, t))
  BY DEF Sound, NewCall

\* An ended call names nobody.
LEMMA EndedFields ==
    ASSUME NEW err
    PROVE  /\ Ended(err).stage = "done" /\ Ended(err).thread = "panel" /\ ~Ended(err).solo
           /\ Ended(err).err = err
           /\ NoCall.stage = "done" /\ NoCall.thread = "panel" /\ ~NoCall.solo
<1>1. NoCall \in Call
  BY NoCallType
<1>2. NoCall.stage = "done" /\ NoCall.thread = "panel" /\ ~NoCall.solo
  BY DEF NoCall, NewCall
<1>3. QED
  BY <1>1, <1>2 DEF Ended, Call

LEMMA EndedSound ==
    ASSUME NEW err
    PROVE  Sound(Ended(err)) /\ Ended(err).stage = "done"
<1>1. Ended(err).stage = "done" /\ Ended(err).thread = "panel"
  BY EndedFields
<1>2. QED
  BY <1>1 DEF Sound

LEMMA SetSound ==
    ASSUME CallsType, CallsInv, NEW c \in Callers, NEW call, Sound(call),
           panel \/ call.thread = "shell" \/ call.stage = "done",
           Set(c, call), panel' = panel
    PROVE  CallsInv'
<1>1. ASSUME NEW d \in Callers PROVE Sound(calls'[d])
  <2>1. CASE d = c
    BY <2>1, Beside
  <2>2. CASE d # c
    BY <2>2, Beside DEF CallsInv, Sound
  <2>3. QED
    BY <2>1, <2>2
<1>2. ASSUME NEW d \in Callers
      PROVE  panel' \/ calls'[d].thread = "shell" \/ calls'[d].stage = "done"
  BY <1>2, Beside DEF CallsInv, Lives
<1>3. QED
  BY <1>1, <1>2 DEF CallsInv, Sound, Lives

LEMMA ExitsSound ==
    ASSUME CallsInv, NEW f, PanelExits(f)
    PROVE  CallsInv'
<1>1. \A d \in Callers : calls'[d] = IF calls[d].thread = "shell" THEN calls[d] ELSE NoCall
  BY DEF PanelExits
<1>2. NoCall.stage = "done" /\ NoCall.thread = "panel"
  BY EndedFields
<1>3. Sound(NoCall)
  BY <1>2 DEF Sound
<1>4. \A d \in Callers : Sound(calls'[d])
  BY <1>1, <1>3 DEF CallsInv
<1>5. \A d \in Callers : calls'[d].thread = "shell" \/ calls'[d].stage = "done"
  BY <1>1, <1>2
<1>6. QED
  BY <1>4, <1>5 DEF CallsInv, Sound, Lives

LEMMA StaySound ==
    ASSUME CallsInv, UNCHANGED calls, panel' \/ panel' = panel
    PROVE  CallsInv'
  BY DEF CallsInv, Sound, Lives

LEMMA SingleCallbackSound ==
    ASSUME CallsType, CallsInv, NEW c \in Callers, NEW call \in Call, NEW err, NEW f,
           Sound(call), call.op \in {"start", "stop"}, call.stage # "done",
           panel, SingleCallback(c, call, err, f)
    PROVE  CallsInv'
<1>1. CASE ButtonCallback(c, call, err, f)
  <2>1. CASE PanelExits(f)
    BY <2>1, ExitsSound
  <2>2. CASE ~PanelExits(f)
    <3>1. Set(c, [call EXCEPT !.stage = "status", !.err = err]) /\ panel' = panel
      BY <1>1, <2>2 DEF ButtonCallback
    <3>2. Sound([call EXCEPT !.stage = "status", !.err = err])
      BY DEF Sound, Call
    <3>3. QED
      BY <3>1, <3>2, SetSound
  <2>3. QED
    BY <2>1, <2>2
<1>2. CASE EditCallback(c, call, err, f)
  <2>1. \E next : Sound(next) /\ Set(c, next)
    <3>1. \A e : Sound(Ended(e))
      BY EndedSound
    <3>2. \A ds : Sound(NewCall("start", "edit", ds, "panel"))
      BY NewSound
    <3>3. QED
      BY <1>2, <3>1, <3>2 DEF EditCallback
  <2>2. QED
    BY <1>2, <2>1, SetSound DEF EditCallback
<1>3. QED
  BY <1>1, <1>2 DEF SingleCallback

LEMMA MonitorCallbackSound ==
    ASSUME CallsType, CallsInv, NEW c \in Callers, NEW call, NEW err,
           panel, MonitorCallback(c, call, err)
    PROVE  CallsInv'
<1>1. Sound(NewCall("monitorStart", "config", {}, "panel")) /\ Sound(Ended(err))
  BY NewSound, EndedSound
<1>2. QED
  BY <1>1, SetSound DEF MonitorCallback

LEMMA ManyCallbackSound ==
    ASSUME CallsType, CallsInv, NEW c \in Callers, NEW call, NEW f,
           ManyCallback(c, call, f)
    PROVE  CallsInv'
  BY EndedSound, SetSound DEF ManyCallback

\* Only the shell's command goes on without the panel.
LEMMA AtPanel ==
    ASSUME NEW call, NEW stg, Sound(call), call.op # "stopMany",
           panel \/ call.thread = "shell"
    PROVE  panel
  BY DEF Sound

LEMMA CallStepSound ==
    ASSUME CallsType, CallsInv, NEW c \in Callers, CallStep(c)
    PROVE  CallsInv'
<1> DEFINE call == calls[c]
<1>1. call \in Call /\ Sound(call)
  BY DEF CallsType, CallsInv
<1>2. ASSUME NEW stg, At(c, stg), call.op # "stopMany" PROVE panel
  BY <1>1, <1>2 DEF At, Sound
<1>3. CASE AskedSingle(c)
  <2>1. /\ panel /\ call.op \in {"start", "stop"} /\ call.stage = "asked"
    BY <1>2, <1>3 DEF AskedSingle, At
  <2>2. PICK heard \in Replies :
          LET seen == heard /\ call.ds \subseteq running
              next == [call EXCEPT !.seen = seen, !.heard = heard]
          IN  IF ~heard \/ seen = (next.op = "start")
              THEN SingleCallback(c, next, FALSE, files)
              ELSE Set(c, [next EXCEPT !.stage = "exec"]) /\ panel' = panel
    BY <1>3 DEF AskedSingle
  <2>3. PICK seen \in BOOLEAN : seen <=> heard /\ call.ds \subseteq running
    BY DEF Replies
  <2>4. PICK next \in Call : next = [call EXCEPT !.seen = seen, !.heard = heard]
    BY <1>1, HeardType DEF Replies
  <2>5. /\ next.op = call.op /\ next.for = call.for /\ next.ds = call.ds
        /\ next.stage = call.stage /\ next.thread = call.thread /\ (next.seen <=> seen)
    BY <1>1, <2>4 DEF Call
  <2>6. Sound(next)
    BY <1>1, <2>1, <2>5 DEF Sound
  <2>7. \/ SingleCallback(c, next, FALSE, files)
        \/ /\ ~(seen <=> next.op = "start")
           /\ Set(c, [next EXCEPT !.stage = "exec"]) /\ panel' = panel
    BY <2>2, <2>3, <2>4
  <2>8. CASE SingleCallback(c, next, FALSE, files)
    BY <2>1, <2>5, <2>6, <2>8, SingleCallbackSound
  <2>9. CASE /\ ~(seen <=> next.op = "start")
             /\ Set(c, [next EXCEPT !.stage = "exec"]) /\ panel' = panel
    <3>1. Sound([next EXCEPT !.stage = "exec"])
      BY <2>1, <2>5, <2>6, <2>9 DEF Sound, Call
    <3>2. QED
      BY <2>1, <2>9, <3>1, SetSound
  <2>10. QED
    BY <2>7, <2>8, <2>9
<1>4. CASE ExecSingle(c)
  <2>1. Sound([call EXCEPT !.stage = "check"])
    BY <1>1, <1>4 DEF Sound, Call, ExecSingle, At
  <2>2. QED
    BY <1>2, <1>4, <2>1, SetSound DEF ExecSingle
<1>5. CASE CheckSingle(c)
  <2>1. panel /\ call.op \in {"start", "stop"} /\ call.stage = "check"
    BY <1>2, <1>5 DEF CheckSingle, At
  <2>2. PICK heard \in Replies :
          \E err, f : SingleCallback(c, [call EXCEPT !.heard = heard], err, f)
    BY <1>5 DEF CheckSingle
  <2>3. PICK next \in Call : next = [call EXCEPT !.heard = heard]
    BY <1>1, HeardType DEF Replies
  <2>4. /\ next.op = call.op /\ next.for = call.for /\ next.ds = call.ds
        /\ next.stage = call.stage /\ next.thread = call.thread /\ next.seen = call.seen
    BY <1>1, <2>3 DEF Call
  <2>5. Sound(next)
    BY <1>1, <2>4 DEF Sound
  <2>6. QED
    BY <2>1, <2>2, <2>3, <2>4, <2>5, SingleCallbackSound
<1>6. CASE AnswerButton(c)
  <2>1. CASE PanelExits(files)
    BY <2>1, ExitsSound
  <2>2. CASE ~PanelExits(files)
    BY <1>6, <2>2, EndedSound, SetSound DEF AnswerButton
  <2>3. QED
    BY <2>1, <2>2
<1>7. CASE AskedMany(c)
  <2>1. CASE /\ Set(c, [call EXCEPT !.stage = "exec", !.todo = call.ds])
             /\ panel' = panel
    <3>1. Sound([call EXCEPT !.stage = "exec", !.todo = call.ds])
      BY <1>1, <1>7 DEF Sound, Call, AskedMany, At
    <3>2. [call EXCEPT !.stage = "exec", !.todo = call.ds].thread = call.thread
      BY <1>1 DEF Call
    <3>3. QED
      BY <1>7, <2>1, <3>1, <3>2, SetSound DEF AskedMany, At
  <2>2. CASE ManyCallback(c, call, Remove(files, call.thread, call.ds))
    BY <2>2, ManyCallbackSound
  <2>3. QED
    BY <1>7, <2>1, <2>2 DEF AskedMany
<1>8. CASE \E d \in DomainNames : KillOne(c, d)
  <2>1. PICK todo : Set(c, [call EXCEPT !.todo = todo,
                                        !.stage = IF todo = {} THEN "check" ELSE @])
    BY <1>8 DEF KillOne
  <2>2. Sound([call EXCEPT !.todo = todo, !.stage = IF todo = {} THEN "check" ELSE @])
    BY <1>1, <1>8 DEF Sound, Call, KillOne, At
  <2>3. [call EXCEPT !.todo = todo, !.stage = IF todo = {} THEN "check" ELSE @].thread
          = call.thread
    BY <1>1 DEF Call
  <2>4. QED
    BY <1>8, <2>1, <2>2, <2>3, SetSound DEF KillOne, At
<1>9. CASE CheckMany(c)
  <2>1. CASE ManyCallback(c, call, Remove(files, call.thread, call.ds))
    BY <2>1, ManyCallbackSound
  <2>2. CASE PanelExits(files)
    BY <2>2, ExitsSound
  <2>3. CASE Set(c, Ended(TRUE)) /\ panel' = panel
    BY <2>3, EndedSound, SetSound
  <2>4. QED
    BY <1>9, <2>1, <2>2, <2>3 DEF CheckMany
<1>10. CASE AskedRestart(c)
  BY <1>10, EndedSound, SetSound DEF AskedRestart
<1>11. CASE AskedMonitor(c)
  <2>1. panel
    BY <1>2, <1>11 DEF AskedMonitor
  <2>2. CASE MonitorCallback(c, call, FALSE)
    BY <2>1, <2>2, MonitorCallbackSound
  <2>3. CASE ~MonitorCallback(c, call, FALSE)
    <3>1. PICK older : Set(c, [call EXCEPT !.stage = "exec", !.older = older]) /\ panel' = panel
      BY <1>11, <2>3 DEF AskedMonitor
    <3>2. Sound([call EXCEPT !.stage = "exec", !.older = older])
      BY <1>1, <1>11 DEF Sound, Call, AskedMonitor, At
    <3>3. QED
      BY <2>1, <3>1, <3>2, SetSound
  <2>4. QED
    BY <2>2, <2>3
<1>12. CASE ExecMonitor(c)
  <2>1. Sound([call EXCEPT !.stage = "check"])
    BY <1>1, <1>12 DEF Sound, Call, ExecMonitor, At
  <2>2. QED
    BY <1>2, <1>12, <2>1, SetSound DEF ExecMonitor
<1>13. CASE CheckMonitor(c)
  <2>1. panel /\ call.op \in {"monitorStart", "monitorStop"}
    BY <1>2, <1>13 DEF CheckMonitor
  <2>2. CASE \E next, err : MonitorCallback(c, next, err)
    BY <2>1, <2>2, MonitorCallbackSound
  <2>3. CASE ~\E next, err : MonitorCallback(c, next, err)
    <3>1. PICK ds, err : /\ Set(c, [call EXCEPT !.stage = "launch", !.todo = ds, !.err = err])
                         /\ panel' = panel /\ call.op = "monitorStart"
      BY <1>13, <2>1, <2>3 DEF CheckMonitor, Launched
    <3>2. call.stage = "check"
      BY <1>13 DEF CheckMonitor, At
    <3>3. Sound([call EXCEPT !.stage = "launch", !.todo = ds, !.err = err])
      BY <1>1, <3>1, <3>2 DEF Sound, Call
    <3>4. QED
      BY <2>1, <3>1, <3>3, SetSound
  <2>4. QED
    BY <2>2, <2>3
<1>14. CASE \E d \in DomainNames : LaunchOne(c, d)
  <2>1. PICK todo : Set(c, [call EXCEPT !.todo = todo])
    BY <1>14 DEF LaunchOne
  <2>2. Sound([call EXCEPT !.todo = todo])
    BY <1>1, <1>14 DEF Sound, Call, LaunchOne, At
  <2>3. [call EXCEPT !.todo = todo].thread = call.thread
    BY <1>1 DEF Call
  <2>4. QED
    BY <1>14, <2>1, <2>2, <2>3, SetSound DEF LaunchOne, At
<1>15. CASE LaunchAll(c)
  <2>1. panel
    BY <1>1, <1>15 DEF LaunchAll, At, Sound
  <2>2. QED
    BY <1>15, <2>1, MonitorCallbackSound DEF LaunchAll, Launched
<1>16. QED
  BY <1>3, <1>4, <1>5, <1>6, <1>7, <1>8, <1>9, <1>10, <1>11, <1>12, <1>13, <1>14, <1>15
  DEF CallStep

LEMMA RequestSound ==
    ASSUME CallsType, CallsInv, Request
    PROVE  CallsInv'
<1>1. ASSUME NEW c \in Callers, NEW call, Sound(call), Set(c, call),
             panel \/ call.thread = "shell", panel' = panel
      PROVE  CallsInv'
  BY <1>1, SetSound
<1>2. CASE UNCHANGED calls /\ panel' = panel
  BY <1>2, StaySound
<1>3. ASSUME NEW d \in DomainNames, NEW op \in {"start", "stop"}
      PROVE  /\ Sound(NewCall(op, "button", {d}, "panel"))
             /\ Sound(NewCall(op, "edit", {d}, "panel"))
             /\ Sound([NewCall(op, "button", {d}, "panel")
                         EXCEPT !.stage = "status", !.err = TRUE])
  <2>1. NewCall(op, "button", {d}, "panel") \in Call
    BY NewCallType DEF Ops, Callees, Threads
  <2>2. Sound(NewCall(op, "button", {d}, "panel")) /\ Sound(NewCall(op, "edit", {d}, "panel"))
    BY NewSound
  <2>3. /\ NewCall(op, "button", {d}, "panel").op = op
        /\ NewCall(op, "button", {d}, "panel").ds = {d}
        /\ NewCall(op, "button", {d}, "panel").thread = "panel"
    BY DEF NewCall
  <2>4. Sound([NewCall(op, "button", {d}, "panel") EXCEPT !.stage = "status", !.err = TRUE])
    BY <2>1, <2>3 DEF Sound, Call
  <2>5. QED
    BY <2>2, <2>4
<1>4. \A ds : /\ \A t \in {"panel", "scheduler"} : Sound(NewCall("stopMany", "suspend", ds, t))
              /\ Sound(NewCall("stopMany", "remove", ds, "panel"))
              /\ Sound(NewCall("stopMany", "fix", ds, "shell"))
              /\ Sound(NewCall("restartMany", "plan", ds, "panel"))
              /\ \A op : /\ Sound(NewCall(op, "nobody", ds, "panel"))
                         /\ Sound(NewCall(op, "config", ds, "panel"))
  BY NewSound
<1>5. CASE \E c \in Callers, d \in DomainNames : ButtonStart(c, d) \/ ButtonStop(c, d)
  BY <1>1, <1>3, <1>5 DEF ButtonStart, ButtonStop, ButtonRefused
<1>6. CASE \E c \in Callers, d \in DomainNames : EditDomain(c, d)
  BY <1>1, <1>3, <1>6 DEF EditDomain
<1>7. CASE \E d \in DomainNames : AddDomain(d)
  BY <1>2, <1>7 DEF AddDomain
<1>8. CASE \E c \in Callers, ds \in SUBSET DomainNames : RemoveDomains(c, ds)
  BY <1>1, <1>4, <1>8 DEF RemoveDomains
<1>9. CASE \E c \in Callers, ds \in SUBSET DomainNames : FixConfig(c, ds)
  <2>1. PICK c \in Callers, ds \in SUBSET DomainNames : FixConfig(c, ds)
    BY <1>9
  <2>2. NewCall("stopMany", "fix", ds, "shell").thread = "shell"
    BY DEF NewCall
  <2>3. QED
    BY <1>1, <1>4, <2>1, <2>2 DEF FixConfig
<1>10. CASE \E ds \in SUBSET DomainNames : RemoveUser(ds)
  BY <1>2, <1>10 DEF RemoveUser
<1>11. CASE \E c \in Callers, p \in PlanNames, t \in {"panel", "scheduler"} : SuspendPlan(c, p, t)
  BY <1>1, <1>2, <1>4, <1>11 DEF SuspendPlan
<1>12. CASE \E p \in PlanNames : UnSuspendPlan(p)
  BY <1>2, <1>12 DEF UnSuspendPlan
<1>13. CASE \E c \in Callers, p \in PlanNames : EditPlan(c, p)
  BY <1>1, <1>4, <1>13 DEF EditPlan
<1>14. CASE \E c \in Callers : \/ MonitorRequest(c, "monitorStart", "nobody")
                               \/ MonitorRequest(c, "monitorStop", "nobody")
                               \/ MonitorRequest(c, "monitorStop", "config")
  BY <1>1, <1>4, <1>14 DEF MonitorRequest
<1>15. QED
  BY <1>5, <1>6, <1>7, <1>8, <1>9, <1>10, <1>11, <1>12, <1>13, <1>14 DEF Request

LEMMA NextSound ==
    ASSUME CallsType, CallsInv, [Next]_vars
    PROVE  CallsInv'
<1>1. CASE \E c \in Callers : CallStep(c)
  BY <1>1, CallStepSound
<1>2. CASE Request
  BY <1>2, RequestSound
<1>3. CASE Surroundings
  <2>1. UNCHANGED calls /\ (panel' \/ panel' = panel)
    BY <1>3 DEF Surroundings, AppListed, AppGivesUp, AppCrashes, MonitorByHand,
                NginxStop, NginxByHand, PanelStarts
  <2>2. QED
    BY <2>1, StaySound
<1>4. CASE UNCHANGED vars
  BY <1>4, StaySound DEF vars
<1>5. QED
  BY <1>1, <1>2, <1>3, <1>4 DEF Next

LEMMA InitSound == Init => CallsInv
<1>1. NoCall.stage = "done" /\ NoCall.thread = "panel"
  BY DEF NoCall, NewCall
<1>2. QED
  BY <1>1 DEF Init, CallsInv, Sound, Lives

LEMMA SoundCalls == Spec => []CallsInv
<1>1. IInv => CallsType
  BY DEF IInv
<1>2. CallsInv /\ IInv /\ [Next]_vars => CallsInv'
  BY <1>1, NextSound
<1>3. QED
  BY InitSound, <1>2, Invariance, PTL DEF Spec

-----------------------------------------------------------------------------
(* Whose step ends a call.                                                 *)

\* A step of CallStep(d) gives d a new record, or ends the process.
LEMMA StepSets ==
    ASSUME NEW d \in Callers, CallStep(d)
    PROVE  (\E call : Set(d, call)) \/ (\E f : PanelExits(f))
<1>1. ASSUME NEW call, NEW err, NEW f, SingleCallback(d, call, err, f)
      PROVE  (\E next : Set(d, next)) \/ (\E g : PanelExits(g))
  BY <1>1 DEF SingleCallback, ButtonCallback, EditCallback
<1>2. ASSUME NEW call, NEW err, NEW f, ManyCallback(d, call, f) \/ MonitorCallback(d, call, err)
      PROVE  \E next : Set(d, next)
  BY <1>2 DEF ManyCallback, MonitorCallback
<1>3. CASE AskedSingle(d) \/ ExecSingle(d) \/ CheckSingle(d) \/ AnswerButton(d)
  BY <1>1, <1>3 DEF AskedSingle, ExecSingle, CheckSingle, AnswerButton
<1>4. CASE AskedMany(d) \/ (\E x \in DomainNames : KillOne(d, x)) \/ CheckMany(d)
  BY <1>2, <1>4 DEF AskedMany, KillOne, CheckMany
<1>5. CASE AskedRestart(d) \/ AskedMonitor(d) \/ ExecMonitor(d)
  BY <1>2, <1>5 DEF AskedRestart, AskedMonitor, ExecMonitor
<1>6. CASE CheckMonitor(d) \/ (\E x \in DomainNames : LaunchOne(d, x)) \/ LaunchAll(d)
  BY <1>2, <1>6 DEF CheckMonitor, LaunchOne, LaunchAll, Launched
<1>7. QED
  BY <1>3, <1>4, <1>5, <1>6 DEF CallStep

LEMMA RequestSets ==
    ASSUME Request
    PROVE  UNCHANGED calls \/ \E d \in Callers : calls[d].stage = "done" /\ \E call : Set(d, call)
<1>1. CASE \E c \in Callers, d \in DomainNames :
             ButtonStart(c, d) \/ ButtonStop(c, d) \/ EditDomain(c, d)
  BY <1>1 DEF ButtonStart, ButtonStop, EditDomain, ButtonRefused, Free
<1>2. CASE ~\E c \in Callers, d \in DomainNames :
             ButtonStart(c, d) \/ ButtonStop(c, d) \/ EditDomain(c, d)
  BY <1>2 DEF Request, AddDomain, RemoveDomains, FixConfig, RemoveUser, SuspendPlan,
              UnSuspendPlan, EditPlan, MonitorRequest, Free
<1>3. QED
  BY <1>1, <1>2

LEMMA AroundKeepsCalls ==
    ASSUME Surroundings \/ UNCHANGED vars
    PROVE  UNCHANGED calls
  BY DEF Surroundings, AppListed, AppGivesUp, AppCrashes, MonitorByHand, NginxStop,
         NginxByHand, PanelStarts, vars

\* While the panel is up only its own callback moves a call in progress on.
LEMMA MovesItself ==
    ASSUME CallsType, [Next]_vars, NEW c \in Callers,
           calls[c].stage # "done", calls'[c].stage # calls[c].stage,
           calls'[c].stage = "done" => panel'
    PROVE  CallStep(c)
<1>1. ASSUME NEW d \in Callers, d # c, NEW call, Set(d, call) PROVE FALSE
  BY <1>1, Beside
<1>2. ASSUME NEW f, PanelExits(f) PROVE FALSE
  <2>1. ~panel'
    BY <1>2 DEF PanelExits
  <2>2. calls'[c] = calls[c] \/ calls'[c].stage = "done"
    BY <1>2, EndedFields DEF PanelExits
  <2>3. QED
    BY <2>1, <2>2
<1>3. CASE \E d \in Callers : CallStep(d)
  BY <1>1, <1>2, <1>3, StepSets
<1>4. CASE Request
  BY <1>1, <1>4, RequestSets
<1>5. CASE Surroundings \/ UNCHANGED vars
  BY <1>5, AroundKeepsCalls
<1>6. QED
  BY <1>3, <1>4, <1>5 DEF Next

LEMMA ReloadKeepsConf ==
    ASSUME NEW f \in Files, NEW ok
    PROVE  /\ Reload(f, "panel", ok).conf = f.conf
           /\ nginx /\ ~ReloadFails(f, "panel", ok) =>
                 ~Reload(f, "panel", ok).needsReload["panel"]
  BY DEF Reload, ReloadFails, Files, Threads

-----------------------------------------------------------------------------
(* What a call relies on as long as no other one comes between.            *)

\* A call that relies on nothing.
Light(call) ==
    call.solo =>
      /\ call.stage # "launch"
      /\ call.for = "button" /\ call.op = "start" => call.stage \in {"done", "status"}
      /\ call.op = "monitorStart" => call.stage \notin {"exec", "check"}

LEMMA LightHeld ==
    ASSUME NEW c \in Callers, Light(calls'[c])
    PROVE  Held(calls[c])'
  BY DEF Light, Held

LEMMA SetLight ==
    ASSUME CallsType, NEW c \in Callers, NEW call, Light(call), Set(c, call)
    PROVE  Light(calls'[c])
  BY DEF CallsType, Set

LEMMA EndedLight ==
    ASSUME NEW err
    PROVE  Light(Ended(err))
  BY EndedFields DEF Light

LEMMA AskedLight ==
    ASSUME NEW op, NEW for, NEW ds, NEW t, for # "button" \/ op # "start"
    PROVE  Light(NewCall(op, for, ds, t))
  BY DEF Light, NewCall

\* The shell's command, which outlives the panel, is light.
LEMMA ExitsLight ==
    ASSUME CallsInv, NEW c \in Callers, NEW f, PanelExits(f)
    PROVE  Light(calls'[c])
<1>1. CASE calls[c].thread = "shell"
  <2>1. calls'[c] = calls[c]
    BY <1>1 DEF PanelExits
  <2>2. calls[c].op = "stopMany" /\ calls[c].stage # "launch"
    BY <1>1 DEF CallsInv, Sound
  <2>3. QED
    BY <1>1, <2>1, <2>2 DEF Light
<1>2. CASE calls[c].thread # "shell"
  BY <1>2, EndedFields DEF PanelExits, Light
<1>3. QED
  BY <1>1, <1>2

LEMMA SingleCallbackLight ==
    ASSUME CallsType, CallsInv, NEW c \in Callers, NEW call \in Call, NEW err, NEW f,
           SingleCallback(c, call, err, f)
    PROVE  Light(calls'[c])
<1>1. \A e : Light(Ended(e))
  BY EndedLight
<1>2. \A ds : Light(NewCall("start", "edit", ds, "panel"))
  BY AskedLight
<1>3. CASE ButtonCallback(c, call, err, f)
  <2>1. CASE PanelExits(f)
    BY <2>1, ExitsLight
  <2>2. CASE ~PanelExits(f)
    <3>1. Set(c, [call EXCEPT !.stage = "status", !.err = err])
      BY <1>3, <2>2 DEF ButtonCallback
    <3>2. Light([call EXCEPT !.stage = "status", !.err = err])
      BY DEF Light, Call
    <3>3. QED
      BY <3>1, <3>2, SetLight
  <2>3. QED
    BY <2>1, <2>2
<1>4. CASE EditCallback(c, call, err, f)
  BY <1>1, <1>2, <1>4, SetLight DEF EditCallback
<1>5. QED
  BY <1>3, <1>4 DEF SingleCallback

LEMMA OtherCallbackLight ==
    ASSUME CallsType, NEW c \in Callers, NEW call, NEW err, NEW f,
           ManyCallback(c, call, f) \/ MonitorCallback(c, call, err)
    PROVE  Light(calls'[c])
<1>1. \A e : Light(Ended(e))
  BY EndedLight
<1>2. Light(NewCall("monitorStart", "config", {}, "panel"))
  BY AskedLight
<1>3. \E next : Light(next) /\ Set(c, next)
  BY <1>1, <1>2 DEF ManyCallback, MonitorCallback
<1>4. QED
  BY <1>3, SetLight

LEMMA CallStepHeld ==
    ASSUME IInv, CallsInv, NEW c \in Callers, Held(calls[c]), CallStep(c)
    PROVE  Held(calls[c])'
<1> DEFINE call == calls[c]
<1>1. CallsType /\ AppsType /\ files \in Files /\ call \in Call /\ Sound(call)
  BY DEF IInv, CallsType, CallsInv, GoodFiles
<1>2. ASSUME NEW next, Set(c, next) PROVE calls'[c] = next
  BY <1>1, <1>2, Beside
<1>3. CASE AskedSingle(c)
  <2>1. PICK heard \in Replies :
          LET seen == heard /\ call.ds \subseteq running
              next == [call EXCEPT !.seen = seen, !.heard = heard]
          IN  \/ SingleCallback(c, next, FALSE, files)
              \/ Set(c, [next EXCEPT !.stage = "exec"]) /\ files' = files
    BY <1>3 DEF AskedSingle
  <2>2. PICK seen \in BOOLEAN : seen = (heard /\ call.ds \subseteq running)
    BY DEF Replies
  <2>3. PICK next \in Call : next = [call EXCEPT !.seen = seen, !.heard = heard]
    BY <1>1, HeardType DEF Replies
  <2>4. CASE SingleCallback(c, next, FALSE, files)
    BY <1>1, <2>4, SingleCallbackLight, LightHeld
  <2>5. CASE Set(c, [next EXCEPT !.stage = "exec"]) /\ files' = files
    <3>1. calls'[c] = [next EXCEPT !.stage = "exec"]
      BY <1>2, <2>5
    <3>2. /\ calls'[c].op = call.op /\ calls'[c].for = call.for /\ calls'[c].ds = call.ds
          /\ calls'[c].solo = call.solo /\ calls'[c].stage = "exec"
      BY <1>1, <2>3, <3>1 DEF Call
    <3>3. call.op \in {"start", "stop"} /\ call.stage = "asked"
      BY <1>3 DEF AskedSingle, At
    <3>4. QED
      BY <2>5, <3>2, <3>3 DEF Held
  <2>6. QED
    BY <2>1, <2>2, <2>3, <2>4, <2>5
<1>4. CASE ExecSingle(c)
  <2>1. calls'[c] = [call EXCEPT !.stage = "check"] /\ files' = files
    BY <1>2, <1>4 DEF ExecSingle
  <2>2. QED
    BY <1>1, <1>4, <2>1 DEF Held, Call, ExecSingle, At
<1>5. CASE CheckSingle(c)
  <2>1. PICK heard \in Replies :
          \E err, f : SingleCallback(c, [call EXCEPT !.heard = heard], err, f)
    BY <1>5 DEF CheckSingle
  <2>2. [call EXCEPT !.heard = heard] \in Call
    BY <1>1, HeardType DEF Replies
  <2>3. QED
    BY <1>1, <2>1, <2>2, SingleCallbackLight, LightHeld
<1>6. CASE AnswerButton(c)
  <2>1. CASE PanelExits(files)
    BY <2>1, ExitsLight, LightHeld
  <2>2. CASE ~PanelExits(files)
    BY <1>1, <1>6, <2>2, EndedLight, SetLight, LightHeld DEF AnswerButton
  <2>3. QED
    BY <2>1, <2>2
<1>7. CASE AskedMany(c)
  <2>1. CASE Set(c, [call EXCEPT !.stage = "exec", !.todo = call.ds])
    <3>1. calls'[c] = [call EXCEPT !.stage = "exec", !.todo = call.ds]
      BY <1>2, <2>1
    <3>2. Light(calls'[c])
      BY <1>1, <1>7, <3>1 DEF Light, Call, AskedMany
    <3>3. QED
      BY <3>2, LightHeld
  <2>2. CASE ManyCallback(c, call, Remove(files, call.thread, call.ds))
    BY <1>1, <2>2, OtherCallbackLight, LightHeld
  <2>3. QED
    BY <1>7, <2>1, <2>2 DEF AskedMany
<1>8. CASE \E d \in DomainNames : KillOne(c, d)
  <2>1. PICK todo : calls'[c] = [call EXCEPT !.todo = todo,
                                             !.stage = IF todo = {} THEN "check" ELSE @]
    BY <1>2, <1>8 DEF KillOne
  <2>2. Light(calls'[c])
    BY <1>1, <1>8, <2>1 DEF Light, Call, KillOne, At
  <2>3. QED
    BY <2>2, LightHeld
<1>9. CASE CheckMany(c)
  <2>1. ManyCallback(c, call, Remove(files, call.thread, call.ds)) \/ PanelExits(files)
          \/ Set(c, Ended(TRUE))
    BY <1>9 DEF CheckMany
  <2>2. Light(calls'[c])
    BY <1>1, <2>1, OtherCallbackLight, ExitsLight, EndedLight, SetLight
  <2>3. QED
    BY <2>2, LightHeld
<1>10. CASE AskedRestart(c)
  BY <1>1, <1>10, EndedLight, SetLight, LightHeld DEF AskedRestart
<1>11. CASE AskedMonitor(c)
  <2>1. CASE MonitorCallback(c, call, FALSE)
    BY <1>1, <2>1, OtherCallbackLight, LightHeld
  <2>2. CASE ~MonitorCallback(c, call, FALSE)
    <3>1. PICK heard \in Replies :
            /\ ~(heard <=> call.op = "monitorStart")
            /\ Set(c, [call EXCEPT !.stage = "exec",
                                   !.older = IF heard THEN {} ELSE running \cup starting])
      BY <1>11, <2>2 DEF AskedMonitor, Replies
    <3>2. PICK older : older = IF heard THEN {} ELSE running \cup starting
      OBVIOUS
    <3>3. calls'[c] = [call EXCEPT !.stage = "exec", !.older = older]
      BY <1>2, <3>1, <3>2
    <3>4. /\ calls'[c].op = call.op /\ calls'[c].older = older /\ calls'[c].stage = "exec"
      BY <1>1, <3>3 DEF Call
    <3>5. call.op = "monitorStart" => older = running \cup starting
      BY <3>1, <3>2
    <3>6. UNCHANGED <<running, starting>> /\ call.op \in {"monitorStart", "monitorStop"}
      BY <1>11 DEF AskedMonitor, apps
    <3>7. QED
      BY <3>4, <3>5, <3>6 DEF Held
  <2>3. QED
    BY <2>1, <2>2
<1>12. CASE ExecMonitor(c)
  <2>1. calls'[c] = [call EXCEPT !.stage = "check"]
    BY <1>2, <1>12 DEF ExecMonitor
  <2>2. /\ calls'[c].op = call.op /\ calls'[c].older = call.older /\ calls'[c].stage = "check"
        /\ calls'[c].solo = call.solo
    BY <1>1, <2>1 DEF Call
  <2>3. call.op = "monitorStart" => UNCHANGED <<running, starting>>
    BY <1>12 DEF ExecMonitor, apps
  <2>4. call.op \in {"monitorStart", "monitorStop"} /\ call.stage = "exec"
    BY <1>12 DEF ExecMonitor, At
  <2>5. QED
    BY <2>2, <2>3, <2>4 DEF Held
<1>13. CASE CheckMonitor(c)
  <2>1. CASE \E next, err : MonitorCallback(c, next, err)
    BY <1>1, <2>1, OtherCallbackLight, LightHeld
  <2>2. CASE ~\E next, err : MonitorCallback(c, next, err)
    <3>1. PICK ds, err :
            /\ Set(c, [call EXCEPT !.stage = "launch", !.todo = ds, !.err = err])
            /\ files' = Save(Remove(files, "panel", files.conf), "panel", ds, TRUE)
            /\ call.op = "monitorStart" /\ call.stage = "check"
      BY <1>13, <2>2 DEF CheckMonitor, Launched, At
    <3>2. calls'[c] = [call EXCEPT !.stage = "launch", !.todo = ds, !.err = err]
      BY <1>2, <3>1
    <3>3. /\ calls'[c].todo = ds /\ calls'[c].older = call.older
          /\ calls'[c].stage = "launch" /\ calls'[c].op = "monitorStart"
          /\ calls'[c].solo = call.solo
      BY <1>1, <3>1, <3>2 DEF Call
    <3>4. ds \subseteq files'.conf
      BY <1>1, <3>1 DEF Save, Remove, Changed, Files
    <3>5. UNCHANGED <<running, starting>>
      BY <1>13 DEF CheckMonitor, apps
    <3>6. QED
      BY <3>1, <3>3, <3>4, <3>5 DEF Held
  <2>3. QED
    BY <2>1, <2>2
<1>14. CASE \E d \in DomainNames : LaunchOne(c, d)
  <2>1. PICK d \in DomainNames : LaunchOne(c, d)
    BY <1>14
  <2>2. calls'[c] = [call EXCEPT !.todo = @ \ {d}] /\ UNCHANGED <<running, files>>
    BY <1>2, <2>1 DEF LaunchOne
  <2>3. call.op = "monitorStart" /\ call.stage = "launch" /\ d \in call.todo
    BY <1>1, <2>1 DEF LaunchOne, At, Sound
  <2>4. starting' \subseteq starting \cup {d}
    BY <2>1 DEF LaunchOne
  <2>5. call.solo => call.todo \cup ((running \cup starting) \ call.older) \subseteq files.conf
    BY <2>3 DEF Held
  <2>6. /\ calls'[c].todo = call.todo \ {d} /\ calls'[c].op = "monitorStart"
        /\ calls'[c].stage = "launch" /\ calls'[c].older = call.older
        /\ calls'[c].solo = call.solo
    BY <1>1, <2>2, <2>3 DEF Call
  <2>7. QED
    BY <2>2, <2>3, <2>4, <2>5, <2>6 DEF Held
<1>15. CASE LaunchAll(c)
  BY <1>1, <1>15, OtherCallbackLight, LightHeld DEF LaunchAll, Launched
<1>16. QED
  BY <1>3, <1>4, <1>5, <1>6, <1>7, <1>8, <1>9, <1>10, <1>11, <1>12, <1>13, <1>14, <1>15
  DEF CallStep

\* Another call's step, or its request, leaves a call that relies on nothing.
LEMMA ForeignLight ==
    ASSUME CallsType, CallsInv, NEW c \in Callers, NEW d \in Callers, d # c,
           (\E call : Set(d, call)) \/ (\E f : PanelExits(f))
    PROVE  Light(calls'[c])
<1>1. CASE \E call : Set(d, call)
  <2>1. ~calls'[c].solo
    BY <1>1, Beside
  <2>2. QED
    BY <2>1 DEF Light
<1>2. CASE \E f : PanelExits(f)
  BY <1>2, ExitsLight
<1>3. QED
  BY <1>1, <1>2

LEMMA RequestHeld ==
    ASSUME IInv, CallsInv, NEW c \in Callers, Held(calls[c]), Request
    PROVE  Held(calls[c])'
<1>1. CallsType /\ files \in Files
  BY DEF IInv, GoodFiles
<1>2. CASE \E d \in Callers : d # c /\ \E call : Set(d, call)
  BY <1>1, <1>2, ForeignLight, LightHeld
<1>3. CASE UNCHANGED <<calls, apps, files>>
  BY <1>3 DEF Held, apps
<1>4. CASE \E call : Light(call) /\ Set(c, call)
  BY <1>1, <1>4, SetLight, LightHeld
<1>5. ASSUME NEW op \in {"start", "stop"}, NEW d \in DomainNames
      PROVE  Light([NewCall(op, "button", {d}, "panel") EXCEPT !.stage = "status", !.err = TRUE])
  <2>1. NewCall(op, "button", {d}, "panel") \in Call /\ NewCall(op, "button", {d}, "panel").op = op
    BY NewCallType DEF Ops, Callees, Threads, NewCall
  <2>2. QED
    BY <2>1 DEF Light, Call
<1>6. CASE \E x \in DomainNames : ButtonStart(c, x)
  <2>1. PICK x \in DomainNames : ButtonStart(c, x)
    BY <1>6
  <2>2. CASE ButtonRefused(c, "start", x)
    BY <1>4, <1>5, <2>2 DEF ButtonRefused
  <2>3. CASE ~ButtonRefused(c, "start", x)
    <3>1. /\ Set(c, NewCall("start", "button", {x}, "panel"))
          /\ \E other \in BOOLEAN : files' = Save(files, "panel", {x}, other)
      BY <2>1, <2>3 DEF ButtonStart
    <3>2. calls'[c] = NewCall("start", "button", {x}, "panel")
      BY <1>1, <3>1, Beside
    <3>3. {x} \subseteq files'.conf
      BY <1>1, <3>1 DEF Save, Changed, Files
    <3>4. calls'[c].ds = {x} /\ calls'[c].op = "start" /\ calls'[c].stage = "asked"
      BY <3>2 DEF NewCall
    <3>5. QED
      BY <3>3, <3>4 DEF Held
  <2>4. QED
    BY <2>2, <2>3
<1>7. CASE \E x \in DomainNames : ButtonStop(c, x) \/ EditDomain(c, x)
  BY <1>4, <1>5, <1>7, AskedLight DEF ButtonStop, ButtonRefused, EditDomain
<1>8. CASE \E d \in DomainNames : AddDomain(d)
  BY <1>3, <1>8 DEF AddDomain
<1>9. CASE \E ds \in SUBSET DomainNames : RemoveUser(ds)
  BY <1>3, <1>9 DEF RemoveUser
<1>10. CASE \E p \in PlanNames : UnSuspendPlan(p)
  BY <1>3, <1>10 DEF UnSuspendPlan
<1>11. CASE \E ds \in SUBSET DomainNames : RemoveDomains(c, ds) \/ FixConfig(c, ds)
  BY <1>4, <1>11, AskedLight DEF RemoveDomains, FixConfig
<1>12. CASE \E d \in Callers, p \in PlanNames, t \in {"panel", "scheduler"} :
              SuspendPlan(d, p, t) /\ UNCHANGED calls
  BY <1>3, <1>12 DEF SuspendPlan
<1>13. CASE \E p \in PlanNames, t \in {"panel", "scheduler"} :
              SuspendPlan(c, p, t) /\ ~UNCHANGED calls
  BY <1>4, <1>13, AskedLight DEF SuspendPlan
<1>14. CASE \E p \in PlanNames : EditPlan(c, p)
  BY <1>4, <1>14, AskedLight DEF EditPlan
<1>15. CASE \E op, for : for # "button" /\ MonitorRequest(c, op, for)
  BY <1>4, <1>15, AskedLight DEF MonitorRequest
<1>16. CASE \E d \in Callers : d # c /\
              \/ \E x \in DomainNames : ButtonStart(d, x) \/ ButtonStop(d, x) \/ EditDomain(d, x)
              \/ \E ds \in SUBSET DomainNames : RemoveDomains(d, ds) \/ FixConfig(d, ds)
              \/ \E p \in PlanNames, t \in {"panel", "scheduler"} :
                    SuspendPlan(d, p, t) /\ ~UNCHANGED calls
              \/ \E p \in PlanNames : EditPlan(d, p)
              \/ \E op, for : for # "button" /\ MonitorRequest(d, op, for)
  <2>1. PICK d \in Callers : d # c /\
              \/ \E x \in DomainNames : ButtonStart(d, x) \/ ButtonStop(d, x) \/ EditDomain(d, x)
              \/ \E ds \in SUBSET DomainNames : RemoveDomains(d, ds) \/ FixConfig(d, ds)
              \/ \E p \in PlanNames, t \in {"panel", "scheduler"} :
                    SuspendPlan(d, p, t) /\ ~UNCHANGED calls
              \/ \E p \in PlanNames : EditPlan(d, p)
              \/ \E op, for : for # "button" /\ MonitorRequest(d, op, for)
    BY <1>16
  <2>2. \E call : Set(d, call)
    BY <2>1 DEF ButtonStart, ButtonStop, ButtonRefused, EditDomain, RemoveDomains, FixConfig,
                SuspendPlan, EditPlan, MonitorRequest
  <2>3. QED
    BY <1>2, <2>1, <2>2
<1>17. ASSUME NEW d \in Callers,
             \/ \E x \in DomainNames : ButtonStart(d, x) \/ ButtonStop(d, x) \/ EditDomain(d, x)
             \/ \E ds \in SUBSET DomainNames : RemoveDomains(d, ds) \/ FixConfig(d, ds)
             \/ \E p \in PlanNames, t \in {"panel", "scheduler"} : SuspendPlan(d, p, t)
             \/ \E p \in PlanNames : EditPlan(d, p)
             \/ \E op, for : for # "button" /\ MonitorRequest(d, op, for)
       PROVE Held(calls[c])'
  <2>1. CASE d = c
    BY <1>6, <1>7, <1>11, <1>12, <1>13, <1>14, <1>15, <1>17, <2>1
  <2>2. CASE d # c
    BY <1>12, <1>16, <1>17, <2>2
  <2>3. QED
    BY <2>1, <2>2
<1>18. CASE \E d \in Callers :
          \/ MonitorRequest(d, "monitorStart", "nobody")
          \/ MonitorRequest(d, "monitorStop", "nobody")
          \/ MonitorRequest(d, "monitorStop", "config")
  <2>1. \E d \in Callers : \E op, for : for # "button" /\ MonitorRequest(d, op, for)
    BY <1>18
  <2>2. QED
    BY <1>17, <2>1
<1>19. CASE \E d \in Callers, p \in PlanNames, t \in {"panel", "scheduler"} : SuspendPlan(d, p, t)
  BY <1>17, <1>19
<1>20. QED
  BY <1>8, <1>9, <1>10, <1>17, <1>18, <1>19 DEF Request

LEMMA SurroundingsHeld ==
    ASSUME IInv, CallsInv, NEW c \in Callers, Held(calls[c]), Surroundings
    PROVE  Held(calls[c])'
<1>1. CallsType /\ files \in Files
  BY DEF IInv, GoodFiles
<1>2. calls' = calls
  BY AroundKeepsCalls
<1>3. running' \cup starting' \subseteq running \cup starting
  BY DEF Surroundings, AppListed, AppGivesUp, AppCrashes, MonitorByHand, NginxStop,
         NginxByHand, PanelStarts, apps
<1>4. CASE PanelStarts
  <2>1. calls[c].thread = "shell" \/ calls[c].stage = "done"
    BY <1>4 DEF PanelStarts, CallsInv, Lives
  <2>2. Light(calls'[c])
    BY <1>2, <2>1 DEF CallsInv, Sound, Light
  <2>3. QED
    BY <2>2, LightHeld
<1>5. CASE ~PanelStarts
  <2>1. files'.conf = files.conf
    BY <1>1, <1>5 DEF Surroundings, AppListed, AppGivesUp, AppCrashes, MonitorByHand,
                      NginxStop, NginxByHand, Files
  <2>2. QED
    BY <1>2, <1>3, <2>1 DEF Held
<1>6. QED
  BY <1>4, <1>5

LEMMA NextHeld ==
    ASSUME IInv, CallsInv, HeldInv, [Next]_vars
    PROVE  HeldInv'
<1> SUFFICES ASSUME NEW c \in Callers PROVE Held(calls[c])'
  BY DEF HeldInv
<1>1. Held(calls[c])
  BY DEF HeldInv
<1>2. ASSUME NEW d \in Callers, CallStep(d) PROVE Held(calls[c])'
  <2>1. CASE d = c
    BY <1>1, <1>2, <2>1, CallStepHeld
  <2>2. CASE d # c
    <3>1. CallsType
      BY DEF IInv
    <3>2. QED
      BY <1>2, <2>2, <3>1, StepSets, ForeignLight, LightHeld
  <2>3. QED
    BY <2>1, <2>2
<1>3. CASE Request
  BY <1>1, <1>3, RequestHeld
<1>4. CASE Surroundings
  BY <1>1, <1>4, SurroundingsHeld
<1>5. CASE UNCHANGED vars
  BY <1>1, <1>5 DEF vars, apps, Held
<1>6. QED
  BY <1>2, <1>3, <1>4, <1>5 DEF Next

LEMMA HeldCalls == Spec => []HeldInv
<1>1. Init => HeldInv
  <2>1. ~NoCall.solo
    BY EndedFields
  <2>2. QED
    BY <2>1 DEF Init, HeldInv, Held
<1>2. HeldInv /\ IInv /\ CallsInv /\ [Next]_vars => HeldInv'
  BY NextHeld
<1>3. QED
  BY <1>1, <1>2, Invariance, SoundCalls, PTL DEF Spec

-----------------------------------------------------------------------------
(* What the calls say at their end.                                        *)

\* Only appStartStop tells a button of its end.
LEMMA ReportsStep ==
    ASSUME CallsType, CallsInv, NEW c \in Callers, CallStep(c), Reports(c)
    PROVE  AskedSingle(c) \/ CheckSingle(c)
<1>1. \A call : Set(c, call) => calls'[c] = call
  BY Beside
<1>2. calls[c] \in Call /\ calls[c].stage \notin {"done", "status"} /\ calls'[c].stage = "status"
  BY DEF Reports, CallsType
<1>3. /\ \A err : Ended(err).stage = "done"
      /\ \A op, for, ds, t : NewCall(op, for, ds, t).stage = "asked"
  BY EndedFields DEF NewCall
<1>4. ASSUME NEW call, NEW err, NEW f, ManyCallback(c, call, f) \/ MonitorCallback(c, call, err)
      PROVE  FALSE
  BY <1>1, <1>2, <1>3, <1>4 DEF ManyCallback, MonitorCallback
<1>5. ASSUME NEW f, PanelExits(f) PROVE FALSE
  BY <1>2, <1>5, EndedFields DEF PanelExits
<1>6. CASE ExecSingle(c) \/ AnswerButton(c) \/ AskedRestart(c) \/ ExecMonitor(c)
  BY <1>1, <1>2, <1>3, <1>6 DEF ExecSingle, AnswerButton, At, AskedRestart, ExecMonitor, Call
<1>7. CASE AskedMany(c) \/ AskedMonitor(c)
  BY <1>1, <1>2, <1>4, <1>7 DEF AskedMany, AskedMonitor, Call
<1>8. CASE CheckMany(c)
  BY <1>1, <1>2, <1>3, <1>4, <1>5, <1>8 DEF CheckMany
<1>9. CASE \E d \in DomainNames : KillOne(c, d) \/ LaunchOne(c, d)
  BY <1>1, <1>2, <1>9 DEF KillOne, LaunchOne, Call
<1>10. CASE CheckMonitor(c) \/ LaunchAll(c)
  BY <1>1, <1>2, <1>4, <1>10 DEF CheckMonitor, LaunchAll, Launched, Call
<1>11. QED
  BY <1>6, <1>7, <1>8, <1>9, <1>10 DEF CallStep

\* What the callback of appStartStop was given when it tells a button.
LEMMA ReportedBy ==
    ASSUME CallsType, NEW c \in Callers, Reports(c), NEW call \in Call, NEW err \in BOOLEAN,
           NEW f, SingleCallback(c, call, err, f)
    PROVE  call.for = "button" /\ ~err /\ files' = f /\ calls'[c].heard = call.heard
             /\ calls'[c].solo = call.solo
<1>1. \A next : Set(c, next) => calls'[c] = next
  BY Beside
<1>2. calls[c].stage \notin {"done", "status"} /\ calls'[c].stage = "status" /\ ~calls'[c].err
  BY DEF Reports
<1>3. /\ \A e : Ended(e).stage = "done"
      /\ \A ds : NewCall("start", "edit", ds, "panel").stage = "asked"
  BY EndedFields DEF NewCall
<1>4. ~EditCallback(c, call, err, f)
  BY <1>1, <1>2, <1>3 DEF EditCallback
<1>5. ~PanelExits(f)
  BY <1>2, EndedFields DEF PanelExits
<1>6. /\ Set(c, [call EXCEPT !.stage = "status", !.err = err])
      /\ files' = f /\ call.for = "button"
  BY <1>4, <1>5 DEF SingleCallback, ButtonCallback
<1>7. QED
  BY <1>1, <1>2, <1>6 DEF Call

LEMMA AskedSays ==
    ASSUME IInv, CallsInv, HeldInv, NEW c \in Callers, Reports(c), AskedSingle(c)
    PROVE  LET call == calls[c] IN
           /\ call.stage = "asked"
           /\ calls'[c].heard => (call.op = "start" <=> call.ds \subseteq running')
           /\ call.op = "start" /\ calls'[c].solo => call.ds \subseteq files'.conf
<1> DEFINE call == calls[c]
<1>1. CallsType /\ call \in Call /\ Held(call)
  BY DEF IInv, CallsType, HeldInv
<1>2. call.op \in {"start", "stop"} /\ call.stage = "asked" /\ running' = running
  BY DEF AskedSingle, At, apps
<1>3. PICK heard \in Replies :
          LET seen == heard /\ call.ds \subseteq running
              next == [call EXCEPT !.seen = seen, !.heard = heard]
          IN  \/ /\ ~heard \/ seen = (next.op = "start")
                 /\ SingleCallback(c, next, FALSE, files)
              \/ Set(c, [next EXCEPT !.stage = "exec"])
  BY DEF AskedSingle
<1>4. PICK seen \in BOOLEAN : seen = (heard /\ call.ds \subseteq running)
  BY DEF Replies
<1>5. PICK next \in Call : next = [call EXCEPT !.seen = seen, !.heard = heard]
  BY <1>1, HeardType DEF Replies
<1>6. /\ next.op = call.op /\ next.for = call.for /\ next.heard = heard
      /\ next.solo = call.solo
  BY <1>1, <1>5 DEF Call
<1>7. ~Set(c, [next EXCEPT !.stage = "exec"])
  <2>1. \A x : Set(c, x) => calls'[c] = x
    BY <1>1, Beside
  <2>2. [next EXCEPT !.stage = "exec"].stage = "exec"
    BY DEF Call
  <2>3. QED
    BY <2>1, <2>2 DEF Reports
<1>8. (~heard \/ seen = (next.op = "start")) /\ SingleCallback(c, next, FALSE, files)
  BY <1>3, <1>4, <1>5, <1>7
<1>9. /\ call.for = "button" /\ files' = files
      /\ calls'[c].heard = heard /\ calls'[c].solo = call.solo
  BY <1>1, <1>6, <1>8, ReportedBy
<1>10. call.op = "start" /\ call.solo => call.ds \subseteq files.conf
  BY <1>1, <1>2, <1>9 DEF Held
<1>11. heard => (call.op = "start" <=> call.ds \subseteq running)
  BY <1>4, <1>6, <1>8
<1>12. QED
  BY <1>2, <1>9, <1>10, <1>11

LEMMA CheckSays ==
    ASSUME IInv, CallsInv, HeldInv, NEW c \in Callers, Reports(c), CheckSingle(c)
    PROVE  LET call == calls[c] IN
           /\ calls'[c].heard => (call.op = "start" <=> call.ds \subseteq running')
           /\ call.op = "stop" => call.ds \cap files'.conf = {}
           /\ nginx => ~files'.needsReload["panel"]
           /\ call.op = "start" /\ calls'[c].solo => call.ds \subseteq files'.conf
<1> DEFINE call == calls[c]
<1>1. CallsType /\ call \in Call /\ Held(call) /\ Sound(call) /\ files \in Files
  BY DEF IInv, CallsType, CallsInv, HeldInv, GoodFiles
<1>2. call.op \in {"start", "stop"} /\ call.stage = "check" /\ running' = running
  BY DEF CheckSingle, At, apps
<1>3. call.seen <=> call.op = "stop"
  BY <1>1, <1>2 DEF Sound
<1>4. PICK heard \in Replies :
          LET err  == (heard /\ call.ds \subseteq running) = call.seen
              kept == IF err \/ call.op = "stop"
                      THEN Remove(files, "panel", call.ds) ELSE files
          IN  IF err
              THEN SingleCallback(c, [call EXCEPT !.heard = heard], TRUE, kept)
              ELSE \E ok \in BOOLEAN :
                      SingleCallback(c, [call EXCEPT !.heard = heard],
                                     ReloadFails(kept, "panel", ok), Reload(kept, "panel", ok))
  <2>1. \A heard : [call EXCEPT !.heard = heard].ds = call.ds
                     /\ [call EXCEPT !.heard = heard].seen = call.seen
                     /\ [call EXCEPT !.heard = heard].op = call.op
    BY <1>1 DEF Call
  <2>2. QED
    BY <2>1 DEF CheckSingle
<1>5. PICK next \in Call : next = [call EXCEPT !.heard = heard]
  BY <1>1, HeardType DEF Replies
<1>6. next.for = call.for /\ next.heard = heard /\ next.solo = call.solo
  BY <1>1, <1>5 DEF Call
<1>7. PICK kept \in Files : /\ kept = IF call.op = "stop"
                                      THEN Remove(files, "panel", call.ds) ELSE files
                            /\ call.op = "stop" => call.ds \cap kept.conf = {}
                            /\ call.op = "start" => kept.conf = files.conf
  <2>1. Remove(files, "panel", call.ds) \in Files
          /\ call.ds \cap Remove(files, "panel", call.ds).conf = {}
    BY <1>1 DEF Remove, Changed, Files, Threads, Call
  <2>2. QED
    BY <1>1, <1>2, <2>1
<1>8. ~((heard /\ call.ds \subseteq running) = call.seen)
  BY <1>1, <1>4, <1>5, ReportedBy
<1>9. PICK ok \in BOOLEAN :
          SingleCallback(c, next, ReloadFails(kept, "panel", ok), Reload(kept, "panel", ok))
  BY <1>4, <1>5, <1>7, <1>8
<1>10. ReloadFails(kept, "panel", ok) \in BOOLEAN
  BY DEF ReloadFails
<1>11. /\ call.for = "button" /\ ~ReloadFails(kept, "panel", ok)
       /\ files' = Reload(kept, "panel", ok)
       /\ calls'[c].heard = heard /\ calls'[c].solo = call.solo
  BY <1>1, <1>6, <1>9, <1>10, ReportedBy
<1>12. files'.conf = kept.conf /\ (nginx => ~files'.needsReload["panel"])
  BY <1>7, <1>11, ReloadKeepsConf
<1>13. call.op = "start" /\ call.solo => call.ds \subseteq files.conf
  BY <1>1, <1>2, <1>11 DEF Held
<1>14. heard => (call.op = "start" <=> call.ds \subseteq running)
  <2>1. call.seen \in BOOLEAN /\ heard \in BOOLEAN
    BY <1>1 DEF Call, Replies
  <2>2. ~((heard /\ call.ds \subseteq running) <=> call.seen)
    BY <1>8, <2>1
  <2>3. QED
    BY <1>2, <1>3, <2>2
<1>15. QED
  BY <1>2, <1>7, <1>11, <1>12, <1>13, <1>14

\* What appStartStop says without an error (hosting_tools.js:425-476) holds
\* for any number of domains and of calls at a time, whether the questions to
\* the monitor are answered or fail.
THEOREM Answers == Spec => AnswerTrue
<1>1. ASSUME IInv, CallsInv, HeldInv, [Next]_vars, NEW c \in Callers, Reports(c)
      PROVE  LET call == calls[c] IN
             /\ calls'[c].heard => (call.op = "start" <=> call.ds \subseteq running')
             /\ call.stage = "check" /\ call.op = "stop" => call.ds \cap files'.conf = {}
             /\ call.stage = "check" /\ nginx => ~files'.needsReload["panel"]
             /\ call.op = "start" /\ calls'[c].solo => call.ds \subseteq files'.conf
  <2>1. CallsType
    BY <1>1 DEF IInv
  <2>2. CallStep(c)
    BY <1>1, <2>1, MovesItself DEF Reports
  <2>3. CASE AskedSingle(c)
    BY <1>1, <2>3, AskedSays
  <2>4. CASE CheckSingle(c)
    BY <1>1, <2>4, CheckSays
  <2>5. QED
    BY <1>1, <2>1, <2>2, <2>3, <2>4, ReportsStep
<1>2. IInv /\ CallsInv /\ HeldInv /\ [Next]_vars =>
        [\A c \in Callers : Reports(c) =>
            LET call == calls[c] IN
            /\ calls'[c].heard => (call.op = "start" <=> call.ds \subseteq running')
            /\ call.stage = "check" /\ call.op = "stop" => call.ds \cap files'.conf = {}
            /\ call.stage = "check" /\ nginx => ~files'.needsReload["panel"]
            /\ call.op = "start" /\ calls'[c].solo => call.ds \subseteq files'.conf]_vars
  BY <1>1
<1>3. QED
  BY <1>2, Invariance, SoundCalls, HeldCalls, PTL DEF Spec, AnswerTrue

\* The start of the monitor (hosting_tools.js:833-878 and 806-825), beside any
\* number of other calls: if none of them came between, whatever runs or is
\* about to has its configuration when the call ends, except what ran already
\* when its first question failed.
THEOREM TakesOver == Spec => MonitorStartTakesOver
<1>1. ASSUME IInv, CallsInv, HeldInv, [Next]_vars, NEW c \in Callers, Succeeds(c),
             calls[c].op = "monitorStart", calls[c].stage # "asked", calls[c].solo
      PROVE  (running' \cup starting') \ calls[c].older \subseteq files'.conf
  <2> DEFINE call == calls[c]
  <2>1. CallsType /\ files \in Files /\ call \in Call /\ Held(call)
    BY <1>1 DEF IInv, GoodFiles, CallsType, HeldInv
  <2>2. CallStep(c) /\ calls'[c].stage = "done" /\ call.stage # "done"
    BY <1>1, <2>1, MovesItself DEF Succeeds
  <2>3. \A next : Set(c, next) => calls'[c] = next
    BY <2>1, Beside
  <2>4. CheckMonitor(c) \/ LaunchAll(c)
    <3>1. ~\E d \in DomainNames : LaunchOne(c, d)
      BY <2>1, <2>2, <2>3 DEF LaunchOne, At, Call
    <3>2. ~ExecMonitor(c)
      BY <2>1, <2>2, <2>3 DEF ExecMonitor, Call
    <3>3. call.stage # "status"
      BY <1>1 DEF CallsInv, Sound
    <3>4. QED
      BY <1>1, <2>2, <3>1, <3>2, <3>3 DEF CallStep, AskedSingle, ExecSingle, CheckSingle,
         AnswerButton, AskedMany, KillOne, CheckMany, AskedRestart, AskedMonitor, At
  <2>5. CASE LaunchAll(c)
    <3>1. PICK ok : files' = Reload(files, "panel", ok)
      BY <2>5 DEF LaunchAll, Launched
    <3>2. UNCHANGED apps /\ call.stage = "launch"
      BY <2>5 DEF LaunchAll, At
    <3>3. (running \cup starting) \ call.older \subseteq files.conf
      BY <1>1, <2>1, <3>2 DEF Held
    <3>4. QED
      BY <2>1, <3>1, <3>2, <3>3, ReloadKeepsConf DEF apps
  <2>6. CASE CheckMonitor(c)
    <3>1. UNCHANGED apps /\ call.stage = "check"
      BY <2>6 DEF CheckMonitor, At
    <3>2. running \cup starting \subseteq call.older
      BY <1>1, <2>1, <3>1 DEF Held
    <3>3. QED
      BY <3>1, <3>2 DEF apps
  <2>7. QED
    BY <2>4, <2>5, <2>6
<1>2. IInv /\ CallsInv /\ HeldInv /\ [Next]_vars =>
        [\A c \in Callers :
            Succeeds(c) /\ calls[c].op = "monitorStart" /\ calls[c].stage # "asked"
              /\ calls[c].solo =>
                (running' \cup starting') \ calls[c].older \subseteq files'.conf]_vars
  BY <1>1
<1>3. QED
  BY <1>2, Invariance, SoundCalls, HeldCalls, PTL DEF Spec, MonitorStartTakesOver
=============================================================================
