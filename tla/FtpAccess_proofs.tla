---------------------------- MODULE FtpAccess_proofs --------------------------
(* Proofs about FtpAccess, for any set of user names.                        *)
EXTENDS FtpAccess, TLAPS

-----------------------------------------------------------------------------
(* Type correctness.                                                       *)

\* Whatever the server makes of it, saveConfig leaves the file with the list
\* it was given, and the text it keeps is the old one or the new.
LEMMA Saved ==
  ASSUME NEW l, NEW c, NEW res \in saveConfig(l, c)
  PROVE  /\ res.file = IF l = c THEN file ELSE l
         /\ res.loaded \in {l, loaded, {}}
         /\ res.known \in {l, c}
  BY DEF saveConfig

\* What a process reads before its first change are sets of users.
LEMMA ReadType ==
  ASSUME TypeOK, NEW db \in SUBSET UserNames
  PROVE  ListRead(list, db) \subseteq UserNames /\ TextRead \subseteq UserNames
<1>1. CASE known = {}
  BY <1>1 DEF TypeOK, ListRead, TextRead
<1>2. CASE known # {}
  <2>1. PICK c \in SUBSET UserNames : known = {c}
    BY <1>2 DEF TypeOK
  <2>2. TextRead = c
    BY <2>1 DEF TextRead
  <2>3. QED
    BY <1>2, <2>2 DEF TypeOK, ListRead
<1>3. QED
  BY <1>1, <1>2

\* A list that is saved, and the text that is kept, have their types.
LEMMA SaveType ==
  ASSUME TypeOK, NEW l \in SUBSET UserNames, NEW c \in SUBSET UserNames,
         Save(l, c), list' = l, access' \subseteq users', users' \subseteq UserNames,
         server' = server
  PROVE  TypeOK'
<1>1. PICK res \in saveConfig(l, c) :
         file' = res.file /\ loaded' = res.loaded /\ known' = {res.known}
  BY DEF Save
<1>2. file' \subseteq UserNames /\ loaded' \subseteq UserNames
  BY <1>1, Saved DEF TypeOK
<1>3. known' # {} /\ known' \in {{k} : k \in SUBSET UserNames}
  BY <1>1, Saved
<1>4. ~server => loaded' = {}
  BY <1>1 DEF saveConfig, TypeOK
<1>5. QED
  BY <1>2, <1>3, <1>4 DEF TypeOK

\* Both branches of a form save a list of users.
LEMMA AllowOrDenyType ==
  ASSUME TypeOK, NEW u \in UserNames, NEW db \in SUBSET UserNames,
         Allow(u, db) \/ Deny(u, db),
         db \cup {u} \subseteq users', users' \subseteq UserNames, server' = server
  PROVE  TypeOK'
<1>1. list' \subseteq UserNames /\ TextRead \subseteq UserNames
  BY ReadType DEF Allow, Deny
<1>2. access' \subseteq users' /\ Save(list', TextRead)
  BY DEF Allow, Deny
<1>3. QED
  BY <1>1, <1>2, SaveType

\* The type invariant is inductive.
LEMMA NextType ==
  ASSUME TypeOK, [Next]_vars
  PROVE  TypeOK'
<1>1. ASSUME NEW u \in UserNames, NEW yes \in BOOLEAN, ApplyUser(u, yes)
      PROVE  TypeOK'
  <2>1. CASE yes
    BY <1>1, <2>1, AllowOrDenyType DEF ApplyUser, TypeOK
  <2>2. CASE ~yes
    BY <1>1, <2>2, AllowOrDenyType DEF ApplyUser, TypeOK
  <2>3. QED
    BY <2>1, <2>2
<1>2. ASSUME NEW u \in UserNames, NEW yes \in BOOLEAN, Shell(u, yes)
      PROVE  TypeOK'
  <2>1. PICK res \in saveConfig(access', file) :
           file' = res.file /\ loaded' = res.loaded
    BY <1>2 DEF Shell
  <2>2. access' \subseteq users
    BY <1>2 DEF Shell, TypeOK
  <2>3. file' \subseteq UserNames /\ loaded' \subseteq UserNames
    BY <2>1, <2>2, Saved DEF TypeOK
  <2>4. ~server => loaded' = {}
    BY <2>1 DEF saveConfig, TypeOK
  <2>5. QED
    BY <1>2, <2>2, <2>3, <2>4 DEF Shell, TypeOK
<1>3. ASSUME NEW u \in UserNames, ApplyOwn(u)
      PROVE  TypeOK'
  BY <1>3, AllowOrDenyType DEF ApplyOwn, TypeOK
<1>4. ASSUME NEW u \in UserNames, RemoveUser(u)
      PROVE  TypeOK'
  BY <1>4 DEF RemoveUser, TypeOK
<1>5. CASE ServerLoads \/ ServerStops \/ PanelRestarts
  BY <1>5 DEF ServerLoads, ServerStops, PanelRestarts, TypeOK
<1>6. CASE UNCHANGED vars
  BY <1>6 DEF vars, TypeOK
<1>7. QED
  BY <1>1, <1>2, <1>3, <1>4, <1>5, <1>6 DEF Next

\* The lists and texts of ftp.js are sets of users, only accounts have the
\* field, and a process that has not read the configuration has no list.
THEOREM TypeCorrect == Spec => []TypeOK
<1>1. Init => TypeOK
  BY DEF Init, TypeOK
<1>2. TypeOK /\ [Next]_vars => TypeOK'
  BY NextType
<1>3. QED
  BY <1>1, <1>2, PTL DEF Spec

-----------------------------------------------------------------------------
(* The first change puts the file right.                                   *)

\* A list that is saved over the text of the file itself ends in the file.
LEMMA SavedOverFile ==
  ASSUME NEW l, Save(l, file)
  PROVE  file' = l
  BY Saved DEF Save

\* The first form of a process reads the list from the database: the list it
\* saves is the database's after the change.
LEMMA FirstFormReads ==
  ASSUME known = {}, NEW u, NEW db, Allow(u, db) \/ Deny(u, db), u \in db \/ Deny(u, db)
  PROVE  file' = access'
<1>1. TextRead = file /\ ListRead(list, db) = db
  BY DEF TextRead, ListRead
<1>2. file' = list'
  BY <1>1, SavedOverFile DEF Allow, Deny
<1>3. CASE Deny(u, db)
  BY <1>1, <1>2, <1>3 DEF Deny
<1>4. CASE Allow(u, db) /\ u \in db
  BY <1>1, <1>2, <1>4 DEF Allow
<1>5. QED
  BY <1>3, <1>4

\* Whatever failed restarts of the server, removals of users and other
\* processes have left in the file, the first change of a process (ftp.js:106,
\* readConfigOnce) leaves the list of the database there.
THEOREM FirstChange == Spec => FirstChangePutsRight
<1>1. ASSUME NEW u \in UserNames, NEW yes \in BOOLEAN, Shell(u, yes)
      PROVE  file' = access'
  BY <1>1, Saved DEF Shell
<1>2. ASSUME NEW u \in UserNames, NEW yes \in BOOLEAN, known = {}, ApplyUser(u, yes)
      PROVE  file' = access'
  <2>1. CASE yes
    BY <1>2, <2>1, FirstFormReads DEF ApplyUser
  <2>2. CASE ~yes
    BY <1>2, <2>2, FirstFormReads DEF ApplyUser
  <2>3. QED
    BY <2>1, <2>2
<1>3. ASSUME NEW u \in UserNames, known = {}, ApplyOwn(u)
      PROVE  file' = access'
  BY <1>3, FirstFormReads DEF ApplyOwn
<1>4. [\A u \in UserNames, yes \in BOOLEAN :
        \/ Shell(u, yes)
        \/ known = {} /\ (ApplyUser(u, yes) \/ ApplyOwn(u))
        => file' = access']_vars
  BY <1>1, <1>2, <1>3
<1>5. QED
  BY <1>4, PTL DEF FirstChangePutsRight
=============================================================================
